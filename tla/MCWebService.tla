---------------------------- MODULE MCWebService ----------------------------
(* Two clients that give four commands between them: enough for a restart   *)
(* during a start, two restarts at once, and a command after each.          *)
EXTENDS WebService, TLC

CONSTANTS jmx, console

MCClients == {jmx, console}
Symmetry  == Permutations(MCClients)
=============================================================================
