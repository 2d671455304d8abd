------------------------------- MODULE Outcome -------------------------------
(***************************************************************************)
(* What a client and the store may expect of one request, whatever happens *)
(* between them: what the client is told and what the store keeps are      *)
(* decided together, once, and agree - but for a change that was kept      *)
(* before something failed that the client is told of.  RequestTransaction *)
(* implements it.                                                          *)
(***************************************************************************)
VARIABLES
  writes,   \* the request may change the store
  told,     \* what the client is told: "nothing" yet, "ok" or "error"
  kept,     \* the changes of the request are in the store
  late      \* something failed after the request had been decided

vars == <<writes, told, kept, late>>

Init == writes \in BOOLEAN /\ told = "nothing" /\ kept = FALSE /\ late = FALSE

succeed ==
  /\ told = "nothing" /\ told' = "ok"
  /\ kept' = writes
  /\ UNCHANGED <<writes, late>>

refuse ==
  /\ told = "nothing" /\ told' = "error"
  /\ UNCHANGED <<writes, kept, late>>

failLate ==
  /\ told = "nothing" /\ told' = "error"
  /\ kept' \in {FALSE, writes} /\ late' = TRUE
  /\ UNCHANGED writes

Next == succeed \/ refuse \/ failLate

Spec == Init /\ [][Next]_vars
=============================================================================
