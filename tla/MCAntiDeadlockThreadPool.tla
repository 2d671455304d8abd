---------------------- MODULE MCAntiDeadlockThreadPool ----------------------
(* A task that waits for one that waits for a third, and two others, with   *)
(* one thread at first: the pool stops unless it grows twice.               *)
EXTENDS AntiDeadlockThreadPool

CONSTANTS a, b, c, d, e

MCTasks    == {a, b, c, d, e}
MCNeeds    == [t \in MCTasks |->
                 CASE t = a -> {b} [] t = b -> {c} [] OTHER -> {}]
MCNoneOf   == {}
MCSomeOf   == {a, b, c, d}
=============================================================================
