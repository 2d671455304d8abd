--------------------------- MODULE MCQueueCursor ---------------------------
(* A queue that three statements fill one and a half times, read by two    *)
(* threads or by one.                                                      *)
EXTENDS QueueCursor, TLC

CONSTANTS r1, r2

MCBoth   == {r1, r2}
MCOne    == {r1}
Symmetry == Permutations(MCBoth)
=============================================================================
