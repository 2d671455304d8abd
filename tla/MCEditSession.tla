--------------------------- MODULE MCEditSession ---------------------------
(* Both editors, a file that somebody else changes and three saves of the   *)
(* page: the first is alone, since saving guards it, the others may be      *)
(* under way together.                                                      *)
EXTENDS EditSession
=============================================================================
