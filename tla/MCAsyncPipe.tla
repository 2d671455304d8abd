---------------------------- MODULE MCAsyncPipe ----------------------------
(* Bounds for TLC: a body longer than the buffer, so that the input is      *)
(* suspended, resumed and suspended again, and a buffer whose half is one   *)
(* byte or more.                                                            *)
EXTENDS AsyncPipe

MCCapacity == 3
MCLength   == 7
=============================================================================
