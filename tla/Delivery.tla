------------------------------ MODULE Delivery ------------------------------
(***************************************************************************)
(* What a reader may expect of a document that another thread produces     *)
(* while it reads: the items come in their order, none is lost or comes    *)
(* twice, and the reader is told that it is over only when it has them     *)
(* all - as long as nobody has cut the delivery, by closing it, by an      *)
(* error that the reader was thrown.  AsyncPipe (the bytes of a request    *)
(* body) and QueueCursor (the statements of a parsed document) both        *)
(* implement it.                                                           *)
(***************************************************************************)
EXTENDS Integers, Sequences

CONSTANT Length   \* the items of the document, 1 .. Length

VARIABLES
  sent,       \* how many have been produced
  waiting,    \* those on their way
  received,   \* those the reader has, in the order they came
  cut,        \* the delivery was given up
  over        \* the reader was told of the end, or has left

vars == <<sent, waiting, received, cut, over>>

Items(n, m) == [i \in 1..(m - n) |-> n + i]

Init == /\ sent = 0 /\ waiting = <<>> /\ received = <<>>
        /\ cut = FALSE /\ over = FALSE

\* What is on its way may be dropped when the delivery is cut.
Kept == IF cut THEN {waiting, <<>>} ELSE {waiting}

produce(n) ==
  /\ sent + n <= Length /\ sent' = sent + n
  /\ \E kept \in Kept : waiting' = kept \o Items(sent, sent + n)
  /\ UNCHANGED <<received, cut, over>>

take(n) ==
  /\ ~over
  /\ received' = received \o SubSeq(waiting, 1, n)
  /\ waiting' = SubSeq(waiting, n + 1, Len(waiting))
  /\ UNCHANGED <<sent, cut, over>>

\* The end is told for the whole document only.
end ==
  /\ over' = TRUE
  /\ cut \/ received = Items(0, Length)
  /\ UNCHANGED <<sent, waiting, received, cut>>

giveUp ==
  /\ cut' = TRUE
  /\ waiting' \in {waiting, <<>>} /\ over' \in {over, TRUE}
  /\ UNCHANGED <<sent, received>>

Next == \/ \E n \in 0..Length : produce(n)
        \/ \E n \in 0..Len(waiting) : take(n)
        \/ end \/ giveUp

Spec == Init /\ [][Next]_vars
=============================================================================
