---------------------------- MODULE QueueCursor ----------------------------
(***************************************************************************)
(* An RDF document that is parsed in the background                        *)
(* (server/util/BackgroundGraphResult.java) and read through a bounded     *)
(* queue (server/util/QueueCursor.java).  The parser's thread puts the     *)
(* statements, may toss an exception, and marks the end; readers take; a   *)
(* thread that closes the result interrupts the parser.  One action is one *)
(* access to what the threads share.  A statement is its position in the   *)
(* document, the marker afterLast (and the null of an empty queue) is 0.   *)
(***************************************************************************)
EXTENDS Integers, Sequences

CONSTANTS Readers,
          Length,    \* statements in the document
          Capacity   \* places in the queue (10 in the code)

ASSUME CursorAssumption == Length \in Nat /\ Capacity \in Nat \ {0}

VARIABLES
  \* the fields of QueueCursor
  queue, done,
  exceptions,    \* how many are in it
  \* the fields of BackgroundGraphResult
  closed, parserThread,   \* parserThread is not null
  \* the threads
  parser, interrupted,    \* where the parser's thread is; its interrupt flag
  reader, item,           \* where a reader is in getNextElement; its "take"
  closer,                 \* where close() is
  \* what has happened
  sent, taken,   \* statements put, statements taken
  broken,        \* the parser ended by a RuntimeException or an Error
  thrown         \* a reader has been thrown an exception

cursor == <<queue, done, exceptions>>
result == <<closed, parserThread>>
parsing == <<parser, interrupted, sent, broken>>
reading == <<reader, item, taken, thrown>>
vars == <<cursor, result, parsing, reading, closer>>

afterLast == 0

Init ==
  /\ queue = <<>> /\ done = FALSE /\ exceptions = 0
  /\ closed = FALSE /\ parserThread = FALSE
  /\ parser = "new" /\ interrupted = FALSE
  /\ reader = [r \in Readers |-> "idle"] /\ item = [r \in Readers |-> afterLast]
  /\ closer = "open"
  /\ sent = 0 /\ taken = 0 /\ broken = FALSE /\ thrown = FALSE

-----------------------------------------------------------------------------
(* The thread that parses: run, and the handler's methods it calls.        *)

run ==
  /\ parser = "new" /\ parser' = "parsing" /\ parserThread' = TRUE
  /\ UNCHANGED <<cursor, closed, interrupted, sent, broken, reading, closer>>

\* handleStatement looks at closed ...
handleStatement ==
  /\ parser = "parsing" /\ sent < Length
  /\ parser' = IF closed THEN "finally" ELSE "putting"
  /\ UNCHANGED <<cursor, result, interrupted, sent, broken, reading, closer>>

\* ... and puts the statement, or is interrupted.
put ==
  /\ parser = "putting" /\ ~interrupted /\ Len(queue) < Capacity
  /\ queue' = Append(queue, sent + 1) /\ sent' = sent + 1
  /\ parser' = "parsing"
  /\ UNCHANGED <<done, exceptions, result, interrupted, broken, reading,
                 closer>>

putInterrupted ==
  /\ parser = "putting" /\ interrupted
  /\ parser' = "finally" /\ interrupted' = FALSE
  /\ UNCHANGED <<cursor, result, sent, broken, reading, closer>>

endRDF ==
  /\ parser = "parsing" /\ sent = Length /\ parser' = "finally"
  /\ UNCHANGED <<cursor, result, interrupted, sent, broken, reading, closer>>

toss == exceptions' = exceptions + 1

\* An RDFParseException or an IOException (the input may have been closed).
parseFails ==
  /\ parser = "parsing" /\ parser' = "finally"
  /\ toss
  /\ UNCHANGED <<queue, done, result, interrupted, sent, broken, reading,
                 closer>>

\* Anything else that is thrown is not tossed.
parseBreaks ==
  /\ parser = "parsing" /\ parser' = "finally" /\ broken' = TRUE
  /\ UNCHANGED <<cursor, result, interrupted, sent, reading, closer>>

forget ==
  /\ parser = "finally" /\ parser' = "ending" /\ parserThread' = FALSE
  /\ UNCHANGED <<cursor, closed, interrupted, sent, broken, reading, closer>>

\* QueueCursor.done sets done, then adds afterLast if there is a place.
setDone ==
  /\ parser = "ending" /\ parser' = "adding" /\ done' = TRUE
  /\ UNCHANGED <<queue, exceptions, result, interrupted, sent, broken, reading,
                 closer>>

addNever == UNCHANGED queue   \* seeded fault: a reader that waits is not told
addAfterLast ==
  queue' = IF Len(queue) < Capacity THEN Append(queue, afterLast) ELSE queue

addDone ==
  /\ parser = "adding" /\ parser' = "ended"
  /\ addAfterLast
  /\ UNCHANGED <<done, exceptions, result, interrupted, sent, broken, reading,
                 closer>>

-----------------------------------------------------------------------------
(* Readers: getNextElement.                                                *)

goTo(r, where) == reader' = [reader EXCEPT ![r] = where]

\* checkException takes one exception out and throws it.
checkException(r, next) ==
  /\ IF exceptions > 0
       THEN exceptions' = exceptions - 1 /\ thrown' = TRUE /\ goTo(r, "idle")
       ELSE UNCHANGED <<exceptions, thrown>> /\ goTo(r, next)

\* No element is asked for once the cursor is closed.
getNextElement(r) ==
  /\ reader[r] = "idle" /\ closer # "closed"
  /\ checkException(r, "deciding")
  /\ UNCHANGED <<queue, done, result, parsing, item, taken, closer>>

decide(r) ==
  /\ reader[r] = "deciding"
  /\ goTo(r, IF done THEN "polling" ELSE "taking")
  /\ UNCHANGED <<cursor, result, parsing, item, taken, thrown, closer>>

\* queue.poll, or queue.take, which waits for an element.
take(r) ==
  /\ \/ reader[r] = "polling" /\ goTo(r, "returning")
     \/ reader[r] = "taking" /\ queue # <<>> /\ goTo(r, "took")
  /\ IF queue = <<>>
       THEN item' = [item EXCEPT ![r] = afterLast] /\ UNCHANGED <<queue, taken>>
       ELSE /\ item' = [item EXCEPT ![r] = Head(queue)]
            /\ queue' = Tail(queue)
            /\ taken' = IF Head(queue) = afterLast THEN taken ELSE taken + 1
  /\ UNCHANGED <<done, exceptions, result, parsing, thrown, closer>>

lookAgain == done

afterTake(r) ==
  /\ reader[r] = "took"
  /\ goTo(r, IF lookAgain THEN "renewing" ELSE "returning")
  /\ UNCHANGED <<cursor, result, parsing, item, taken, thrown, closer>>

\* done(), in case the queue was full before.
renew(r) ==
  /\ reader[r] = "renewing" /\ goTo(r, "returning")
  /\ done' = TRUE /\ addAfterLast
  /\ UNCHANGED <<exceptions, result, parsing, item, taken, thrown, closer>>

returnElement(r) ==
  /\ reader[r] = "returning" /\ item[r] # afterLast
  /\ goTo(r, "idle")
  /\ UNCHANGED <<cursor, result, parsing, item, taken, thrown, closer>>

checkNothing(r, next) ==   \* seeded fault: no look for an exception at the end
  goTo(r, next) /\ UNCHANGED <<exceptions, thrown>>
checkAtEnd(r, next) == checkException(r, next)

isAfterLast(r) ==
  /\ reader[r] = "returning" /\ item[r] = afterLast
  /\ checkAtEnd(r, "last")
  /\ UNCHANGED <<queue, done, result, parsing, item, taken, closer>>

\* done(), to put afterLast back for others; then null.
returnNull(r) ==
  /\ reader[r] = "last" /\ goTo(r, "end")
  /\ done' = TRUE /\ addAfterLast
  /\ UNCHANGED <<exceptions, result, parsing, item, taken, thrown, closer>>

-----------------------------------------------------------------------------
(* The thread that closes the result.                                      *)

closedLate == UNCHANGED closed   \* seeded fault: closed is set too late
closedFirst == closed' = TRUE

close ==
  /\ closer = "open" /\ closer' = "looking"
  /\ closedFirst
  /\ UNCHANGED <<cursor, parserThread, parsing, reading>>

lookAtParser ==
  /\ closer = "looking"
  /\ closer' = IF parserThread THEN "interrupting" ELSE "closing"
  /\ UNCHANGED <<cursor, result, parsing, reading>>

\* parserThread.interrupt(), a NullPointerException when it is null by now:
\* neither the queue nor the input is closed then.
interrupt ==
  /\ closer = "interrupting"
  /\ IF parserThread
       THEN interrupted' = TRUE /\ closer' = "closing"
       ELSE UNCHANGED interrupted /\ closer' = "failed"
  /\ UNCHANGED <<cursor, result, parser, sent, broken, reading>>

\* queue.close(): an exception that no reader has seen is thrown and logged.
handleClose ==
  /\ closer = "closing" /\ closer' = "closed"
  /\ closed' = TRUE
  /\ exceptions' = IF exceptions > 0 THEN exceptions - 1 ELSE 0
  /\ UNCHANGED <<queue, done, parserThread, parsing, reading>>

-----------------------------------------------------------------------------

Parser == \/ run \/ handleStatement \/ put \/ putInterrupted \/ endRDF
          \/ parseFails \/ parseBreaks \/ forget \/ setDone \/ addDone
Read(r) == \/ decide(r) \/ take(r) \/ afterTake(r) \/ renew(r)
           \/ returnElement(r) \/ isAfterLast(r) \/ returnNull(r)
Closing == lookAtParser \/ interrupt \/ handleClose

Next == \/ Parser \/ close \/ Closing
        \/ \E r \in Readers : getNextElement(r) \/ Read(r)

Spec == Init /\ [][Next]_vars

\* The parser's thread runs, as the input delivers or fails, and so does a
\* thread that is in a method.  Nobody has to read or to close.
Fairness == /\ WF_vars(Parser) /\ WF_vars(Closing)
            /\ \A r \in Readers : WF_vars(Read(r))
FairSpec == Spec /\ Fairness

-----------------------------------------------------------------------------
(* Properties.                                                             *)

\* Every variable has its type, and the queue its capacity.
TypeOK ==
  /\ queue \in Seq(0..Length) /\ Len(queue) <= Capacity
  /\ done \in BOOLEAN /\ exceptions \in Nat
  /\ closed \in BOOLEAN /\ parserThread \in BOOLEAN
  /\ parser \in {"new", "parsing", "putting", "finally", "ending", "adding",
                 "ended"}
  /\ interrupted \in BOOLEAN
  /\ reader \in [Readers -> {"idle", "deciding", "polling", "taking", "took",
                             "renewing", "returning", "last", "end"}]
  /\ item \in [Readers -> 0..Length]
  /\ closer \in {"open", "looking", "interrupting", "closing", "closed",
               "failed"}
  /\ sent \in 0..Length /\ taken \in 0..Length
  /\ broken \in BOOLEAN /\ thrown \in BOOLEAN

\* The queue holds the statements that were put and not taken, in their order,
\* and behind them nothing but end markers, also when several readers that
\* read to the end put their markers back (getNextElement:113,118).
InOrder ==
  /\ sent - taken \in 0..Len(queue)
  /\ \A i \in 1..Len(queue) :
       queue[i] = IF i <= sent - taken THEN taken + i ELSE afterLast

\* A reader is told that the document has ended only when every statement of
\* the document has been taken, or a reader has been thrown the parser's error
\* before, or the result was closed - or the parser broke, of which readers
\* are never told (run:127-133).
EndIsTheEnd ==
  (\E r \in Readers : reader[r] = "end") =>
    /\ taken = sent
    /\ taken = Length \/ thrown \/ closed \/ broken

\* The document is delivered: the queue, with any number of readers, implements
\* the abstract Delivery.  It is cut by close, by an exception a reader was
\* thrown, and by an error of the parser that is not tossed (run:127-133).
Document == INSTANCE Delivery WITH
              waiting  <- SubSeq(queue, 1, sent - taken),
              received <- [i \in 1..taken |-> i],
              cut      <- closed \/ thrown \/ broken,
              over     <- \E r \in Readers : reader[r] = "end"

DocumentDelivered == Document!Spec

\* A reader waits for an element (in take, which has no timeout) only as long
\* as the parser's thread will still put one or the marker, or another reader
\* has not found the end yet: however the marker was taken, left out of a full
\* queue and put back, it never happens that everyone waits or has left
\* (QueueCursor.java:88-94, 107-119).
ReaderIsReleased ==
  \A r \in Readers : reader[r] = "taking" /\ queue = <<>> =>
    \/ parser # "ended"
    \/ \E other \in Readers : reader[other] \notin {"taking", "end"}

\* The parser's thread does not wait for a place once close() has got past it,
\* when nobody takes any more: it was interrupted, although it may have looked
\* at closed before close() and at its place in the queue after it
\* (BackgroundGraphResult.java:104-107, 164-167).
PutIsInterrupted ==
  closer \in {"closing", "closed", "failed"} /\ parser = "putting" => interrupted

\* Nobody who waits for a change of the queue is left with nobody to make it,
\* neither a reader in take nor the parser in put, however the end of the
\* document, its readers and close() meet.
NoStandoff == ReaderIsReleased /\ PutIsInterrupted

\* When close() is called the parser's thread ends, whether it had not begun
\* yet, waits for a place in the queue or is about to: nobody takes from the
\* queue any more (close:104-107, handleStatement:164).
CloseEndsParser == closer # "open" ~> parser = "ended"

\* A reader does not wait for ever: it gets a statement, an exception or null -
\* unless another reader stops asking, after a statement or an exception, and
\* so never finds the end for both.
ReadEnds == \A r \in Readers :
  reader[r] \notin {"idle", "end"} ~>
    \/ reader[r] \in {"idle", "end"}
    \/ \E other \in Readers \ {r} : reader[other] = "idle"

\* A reader that has found the end calls done() to "put afterLast back for
\* others" (QueueCursor.java:118): a reader that waits then waits no longer.
BackForOthers == \A r, other \in Readers :
  reader[r] = "taking" /\ reader[other] = "returning" /\ item[other] = afterLast
    ~> reader[r] # "taking"
=============================================================================
