------------------------------ MODULE AsyncPipe ------------------------------
(***************************************************************************)
(* The bounded byte pipe (io/AsyncPipe.java) that carries one request body *)
(* from the I/O reactor thread to the thread that handles the request,     *)
(* with the code at its two ends:                                          *)
(*   - Exchange.Consumer.consumeContent, run by the I/O thread for every   *)
(*     readable event, sinks into the pipe, suspends the input when the    *)
(*     pipe stays full, and leaves behind the action that resumes it;      *)
(*   - the handler reads AsyncPipe.source() as a blocking channel;         *)
(*   - Exchange.closeRequest (response submitted, request cancelled) closes *)
(*     the pipe and then the request entity, possibly while the handler    *)
(*     is still reading.                                                   *)
(* Every method of AsyncPipe is synchronized, so each is one action, cut   *)
(* where it calls wait().  A byte is its position in the request body.     *)
(***************************************************************************)
EXTENDS Integers, Sequences

CONSTANTS Capacity,   \* bytes the internal buffer holds (65536 in the code)
          Length      \* bytes in the request body

ASSUME CapacityAssumption == Capacity \in Nat /\ Capacity >= 2
ASSUME LengthAssumption   == Length \in Nat

VARIABLES
  \* the fields of AsyncPipe
  buf,        \* the bytes between 0 and buf.position()
  error,      \* fail() was called and no read has thrown the error yet
  closed,
  action,     \* a resume action is stored
  \* the I/O thread
  io,         \* where it is in consumeContent
  input,      \* the connection's input interest (suspendInput, requestInput)
  sent,       \* bytes the decoder has produced
  completed,  \* decoder.isCompleted()
  \* the threads of the handler
  reader,     \* where the reading thread is
  received,   \* the bytes it was given, in order
  sawError,   \* a read has thrown
  request     \* progress of Exchange.closeRequest

pipe == <<buf, error, closed, action>>
vars == <<buf, error, closed, action, io, input, sent, completed,
          reader, received, sawError, request>>

Bytes(n, m) == [i \in 1..(m - n) |-> n + i]

Init ==
  /\ buf = <<>> /\ error = FALSE /\ closed = FALSE /\ action = FALSE
  /\ io = "idle" /\ input = TRUE /\ sent = 0 /\ completed = FALSE
  /\ reader = "ready" /\ received = <<>> /\ sawError = FALSE
  /\ request = "open"

-----------------------------------------------------------------------------
(* The methods of AsyncPipe that every actor shares.                       *)

Unnotified == reader   \* seeded fault: no notifyAll()
Notified == IF reader = "waiting" THEN "woken" ELSE reader   \* notifyAll()

Available == closed \/ Len(buf) < Capacity

\* seeded fault: never run
actionForgotten == action' = FALSE /\ UNCHANGED input
capacityAvailable == IF action
                       THEN input' = TRUE /\ action' = FALSE
                       ELSE UNCHANGED <<input, action>>

close == closed' = TRUE /\ reader' = Notified /\ capacityAvailable

fail == error' = TRUE /\ close

abort == close /\ buf' = <<>>

\* ioctrl.suspendInput(); onAvailableCapacity(ioctrl.requestInput())
onAvailableCapacity == IF Available
                         THEN input' = TRUE /\ UNCHANGED action
                         ELSE input' = FALSE /\ action' = TRUE

-----------------------------------------------------------------------------
(* The I/O thread.                                                         *)

\* What sink() leaves in the buffer before it reads: nothing once closed.
SinkBuffer == IF closed THEN <<>> ELSE buf

Room == Capacity - Len(SinkBuffer)

\* The reactor reports a readable event only while input is requested.
sink ==
  /\ io = "idle" /\ input /\ ~completed
  /\ \E n \in 0..Room :
       /\ sent + n <= Length
       /\ buf' = SinkBuffer \o Bytes(sent, sent + n)
       /\ sent' = sent + n
  /\ completed' \in BOOLEAN /\ (completed' => sent' = Length)
  /\ reader' = Notified
  /\ io' = "sunk"
  /\ UNCHANGED <<error, closed, action, input, received, sawError, request>>

\* in.read(buf) throws: the premature end of a body, a malformed chunk.
sinkFails ==
  /\ io = "idle" /\ input /\ ~completed
  /\ buf' = SinkBuffer
  /\ fail
  /\ io' = "raised"
  /\ UNCHANGED <<sent, completed, received, sawError, request>>

\* The reactor hands an I/O exception to Consumer.failed and drops the
\* connection: the one sink() threw, or one between two readable events.
failed ==
  /\ io \in {"idle", "raised"}
  /\ fail
  /\ io' = "dead"
  /\ UNCHANGED <<buf, sent, completed, received, sawError, request>>

\* A connection that is closed rather than failing, in mid-body too (WebServer
\* resets or shuts down its connections, the client goes away): the container
\* closes the consumer, with no exception and without a callback, since the
\* exchange has registered none before the request is read.
dropped ==
  /\ io = "idle"
  /\ close
  /\ io' = "dropped"
  /\ UNCHANGED <<buf, error, sent, completed, received, sawError, request>>

\* decoder.isCompleted(): the body is over.
\* seeded fault: the pipe is left open at the end of the body
consumeCompletedOpen ==
  /\ io = "sunk" /\ completed /\ io' = "done"
  /\ UNCHANGED <<pipe, input, sent, completed, reader, received, sawError,
                 request>>

consumeCompleted ==
  /\ io = "sunk" /\ completed
  /\ close
  /\ io' = "done"
  /\ UNCHANGED <<buf, error, sent, completed, received, sawError, request>>

\* hasAvailableCapacity(): checked on entry to it, and again after wait(100)
\* has timed out or was notified.  consumeContent calls it twice, the second
\* time holding the monitor.
hasAvailableCapacity(from, full) ==
  /\ io = from
  /\ io' = IF Available THEN "idle" ELSE full
  /\ UNCHANGED <<buf, error, closed, action, input, sent, completed,
                 reader, received, sawError, request>>

checkCapacity == ~completed /\ hasAvailableCapacity("sunk", "wait1")
checkAgain    == hasAvailableCapacity("wait1", "locking")
lockAndCheck  == hasAvailableCapacity("locking", "wait2")

\* The second call returns after its wait(100).  Still full: the monitor is
\* held from the check to the end, so suspendInput and onAvailableCapacity
\* are one step.
suspendInput ==
  /\ io = "wait2"
  /\ io' = "idle"
  /\ IF Available THEN UNCHANGED <<input, action>> ELSE onAvailableCapacity
  /\ UNCHANGED <<buf, error, closed, sent, completed,
                 reader, received, sawError, request>>

-----------------------------------------------------------------------------
(* The thread that reads source().                                         *)

CanRead == reader \in {"ready", "woken", "failed"}

readThrows ==
  /\ CanRead /\ error
  /\ error' = FALSE /\ sawError' = TRUE /\ reader' = "failed"
  /\ UNCHANGED <<buf, closed, action, io, input, sent, completed,
                 received, request>>

readEnd ==
  /\ CanRead /\ ~error /\ closed /\ buf = <<>>
  /\ reader' = "eof"
  /\ UNCHANGED <<buf, error, closed, action, io, input, sent, completed,
                 received, sawError, request>>

\* seeded fault: clear() for compact()
drainClears(n) ==
  /\ received' = received \o SubSeq(buf, 1, n)
  /\ buf' = <<>>
  /\ capacityAvailable

\* seeded fault: the stored action runs only when it is too late to matter
drainSilently(n) ==
  /\ received' = received \o SubSeq(buf, 1, n)
  /\ buf' = SubSeq(buf, n + 1, Len(buf))
  /\ IF Capacity - Len(buf') > Capacity
       THEN capacityAvailable
       ELSE UNCHANGED <<input, action>>

\* source(out): flip, write up to n bytes, compact; the stored action runs
\* once half of the capacity is free.
drain(n) ==
  /\ received' = received \o SubSeq(buf, 1, n)
  /\ buf' = SubSeq(buf, n + 1, Len(buf))
  /\ IF Capacity - Len(buf') >= Capacity \div 2
       THEN capacityAvailable
       ELSE UNCHANGED <<input, action>>

\* The caller's array takes n bytes or more; a read of a non-empty buffer
\* returns, a read of an empty one waits.
readData ==
  /\ CanRead /\ ~error /\ buf # <<>>
  /\ \E n \in 1..Len(buf) : drain(n)
  /\ reader' = "ready"
  /\ UNCHANGED <<error, closed, io, sent, completed, sawError, request>>

readWaits ==
  /\ CanRead /\ ~error /\ ~closed /\ buf = <<>>
  /\ drain(0)
  /\ reader' = "waiting"
  /\ UNCHANGED <<error, closed, io, sent, completed, sawError, request>>

\* InterruptedException in wait() becomes an InterruptedIOException.
readInterrupted ==
  /\ reader = "waiting"
  /\ reader' = "failed" /\ sawError' = TRUE
  /\ UNCHANGED <<buf, error, closed, action, io, input, sent, completed,
                 received, request>>

\* The reading thread closes its channel before or after the end.
closeSource ==
  /\ reader \in {"ready", "eof", "failed"}
  /\ closed' = TRUE /\ buf' = <<>> /\ capacityAvailable
  /\ reader' = "closed"
  /\ UNCHANGED <<error, io, sent, completed, received, sawError, request>>

-----------------------------------------------------------------------------
(* Exchange.closeRequest: consumer.close() closes the pipe, then           *)
(* EntityUtils.consumeQuietly closes the channel of the request entity.    *)

closeConsumer ==
  /\ request = "open"
  /\ close
  /\ request' = "closing"
  /\ UNCHANGED <<buf, error, io, sent, completed, received, sawError>>

closeEntity ==
  /\ request = "closing"
  /\ abort
  /\ request' = "closed"
  /\ UNCHANGED <<error, io, sent, completed, received, sawError>>

-----------------------------------------------------------------------------
consumeContent == \/ sink \/ sinkFails \/ failed \/ dropped
                  \/ consumeCompleted \/ checkCapacity \/ checkAgain
                  \/ lockAndCheck \/ suspendInput

read == readThrows \/ readEnd \/ readData \/ readWaits

handle == read \/ readInterrupted \/ closeSource

closeRequest == closeConsumer \/ closeEntity

Next == consumeContent \/ handle \/ closeRequest

Spec == Init /\ [][Next]_vars

-----------------------------------------------------------------------------
(* Fairness, of threads only.  The I/O thread finishes consumeContent (both *)
(* its waits have a timeout); a handler whose read has returned or thrown   *)
(* goes on: it reads, closes its channel or submits a response.  Nothing    *)
(* forces an interrupt, and nothing makes a client send: the reactor's      *)
(* socket timeout is 0, for ever (WebServer.java:202, 807-812).             *)

Fairness ==
  /\ WF_vars(consumeCompleted \/ checkCapacity \/ checkAgain
               \/ lockAndCheck \/ suspendInput)
  /\ WF_vars(CanRead /\ (read \/ closeSource \/ closeConsumer))
  /\ WF_vars(closeEntity)

FairSpec == Spec /\ Fairness

-----------------------------------------------------------------------------
TypeOK ==
  /\ buf \in Seq(1..Length) /\ Len(buf) <= Capacity
  /\ received \in Seq(1..Length)
  /\ sent \in 0..Length
  /\ error \in BOOLEAN /\ closed \in BOOLEAN /\ action \in BOOLEAN
  /\ input \in BOOLEAN /\ completed \in BOOLEAN /\ sawError \in BOOLEAN
  /\ io \in {"idle", "sunk", "raised", "wait1", "locking", "wait2",
             "done", "dead", "dropped"}
  /\ reader \in {"ready", "waiting", "woken", "eof", "failed", "closed"}
  /\ request \in {"open", "closing", "closed"}

\* The input is suspended only while the action that resumes it is stored in
\* a pipe that is still open and more than half full, so that some later read
\* or close must run it: no resume is ever lost (consumeContent:268-283,
\* onAvailableCapacity, source:207).
ResumePending ==
  /\ input <=> ~action
  /\ ~input => ~closed /\ Capacity - Len(buf) < Capacity \div 2

\* The reader waits only for bytes, an end or an error that are still to come
\* from an I/O thread whose input is on: the two threads never wait for each
\* other, and no notification is missed (read:147-164, sink:125, close:74).
NoStandoff ==
  reader = "waiting" => buf = <<>> /\ ~closed /\ ~error /\ input

\* A readable event always finds room in the buffer; were it full, the decoder
\* would read nothing and the reactor would spin (consumeContent:270-282).
RoomToSink ==
  io = "idle" /\ input /\ ~closed => Len(buf) < Capacity

\* Until someone closes the request early, what the reader has got and what
\* waits in the buffer are the body so far: no byte lost, repeated or
\* reordered by flip, compact, a failure or a suspension.
NoGap ==
  request = "open" /\ reader # "closed" => received \o buf = Bytes(0, sent)

\* The end of the stream is reported to a reader that has had no exception
\* only after the whole body, because the request was closed early, or - what
\* the reader cannot tell from the end of the body - because the connection was
\* closed without an exception: a body cut short by a failure never looks
\* complete (fail:82-85, source:195-203, Exchange.java:286-291).
EndIsTheEnd ==
  reader = "eof" /\ ~sawError /\ request = "open" /\ io # "dropped" =>
    received = Bytes(0, Length)

\* The body is delivered: AsyncPipe implements the abstract Delivery.  It is
\* cut by an exception in the reader, an early close of the request or of the
\* channel, a connection closed in mid-body, and by nothing else: not by a
\* failure that the reader has not seen, a suspension or the close at the end
\* of the body (AsyncPipe.java:69-85, 109-127, 147-164, 194-211,
\* Exchange.java:286-291).
Body == INSTANCE Delivery WITH
          waiting <- buf,
          cut     <- \/ sawError \/ request # "open" \/ reader = "closed"
                     \/ io = "dropped",
          over    <- reader \in {"eof", "closed"}

BodyDelivered == Body!Spec

\* A suspended input is resumed.
SuspensionEnds == ~input ~> input

\* Sooner or later the client sends a byte of the body or its end, or its
\* connection fails or is closed, whenever the input is on again and again (a
\* decoder may come back with no byte of the body any number of times).
clientMoves == sink /\ (sent' > sent \/ completed')
ClientGoesOn == SF_vars(input /\ (clientMoves \/ sinkFails \/ failed \/ dropped))

\* With a client that goes on, the reader of a request body gets to the end of
\* it, to an exception, or closes it: it is never left in read() by the two
\* threads.  By a client that neither sends nor leaves it is, for ever.
BodyEnds ==
  ClientGoesOn => <>(reader \in {"eof", "failed", "closed"})

\* The doc comment of close(): once the pipe is closed and its buffer
\* dropped, sink() sinks to nil and source operations see no more data
\* (AsyncPipe.java:67-71).
NothingAfterClose ==
  [][closed /\ request = "closed" => received' = received]_vars
=============================================================================
