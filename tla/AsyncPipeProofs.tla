--------------------------- MODULE AsyncPipeProofs ---------------------------
(* The invariants of AsyncPipe for every capacity and every length of body. *)
EXTENDS AsyncPipe, SequenceTheorems, TLAPS

(* The suspension protocol: TypeOK, ResumePending, NoStandoff and           *)
(* RoomToSink are inductive together.                                       *)
FlowInv == TypeOK /\ ResumePending /\ NoStandoff /\ RoomToSink

LEMMA SplitTypes ==
  ASSUME NEW S, NEW b \in Seq(S), NEW n \in 0..Len(b)
  PROVE  /\ SubSeq(b, 1, n) \in Seq(S)
         /\ SubSeq(b, n + 1, Len(b)) \in Seq(S)
         /\ Len(SubSeq(b, n + 1, Len(b))) = Len(b) - n
OBVIOUS

LEMMA BytesType ==
  ASSUME NEW n \in Nat, NEW m \in Nat, n <= m, m <= Length
  PROVE  Bytes(n, m) \in Seq(1..Length) /\ Len(Bytes(n, m)) = m - n
<1>1. LengthAssumption
  BY LengthAssumption
<1>2. Bytes(n, m) \in [1..(m - n) -> 1..Length]
  BY <1>1 DEF Bytes, LengthAssumption
<1> QED
  BY <1>2 DEF Bytes

(* The Boolean fields, apart from the rest: Zenon reasons about them better  *)
(* than SMT.                                                                *)
Flags ==
  /\ error \in BOOLEAN /\ closed \in BOOLEAN /\ action \in BOOLEAN
  /\ input \in BOOLEAN /\ completed \in BOOLEAN /\ sawError \in BOOLEAN

LEMMA FlagsStep == Flags /\ [Next]_vars => Flags'
<1> SUFFICES ASSUME Flags, [Next]_vars PROVE Flags'
  OBVIOUS
<1> USE DEF Flags, capacityAvailable, close, fail, abort
<1>1. CASE sink \/ sinkFails \/ failed \/ dropped \/ consumeCompleted
  BY <1>1, Zenon DEF sink, sinkFails, failed, dropped, consumeCompleted
<1>2. CASE checkCapacity \/ checkAgain \/ lockAndCheck \/ suspendInput
  BY <1>2, Zenon DEF checkCapacity, checkAgain, lockAndCheck,
     hasAvailableCapacity, suspendInput, onAvailableCapacity
<1>3. CASE readThrows \/ readEnd \/ readInterrupted \/ closeSource
  BY <1>3, Zenon DEF readThrows, readEnd, readInterrupted, closeSource
<1>4. CASE readData \/ readWaits
  <2>1. PICK n \in 0..Len(buf) : drain(n)
    BY <1>4 DEF readData, readWaits
  <2> QED
    BY <1>4, <2>1, Zenon DEF readData, readWaits, drain
<1>5. CASE closeConsumer \/ closeEntity
  BY <1>5, Zenon DEF closeConsumer, closeEntity
<1>6. CASE UNCHANGED vars
  BY <1>6, Zenon DEF vars
<1> QED
  BY <1>1, <1>2, <1>3, <1>4, <1>5, <1>6, Zenon
  DEF Next, consumeContent, handle, read, closeRequest

LEMMA FlowInit == Init => FlowInv
<1> SUFFICES ASSUME Init PROVE FlowInv
  OBVIOUS
<1>1. Flags
  BY Zenon DEF Init, Flags
<1> QED
  BY <1>1, CapacityAssumption, LengthAssumption
  DEF CapacityAssumption, LengthAssumption, Init, FlowInv, Flags, TypeOK,
      ResumePending, NoStandoff, RoomToSink

LEMMA FlowStep == FlowInv /\ [Next]_vars => FlowInv'
<1> SUFFICES ASSUME FlowInv, [Next]_vars PROVE FlowInv'
  OBVIOUS
<1>0. Flags /\ Flags'
  <2>1. Flags
    BY DEF FlowInv, TypeOK, Flags
  <2> QED
    BY <2>1, FlagsStep
<1> USE <1>0, CapacityAssumption, LengthAssumption
    DEF CapacityAssumption, LengthAssumption, FlowInv, Flags, TypeOK,
        ResumePending, NoStandoff, RoomToSink, Available
<1>a. /\ Capacity \div 2 \in Nat
      /\ 1 <= Capacity \div 2 /\ Capacity \div 2 <= Capacity
  OBVIOUS
<1>b. SinkBuffer \in Seq(1..Length) /\ Len(SinkBuffer) <= Capacity
  <2>1. CASE closed
    BY <2>1 DEF SinkBuffer
  <2>2. CASE ~closed
    BY <2>2 DEF SinkBuffer
  <2> QED
    BY <2>1, <2>2
<1>1. CASE sink
  <2>1. PICK n \in 0..(Capacity - Len(SinkBuffer)) :
          /\ sent + n <= Length
          /\ buf' = SinkBuffer \o Bytes(sent, sent + n)
          /\ sent' = sent + n
    BY <1>1 DEF sink, Room
  <2>2. /\ n \in Nat /\ sent \in Nat /\ sent + n \in Nat
        /\ sent <= sent + n /\ sent + n <= Length
        /\ (sent + n) - sent = n /\ n <= Capacity - Len(SinkBuffer)
    BY <2>1, <1>b
  <2>3. /\ Bytes(sent, sent + n) \in Seq(1..Length)
        /\ Len(Bytes(sent, sent + n)) = n
    BY <2>2, BytesType
  <2>4. buf' \in Seq(1..Length) /\ Len(buf') <= Capacity
    BY <2>1, <2>2, <2>3, <1>b
  <2> QED
    BY <1>1, <2>1, <2>4 DEF sink, Notified
<1>2. CASE sinkFails
  <2>1. buf' \in Seq(1..Length) /\ Len(buf') <= Capacity
    BY <1>2, <1>b DEF sinkFails
  <2> QED
    BY <1>2, <2>1 DEF sinkFails, fail, close, capacityAvailable, Notified
<1>3. CASE failed \/ dropped
  BY <1>3 DEF failed, dropped, fail, close, capacityAvailable, Notified
<1>4. CASE consumeCompleted
  BY <1>4 DEF consumeCompleted, close, capacityAvailable, Notified
<1>5. CASE checkCapacity \/ checkAgain \/ lockAndCheck
  BY <1>5 DEF checkCapacity, checkAgain, lockAndCheck, hasAvailableCapacity
<1>6. CASE suspendInput
  BY <1>6 DEF suspendInput, onAvailableCapacity
<1>7. CASE readThrows \/ readEnd \/ readInterrupted
  BY <1>7 DEF readThrows, readEnd, readInterrupted, CanRead
<1>8. ASSUME NEW n \in 0..Len(buf), drain(n),
             UNCHANGED <<error, closed, io, sent, completed, sawError,
                         request>>,
             \/ reader' = "ready"
             \/ reader' = "waiting" /\ buf = <<>> /\ n = 0 /\ ~closed /\ ~error
      PROVE  FlowInv'
  <2>1. /\ SubSeq(buf, 1, n) \in Seq(1..Length)
        /\ SubSeq(buf, n + 1, Len(buf)) \in Seq(1..Length)
        /\ Len(SubSeq(buf, n + 1, Len(buf))) = Len(buf) - n
    <3>1. buf \in Seq(1..Length)
      OBVIOUS
    <3> QED
      BY <3>1, SplitTypes, Zenon
  <2>2. /\ buf' \in Seq(1..Length) /\ Len(buf') = Len(buf) - n
        /\ received' \in Seq(1..Length)
    BY <1>8, <2>1 DEF drain
  <2>3. /\ input' = ~action'
        /\ input' \in BOOLEAN /\ action' \in BOOLEAN
        /\ ~input' => ~input /\ Capacity - Len(buf') < Capacity \div 2
    BY <1>8, <2>2 DEF drain, capacityAvailable
  <2>4. input' => input \/ Len(buf') < Capacity
    <3>1. CASE Capacity - Len(buf') >= Capacity \div 2
      BY <3>1, <2>2, <1>a
    <3>2. CASE ~(Capacity - Len(buf') >= Capacity \div 2)
      BY <3>2, <1>8 DEF drain
    <3> QED
      BY <3>1, <3>2
  <2>5. buf = <<>> /\ n = 0 => buf' = <<>>
    BY <2>2
  <2>6. NoStandoff'
    BY <1>8, <2>2, <2>3, <2>5
  <2> QED
    BY <1>8, <2>2, <2>3, <2>4, <2>6, SMTT(30)
<1>9. CASE readData
  BY <1>8, <1>9 DEF readData
<1>10. CASE readWaits
  BY <1>8, <1>10 DEF readWaits
<1>11. CASE closeSource
  BY <1>11 DEF closeSource, capacityAvailable
<1>12. CASE closeConsumer
  BY <1>12 DEF closeConsumer, close, capacityAvailable, Notified
<1>13. CASE closeEntity
  BY <1>13 DEF closeEntity, abort, close, capacityAvailable, Notified
<1>14. CASE UNCHANGED vars
  BY <1>14 DEF vars
<1> QED
  BY <1>1, <1>2, <1>3, <1>4, <1>5, <1>6, <1>7, <1>9, <1>10, <1>11, <1>12,
     <1>13, <1>14
  DEF Next, consumeContent, handle, read, closeRequest

(* The pipe is well typed; reader and I/O thread never wait for each other;  *)
(* a readable event finds room (AsyncPipe.java:87-127, 194-221,             *)
(* Exchange.java:259-284).                                                  *)
THEOREM FlowControl == Spec => [](TypeOK /\ NoStandoff /\ RoomToSink)
<1>1. FlowInv => TypeOK /\ NoStandoff /\ RoomToSink
  BY DEF FlowInv
<1> QED
  BY FlowInit, FlowStep, <1>1, PTL DEF Spec

(* The input is never suspended without an action to come that resumes it,   *)
(* however the reads, the events of the input and a close fall              *)
(* (AsyncPipe.java:112-127, Exchange.java:259-284).                         *)
THEOREM InputIsResumed == Spec => []ResumePending
<1>1. FlowInv => ResumePending
  BY DEF FlowInv
<1> QED
  BY FlowInit, FlowStep, <1>1, PTL DEF Spec

-----------------------------------------------------------------------------
(* The data: nothing is lost, and the end of the stream is the end.         *)

\* As long as nobody closed it early, the pipe is closed only by the end of
\* the body, with the connection, or by a failure that a read has reported or
\* still will.
ClosedForAReason ==
  closed /\ request = "open" /\ reader # "closed" =>
    \/ io = "done" /\ completed
    \/ io \in {"raised", "dead"} /\ (error \/ sawError)
    \/ io = "dropped"

DataInv ==
  /\ NoGap
  /\ EndIsTheEnd
  /\ ClosedForAReason
  /\ completed => sent = Length

LEMMA BytesConcat ==
  ASSUME NEW n \in Nat, NEW m \in Nat, n <= m, m <= Length
  PROVE  Bytes(0, n) \o Bytes(n, m) = Bytes(0, m)
<1>1. LengthAssumption
  BY LengthAssumption
<1>2. /\ Bytes(0, n) \in Seq(1..Length) /\ Len(Bytes(0, n)) = n
      /\ Bytes(n, m) \in Seq(1..Length) /\ Len(Bytes(n, m)) = m - n
      /\ Bytes(0, m) \in Seq(1..Length) /\ Len(Bytes(0, m)) = m
  <2>1. 0 \in Nat /\ 0 <= n /\ 0 <= m /\ n <= Length /\ n - 0 = n /\ m - 0 = m
    BY <1>1 DEF LengthAssumption
  <2>2. Bytes(0, n) \in Seq(1..Length) /\ Len(Bytes(0, n)) = n - 0
    BY <2>1, BytesType
  <2>3. Bytes(n, m) \in Seq(1..Length) /\ Len(Bytes(n, m)) = m - n
    BY BytesType
  <2>4. Bytes(0, m) \in Seq(1..Length) /\ Len(Bytes(0, m)) = m - 0
    BY <2>1, BytesType
  <2> QED
    BY <2>1, <2>2, <2>3, <2>4
<1>3. /\ Bytes(0, n) \o Bytes(n, m) \in Seq(1..Length)
      /\ Len(Bytes(0, n) \o Bytes(n, m)) = m
  <2>1. /\ Bytes(0, n) \o Bytes(n, m) \in Seq(1..Length)
        /\ Len(Bytes(0, n) \o Bytes(n, m)) = Len(Bytes(0, n)) + Len(Bytes(n, m))
    BY <1>2, ConcatProperties, Zenon
  <2>2. n + (m - n) = m
    OBVIOUS
  <2> QED
    BY <1>2, <2>1, <2>2, Zenon
<1>4. ASSUME NEW i \in 1..m
      PROVE  (Bytes(0, n) \o Bytes(n, m))[i] = Bytes(0, m)[i]
  <2>1. Bytes(0, m)[i] = i
    BY DEF Bytes
  <2>2. (Bytes(0, n) \o Bytes(n, m))[i]
          = IF i <= n THEN Bytes(0, n)[i] ELSE Bytes(n, m)[i - n]
    <3>1. i \in 1..Len(Bytes(0, n)) + Len(Bytes(n, m))
      BY <1>2
    <3>2. (Bytes(0, n) \o Bytes(n, m))[i]
            = IF i <= Len(Bytes(0, n)) THEN Bytes(0, n)[i]
                                       ELSE Bytes(n, m)[i - Len(Bytes(0, n))]
      BY <1>2, <3>1, ConcatProperties, Zenon
    <3> QED
      BY <1>2, <3>2, Zenon
  <2>3. i <= n => Bytes(0, n)[i] = i
    BY DEF Bytes
  <2>4. ~(i <= n) => Bytes(n, m)[i - n] = i
    BY DEF Bytes
  <2> QED
    BY <2>1, <2>2, <2>3, <2>4
<1> QED
  BY <1>2, <1>3, <1>4, SeqEqual

LEMMA SplitConcat ==
  ASSUME NEW S, NEW r \in Seq(S), NEW b \in Seq(S), NEW n \in 0..Len(b)
  PROVE  (r \o SubSeq(b, 1, n)) \o SubSeq(b, n + 1, Len(b)) = r \o b
<1>1. /\ SubSeq(b, 1, n) \in Seq(S) /\ Len(SubSeq(b, 1, n)) = n
      /\ SubSeq(b, n + 1, Len(b)) \in Seq(S)
      /\ Len(SubSeq(b, n + 1, Len(b))) = Len(b) - n
  OBVIOUS
<1>2. SubSeq(b, 1, n) \o SubSeq(b, n + 1, Len(b)) = b
  <2>1. 1 \in 1..(Len(b) + 1) /\ n \in (1 - 1)..Len(b) /\ Len(b) \in n..Len(b)
    OBVIOUS
  <2>2. SubSeq(b, 1, n) \o SubSeq(b, n + 1, Len(b)) = SubSeq(b, 1, Len(b))
    BY <2>1, ConcatAdjacentSubSeq
  <2> QED
    BY <2>2, SubSeqFull
<1>3. (r \o SubSeq(b, 1, n)) \o SubSeq(b, n + 1, Len(b))
        = r \o (SubSeq(b, 1, n) \o SubSeq(b, n + 1, Len(b)))
  <2>1. \A t, u \in Seq(S) : (r \o t) \o u = r \o (t \o u)
    BY ConcatAssociative, SMTT(30)
  <2> QED
    BY <1>1, <2>1, Zenon
<1> QED
  BY <1>2, <1>3

LEMMA DataInit == Init => DataInv
<1> SUFFICES ASSUME Init PROVE DataInv
  OBVIOUS
<1>1. Bytes(0, 0) = <<>>
  <2>1. LengthAssumption /\ 0 <= Length
    BY LengthAssumption DEF LengthAssumption
  <2>2. Bytes(0, 0) \in Seq(1..Length) /\ Len(Bytes(0, 0)) = 0
    BY <2>1, BytesType
  <2> QED
    BY <2>2
<1> QED
  BY <1>1 DEF Init, DataInv, NoGap, EndIsTheEnd, ClosedForAReason

LEMMA DataStep == FlowInv /\ DataInv /\ [Next]_vars => DataInv'
<1> SUFFICES ASSUME FlowInv, DataInv, [Next]_vars PROVE DataInv'
  OBVIOUS
<1> USE DEF DataInv, NoGap, EndIsTheEnd, ClosedForAReason
<1>0. Flags /\ Flags'
  <2>1. Flags
    BY DEF FlowInv, TypeOK, Flags
  <2> QED
    BY <2>1, FlagsStep
<1>a. /\ buf \in Seq(1..Length) /\ received \in Seq(1..Length)
      /\ sent \in 0..Length /\ Length \in Nat
  BY LengthAssumption DEF LengthAssumption, FlowInv, TypeOK
<1>1. CASE sink
  <2>1. PICK n \in 0..Room :
          /\ sent + n <= Length
          /\ buf' = SinkBuffer \o Bytes(sent, sent + n)
          /\ sent' = sent + n
    BY <1>1 DEF sink
  <2>2. request = "open" /\ reader # "closed" => SinkBuffer = buf
    BY <1>0, <1>1 DEF sink, SinkBuffer, Flags
  <2>3. /\ n \in Nat /\ sent \in Nat /\ sent + n \in Nat
        /\ sent <= sent + n /\ sent + n <= Length
    BY <1>a, <2>1
  <2>4. ASSUME request = "open", reader # "closed"
        PROVE  received \o buf' = Bytes(0, sent')
    <3>1. Bytes(sent, sent + n) \in Seq(1..Length)
      BY <2>3, BytesType
    <3>2. received \o buf' = (received \o buf) \o Bytes(sent, sent + n)
      <4>1. \A r, t, u \in Seq(1..Length) : (r \o t) \o u = r \o (t \o u)
        BY ConcatAssociative
      <4>2. buf' = buf \o Bytes(sent, sent + n)
        BY <2>1, <2>2, <2>4
      <4> QED
        BY <1>a, <3>1, <4>1, <4>2, Zenon
    <3>3. received \o buf = Bytes(0, sent)
      BY <2>4
    <3>4. Bytes(0, sent) \o Bytes(sent, sent + n) = Bytes(0, sent + n)
      BY <2>3, BytesConcat
    <3> QED
      BY <2>1, <3>2, <3>3, <3>4
  <2> QED
    BY <1>0, <1>1, <2>4 DEF sink, Notified, Flags
<1>2. CASE sinkFails
  <2>1. request = "open" /\ reader # "closed" => SinkBuffer = buf
    BY <1>0, <1>2 DEF sinkFails, SinkBuffer, Flags
  <2> QED
    BY <1>0, <1>2, <2>1 DEF sinkFails, fail, close, Notified, Flags
<1>3. CASE failed \/ dropped
  BY <1>0, <1>3 DEF failed, dropped, fail, close, Notified, Flags
<1>4. CASE consumeCompleted
  BY <1>0, <1>4 DEF consumeCompleted, close, Notified, Flags
<1>5. CASE checkCapacity \/ checkAgain \/ lockAndCheck
  BY <1>0, <1>5 DEF checkCapacity, checkAgain, lockAndCheck,
     hasAvailableCapacity, Flags
<1>6. CASE suspendInput
  BY <1>0, <1>6 DEF suspendInput, Flags
<1>7. CASE readThrows \/ readInterrupted
  BY <1>0, <1>7 DEF readThrows, readInterrupted, CanRead, Flags
<1>8. CASE readEnd
  <2>1. ASSUME ~sawError, request = "open", io # "dropped"
        PROVE  received = Bytes(0, Length)
    <3>1. /\ reader # "closed" /\ closed /\ ~error /\ buf = <<>>
      BY <1>8 DEF readEnd, CanRead
    <3>2. sent = Length
      BY <2>1, <3>1
    <3>3. received \o buf = Bytes(0, Length)
      BY <2>1, <3>1, <3>2
    <3> QED
      BY <1>a, <3>1, <3>3, ConcatEmptySeq
  <2> QED
    BY <1>0, <1>8, <2>1 DEF readEnd, CanRead, Flags
<1>9. ASSUME NEW n \in 0..Len(buf), drain(n), CanRead,
             reader' \in {"ready", "waiting"},
             UNCHANGED <<error, closed, io, sent, completed, sawError, request>>
      PROVE  DataInv'
  <2>1. received' \o buf' = received \o buf
    BY <1>9, <1>a, SplitConcat DEF drain
  <2>2. reader # "closed" /\ reader # "eof"
    BY <1>9 DEF CanRead
  <2> QED
    BY <1>0, <1>9, <2>1, <2>2 DEF Flags
<1>10. CASE readData
  BY <1>9, <1>10 DEF readData
<1>11. CASE readWaits
  BY <1>a, <1>9, <1>11 DEF readWaits
<1>12. CASE closeSource
  BY <1>0, <1>12 DEF closeSource, Flags
<1>13. CASE closeConsumer \/ closeEntity
  BY <1>0, <1>13 DEF closeConsumer, closeEntity, abort, close, Notified, Flags
<1>14. CASE UNCHANGED vars
  BY <1>14 DEF vars
<1> QED
  BY <1>1, <1>2, <1>3, <1>4, <1>5, <1>6, <1>7, <1>8, <1>10, <1>11, <1>12,
     <1>13, <1>14
  DEF Next, consumeContent, handle, read, closeRequest

(* Until the request is closed early, no byte of the body is lost, repeated *)
(* or reordered on its way to the reader (AsyncPipe.java:109-127, 194-211). *)
THEOREM NothingLost == Spec => []NoGap
<1>1. DataInv => NoGap
  BY DEF DataInv
<1> QED
  BY FlowInit, FlowStep, DataInit, DataStep, <1>1, PTL DEF Spec

(* A reader that is told the end of the stream, and was never told of a     *)
(* failure, has the whole body, or the container has closed the connection  *)
(* in mid-body without one (AsyncPipe.java:82-85, 194-203,                  *)
(* Exchange.java:286-291).                                                  *)
THEOREM CompleteBody == Spec => []EndIsTheEnd
<1>1. DataInv => EndIsTheEnd
  BY DEF DataInv
<1> QED
  BY FlowInit, FlowStep, DataInit, DataStep, <1>1, PTL DEF Spec

-----------------------------------------------------------------------------
(* AsyncPipe implements Delivery.  A step in which bytes vanish, and one that *)
(* tells the end of a body that is not whole, are possible only when the      *)
(* delivery is cut, which the invariants above show.                          *)

LEMMA BodyInit == Init => Body!Init
BY DEF Init, Body!Init

LEMMA BodyStep == FlowInv /\ DataInv /\ [Next]_vars => [Body!Next]_(Body!vars)
<1> SUFFICES ASSUME FlowInv, DataInv, [Next]_vars
             PROVE  [Body!Next]_(Body!vars)
  OBVIOUS
<1> DEFINE Cut  == \/ sawError \/ request # "open" \/ reader = "closed"
                   \/ io = "dropped"
           Over == reader \in {"eof", "closed"}
<1>t. /\ Cut \in BOOLEAN /\ Cut' \in BOOLEAN
      /\ Over \in BOOLEAN /\ Over' \in BOOLEAN
  OBVIOUS
<1>0. Flags /\ Flags'
  <2>1. Flags
    BY DEF FlowInv, TypeOK, Flags
  <2> QED
    BY <2>1, FlagsStep
<1>a. /\ buf \in Seq(1..Length) /\ Len(buf) <= Capacity
      /\ received \in Seq(1..Length) /\ sent \in 0..Length /\ Length \in Nat
      /\ Capacity \in Nat
  BY LengthAssumption, CapacityAssumption
  DEF LengthAssumption, CapacityAssumption, FlowInv, TypeOK
<1>b. closed => Cut \/ completed \/ io \in {"raised", "dead"}
  BY DEF DataInv, ClosedForAReason
\* the buffer that sink() finds is the one left, or was dropped after a cut
<1>c. ASSUME io = "idle", ~completed
      PROVE  SinkBuffer \in IF Cut THEN {buf, <<>>} ELSE {buf}
  BY <1>0, <1>b, <1>c DEF SinkBuffer, Flags
<1>1. CASE sink
  <2>1. PICK n \in 0..Room :
          /\ sent + n <= Length
          /\ buf' = SinkBuffer \o Bytes(sent, sent + n)
          /\ sent' = sent + n
    BY <1>1 DEF sink
  <2>2. n \in 0..Length
    BY <1>a, <2>1
  <2>3. Body!produce(n)
    <3>1. SinkBuffer \in Body!Kept
      BY <1>1, <1>c DEF sink, Body!Kept
    <3>2. Bytes(sent, sent + n) = Body!Items(sent, sent + n)
      BY DEF Bytes, Body!Items
    <3>3. UNCHANGED <<received, sawError, request>>
      BY <1>1 DEF sink
    <3>4. (Cut' <=> Cut) /\ (Over' <=> Over)
      BY <1>1 DEF sink, Notified
    <3>5. Cut' = Cut /\ Over' = Over
      <4> HIDE DEF Cut, Over
      <4> QED
        BY <1>t, <3>4
    <3> QED
      BY <2>1, <3>1, <3>2, <3>3, <3>5, Zenon DEF Body!produce
  <2> QED
    BY <2>2, <2>3 DEF Body!Next
<1>d. ASSUME Cut', buf' \in {buf, <<>>}, Over => Over',
             UNCHANGED <<sent, received>>
      PROVE  Body!Next
  <2>1. Cut' = TRUE /\ (Over' = TRUE \/ Over' = Over)
    <3> HIDE DEF Cut, Over
    <3> QED
      BY <1>t, <1>d
  <2> QED
    BY <1>d, <2>1, Zenon DEF Body!Next, Body!giveUp
<1>e. ASSUME UNCHANGED <<sent, buf, received, sawError, request>>,
             (io' = "dropped") <=> (io = "dropped"),
             Notified = reader' \/ UNCHANGED reader
      PROVE  UNCHANGED Body!vars
  <2>1. (reader' = "closed") <=> (reader = "closed")
    BY <1>e DEF Notified
  <2>2. Over' <=> Over
    BY <1>e DEF Notified
  <2>3. Cut' = Cut /\ Over' = Over
    <3>1. Cut' <=> Cut
      BY <1>e, <2>1
    <3> HIDE DEF Cut, Over
    <3> QED
      BY <1>t, <2>2, <3>1
  <2> QED
    BY <1>e, <2>3, Zenon DEF Body!vars
<1>2. CASE sinkFails
  <2>1. SinkBuffer \in IF Cut THEN {buf, <<>>} ELSE {buf}
    BY <1>2, <1>c DEF sinkFails
  <2>2. /\ buf' = SinkBuffer /\ reader' = Notified
        /\ io # "dropped" /\ io' # "dropped"
        /\ UNCHANGED <<sent, received, sawError, request>>
    BY <1>2 DEF sinkFails, fail, close
  <2>3. CASE buf' = buf
    BY <1>e, <2>2, <2>3
  <2>4. CASE buf' # buf
    BY <1>d, <2>1, <2>2, <2>4 DEF Notified
  <2> QED
    BY <2>3, <2>4
<1>3. CASE failed \/ dropped \/ consumeCompleted
  <2>1. CASE failed \/ consumeCompleted
    BY <2>1, <1>e DEF failed, consumeCompleted, fail, close
  <2>2. CASE dropped
    BY <2>2, <1>d DEF dropped, close, Notified
  <2> QED
    BY <1>3, <2>1, <2>2
<1>4. CASE checkCapacity \/ checkAgain \/ lockAndCheck \/ suspendInput
  BY <1>4, <1>e DEF checkCapacity, checkAgain, lockAndCheck,
     hasAvailableCapacity, suspendInput
<1>5. CASE readThrows \/ readInterrupted
  BY <1>5, <1>d DEF readThrows, readInterrupted, CanRead
<1>6. CASE readEnd
  <2>1. Cut \/ received = Body!Items(0, Length)
    <3>1. DataInv'
      BY <1>6, DataStep
    <3>2. EndIsTheEnd'
      BY <3>1 DEF DataInv
    <3>3. Bytes(0, Length) = Body!Items(0, Length)
      BY DEF Bytes, Body!Items
    <3> QED
      BY <1>6, <3>2, <3>3 DEF readEnd, EndIsTheEnd
  <2>2. Over' = TRUE
    BY <1>6 DEF readEnd
  <2>3. UNCHANGED <<sent, buf, received, sawError, request>>
    BY <1>6 DEF readEnd
  <2>4. Cut' = Cut
    <3>1. /\ (reader' = "closed") <=> (reader = "closed")
          /\ io' = io
      BY <1>6 DEF readEnd, CanRead
    <3> QED
      BY <2>3, <3>1, Zenon
  <2>5. Body!end
    BY <2>1, <2>2, <2>3, <2>4, Zenon DEF Body!end
  <2> QED
    BY <2>5 DEF Body!Next
<1>7. ASSUME NEW n \in 0..Len(buf), drain(n), CanRead,
             reader' \in {"ready", "waiting"},
             UNCHANGED <<io, sent, sawError, request>>
      PROVE  Body!Next
  <2>1. ~Over /\ (Over' <=> Over)
    BY <1>7 DEF CanRead
  <2>2. (reader' = "closed") <=> (reader = "closed")
    BY <1>7 DEF CanRead
  <2>3. Cut' = Cut /\ Over' = Over
    <3>1. Cut' <=> Cut
      BY <1>7, <2>2
    <3> HIDE DEF Cut, Over
    <3> QED
      BY <1>t, <2>1, <3>1
  <2>4. Body!take(n)
    BY <1>7, <2>1, <2>3, Zenon DEF drain, Body!take
  <2> QED
    BY <2>4 DEF Body!Next
<1>8. CASE readData
  BY <1>8, <1>7 DEF readData
<1>9. CASE readWaits
  BY <1>a, <1>9, <1>7 DEF readWaits
<1>10. CASE closeSource
  BY <1>10, <1>d DEF closeSource
<1>11. CASE closeConsumer \/ closeEntity
  BY <1>11, <1>d DEF closeConsumer, closeEntity, abort, close, Notified
<1>12. CASE UNCHANGED vars
  BY <1>12, <1>e DEF vars
<1> QED
  BY <1>1, <1>2, <1>3, <1>4, <1>5, <1>6, <1>8, <1>9, <1>10, <1>11, <1>12
  DEF Next, consumeContent, handle, read, closeRequest

(* Whatever the capacity and the length, the pipe delivers the body as        *)
(* Delivery promises (AsyncPipe.java:69-211).                                 *)
THEOREM DeliversBody == Spec => BodyDelivered
BY FlowInit, FlowStep, DataInit, DataStep, BodyInit, BodyStep, PTL
DEF Spec, BodyDelivered, Body!Spec
=============================================================================
