------------------------- MODULE QueueCursorProofs -------------------------
(* The invariants of QueueCursor for any readers, length and capacity.      *)
EXTENDS QueueCursor, SequenceTheorems, TLAPS

(* What the end of a document rests on.  done is set by the parser's thread  *)
(* only, behind everything that it puts and tosses; a reader that holds the  *)
(* end marker, or found the queue empty after it saw done, has therefore     *)
(* nothing left to take, and if no exception is there either then the whole  *)
(* document was put, or there is one of the excuses.                         *)
Excused == sent = Length \/ thrown \/ closed \/ broken

Ended == {"finally", "ending", "adding", "ended"}

Told(r) ==
  /\ reader[r] \in {"polling", "renewing", "last", "end"} => done
  /\ reader[r] \in {"took", "renewing", "returning"} /\ item[r] = afterLast =>
       done /\ taken = sent
  /\ reader[r] \in {"last", "end"} => taken = sent /\ Excused

EndInv ==
  /\ done <=> parser \in {"adding", "ended"}
  /\ Len(queue) > sent - taken => done
  /\ parser = "putting" => sent < Length
  /\ parser \in Ended => Excused \/ exceptions > 0
  /\ interrupted \/ closer # "open" => closed
  /\ \A r \in Readers : Told(r)

IInv == TypeOK /\ InOrder /\ EndInv

(* The Boolean variables, apart from the rest.                               *)
Flags ==
  /\ done \in BOOLEAN /\ closed \in BOOLEAN /\ parserThread \in BOOLEAN
  /\ interrupted \in BOOLEAN /\ broken \in BOOLEAN /\ thrown \in BOOLEAN

LEMMA FlagsStep == Flags /\ [Next]_vars => Flags'
<1> SUFFICES ASSUME Flags, [Next]_vars PROVE Flags'
  OBVIOUS
<1> USE DEF Flags, cursor, result, parsing, reading, checkException,
        checkAtEnd, closedFirst
<1>1. CASE run \/ handleStatement \/ put \/ putInterrupted \/ endRDF
  BY <1>1, Zenon DEF run, handleStatement, put, putInterrupted, endRDF
<1>2. CASE parseFails \/ parseBreaks \/ forget \/ setDone \/ addDone
  BY <1>2, Zenon DEF parseFails, parseBreaks, forget, setDone, addDone
<1>3. CASE \E r \in Readers : getNextElement(r) \/ Read(r)
  BY <1>3, Zenon DEF getNextElement, Read, decide, take, afterTake, renew,
     returnElement, isAfterLast, returnNull
<1>4. CASE close \/ Closing
  BY <1>4, Zenon DEF close, Closing, lookAtParser, interrupt, handleClose
<1>5. CASE UNCHANGED vars
  BY <1>5, Zenon DEF vars
<1> QED
  BY <1>1, <1>2, <1>3, <1>4, <1>5, Zenon DEF Next, Parser

LEMMA IInvInit == Init => IInv
<1> SUFFICES ASSUME Init PROVE IInv
  OBVIOUS
<1>1. Flags
  BY Zenon DEF Init, Flags
<1> QED
  BY <1>1, CursorAssumption
  DEF CursorAssumption, Init, Flags, IInv, TypeOK, InOrder, EndInv, Told,
      Excused, Ended, afterLast

(* What addAfterLast, under done, keeps.                                     *)
LEMMA AddKeeps ==
  ASSUME IInv, done, addAfterLast, UNCHANGED <<sent, taken>>
  PROVE  /\ queue' \in Seq(0..Length) /\ Len(queue') <= Capacity
         /\ InOrder'
<1> USE CursorAssumption
    DEF CursorAssumption, IInv, TypeOK, InOrder, addAfterLast, afterLast
<1>1. CASE Len(queue) < Capacity
  BY <1>1
<1>2. CASE ~(Len(queue) < Capacity)
  BY <1>2
<1> QED
  BY <1>1, <1>2

(* The queue q when s statements were put and t taken.                      *)
Holds(q, s, t) ==
  /\ s - t \in 0..Len(q)
  /\ \A i \in 1..Len(q) : q[i] = IF i <= s - t THEN t + i ELSE 0

(* Putting the next statement, while no marker is in the queue.              *)
LEMMA PutHolds ==
  ASSUME NEW q \in Seq(Nat), NEW s \in Nat, NEW t \in Nat, Holds(q, s, t),
         Len(q) = s - t
  PROVE  Holds(Append(q, s + 1), s + 1, t)
<1> DEFINE p == Append(q, s + 1)
<1>1. Len(p) = s + 1 - t
  OBVIOUS
<1>2. ASSUME NEW i \in 1..Len(p) PROVE p[i] = t + i
  <2>1. CASE i <= Len(q)
    BY <2>1 DEF Holds
  <2>2. CASE i = Len(q) + 1
    BY <2>2
  <2> QED
    BY <1>1, <2>1, <2>2
<1> QED
  BY <1>1, <1>2 DEF Holds

(* Taking a marker, or the next statement.                                   *)
LEMMA TakeHolds ==
  ASSUME NEW q \in Seq(Nat), NEW s \in Nat, NEW t \in Nat, Holds(q, s, t),
         q # <<>>
  PROVE  /\ s = t => Head(q) = 0 /\ Holds(Tail(q), s, t)
         /\ s # t => Head(q) = t + 1 /\ Holds(Tail(q), s, t + 1)
<1>1. Len(q) > 0 /\ Head(q) = q[1]
  OBVIOUS
<1>2. Len(Tail(q)) = Len(q) - 1
      /\ \A i \in 1..Len(q) - 1 : Tail(q)[i] = q[i + 1]
  BY <1>1
<1>3. CASE s = t
  BY <1>1, <1>2, <1>3 DEF Holds
<1>4. CASE s # t
  <2>1. Head(q) = t + 1 /\ s - t > 0
    BY <1>1, <1>4 DEF Holds
  <2>2. ASSUME NEW i \in 1..Len(q) - 1
        PROVE  Tail(q)[i] = IF i <= s - (t + 1) THEN t + 1 + i ELSE 0
    <3>1. i + 1 \in 1..Len(q) /\ Tail(q)[i] = q[i + 1]
      BY <1>2
    <3> QED
      BY <3>1, <2>1 DEF Holds
  <2>3. s - (t + 1) \in 0..Len(q) - 1
    BY <2>1, <1>1 DEF Holds
  <2> QED
    BY <1>2, <1>4, <2>1, <2>2, <2>3 DEF Holds
<1> QED
  BY <1>3, <1>4

LEMMA IInvStep == IInv /\ [Next]_vars => IInv'
<1> SUFFICES ASSUME IInv, [Next]_vars PROVE IInv'
  OBVIOUS
<1>0. Flags /\ Flags'
  <2>1. Flags
    BY DEF IInv, TypeOK, Flags
  <2> QED
    BY <2>1, FlagsStep
<1> USE <1>0, CursorAssumption
    DEF CursorAssumption, Flags, IInv, TypeOK, InOrder, EndInv, Told, Excused,
        Ended,
        afterLast, cursor, result, parsing, reading, goTo
<1>1. CASE run \/ handleStatement
  BY <1>1 DEF run, handleStatement
<1>2. CASE put
  <2>1. ~done
    BY <1>2 DEF put
  <2>2. Len(queue) = sent - taken
    BY <2>1
  <2>3. queue' = Append(queue, sent + 1) /\ sent' = sent + 1 /\ taken' = taken
    BY <1>2 DEF put
  <2>4. sent + 1 \in 0..Length
    BY <1>2 DEF put
  <2>5. Holds(queue, sent, taken) /\ queue \in Seq(Nat)
    BY DEF Holds
  <2>6. Holds(queue', sent', taken')
    BY <2>2, <2>3, <2>5, PutHolds
  <2>7. InOrder'
    BY <2>6 DEF Holds
  <2>8. queue' \in Seq(0..Length) /\ Len(queue') = Len(queue) + 1
    BY <2>3, <2>4
  <2>9. TypeOK'
    BY <1>2, <2>3, <2>4, <2>8 DEF put
  <2>10. EndInv'
    BY <1>2, <2>1, <2>2, <2>3, <2>8 DEF put
  <2> QED
    BY <2>7, <2>9, <2>10
<1>3. CASE putInterrupted \/ endRDF
  BY <1>3 DEF putInterrupted, endRDF
<1>4. CASE parseFails \/ parseBreaks
  BY <1>4, SMTT(30) DEF parseFails, parseBreaks, toss
<1>5. CASE forget \/ setDone
  BY <1>5 DEF forget, setDone
<1>6. CASE addDone
  BY <1>6, AddKeeps DEF addDone, addAfterLast
<1>7. ASSUME NEW r \in Readers, getNextElement(r) PROVE IInv'
  <2>1. CASE exceptions > 0
    BY <1>7, <2>1, SMTT(30) DEF getNextElement, checkException
  <2>2. CASE ~(exceptions > 0)
    BY <1>7, <2>2, SMTT(30) DEF getNextElement, checkException
  <2> QED
    BY <2>1, <2>2
<1>8. ASSUME NEW r \in Readers, decide(r) PROVE IInv'
  BY <1>8 DEF decide
<1>9. ASSUME NEW r \in Readers, take(r) PROVE IInv'
  <2>1. CASE queue = <<>>
    BY <1>9, <2>1 DEF take
  <2>2. CASE queue # <<>>
    <3>1. queue' = Tail(queue) /\ sent' = sent /\ done' = done
          /\ item' = [item EXCEPT ![r] = Head(queue)]
          /\ taken' = IF Head(queue) = 0 THEN taken ELSE taken + 1
      BY <1>9, <2>2 DEF take
    <3>2. Holds(queue, sent, taken) /\ queue \in Seq(Nat)
      BY DEF Holds
    <3>3. /\ sent = taken => Head(queue) = 0 /\ Holds(Tail(queue), sent, taken)
          /\ sent # taken =>
               Head(queue) = taken + 1 /\ Holds(Tail(queue), sent, taken + 1)
      BY <2>2, <3>2, TakeHolds
    <3>4. Holds(queue', sent', taken')
      BY <3>1, <3>3
    <3>5. InOrder'
      BY <3>4 DEF Holds
    <3>6. /\ queue' \in Seq(0..Length) /\ Len(queue') = Len(queue) - 1
          /\ Head(queue) \in 0..Length
      BY <2>2, <3>1
    <3>7. /\ taken' \in 0..Length
          /\ Len(queue') > sent' - taken' => Len(queue) > sent - taken
          /\ Head(queue) = 0 => sent = taken /\ taken' = taken
          /\ sent = taken => taken' = taken
      BY <3>1, <3>3, <3>4, <3>6 DEF Holds
    <3>8. TypeOK'
      <4>1. item' \in [Readers -> 0..Length]
        BY <3>1, <3>6
      <4>2. reader' \in [Readers -> {"idle", "deciding", "polling", "taking",
                          "took", "renewing", "returning", "last", "end"}]
        BY <1>9 DEF take
      <4>3. UNCHANGED <<exceptions, parser, closer, sent>>
        BY <1>9 DEF take
      <4> QED
        BY <3>6, <3>7, <4>1, <4>2, <4>3, SMTT(30)
    <3>9. EndInv'
      <4>1. Len(queue) > 0
        BY <2>2
      <4>2. Head(queue) = 0 => done
        BY <3>7, <4>1
      <4> QED
        BY <1>9, <2>2, <3>1, <3>7, <4>2 DEF take
    <3> QED
      BY <3>5, <3>8, <3>9
  <2> QED
    BY <2>1, <2>2
<1>10. ASSUME NEW r \in Readers, afterTake(r) PROVE IInv'
  BY <1>10 DEF afterTake, lookAgain
<1>11. ASSUME NEW r \in Readers, renew(r) PROVE IInv'
  <2>1. done /\ done' /\ UNCHANGED <<sent, taken>> /\ addAfterLast
    BY <1>11 DEF renew
  <2>2. /\ queue' \in Seq(0..Length) /\ Len(queue') <= Capacity
        /\ InOrder'
    BY <2>1, AddKeeps
  <2>3. TypeOK'
    BY <1>11, <2>2 DEF renew
  <2>4. /\ reader' = [reader EXCEPT ![r] = "returning"]
        /\ UNCHANGED <<exceptions, result, parsing, item, taken, thrown,
                        closer>>
    BY <1>11 DEF renew
  <2>5. ASSUME NEW q \in Readers PROVE Told(q)'
    <3>1. CASE q = r
      <4>1. reader[r] = "renewing" /\ reader'[r] = "returning"
        BY <1>11, <2>4 DEF renew
      <4>2. item[r] = afterLast => taken = sent
        BY <4>1
      <4> QED
        BY <2>1, <2>4, <3>1, <4>1, <4>2
    <3>2. CASE q # r
      BY <2>1, <2>4, <3>2
    <3> QED
      BY <3>1, <3>2
  <2>6. EndInv'
    BY <2>1, <2>4, <2>5
  <2> QED
    BY <2>2, <2>3, <2>6
<1>12. ASSUME NEW r \in Readers, returnElement(r) PROVE IInv'
  BY <1>12 DEF returnElement
<1>13. ASSUME NEW r \in Readers, isAfterLast(r) PROVE IInv'
  BY <1>13 DEF isAfterLast, checkAtEnd, checkException
<1>14. ASSUME NEW r \in Readers, returnNull(r) PROVE IInv'
  BY <1>14, AddKeeps DEF returnNull, addAfterLast
<1>15. CASE close \/ Closing
  <2>1. CASE close
    BY <2>1 DEF close, closedFirst
  <2>2. CASE lookAtParser
    BY <2>2 DEF lookAtParser
  <2>3. CASE interrupt
    BY <2>3 DEF interrupt
  <2>4. CASE handleClose
    BY <2>4 DEF handleClose
  <2> QED
    BY <1>15, <2>1, <2>2, <2>3, <2>4 DEF Closing
<1>16. CASE UNCHANGED vars
  BY <1>16 DEF vars
<1> QED
  BY <1>1, <1>2, <1>3, <1>4, <1>5, <1>6, <1>7, <1>8, <1>9, <1>10, <1>11,
     <1>12, <1>13, <1>14, <1>15, <1>16
  DEF Next, Parser, Read

(* Statements reach the readers in the order of the document, none twice,    *)
(* and the end markers stay behind them (QueueCursor.java:77-127).           *)
THEOREM Ordered == Spec => [](TypeOK /\ InOrder)
<1>1. IInv => TypeOK /\ InOrder
  BY DEF IInv
<1> QED
  BY IInvInit, IInvStep, <1>1, PTL DEF Spec

(* No reader takes an incomplete document for a complete one, but for the    *)
(* excuses that EndIsTheEnd names (QueueCursor.java:101-127).                *)
THEOREM NoFalseEnd == Spec => []EndIsTheEnd
<1>1. IInv => EndIsTheEnd
  BY DEF IInv, EndInv, EndIsTheEnd, Told, Excused
<1> QED
  BY IInvInit, IInvStep, <1>1, PTL DEF Spec
-----------------------------------------------------------------------------
(* Nobody waits for ever: what the ends of a read and of a parser rest on.   *)

AtRest == {"taking", "end"}
Places == {"idle", "deciding", "polling", "taking", "took", "renewing",
           "returning", "last", "end"}

(* A reader that neither waits nor has left makes the invariant true.        *)
LEMMA OnItsWay ==
  ASSUME NEW r \in Readers, reader \in [Readers -> Places],
         NEW where \in Places \ AtRest, goTo(r, where)
  PROVE  ReaderIsReleased'
<1>1. reader'[r] \notin AtRest
  BY DEF goTo, AtRest
<1> QED
  BY <1>1 DEF ReaderIsReleased, AtRest

(* Only the reader that leaves and the parser that ends could strand a        *)
(* reader, and both put a marker.                                            *)
LEMMA Marked ==
  ASSUME IInv, addAfterLast
  PROVE  queue' # <<>>
<1>1. queue \in Seq(0..Length) /\ Capacity > 0
  BY CursorAssumption DEF CursorAssumption, IInv, TypeOK
<1>2. CASE Len(queue) < Capacity
  BY <1>1, <1>2 DEF addAfterLast
<1>3. CASE ~(Len(queue) < Capacity)
  BY <1>1, <1>3 DEF addAfterLast
<1> QED
  BY <1>2, <1>3

LEMMA StandoffStep == IInv /\ ReaderIsReleased /\ [Next]_vars => ReaderIsReleased'
<1> SUFFICES ASSUME IInv, ReaderIsReleased, [Next]_vars PROVE ReaderIsReleased'
  OBVIOUS
<1>t. reader \in [Readers -> Places]
  BY DEF IInv, TypeOK, Places
<1>n. \A where \in {"idle", "deciding", "polling", "took", "renewing",
                    "returning", "last"} : where \in Places \ AtRest
  BY DEF Places, AtRest
<1> USE DEF cursor, result, parsing, reading
<1>1. CASE \/ run \/ handleStatement \/ put \/ putInterrupted \/ endRDF
           \/ parseFails \/ parseBreaks \/ forget \/ setDone
  <2>1. parser' # "ended"
    BY <1>1 DEF run, handleStatement, put, putInterrupted, endRDF, parseFails,
       parseBreaks, forget, setDone
  <2> QED
    BY <2>1 DEF ReaderIsReleased
<1>2. CASE addDone
  BY <1>2, Marked DEF addDone, ReaderIsReleased
<1>3. ASSUME NEW r \in Readers, returnNull(r) PROVE ReaderIsReleased'
  BY <1>3, Marked DEF returnNull, ReaderIsReleased
<1>4. ASSUME NEW r \in Readers, decide(r) PROVE ReaderIsReleased'
  <2>1. CASE done
    BY <1>4, <1>t, <1>n, <2>1, OnItsWay DEF decide
  <2>2. CASE ~done
    BY <1>4, <2>2 DEF decide, IInv, EndInv, ReaderIsReleased
  <2> QED
    BY <2>1, <2>2
<1>5. ASSUME NEW r \in Readers,
             \/ getNextElement(r) \/ take(r) \/ afterTake(r) \/ renew(r)
             \/ returnElement(r) \/ isAfterLast(r)
      PROVE  ReaderIsReleased'
  <2>1. \/ goTo(r, "idle") \/ goTo(r, "deciding") \/ goTo(r, "returning")
        \/ goTo(r, "took") \/ goTo(r, "renewing") \/ goTo(r, "last")
    BY <1>5 DEF getNextElement, take, afterTake, renew, returnElement,
       isAfterLast, checkAtEnd, checkException
  <2> QED
    BY <1>t, <1>n, <2>1, OnItsWay
<1>6. CASE close \/ Closing \/ UNCHANGED vars
  <2>1. UNCHANGED <<queue, parser, reader>>
    BY <1>6 DEF close, Closing, lookAtParser, interrupt, handleClose, vars
  <2> QED
    BY <2>1 DEF ReaderIsReleased
<1> QED
  BY <1>1, <1>2, <1>3, <1>4, <1>5, <1>6, Zenon DEF Next, Parser, Read

(* However many readers wait, and whoever takes the marker, they never all   *)
(* wait for a document that has ended (QueueCursor.java:100-119).            *)
LEMMA ReadersAreReleased == Spec => []ReaderIsReleased
<1>1. Init => ReaderIsReleased
  BY DEF Init, ReaderIsReleased
<1> QED
  BY IInvInit, IInvStep, <1>1, StandoffStep, PTL DEF Spec

(* close() sets closed before it looks for the parser's thread, and that      *)
(* thread can be found as long as it may still wait for a place.             *)
CloseInv ==
  /\ parser \in {"parsing", "putting", "finally"} => parserThread
  /\ closer # "open" => closed
  /\ PutIsInterrupted

LEMMA CloseStep == Flags /\ CloseInv /\ [Next]_vars => CloseInv'
<1> SUFFICES ASSUME Flags, CloseInv, [Next]_vars PROVE CloseInv'
  OBVIOUS
<1>f. Flags'
  BY FlagsStep
<1> USE <1>f DEF CloseInv, PutIsInterrupted, Flags, cursor, result, parsing,
                 reading
<1>1. CASE Parser
  BY <1>1 DEF Parser, run, handleStatement, put, putInterrupted, endRDF,
     parseFails, parseBreaks, forget, setDone, addDone
<1>2. CASE \E r \in Readers : getNextElement(r) \/ Read(r)
  BY <1>2 DEF getNextElement, Read, decide, take, afterTake, renew,
     returnElement, isAfterLast, returnNull
<1>3. CASE close
  BY <1>3 DEF close, closedFirst
<1>4. CASE Closing
  BY <1>4 DEF Closing, lookAtParser, interrupt, handleClose
<1>5. CASE UNCHANGED vars
  BY <1>5 DEF vars
<1> QED
  BY <1>1, <1>2, <1>3, <1>4, <1>5, Zenon DEF Next

(* A parser that waits for a place in a queue nobody reads any more is        *)
(* interrupted, wherever close() has met it.                                 *)
LEMMA CloseInterruptsParser == Spec => []PutIsInterrupted
<1>1. Init => Flags /\ CloseInv
  <2>1. Init => Flags
    BY Zenon DEF Init, Flags
  <2> QED
    BY <2>1 DEF Init, CloseInv, PutIsInterrupted
<1>2. CloseInv => PutIsInterrupted
  BY DEF CloseInv
<1> QED
  BY <1>1, <1>2, CloseStep, FlagsStep, PTL DEF Spec

(* Neither readers nor the parser wait with nobody to release them           *)
(* (QueueCursor.java:88-119, BackgroundGraphResult.java:104-107, 164-167).   *)
THEOREM NobodyIsStranded == Spec => []NoStandoff
BY ReadersAreReleased, CloseInterruptsParser, PTL DEF NoStandoff

-----------------------------------------------------------------------------
(* QueueCursor implements Delivery.  What waits in the queue are the          *)
(* statements after the one that was taken last, so each step is one on       *)
(* intervals of positions.                                                    *)

Part(n, m) == [i \in 1..(m - n) |-> n + i]

LEMMA WaitingPart ==
  ASSUME NEW q \in Seq(Nat), NEW s \in Nat, NEW t \in Nat, Holds(q, s, t)
  PROVE  SubSeq(q, 1, s - t) = Part(t, s)
<1>1. s - t \in 0..Len(q)
  BY DEF Holds
<1>2. SubSeq(q, 1, s - t) = [i \in 1..(s - t) |-> q[i]]
  BY <1>1
<1>3. \A i \in 1..(s - t) : q[i] = t + i
  BY <1>1 DEF Holds
<1> QED
  BY <1>2, <1>3 DEF Part

LEMMA PartType ==
  ASSUME NEW n \in Nat, NEW m \in Nat, n <= m
  PROVE  Part(n, m) \in Seq(Nat) /\ Len(Part(n, m)) = m - n
<1>1. Part(n, m) \in [1..(m - n) -> Nat]
  BY DEF Part
<1> QED
  BY <1>1 DEF Part

(* A statement that is put.                                                  *)
LEMMA PartPut ==
  ASSUME NEW t \in Nat, NEW s \in Nat, t <= s
  PROVE  Part(t, s) \o Part(s, s + 1) = Part(t, s + 1)
<1> DEFINE both == Part(t, s) \o Part(s, s + 1)
<1>1. /\ Part(t, s) \in Seq(Nat) /\ Len(Part(t, s)) = s - t
      /\ Part(s, s + 1) \in Seq(Nat) /\ Len(Part(s, s + 1)) = (s + 1) - s
      /\ Part(t, s + 1) \in Seq(Nat) /\ Len(Part(t, s + 1)) = (s + 1) - t
  <2>1. s + 1 \in Nat /\ s <= s + 1 /\ t <= s + 1
    OBVIOUS
  <2>2. Part(t, s) \in Seq(Nat) /\ Len(Part(t, s)) = s - t
    BY PartType
  <2>3. Part(s, s + 1) \in Seq(Nat) /\ Len(Part(s, s + 1)) = (s + 1) - s
    BY <2>1, PartType
  <2>4. Part(t, s + 1) \in Seq(Nat) /\ Len(Part(t, s + 1)) = (s + 1) - t
    BY <2>1, PartType
  <2> QED
    BY <2>2, <2>3, <2>4
<1>2. s - t \in Nat /\ (s + 1) - s = 1 /\ (s - t) + 1 = (s + 1) - t
  OBVIOUS
<1>3. both \in Seq(Nat) /\ Len(both) = (s + 1) - t
  <2>1. both \in Seq(Nat)
        /\ Len(both) = Len(Part(t, s)) + Len(Part(s, s + 1))
    BY <1>1, ConcatProperties, Zenon
  <2> QED
    BY <1>1, <1>2, <2>1, Zenon
<1>4. ASSUME NEW i \in 1..((s + 1) - t) PROVE both[i] = Part(t, s + 1)[i]
  <2>1. Part(t, s + 1)[i] = t + i
    BY DEF Part
  <2>2. both[i] = IF i <= s - t THEN Part(t, s)[i]
                                ELSE Part(s, s + 1)[i - (s - t)]
    BY <1>1, <1>2, <1>4, ConcatProperties
  <2>3. CASE i <= s - t
    BY <2>1, <2>2, <2>3 DEF Part
  <2>4. CASE ~(i <= s - t)
    <3>1. i = (s + 1) - t /\ i - (s - t) = 1
      BY <2>4
    <3>2. Part(s, s + 1)[1] = s + 1
      BY DEF Part
    <3>3. both[i] = Part(s, s + 1)[1]
      <4> HIDE DEF both
      <4> QED
        BY <2>2, <2>4, <3>1, Zenon
    <3>4. t + i = s + 1
      BY <3>1
    <3> QED
      BY <2>1, <3>2, <3>3, <3>4, Zenon
  <2> QED
    BY <2>3, <2>4
<1> HIDE DEF both
<1>5. both = Part(t, s + 1)
  BY <1>1, <1>3, <1>4, SeqEqual
<1> QED
  BY <1>5 DEF both

(* A statement that is taken.                                                *)
LEMMA PartTake ==
  ASSUME NEW t \in Nat, NEW s \in Nat, t < s
  PROVE  /\ SubSeq(Part(t, s), 1, 1) = Part(t, t + 1)
         /\ SubSeq(Part(t, s), 2, Len(Part(t, s))) = Part(t + 1, s)
<1>1. Part(t, s) \in Seq(Nat) /\ Len(Part(t, s)) = s - t
  BY PartType
<1>2. SubSeq(Part(t, s), 1, 1) = [i \in 1..1 |-> Part(t, s)[i]]
  BY <1>1
<1>3. SubSeq(Part(t, s), 2, s - t)
        = [i \in 1..(s - t - 1) |-> Part(t, s)[i + 1]]
  BY <1>1
<1>4. \A i \in 1..(s - t) : Part(t, s)[i] = t + i
  BY DEF Part
<1>5. [i \in 1..1 |-> Part(t, s)[i]] = Part(t, t + 1)
  BY <1>4 DEF Part
<1>6. [i \in 1..(s - t - 1) |-> Part(t, s)[i + 1]] = Part(t + 1, s)
  BY <1>4 DEF Part
<1> QED
  BY <1>1, <1>2, <1>3, <1>5, <1>6

(* What is put, taken and added, on the variables of Delivery.               *)
Waiting == SubSeq(queue, 1, sent - taken)
Received == [i \in 1..taken |-> i]
Cut == closed \/ thrown \/ broken
Over == \E r \in Readers : reader[r] = "end"

WaitingInv ==
  /\ Waiting = Part(taken, sent) /\ Received = Part(0, taken)
  /\ sent \in Nat /\ taken \in Nat /\ taken <= sent /\ sent <= Length
  /\ Len(Waiting) = sent - taken

LEMMA WaitingIs == IInv => WaitingInv
<1> SUFFICES ASSUME IInv PROVE WaitingInv
  OBVIOUS
<1> USE CursorAssumption DEF CursorAssumption, IInv, TypeOK, InOrder
<1>1. sent \in Nat /\ taken \in Nat /\ taken <= sent /\ sent <= Length
  OBVIOUS
<1>2. queue \in Seq(Nat) /\ Holds(queue, sent, taken)
  BY DEF Holds, afterLast
<1>3. Waiting = Part(taken, sent)
  BY <1>1, <1>2, WaitingPart DEF Waiting
<1>4. Received = Part(0, taken)
  BY <1>1 DEF Received, Part
<1>5. Len(Part(taken, sent)) = sent - taken
  BY <1>1, PartType
<1> QED
  BY <1>1, <1>3, <1>4, <1>5 DEF WaitingInv

LEMMA DocumentInit == Init => Document!Init
<1> SUFFICES ASSUME Init PROVE Document!Init
  OBVIOUS
<1>1. sent = 0 /\ Waiting = <<>> /\ Received = <<>>
  BY DEF Init, Waiting, Received
<1>2. Cut = FALSE /\ Over = FALSE
  BY Zenon DEF Init, Cut, Over
<1> QED
  BY <1>1, <1>2, Zenon DEF Document!Init, Waiting, Received, Cut, Over

LEMMA DocumentStep ==
  IInv /\ IInv' /\ [Next]_vars => [Document!Next]_(Document!vars)
<1> SUFFICES ASSUME IInv, IInv', [Next]_vars
             PROVE  [Document!Next]_(Document!vars)
  OBVIOUS
<1>w. WaitingInv /\ WaitingInv'
  <2>1. IInv' => WaitingInv'
    BY WaitingIs, PTL
  <2> QED
    BY <2>1, WaitingIs
<1>t. /\ Cut \in BOOLEAN /\ Cut' \in BOOLEAN
      /\ Over \in BOOLEAN /\ Over' \in BOOLEAN
  BY Zenon DEF Cut, Over
<1> USE CursorAssumption DEF CursorAssumption, WaitingInv
\* a step of the queue that Delivery does not see
<1>s. ASSUME UNCHANGED <<sent, taken>>, Cut' <=> Cut, Over' <=> Over
      PROVE  UNCHANGED Document!vars
  <2>1. Cut' = Cut /\ Over' = Over
    BY <1>t, <1>s
  <2>2. Waiting' = Waiting /\ Received' = Received
    BY <1>w, <1>s
  <2> QED
    BY <1>s, <2>1, <2>2, Zenon
    DEF Document!vars, Waiting, Received, Cut, Over
<1>g. ASSUME UNCHANGED <<sent, taken>>, Cut', Over => Over'
      PROVE  Document!Next
  <2>1. Cut' = TRUE /\ (Over' = TRUE \/ Over' = Over)
    BY <1>t, <1>g
  <2>2. Waiting' = Waiting /\ Received' = Received
    BY <1>w, <1>g
  <2> QED
    BY <1>g, <2>1, <2>2, Zenon
    DEF Document!Next, Document!giveUp, Waiting, Received, Cut, Over
<1>e. ASSUME UNCHANGED <<sent, taken>>, Cut' <=> Cut, Over',
             Cut \/ taken = Length
      PROVE  Document!Next
  <2>1. Cut' = Cut /\ Over' = TRUE
    BY <1>t, <1>e
  <2>2. Waiting' = Waiting /\ Received' = Received
    BY <1>w, <1>e
  <2>3. Cut \/ Received = Document!Items(0, Length)
    BY <1>w, <1>e DEF Part, Document!Items
  <2>4. Document!end
    BY <1>e, <2>1, <2>2, <2>3, Zenon
    DEF Document!end, Waiting, Received, Cut, Over
  <2> QED
    BY <2>4, Zenon DEF Document!Next
<1>u. ASSUME UNCHANGED <<sent, taken, closed, thrown, broken, reader>>
      PROVE  UNCHANGED Document!vars
  <2>1. (Cut' <=> Cut) /\ (Over' <=> Over)
    BY <1>u, Zenon DEF Cut, Over
  <2> QED
    BY <1>u, <1>s, <2>1
<1>1. CASE run \/ handleStatement \/ putInterrupted \/ endRDF
  <2>1. UNCHANGED <<sent, taken, closed, thrown, broken, reader>>
    BY <1>1 DEF run, handleStatement, putInterrupted, endRDF, result, reading
  <2> QED
    BY <1>u, <2>1
<1>2. CASE put
  <2>1. sent' = sent + 1 /\ taken' = taken
    BY <1>2 DEF put, reading
  <2>2. UNCHANGED <<closed, thrown, broken, reader>>
    BY <1>2 DEF put, result, reading
  <2>3. Cut' = Cut /\ Over' = Over
    BY <2>2, Zenon DEF Cut, Over
  <2>4. Waiting' = Waiting \o Document!Items(sent, sent + 1)
    <3>1. Part(taken, sent) \o Part(sent, sent + 1) = Part(taken, sent + 1)
      BY <1>w, PartPut
    <3>2. Part(sent, sent + 1) = Document!Items(sent, sent + 1)
      BY DEF Part, Document!Items
    <3> QED
      BY <1>w, <2>1, <3>1, <3>2, Zenon
  <2>5. Received' = Received
    BY <1>w, <2>1
  <2>6. sent + 1 <= Length /\ 1 \in 0..Length
    BY <1>w, <2>1
  <2>7. Waiting \in Document!Kept
    BY DEF Document!Kept, Waiting
  <2>8. Document!produce(1)
    BY <2>1, <2>3, <2>4, <2>5, <2>6, <2>7, Zenon
    DEF Document!produce, Waiting, Received, Cut, Over
  <2> QED
    BY <2>6, <2>8, Zenon DEF Document!Next
<1>3. CASE parseFails \/ forget \/ setDone \/ addDone
  <2>1. UNCHANGED <<sent, taken, closed, thrown, broken, reader>>
    BY <1>3 DEF parseFails, forget, setDone, addDone, result, reading
  <2> QED
    BY <1>u, <2>1
<1>4. CASE parseBreaks
  BY <1>4, <1>g, Zenon DEF parseBreaks, Cut, Over, cursor, result, reading
<1>5. ASSUME NEW r \in Readers, NEW where \in {"deciding", "last"},
             checkException(r, where), reader[r] # "end",
             UNCHANGED <<sent, taken, closed, broken>>
      PROVE  [Document!Next]_(Document!vars)
  <2>1. reader \in [Readers -> {"idle", "deciding", "polling", "taking",
                     "took", "renewing", "returning", "last", "end"}]
    BY DEF IInv, TypeOK
  <2>2. \A q \in Readers : reader'[q] = "end" <=> reader[q] = "end"
    BY <1>5, <2>1 DEF checkException, goTo
  <2>3. Over' <=> Over
    BY <2>2, Zenon DEF Over
  <2>4. CASE exceptions > 0
    BY <1>5, <1>g, <2>3, <2>4 DEF checkException, Cut
  <2>5. CASE ~(exceptions > 0)
    <3>1. Cut' <=> Cut
      BY <1>5, <2>5 DEF checkException, Cut
    <3> QED
      BY <1>5, <1>s, <2>3, <3>1
  <2> QED
    BY <2>4, <2>5
<1>6. ASSUME NEW r \in Readers, getNextElement(r) \/ isAfterLast(r)
      PROVE  [Document!Next]_(Document!vars)
  BY <1>5, <1>6
  DEF getNextElement, isAfterLast, checkAtEnd, result, parsing
<1>7. ASSUME NEW r \in Readers, NEW where, where # "end",
             reader' = [reader EXCEPT ![r] = where], reader[r] # "end"
      PROVE  Over' <=> Over
  <2>1. reader \in [Readers -> {"idle", "deciding", "polling", "taking",
                     "took", "renewing", "returning", "last", "end"}]
    BY DEF IInv, TypeOK
  <2>2. \A q \in Readers : reader'[q] = "end" <=> reader[q] = "end"
    BY <1>7, <2>1
  <2> QED
    BY <2>2, Zenon DEF Over
<1>8. ASSUME NEW r \in Readers,
             decide(r) \/ afterTake(r) \/ renew(r) \/ returnElement(r)
      PROVE  UNCHANGED Document!vars
  <2>1. Over' <=> Over
    BY <1>7, <1>8 DEF decide, afterTake, renew, returnElement, goTo
  <2>2. UNCHANGED <<sent, taken, closed, thrown, broken>>
    BY <1>8 DEF decide, afterTake, renew, returnElement, result, parsing
  <2>3. Cut' <=> Cut
    BY <2>2, Zenon DEF Cut
  <2> QED
    BY <1>s, <2>1, <2>2, <2>3
<1>9. ASSUME NEW r \in Readers, take(r)
      PROVE  [Document!Next]_(Document!vars)
  <2>1. Over' <=> Over
    BY <1>7, <1>9 DEF take, goTo
  <2>2. UNCHANGED <<sent, closed, thrown, broken>>
    BY <1>9 DEF take, result, parsing
  <2>3. Cut' <=> Cut
    BY <2>2, Zenon DEF Cut
  <2>4. CASE taken' = taken
    BY <1>s, <2>1, <2>2, <2>3, <2>4
  <2>5. CASE taken' # taken
    <3>1. taken' = taken + 1 /\ taken + 1 <= sent
      BY <1>w, <1>9, <2>2, <2>5 DEF take
    <3>2. ~Over
      <4>1. queue # <<>> /\ Head(queue) # afterLast
        BY <1>9, <2>5 DEF take
      <4>2. \A q \in Readers : reader[q] = "end" => taken = sent
        BY DEF IInv, EndInv, Told
      <4> QED
        BY <1>w, <3>1, <4>2 DEF Over
    <3>3. Cut' = Cut /\ Over' = Over
      BY <1>t, <2>1, <2>3
    <3>4. /\ Waiting' = SubSeq(Waiting, 2, Len(Waiting))
          /\ SubSeq(Waiting, 1, 1) = Part(taken, taken + 1)
      <4>1. /\ SubSeq(Part(taken, sent), 1, 1) = Part(taken, taken + 1)
            /\ SubSeq(Part(taken, sent), 2, Len(Part(taken, sent)))
                 = Part(taken + 1, sent)
        <5>1. taken \in Nat /\ sent \in Nat /\ taken < sent
          BY <1>w, <3>1
        <5> QED
          BY <5>1, PartTake
      <4>2. Waiting = Part(taken, sent) /\ Waiting' = Part(taken', sent')
        BY <1>w
      <4>3. sent' = sent
        BY <2>2
      <4> QED
        BY <3>1, <4>1, <4>2, <4>3, Zenon
    <3>5. Received' = Received \o SubSeq(Waiting, 1, 1)
      <4>1. Part(0, taken) \o Part(taken, taken + 1) = Part(0, taken + 1)
        <5>1. 0 \in Nat /\ taken \in Nat /\ 0 <= taken
          BY <1>w
        <5> QED
          BY <5>1, PartPut
      <4>2. Received = Part(0, taken) /\ Received' = Part(0, taken')
        BY <1>w
      <4> QED
        BY <3>1, <3>4, <4>1, <4>2, Zenon
    <3>6. 1 \in 0..Len(Waiting)
      BY <1>w, <3>1
    <3>7. Document!take(1)
      <4>1. 1 + 1 = 2
        OBVIOUS
      <4> QED
        BY <2>2, <3>2, <3>3, <3>4, <3>5, <4>1, Zenon
        DEF Document!take, Waiting, Received, Cut, Over
    <3> QED
      BY <3>6, <3>7, Zenon DEF Document!Next, Waiting
  <2> QED
    BY <2>4, <2>5
<1>10. ASSUME NEW r \in Readers, returnNull(r) PROVE Document!Next
  <2>1. /\ reader' = [reader EXCEPT ![r] = "end"]
        /\ UNCHANGED <<sent, taken, closed, thrown, broken>>
    BY <1>10 DEF returnNull, goTo, result, parsing
  <2>2. Cut' <=> Cut
    BY <2>1, Zenon DEF Cut
  <2>3. reader'[r] = "end"
    BY <2>1 DEF IInv, TypeOK
  <2>4. Over'
    BY <2>3, Zenon DEF Over
  <2>5. Cut \/ taken = Length
    BY <1>10 DEF returnNull, IInv, EndInv, Told, Excused, Cut
  <2> QED
    BY <1>e, <2>1, <2>2, <2>4, <2>5
<1>11. CASE close \/ handleClose
  <2>1. /\ closed' = TRUE /\ UNCHANGED <<sent, taken, reader>>
    BY <1>11 DEF close, closedFirst, handleClose, parsing, reading
  <2>2. Cut' /\ (Over' <=> Over)
    BY <2>1, Zenon DEF Cut, Over
  <2> QED
    BY <1>g, <2>1, <2>2
<1>12. CASE lookAtParser \/ interrupt
  <2>1. UNCHANGED <<sent, taken, closed, thrown, broken, reader>>
    BY <1>12 DEF lookAtParser, interrupt, result, parsing, reading
  <2> QED
    BY <1>u, <2>1
<1>13. CASE UNCHANGED vars
  <2>1. UNCHANGED <<sent, taken, closed, thrown, broken, reader>>
    BY <1>13 DEF vars, result, parsing, reading
  <2> QED
    BY <1>u, <2>1
<1> QED
  BY <1>1, <1>2, <1>3, <1>4, <1>6, <1>8, <1>9, <1>10, <1>11, <1>12, <1>13
  DEF Next, Parser, Read, Closing

(* Whatever the readers, the length and the capacity, the queue delivers the  *)
(* document as Delivery promises (QueueCursor.java:59-127).                   *)
THEOREM DeliversDocument == Spec => DocumentDelivered
BY IInvInit, IInvStep, DocumentInit, DocumentStep, PTL
DEF Spec, DocumentDelivered, Document!Spec
=============================================================================
