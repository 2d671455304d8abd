---------------------------- MODULE ExchangeProofs ----------------------------
(* The safety properties of Exchange for any responses, however many the     *)
(* chain submits.                                                            *)
EXTENDS Exchange, TLAPS

(* What the I/O thread has done shows in the fields: until the request has   *)
(* been read there is no exchange, and a request with a body is read only    *)
(* once its Expect header is done with.                                      *)
Progress ==
  /\ expectContinue => expect /\ (body \/ pipe = "none")
  /\ body => pipe # "none" /\ ~exchange
  /\ io = "receiving" => ~exchange
  /\ io \in {"handled", "waiting", "sent"} => exchange
  /\ cancelled => exchange /\ io = "lost"

(* The container has a producer exactly when the exchange is ready; it has   *)
(* something to send then, and what it was told of stays what is sent.       *)
Submission ==
  /\ ready <=> submissions > 0
  /\ ready => exchange /\ (response # None \/ (expectContinue /\ submitted100))
  /\ submissions > 1 => submitted100 /\ expect /\ pipe = "none"
  /\ exchange /\ ~ready => response = None
  /\ exchange /\ expectContinue /\ submitted100 => ready
  /\ generated \in Responses => response = generated
  /\ generated # None => exchange

(* The responses: all but the one that is kept have been consumed, and one is *)
(* kept as soon as one was submitted.                                        *)
Kept ==
  /\ response \in submitted \cup {None}
  /\ response = None => submitted = {}
  /\ response \in WithEntity => producer = response

IInv ==
  /\ TypeOK /\ Progress /\ Submission /\ Kept
  /\ NeverWaits /\ NothingLeft /\ BodyOf /\ Released /\ NotProvisional
  /\ PendingIffUnanswered

-----------------------------------------------------------------------------
(* Typing.  The provers that reason about integers do not handle truth       *)
(* values, so these are typed apart.                                         *)

Flags ==
  /\ expectContinue \in BOOLEAN /\ submitted100 \in BOOLEAN
  /\ exchange \in BOOLEAN /\ ready \in BOOLEAN /\ cancelled \in BOOLEAN
  /\ queued \in BOOLEAN /\ body \in BOOLEAN

Values ==
  /\ response \in Responses \cup {None} /\ producer \in WithEntity \cup {None}
  /\ pipe \in {"none", "open", "closed"}
  /\ io \in {"receiving", "handled", "waiting", "sent", "lost"}
  /\ submissions \in Nat /\ generated \in Responses \cup {None, "100"}
  /\ submitted \subseteq Responses /\ consumed \subseteq WithEntity

LEMMA FlagsInit == Init => Flags
<1> SUFFICES ASSUME Init PROVE Flags
  OBVIOUS
<1>1. body \in BOOLEAN
  <2>1. CASE pipe = "open"
    BY <2>1, Zenon DEF Init
  <2>2. CASE pipe # "open"
    BY <2>2, Zenon DEF Init
  <2> QED
    BY <2>1, <2>2
<1> QED
  BY <1>1, Zenon DEF Init, Flags

LEMMA FlagsStep == Flags /\ [Next]_vars => Flags'
<1> SUFFICES ASSUME Flags, [Next]_vars PROVE Flags'
  OBVIOUS
<1> USE DEF Flags, fields, closeRequest
<1>1. CASE consumeContent
  BY <1>1, Zenon DEF consumeContent, setExpectContinue
<1>2. CASE handle
  BY <1>2, Zenon DEF handle, setHttpAsyncExchange
<1>3. CASE generateResponse
  BY <1>3, Zenon DEF generateResponse
<1>4. CASE produceContent
  BY <1>4, Zenon DEF produceContent
<1>5. CASE lostReceiving
  BY <1>5, Zenon DEF lostReceiving
<1>6. CASE lostHandled
  BY <1>6, Zenon DEF lostHandled, cancel
<1>7. CASE submitContinue
  BY <1>7, Zenon DEF submitContinue
<1>8. ASSUME NEW r \in Responses, submitResponse(r) PROVE Flags'
  BY <1>8, Zenon DEF submitResponse
<1>9. CASE UNCHANGED vars
  BY <1>9, Zenon DEF vars
<1> QED
  BY <1>1, <1>2, <1>3, <1>4, <1>5, <1>6, <1>7, <1>8, <1>9, Zenon
  DEF Next, IOThread, Connection, Chain

LEMMA ValuesStep == TypeOK /\ [Next]_vars => Values'
<1> SUFFICES ASSUME TypeOK, [Next]_vars PROVE Values'
  OBVIOUS
<1> USE ResponsesAssumption
    DEF ResponsesAssumption, TypeOK, Values, fields, Closed, Entity,
        closeRequest
<1>1. CASE consumeContent
  BY <1>1 DEF consumeContent
<1>2. CASE handle
  BY <1>2 DEF handle, setHttpAsyncExchange
<1>3. CASE generateResponse \/ produceContent
  BY <1>3 DEF generateResponse, produceContent
<1>4. CASE lostReceiving \/ lostHandled
  BY <1>4 DEF lostReceiving, lostHandled, cancel
<1>5. CASE submitContinue
  BY <1>5 DEF submitContinue
<1>6. ASSUME NEW r \in Responses, submitResponse(r) PROVE Values'
  BY <1>6 DEF submitResponse, Refused, Accept, Discard, Submits, CloseIfLost
<1>7. CASE UNCHANGED vars
  BY <1>7 DEF vars
<1> QED
  BY <1>1, <1>2, <1>3, <1>4, <1>5, <1>6, <1>7
  DEF Next, IOThread, Connection, Chain

LEMMA TypeStep == TypeOK /\ [Next]_vars => TypeOK'
BY FlagsStep, ValuesStep, Zenon DEF TypeOK, Flags, Values

-----------------------------------------------------------------------------
(* The invariant.                                                            *)

LEMMA InvInit == Init => IInv
<1> SUFFICES ASSUME Init PROVE IInv
  OBVIOUS
<1>1. Values
  BY ResponsesAssumption DEF ResponsesAssumption, Init, Values
<1>2. TypeOK
  BY <1>1, FlagsInit, Zenon DEF TypeOK, Flags, Values
<1>3. expectContinue => expect
  BY Zenon DEF Init
<1>4. body => pipe = "open"
  BY Zenon DEF Init
<1>5. Progress
  BY <1>3, <1>4 DEF Init, Progress
<1>6. ~ready /\ ~exchange /\ ~cancelled /\ queued
  BY Zenon DEF Init
<1>7. Submission /\ Kept
  BY <1>6, ResponsesAssumption
  DEF ResponsesAssumption, Init, Submission, Kept
<1>8. NeverWaits /\ NothingLeft /\ BodyOf /\ Released /\ NotProvisional
  BY <1>6, ResponsesAssumption
  DEF ResponsesAssumption, Init, NeverWaits, NothingLeft, BodyOf, Released,
      NotProvisional
<1>9. PendingIffUnanswered
  BY <1>6, Zenon DEF Init, PendingIffUnanswered
<1> QED
  BY <1>2, <1>5, <1>7, <1>8, <1>9 DEF IInv

LEMMA InvStep == IInv /\ [Next]_vars => IInv'
<1> SUFFICES ASSUME IInv, [Next]_vars PROVE IInv'
  OBVIOUS
<1>0. TypeOK'
  BY TypeStep DEF IInv
<1> USE <1>0, ResponsesAssumption
    DEF ResponsesAssumption, IInv, TypeOK, fields, Closed, Entity,
        closeRequest, Progress, Submission, Kept, NeverWaits, NothingLeft,
        BodyOf, Released, NotProvisional, PendingIffUnanswered
<1>1. CASE consumeContent
  BY <1>1 DEF consumeContent, setExpectContinue
<1>2. CASE handle
  BY <1>2 DEF handle, setHttpAsyncExchange
<1>3. CASE generateResponse
  BY <1>3 DEF generateResponse
<1>4. CASE produceContent
  BY <1>4 DEF produceContent
<1>5. CASE lostReceiving
  BY <1>5 DEF lostReceiving
<1>6. CASE lostHandled
  BY <1>6 DEF lostHandled, cancel
<1>7. CASE submitContinue
  BY <1>7 DEF submitContinue, expectsContinue
<1>8. ASSUME NEW r \in Responses, submitResponse(r) PROVE IInv'
  <2>1. CASE Refused
    BY <1>8, <2>1 DEF submitResponse, Refused, Accept, Discard, Submits,
       CloseIfLost
  <2>2. CASE ~Refused
    BY <1>8, <2>2 DEF submitResponse, Refused, Accept, Discard, Submits,
       CloseIfLost
  <2> QED
    BY <2>1, <2>2
<1>9. CASE UNCHANGED vars
  BY <1>9 DEF vars
<1> QED
  BY <1>1, <1>2, <1>3, <1>4, <1>5, <1>6, <1>7, <1>8, <1>9
  DEF Next, IOThread, Connection, Chain

LEMMA Invariant == Spec => []IInv
<1> QED
  BY InvInit, InvStep, PTL DEF Spec

-----------------------------------------------------------------------------
(* What the exchange promises.                                               *)

\* Every variable has its type, and a 100 (Continue) is generated as the answer
\* only of a request of which no body can follow: setExpectContinue comes
\* before the first byte of one.
THEOREM ExchangeTypes == Spec => [](TypeOK /\ NotProvisional)
<1>1. IInv => TypeOK /\ NotProvisional
  BY DEF IInv
<1> QED
  BY <1>1, Invariant, PTL

\* The container is given a producer once, unless the request expects 100 and
\* has no body: setHttpAsyncExchange and submitResponse ask whether it has one.
THEOREM OneProducer == Spec => []SubmittedOnce
<1>1. IInv => SubmittedOnce
  BY DEF IInv, TypeOK, Submission, SubmittedOnce
<1> QED
  BY <1>1, Invariant, PTL

\* The reactor thread never waits in generateResponse: a producer is handed
\* over only with a response, or with a 100 (Continue) that no body can void.
THEOREM ReactorNeverWaits == Spec => []NeverWaits
<1>1. IInv => NeverWaits
  BY DEF IInv
<1> QED
  BY <1>1, Invariant, PTL

\* Whichever comes first, the end of the request or the response, and however
\* many responses are refused or replaced, the container is given one.
THEOREM SubmittedIsHandedOver == Spec => []HandedOver
<1>1. IInv => HandedOver
  BY ResponsesAssumption
  DEF ResponsesAssumption, IInv, TypeOK, Submission, Kept, HandedOver
<1> QED
  BY <1>1, Invariant, PTL

\* Every entity submitted is consumed or is the one kept; the kept one is
\* closed when it is sent, or when the exchange is cancelled.
THEOREM EntitiesReleased == Spec => [](NothingLeft /\ Released)
<1>1. IInv => NothingLeft /\ Released
  BY DEF IInv
<1> QED
  BY <1>1, Invariant, PTL

\* The entity that is sent belongs to the response whose head was generated, of
\* however many were submitted, and is closed once it is sent.
THEOREM BodyBelongsToHead == Spec => []BodyOf
<1>1. IInv => BodyOf
  BY DEF IInv
<1> QED
  BY <1>1, Invariant, PTL

\* The processing queue lists the exchanges that are neither answered nor
\* cancelled, whatever the order of the calls.
THEOREM QueueListsThePending == Spec => []PendingIffUnanswered
<1>1. IInv => PendingIffUnanswered
  BY DEF IInv
<1> QED
  BY <1>1, Invariant, PTL

\* Whatever is submitted after the container has generated the response, that
\* response stays.
THEOREM FinalResponse == Spec => ResponseIsFinal
<1>1. IInv /\ [Next]_vars
        => [(generated \in Responses) => response' = response]_vars
  <2> SUFFICES ASSUME IInv, [Next]_vars, generated \in Responses
               PROVE  response' = response
    OBVIOUS
  <2>1. response # None /\ exchange
    BY ResponsesAssumption DEF ResponsesAssumption, IInv, Submission
  <2> QED
    BY <2>1 DEF Next, IOThread, Connection, Chain, consumeContent, handle,
       generateResponse, produceContent, lostReceiving, lostHandled,
       submitContinue, submitResponse, Accept, Refused, fields, vars
<1> QED
  BY <1>1, Invariant, PTL DEF Spec, ResponseIsFinal
=============================================================================
