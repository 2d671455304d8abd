------------------------------- MODULE Exchange -------------------------------
(***************************************************************************)
(* One HTTP exchange (server/helpers/Exchange.java): the meeting point of  *)
(* the I/O reactor thread, which reads the request, hands over the         *)
(* container's HttpAsyncExchange when it has been read and later asks for  *)
(* the response, and of the threads of the handler chain, which submit the *)
(* response before, during or after all that - sometimes more than one.    *)
(*                                                                         *)
(* The methods of Exchange are synchronized: one action each.  The body    *)
(* itself is the subject of AsyncPipe; here its pipe is open or closed.    *)
(* The container (HttpCore's HttpAsyncService) is external: it calls       *)
(* processRequest, consumeContent, handle, generateResponse and            *)
(* produceContent in this order from one thread, and accepts one           *)
(* submitResponse.                                                         *)
(***************************************************************************)
EXTENDS Naturals, FiniteSets

CONSTANTS Responses,    \* the responses the chain may submit for this request
          WithEntity,   \* those that have an entity
          None          \* the null reference

ASSUME ResponsesAssumption ==
  /\ WithEntity \subseteq Responses /\ None \notin Responses
  /\ "100" \notin Responses \cup {None}

VARIABLES
  \* the fields of Exchange
  expectContinue, submitted100,   \* submitContinue # null
  exchange,                       \* exchange # null
  response, producer, ready, cancelled,
  pipe,                           \* consumer.pipe: "none", "open", "closed"
  queued,                         \* this exchange is in the processing queue
  \* the request's Expect header, the I/O thread and the container
  expect, io, body, submissions, generated,
  \* the handler chain
  submitted,                      \* responses passed to submitResponse
  consumed                        \* entities consumed or closed

fields == <<expectContinue, submitted100, exchange, response, producer, ready,
            cancelled, pipe, queued>>
vars == <<expectContinue, submitted100, exchange, response, producer, ready,
          cancelled, pipe, queued, expect, io, body, submissions, generated,
          submitted, consumed>>

\* processRequest: new Exchange(request, queue), with or without a body, with
\* or without an Expect header.
Init ==
  /\ pipe \in {"none", "open"} /\ body = (pipe = "open")
  /\ expect \in BOOLEAN /\ expectContinue = expect
  /\ submitted100 = FALSE /\ exchange = FALSE
  /\ response = None /\ producer = None
  /\ ready = FALSE /\ cancelled = FALSE /\ queued = TRUE
  /\ io = "receiving" /\ submissions = 0 /\ generated = None
  /\ submitted = {} /\ consumed = {}

Closed(p) == IF p = "open" THEN "closed" ELSE p
Entity(r) == {r} \cap WithEntity

-----------------------------------------------------------------------------
(* The I/O thread.                                                         *)

setExpectContinue == expectContinue' = FALSE

\* One readable event; the last one completes the request, and
\* requestCompleted closes the pipe.
consumeContent ==
  /\ io = "receiving" /\ body
  /\ setExpectContinue
  /\ body' \in BOOLEAN
  /\ pipe' = IF body' THEN pipe ELSE Closed(pipe)
  /\ UNCHANGED <<expect, submitted100, exchange, response, producer, ready,
                 cancelled, queued, io, submissions, generated, submitted,
                 consumed>>

\* seeded fault: the producer is submitted before there is a response
setHttpAsyncExchangeEager ==
  exchange' = TRUE /\ ready' = TRUE /\ submissions' = submissions + 1

\* seeded fault: a response that is there already is not submitted
setHttpAsyncExchangeLate ==
  exchange' = TRUE /\ UNCHANGED <<ready, submissions>>

setHttpAsyncExchange ==
  /\ exchange' = TRUE
  /\ IF response # None \/ (expectContinue /\ submitted100)
       THEN ready' = TRUE /\ submissions' = submissions + 1
       ELSE UNCHANGED <<ready, submissions>>

\* AsyncRequestHandler.handle: the request is consumed.
handle ==
  /\ io = "receiving" /\ ~body
  /\ io' = "handled"
  /\ setHttpAsyncExchange
  /\ UNCHANGED <<expect, expectContinue, submitted100, response, producer,
                 cancelled, pipe, queued, body, generated, submitted,
                 consumed>>

\* Producer.generateResponse, called once the container has a producer: it
\* waits on the producer's monitor, which nobody notifies.
generateResponse ==
  /\ io = "handled" /\ submissions > 0 /\ generated = None
  /\ \/ response # None /\ generated' = response /\ UNCHANGED io
     \/ /\ response = None /\ expectContinue /\ submitted100
        /\ generated' = "100" /\ UNCHANGED io
     \/ /\ response = None /\ ~(expectContinue /\ submitted100)
        /\ io' = "waiting" /\ UNCHANGED generated
  /\ UNCHANGED <<fields, expect, body, submissions, submitted, consumed>>

\* Producer.produceContent up to encoder.isCompleted(), then close(), which
\* the container calls for a response without an entity too.
produceContent ==
  /\ io = "handled" /\ generated # None
  /\ io' = "sent"
  /\ consumed' = consumed \cup Entity(producer)
  /\ UNCHANGED <<fields, expect, body, submissions, generated, submitted>>

\* The connection is lost before the request was read: the container fails or
\* closes the consumer; no callback is registered with it yet.
lostReceiving ==
  /\ io = "receiving"
  /\ io' = "lost" /\ pipe' = Closed(pipe)
  /\ UNCHANGED <<expect, expectContinue, submitted100, exchange, response,
                 producer, ready, cancelled, queued, body, submissions,
                 generated, submitted, consumed>>

\* seeded fault: the exchange stays in the queue
closeRequestOnly == pipe' = Closed(pipe) /\ UNCHANGED queued
closeRequest == pipe' = Closed(pipe) /\ queued' = FALSE

cancel ==
  /\ cancelled' = TRUE
  /\ closeRequest
  /\ consumed' = consumed \cup Entity(producer)

\* It is lost later: the container calls the registered Cancellable.
lostHandled ==
  /\ io \in {"handled", "waiting"}
  /\ io' = "lost"
  /\ cancel
  /\ UNCHANGED <<expect, expectContinue, submitted100, exchange, response,
                 producer, ready, body, submissions, generated, submitted>>

-----------------------------------------------------------------------------
(* The handler chain.                                                      *)

\* ExpectContinueHandler, once, for a request with an Expect header.
expectsContinue == expect /\ ~submitted100

\* It may come after a response, when AuthenticationHandler has failed the
\* request and goes on.
submitContinue ==
  /\ expectsContinue
  /\ submitted100' = TRUE
  /\ IF expectContinue /\ exchange
       THEN ready' = TRUE /\ submissions' = submissions + 1
       ELSE UNCHANGED <<ready, submissions>>
  /\ UNCHANGED <<expect, expectContinue, exchange, response, producer,
                 cancelled, pipe, queued, io, body, generated, submitted,
                 consumed>>

\* A response for a container that has been given one is refused.
Refused == response # None /\ exchange

\* seeded fault: a later response replaces the head that was submitted
AcceptAlways(r) == response' = r /\ UNCHANGED producer

Accept(r) ==
  IF Refused
    THEN UNCHANGED <<response, producer>>
    ELSE /\ response' = r
         /\ producer' = IF r \in WithEntity THEN r ELSE producer

\* seeded fault: the replaced response is not consumed
DiscardNew(r) == IF Refused THEN Entity(r) ELSE {}
Discard(r) == IF Refused THEN Entity(r) ELSE Entity(response)

\* seeded fault: the container is told of every response
SubmitsEvery == exchange
Submits == exchange /\ ~ready /\ ~Refused

\* The container closes the producer it is given for a connection it has lost.
CloseIfLost == IF Submits /\ io = "lost" THEN Entity(producer') ELSE {}

submitResponse(r) ==
  /\ r \notin submitted
  /\ submitted' = submitted \cup {r}
  /\ closeRequest
  /\ Accept(r)
  /\ consumed' = consumed \cup Discard(r) \cup CloseIfLost
  /\ IF Submits
       THEN ready' = TRUE /\ submissions' = submissions + 1
       ELSE UNCHANGED <<ready, submissions>>
  /\ UNCHANGED <<expect, expectContinue, submitted100, exchange, cancelled, io,
                 body, generated>>

IOThread == consumeContent \/ handle \/ generateResponse \/ produceContent
Connection == lostReceiving \/ lostHandled
Chain == submitContinue \/ \E r \in Responses : submitResponse(r)

Next == IOThread \/ Connection \/ Chain

Spec == Init /\ [][Next]_vars

\* The reactor asks for the head of a response it has been given.
Fairness == WF_vars(generateResponse)
FairSpec == Spec /\ Fairness

-----------------------------------------------------------------------------
(* Properties.                                                             *)

\* Every field has its type.
TypeOK ==
  /\ expectContinue \in BOOLEAN /\ submitted100 \in BOOLEAN
  /\ exchange \in BOOLEAN /\ ready \in BOOLEAN /\ cancelled \in BOOLEAN
  /\ queued \in BOOLEAN /\ body \in BOOLEAN
  /\ response \in Responses \cup {None} /\ producer \in WithEntity \cup {None}
  /\ pipe \in {"none", "open", "closed"}
  /\ io \in {"receiving", "handled", "waiting", "sent", "lost"}
  /\ submissions \in Nat /\ generated \in Responses \cup {None, "100"}
  /\ submitted \subseteq Responses /\ consumed \subseteq WithEntity

\* However many responses the chain submits, and however they race with the
\* end of the request, the container is given a producer at most once: a
\* second HttpAsyncExchange.submitResponse throws.  (submitContinue does not
\* ask whether the exchange is ready; that can be seen only for a request that
\* expects 100 and has no body, which no client should send.)
SubmittedOnce == (expect /\ pipe = "none") \/ submissions <= 1

\* The producer is handed over only when there is something to send, so the
\* I/O thread never reaches the wait() of Producer.generateResponse, whose
\* monitor nobody notifies (the notifyAll of submitResponse is the Exchange's).
NeverWaits == io # "waiting"

\* No entity leaks: of all the responses submitted, those the exchange will not
\* send have had their entity consumed.
NothingLeft ==
  \A r \in submitted \cap WithEntity : r = response \/ r \in consumed

\* The entity sent with a response is its own, and it is closed afterwards;
\* replaced responses share the producer field.
BodyOf ==
  generated \in WithEntity =>
    /\ producer = generated
    /\ io = "sent" => generated \in consumed

\* A response that was submitted is not forgotten: once the request has been
\* read the container has the producer and the producer has a head, whichever
\* of the two threads came first and whatever was refused or replaced between
\* (setHttpAsyncExchange:104-114, submitResponse:149-173).
HandedOver ==
  exchange /\ submitted # {} =>
    submissions > 0 /\ response \in submitted

\* A cancelled exchange has released the entity of its response, also when the
\* response comes after the cancellation.
Released == cancelled /\ ~expectContinue => Entity(response) \subseteq consumed

\* 100 (Continue) is taken for the response only where no body can follow.
NotProvisional == generated = "100" => pipe = "none"

\* The queue of the connection lists an exchange while, and only while, it is
\* neither answered nor cancelled, and its request is read to the end or
\* closed once it has been answered.
PendingIffUnanswered ==
  /\ queued <=> submitted = {} /\ ~cancelled
  /\ ~queued => pipe # "open"

\* A response the container was told of is never replaced: its head may be on
\* the wire.
ResponseIsFinal == [][(generated \in Responses) => (response' = response)]_vars

\* A client that takes what it is sent: the output is writable until the whole
\* response is out.  No timeout sees to it (WebServer.java:202, 807-812).
ClientReads == WF_vars(produceContent)

\* Once the request has been read and a response submitted, in either order,
\* the response is sent to a client that reads, unless the connection is lost.
Answered ==
  ClientReads => ((exchange /\ submitted # {}) ~> io \in {"sent", "lost"})
=============================================================================
