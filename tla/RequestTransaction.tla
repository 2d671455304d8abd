------------------------- MODULE RequestTransaction -------------------------
(***************************************************************************)
(* The store transaction of one request: TransactionHandler, which opens   *)
(* it, commits or rolls it back and answers, around the handlers that run  *)
(* in the triaging thread (ResponseExceptionHandler, AuthenticationHandler *)
(* and the precondition handlers) and the PooledExecChain that passes the  *)
(* request to a handling thread.  A callback chain runs in one thread, so  *)
(* what a handler does between two threads is one action; the store may    *)
(* fail in any call.  A response that is streamed keeps its connection:    *)
(* closing the entity schedules endTransaction on the closing executor,    *)
(* whose one thread runs the tasks one after the other (WebServer.java:    *)
(* 182-184) and which nobody shuts down.                                   *)
(***************************************************************************)
EXTENDS Naturals, Sequences

CONSTANT Closers   \* the calls of CloseableEntity.finish() for one response

VARIABLES
  unsafe,      \* the request's method is not safe
  thread,      \* where the thread that runs the request is
  trans,       \* the context has a ResourceOperation
  con,         \* ObjectConnection: "none", "open", "closed"
  txn,         \* its transaction: "none", "active", "committed", "rolled back"
  abandoned,   \* the store failed so that nobody will close con
  stream,      \* the entity that reads con: "none", "open", "closed"
  closer,      \* endTransaction, scheduled each time the entity is closed
  failedLate,  \* an IOException in copyEntity, or an exception of the audit
               \* trail when the store has committed
  answers      \* the calls of the callback given to TransactionHandler

store == <<con, txn, abandoned>>
vars == <<unsafe, thread, trans, con, txn, abandoned, stream, closer,
          failedLate, answers>>

Init ==
  /\ unsafe \in BOOLEAN
  /\ thread = "triaging" /\ trans = FALSE
  /\ con = "none" /\ txn = "none" /\ abandoned = FALSE
  /\ stream = "none" /\ closer = [c \in Closers |-> "idle"]
  /\ failedLate = FALSE /\ answers = <<>>

\* A response is below 400 or an error; its entity is streamed (200 or 203 and
\* longer than a packet), copied, or absent.
Results == {[code |-> c, entity |-> e] :
              c \in {"ok", "error"}, e \in {"stream", "copy", "none"}}
             \ {[code |-> "error", entity |-> "stream"]}
Errors == {r \in Results : r.code = "error"}

Answer(a) == answers' = Append(answers, a)

-----------------------------------------------------------------------------
(* TransactionHandler.                                                     *)

RolledBack(t) == IF t = "active" THEN "rolled back" ELSE t

\* endTransaction of a transaction in state t; when the rollback fails, close
\* is not called, and close may fail too.
endTransaction(t) ==
  IF con = "open"
    THEN \/ con' = "closed" /\ txn' = RolledBack(t) /\ UNCHANGED abandoned
         \/ txn' \in {t, RolledBack(t)} /\ abandoned' = TRUE /\ UNCHANGED con
    ELSE UNCHANGED store

Commits(r) == unsafe /\ r.code = "ok"

\* seeded fault: the connection is left to the entity, also when there is none
createSafeHttpEntityLate(r) ==
  /\ Answer(r.code) /\ UNCHANGED <<con, abandoned, failedLate>>
  /\ txn' = IF Commits(r) THEN "committed" ELSE txn
  /\ stream' = IF r.entity = "stream" THEN "open" ELSE stream

\* The commit is in the finally clause: also after the copy has failed.
createSafeHttpEntity(r) ==
  LET t == IF Commits(r) THEN "committed" ELSE txn
  IN  \/ /\ r.entity = "stream"
         /\ stream' = "open" /\ txn' = t
         /\ Answer(r.code)
         /\ UNCHANGED <<con, abandoned, failedLate>>
      \/ /\ r.entity # "stream"
         /\ endTransaction(t)
         /\ Answer(r.code)
         /\ UNCHANGED <<stream, failedLate>>
      \/ /\ r.entity = "copy"
         /\ failedLate' = TRUE
         /\ endTransaction(t)
         /\ Answer("failed")
         /\ UNCHANGED stream

\* The commit fails, and then the request: in the store, or in the bookkeeping
\* that AuditingRepositoryConnection does when the store has committed.
commitFails(r) ==
  /\ Commits(r)
  /\ \/ endTransaction(txn) /\ UNCHANGED failedLate
     \/ endTransaction("committed") /\ failedLate' = TRUE
  /\ Answer("failed")
  /\ UNCHANGED stream

clearContextKept == UNCHANGED trans   \* seeded fault: the context is kept
clearContext == trans' = FALSE

completed(r) ==
  /\ createSafeHttpEntity(r) \/ commitFails(r)
  /\ clearContext
  /\ UNCHANGED <<unsafe, closer>>

\* seeded fault: super.cancelled() is not called
cancelledSilently(calls) ==
  /\ endTransaction(txn)
  /\ clearContext
  /\ UNCHANGED <<unsafe, stream, closer, failedLate, answers>>

cancelled(calls) ==
  /\ endTransaction(txn)
  /\ clearContext
  /\ answers' = answers \o calls
  /\ UNCHANGED <<unsafe, stream, closer, failedLate>>

\* No repository for the origin: CompletedResponse with 503.
notSetup ==
  /\ thread = "triaging" /\ thread' = "done"
  /\ Answer("error")
  /\ UNCHANGED <<unsafe, trans, store, stream, closer, failedLate>>

\* getConnection, begin or initiateActivity throws: the latter two outside of
\* the try block that would end the transaction.
executeFails ==
  /\ thread = "triaging" /\ thread' = "done"
  /\ \/ UNCHANGED store
     \/ con' = "open" /\ txn' \in {"none", "active"} /\ abandoned' = TRUE
  /\ Answer("failed")
  /\ UNCHANGED <<unsafe, trans, stream, closer, failedLate>>

execute ==
  /\ thread = "triaging" /\ thread' = "delegated"
  /\ con' = "open" /\ txn' = "active" /\ trans' = TRUE
  /\ UNCHANGED <<unsafe, abandoned, stream, closer, failedLate, answers>>

-----------------------------------------------------------------------------
(* The handlers inside.                                                    *)

\* A response from a handler, or its exception, turned into an error response
\* by ResponseExceptionHandler.
respond ==
  /\ thread \in {"delegated", "handling"} /\ thread' = "done"
  /\ \E r \in Results : completed(r)

\* An Error: in the triaging thread it passes TransactionHandler and is
\* reported by the PooledExecChain; in a handling thread BlockingExecChain
\* cancels, and then PooledExecChain cancels again.
raiseError ==
  /\ thread \in {"delegated", "handling"} /\ thread' = "done"
  /\ cancelled(IF thread = "delegated" THEN <<"cancelled">>
                                       ELSE <<"cancelled", "cancelled">>)

\* AuthenticationHandler fails the request after an exception of the store ...
authenticationFails ==
  /\ thread = "delegated" /\ thread' = "failed"
  /\ \E r \in Errors : completed(r)

\* ... and goes on: without a ResourceOperation the next handler, and after it
\* ResponseExceptionHandler, throw NullPointerException.
goesOn ==
  /\ thread = "failed"
  /\ IF trans
       THEN thread' = "handling" /\ UNCHANGED <<store, answers>>
       ELSE thread' = "done" /\ endTransaction(txn) /\ Answer("failed")
  /\ UNCHANGED <<unsafe, trans, stream, closer, failedLate>>

\* PooledExecChain: the handling pool takes the request or rejects it.
submit ==
  /\ thread = "delegated" /\ thread' = "handling"
  /\ UNCHANGED <<unsafe, trans, store, stream, closer, failedLate, answers>>

reject ==
  /\ thread = "delegated" /\ thread' = "done"
  /\ cancelled(<<"cancelled">>)

-----------------------------------------------------------------------------
(* The streamed entity and the closing executor.                           *)

\* close() calls finish() itself and, if the entity was read, once more by
\* closing its stream.
closeEntity ==
  /\ stream = "open" /\ stream' = "closed"
  /\ \E calls \in (SUBSET Closers) \ {{}} :
       closer' = [c \in Closers |-> IF c \in calls THEN "scheduled" ELSE "idle"]
  /\ UNCHANGED <<unsafe, thread, trans, store, failedLate, answers>>

Runs(c) ==
  /\ closer[c] = "scheduled"
  /\ closer' = [closer EXCEPT ![c] = "done"]
  /\ UNCHANGED <<unsafe, thread, trans, stream, failedLate, answers>>

endTransactionSkipped(c) ==   \* seeded fault: rolled back and not closed
  Runs(c) /\ txn' = RolledBack(txn) /\ UNCHANGED <<con, abandoned>>

\* The second task finds the connection closed, or one whose rollback has
\* failed and tries again.
endTransactionLater(c) == Runs(c) /\ endTransaction(txn)

Request == \/ notSetup \/ executeFails \/ execute
           \/ respond \/ raiseError \/ authenticationFails \/ goesOn
           \/ submit \/ reject

Next == Request \/ closeEntity \/ \E c \in Closers : endTransactionLater(c)

Spec == Init /\ [][Next]_vars

\* Fairness of threads: a handler returns (one that reads the request's body
\* with a client that goes on, see AsyncPipe), and the closing executor runs
\* what it has accepted.  Nothing makes a client take a response: no timeout
\* ends its connection (WebServer.java:202, 807-812).
Fairness == /\ WF_vars(Request)
            /\ \A c \in Closers : WF_vars(endTransactionLater(c))
FairSpec == Spec /\ Fairness

-----------------------------------------------------------------------------
(* Properties.                                                             *)

\* Every variable has its type.
TypeOK ==
  /\ unsafe \in BOOLEAN /\ trans \in BOOLEAN
  /\ thread \in {"triaging", "delegated", "failed", "handling", "done"}
  /\ con \in {"none", "open", "closed"}
  /\ txn \in {"none", "active", "committed", "rolled back"}
  /\ abandoned \in BOOLEAN /\ failedLate \in BOOLEAN
  /\ stream \in {"none", "open", "closed"}
  /\ closer \in [Closers -> {"idle", "scheduled", "done"}]
  /\ answers \in Seq({"ok", "error", "failed", "cancelled"})

\* A client that is told of success finds its changes in the store: whatever
\* the form of the entity and whatever fails, they were committed first.
SuccessIsDurable == unsafe /\ "ok" \in {answers[i] : i \in DOMAIN answers}
                      => txn = "committed"

\* Nothing is committed for a request that is answered with an error, nor for
\* a safe one - but for a response whose entity could not be copied, and a
\* change whose end the audit trail could not record: these are committed and
\* answered with an error.
ErrorIsRolledBack ==
  txn = "committed" => unsafe /\ (answers[1] = "ok" \/ failedLate)

\* A streamed entity is produced from an open connection.
StreamReadsOpenStore == stream = "open" => con = "open"

\* When the request is over its connection is closed or somebody will close it.
NotForgotten ==
  thread = "done" /\ con = "open" =>
    \/ abandoned \/ stream = "open"
    \/ \E c \in Closers : closer[c] = "scheduled"

\* The connection of a response lives as long as somebody needs it, and no
\* longer without somebody who will close it: it is open while its entity is
\* streamed, and never forgotten afterwards, however often the entity is closed
\* (createSafeHttpEntity:202-234, endTransaction:238-247, endEntity:266-281).
ConnectionOwned == StreamReadsOpenStore /\ NotForgotten

\* The callback is called more than once - after an authentication failure, or
\* an Error - but only the first call can carry a response, and the handler of
\* the resource never runs after it.
FirstAnswerCounts ==
  /\ \A i \in DOMAIN answers \ {1} : answers[i] \in {"failed", "cancelled"}
  /\ answers # <<>> => thread # "handling"

\* One request has one outcome: what the first call of the callback tells and
\* what the store keeps are decided in one step, agree as Outcome wants it, and
\* no later call, rollback or closing task changes either: neither a chain that
\* goes on after it has failed nor an entity closed after the answer
\* (TransactionHandler.java:107-118, 153-186, 203-281).
Decision == INSTANCE Outcome WITH
              writes <- unsafe,
              told   <- IF answers = <<>> THEN "nothing"
                        ELSE IF answers[1] = "ok" THEN "ok" ELSE "error",
              kept   <- txn = "committed",
              late   <- failedLate

DecidedOnce == Decision!Spec

\* The connection of every request is closed, unless the store failed in a
\* call that leaves it open, or the response is streamed to a client that has
\* not taken it yet: one that stalls keeps the connection for ever, and once
\* its entity is closed, by the end of it or a lost connection, so is the
\* store's.
ConnectionEnds ==
  con = "open" ~> con = "closed" \/ abandoned \/ stream = "open"

\* Every request is answered.
RequestAnswered == <>(answers # <<>>)
=============================================================================
