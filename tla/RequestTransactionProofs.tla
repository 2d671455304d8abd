---------------------- MODULE RequestTransactionProofs ----------------------
(* The safety properties of RequestTransaction, however many tasks close the *)
(* entity of a response.                                                     *)
EXTENDS RequestTransaction, SequenceTheorems, TLAPS

Txns == {"none", "active", "committed", "rolled back"}
Codes == {"ok", "error", "failed", "cancelled"}
Inside == {"delegated", "handling"}

(* Before the request is passed on there is nothing to end; inside of the    *)
(* handlers the transaction is open and nobody has been answered; a request  *)
(* that has failed and goes on has lost its context and its transaction.     *)
Untouched ==
  thread = "triaging" =>
    con = "none" /\ txn = "none" /\ stream = "none" /\ answers = <<>>
Begun ==
  thread \in Inside =>
    con = "open" /\ txn = "active" /\ stream = "none" /\ answers = <<>>
Refused ==
  thread = "failed" =>
    /\ ~trans /\ Len(answers) = 1 /\ answers[1] # "ok"
    /\ stream = "none" /\ (con = "open" => abandoned)

(* The closing tasks belong to the entity that was streamed.                 *)
Scheduled == stream # "closed" => \A c \in Closers : closer[c] = "idle"

Safe ==
  /\ SuccessIsDurable /\ ErrorIsRolledBack /\ StreamReadsOpenStore
  /\ NotForgotten /\ FirstAnswerCounts

IInv == TypeOK /\ Untouched /\ Begun /\ Refused /\ Scheduled /\ Safe

-----------------------------------------------------------------------------
(* Typing; the truth values are typed apart from the rest.                   *)

Flags == /\ unsafe \in BOOLEAN /\ trans \in BOOLEAN
         /\ abandoned \in BOOLEAN /\ failedLate \in BOOLEAN

Values ==
  /\ thread \in {"triaging", "delegated", "failed", "handling", "done"}
  /\ con \in {"none", "open", "closed"} /\ txn \in Txns
  /\ stream \in {"none", "open", "closed"}
  /\ closer \in [Closers -> {"idle", "scheduled", "done"}]
  /\ answers \in Seq(Codes)

LEMMA Typed == TypeOK <=> Flags /\ Values
BY Zenon DEF TypeOK, Flags, Values, Txns, Codes

LEMMA FlagsInit == Init => Flags
BY Zenon DEF Init, Flags

LEMMA FlagsStep == Flags /\ [Next]_vars => Flags'
<1> SUFFICES ASSUME Flags, [Next]_vars PROVE Flags'
  OBVIOUS
<1> USE DEF Flags, store, endTransaction, clearContext
<1>1. ASSUME NEW r, completed(r) PROVE Flags'
  BY <1>1, Zenon DEF completed, createSafeHttpEntity, commitFails
<1>2. ASSUME NEW calls, cancelled(calls) PROVE Flags'
  BY <1>2, Zenon DEF cancelled
<1>3. CASE notSetup
  BY <1>3, Zenon DEF notSetup
<1>4. CASE executeFails
  BY <1>4, Zenon DEF executeFails
<1>5. CASE execute
  BY <1>5, Zenon DEF execute
<1>6. CASE respond \/ authenticationFails
  BY <1>1, <1>6, Zenon DEF respond, authenticationFails
<1>7. CASE raiseError \/ reject
  BY <1>2, <1>7, Zenon DEF raiseError, reject
<1>8. CASE goesOn
  BY <1>8, Zenon DEF goesOn
<1>9. CASE submit
  BY <1>9, Zenon DEF submit
<1>10. CASE closeEntity
  BY <1>10, Zenon DEF closeEntity
<1>11. ASSUME NEW c \in Closers, endTransactionLater(c) PROVE Flags'
  BY <1>11, Zenon DEF endTransactionLater, Runs
<1>12. CASE UNCHANGED vars
  BY <1>12, Zenon DEF vars
<1> QED
  BY <1>3, <1>4, <1>5, <1>6, <1>7, <1>8, <1>9, <1>10, <1>11, <1>12, Zenon
  DEF Next, Request

-----------------------------------------------------------------------------
(* A transaction that is ended from the state t: it is committed only if it  *)
(* was, and whatever the store does nobody is left to close the connection.  *)
LEMMA Ends ==
  ASSUME Flags, con = "open", NEW t \in Txns, endTransaction(t)
  PROVE  /\ con' \in {"open", "closed"} /\ txn' \in Txns
         /\ txn' = "committed" <=> t = "committed"
         /\ con' = "open" => abandoned'
<1>1. abandoned' = TRUE => abandoned'
  OBVIOUS
<1> QED
  BY <1>1 DEF endTransaction, RolledBack, Txns

(* Short sequences.                                                          *)
LEMMA Short ==
  ASSUME NEW S, NEW a \in S, NEW b \in S
  PROVE  /\ <<>> \in Seq(S) /\ <<a>> \in Seq(S) /\ <<a, b>> \in Seq(S)
         /\ <<a>>[1] = a /\ <<a, b>>[1] = a
OBVIOUS

LEMMA Second ==
  ASSUME NEW S, NEW s \in Seq(S), Len(s) = 1, NEW e \in S
  PROVE  /\ Append(s, e) \in Seq(S) /\ Len(Append(s, e)) = 2
         /\ Append(s, e)[1] = s[1] /\ Append(s, e)[2] = e
<1>1. /\ Append(s, e) \in Seq(S) /\ Len(Append(s, e)) = Len(s) + 1
      /\ \A i \in 1..Len(s) : Append(s, e)[i] = s[i]
      /\ Append(s, e)[Len(s) + 1] = e
  BY AppendProperties, SMTT(30)
<1>2. Len(s) + 1 = 2 /\ 1 \in 1..Len(s)
  OBVIOUS
<1>3. Append(s, e)[2] = e /\ Append(s, e)[1] = s[1]
  BY <1>1, <1>2, Zenon
<1> QED
  BY <1>1, <1>2, <1>3, Zenon

(* One answer, to a request that has had none.                               *)
LEMMA First ==
  ASSUME answers = <<>>, NEW a, Answer(a)
  PROVE  answers' = <<a>>
BY DEF Answer

(* What completed(r) makes of a request inside of the handlers.              *)
Ended == con' \in {"open", "closed"} /\ (con' = "open" => abandoned')
Streams(r) == stream' = "open" /\ con' = "open" /\ r.code = "ok"
Completed(r) ==
  /\ txn' \in Txns /\ ~trans' /\ UNCHANGED <<unsafe, closer>>
  /\ (stream' = "none" /\ Ended) \/ Streams(r)
  /\ \E a \in Codes :
       /\ answers' = <<a>> /\ a \in {r.code, "failed"}
       /\ a = "ok" /\ unsafe => txn' = "committed"
       /\ txn' = "committed" => unsafe /\ (a = "ok" \/ failedLate')

LEMMA Completes ==
  ASSUME Flags, Flags', Begun, thread \in Inside,
         NEW r \in Results, completed(r)
  PROVE  Completed(r)
<1>1. con = "open" /\ txn = "active" /\ stream = "none" /\ answers = <<>>
  BY DEF Begun
<1>2. r.code \in {"ok", "error"} /\ (r.entity = "stream" => r.code = "ok")
  BY DEF Results
<1>3. ~trans' /\ UNCHANGED <<unsafe, closer>>
  BY Zenon DEF completed, clearContext
<1>4. /\ "active" \in Txns /\ "committed" \in Txns
      /\ r.code \in Codes /\ "failed" \in Codes
  BY <1>2 DEF Txns, Codes
<1>5. (Commits(r) => unsafe /\ r.code = "ok")
      /\ (unsafe /\ r.code = "ok" => Commits(r))
  BY Zenon DEF Commits
<1> DEFINE t == IF Commits(r) THEN "committed" ELSE txn
<1>6. t \in Txns /\ (t = "committed" <=> Commits(r))
  BY <1>1, <1>4
<1> HIDE DEF t
<1>7. CASE r.entity = "stream" /\ stream' = "open" /\ txn' = t
           /\ Answer(r.code) /\ UNCHANGED <<con, abandoned, failedLate>>
  <2>1. answers' = <<r.code>>
    BY <1>1, <1>7, First
  <2>2. Streams(r)
    BY <1>1, <1>2, <1>7 DEF Streams
  <2>3. /\ r.code = "ok" /\ unsafe => txn' = "committed"
        /\ txn' = "committed" => unsafe /\ r.code = "ok"
    BY <1>5, <1>6, <1>7, Zenon
  <2> QED
    BY <1>3, <1>4, <1>6, <1>7, <2>1, <2>2, <2>3, Zenon DEF Completed
<1>8. ASSUME NEW s \in Txns, NEW a \in Codes, endTransaction(s), Answer(a),
             UNCHANGED stream, a \in {r.code, "failed"},
             a = "ok" /\ unsafe => s = "committed",
             s = "committed" => unsafe /\ (a = "ok" \/ failedLate')
      PROVE  Completed(r)
  <2>1. answers' = <<a>>
    BY <1>1, <1>8, First
  <2>2. /\ txn' \in Txns /\ (txn' = "committed" <=> s = "committed")
        /\ stream' = "none" /\ Ended
    BY <1>1, <1>8, Ends DEF Ended
  <2>3. /\ a = "ok" /\ unsafe => txn' = "committed"
        /\ txn' = "committed" => unsafe /\ (a = "ok" \/ failedLate')
    BY <1>8, <2>2, Zenon
  <2> QED
    BY <1>3, <1>8, <2>1, <2>2, <2>3, Zenon DEF Completed
<1>9. CASE endTransaction(t) /\ Answer(r.code) /\ UNCHANGED stream
  <2>1. /\ r.code = "ok" /\ unsafe => t = "committed"
        /\ t = "committed" => unsafe /\ (r.code = "ok" \/ failedLate')
    BY <1>5, <1>6, Zenon
  <2> QED
    BY <1>4, <1>6, <1>8, <1>9, <2>1
<1>10. CASE failedLate' = TRUE /\ endTransaction(t) /\ Answer("failed")
            /\ UNCHANGED stream
  <2>1. t = "committed" => unsafe /\ ("failed" = "ok" \/ failedLate')
    BY <1>5, <1>6, <1>10, Zenon
  <2> QED
    BY <1>4, <1>6, <1>8, <1>10, <2>1
<1>11. CASE commitFails(r)
  <2>1. Answer("failed") /\ UNCHANGED stream /\ unsafe
    BY <1>5, <1>11, Zenon DEF commitFails
  <2>2. CASE endTransaction(txn)
    BY <1>1, <1>4, <1>8, <2>1, <2>2
  <2>3. CASE endTransaction("committed") /\ failedLate' = TRUE
    <3>1. "committed" = "committed" =>
            unsafe /\ ("failed" = "ok" \/ failedLate')
      BY <2>1, <2>3, Zenon
    <3> QED
      BY <1>4, <1>8, <2>1, <2>3, <3>1
  <2> QED
    BY <1>11, <2>2, <2>3, Zenon DEF commitFails
<1>12. CASE createSafeHttpEntity(r)
  BY <1>7, <1>9, <1>10, <1>12, Zenon DEF createSafeHttpEntity, t
<1> QED
  BY <1>11, <1>12, Zenon DEF completed

-----------------------------------------------------------------------------
(* The invariant.                                                            *)

LEMMA InvInit == Init => IInv
<1> SUFFICES ASSUME Init PROVE IInv
  OBVIOUS
<1> USE DEF Init
<1>1. Values
  BY DEF Values, Txns
<1>2. Untouched /\ Begun /\ Refused /\ Scheduled
  BY DEF Untouched, Begun, Refused, Scheduled, Inside
<1>3. Safe
  BY DEF Safe, SuccessIsDurable, ErrorIsRolledBack, StreamReadsOpenStore,
         NotForgotten, FirstAnswerCounts
<1> QED
  BY <1>1, <1>2, <1>3, FlagsInit, Typed DEF IInv

(* A step that ends the handling of a request, or makes it go on failed,     *)
(* when nobody was answered before.                                          *)
LEMMA Over ==
  ASSUME IInv, Flags', thread \in Inside, thread' \in {"done", "failed"},
         txn' \in Txns, closer' = closer, unsafe' = unsafe,
         NEW a \in Codes, answers' = <<a>> \/ answers' = <<a, "cancelled">>,
         (stream' = "none" /\ Ended) \/ (stream' = "open" /\ con' = "open"),
         a = "ok" /\ unsafe => txn' = "committed",
         txn' = "committed" => unsafe /\ (a = "ok" \/ failedLate'),
         thread' = "failed" =>
           ~trans' /\ a # "ok" /\ answers' = <<a>> /\ stream' = "none"
  PROVE  IInv'
<1>1. Values /\ Scheduled /\ stream = "none"
  BY Typed DEF IInv, Begun
<1>2. answers' \in Seq(Codes) /\ answers'[1] = a
  <2>1. "cancelled" \in Codes
    BY DEF Codes
  <2> QED
    BY <2>1, Short
<1>3. Values'
  BY <1>1, <1>2 DEF Values, Ended
<1>4. TypeOK'
  <2>1. Flags' /\ Values' => TypeOK'
    BY Typed, PTL
  <2> QED
    BY <1>3, <2>1
<1>5. Untouched' /\ Begun' /\ Scheduled'
  BY <1>1 DEF Untouched, Begun, Scheduled, Inside
<1>6. Refused'
  BY DEF Refused, Ended
<1>7. \A i \in DOMAIN answers' : i # 1 => answers'[i] = "cancelled"
  OBVIOUS
<1>8. SuccessIsDurable'
  <2>1. "ok" \in {answers'[i] : i \in DOMAIN answers'} => a = "ok"
    BY <1>2, <1>7
  <2> QED
    BY <2>1, Zenon DEF SuccessIsDurable
<1>9. ErrorIsRolledBack'
  BY <1>2, Zenon DEF ErrorIsRolledBack
<1>10. StreamReadsOpenStore' /\ NotForgotten' /\ FirstAnswerCounts'
  BY <1>7 DEF StreamReadsOpenStore, NotForgotten, FirstAnswerCounts, Ended
<1> QED
  BY <1>4, <1>5, <1>6, <1>8, <1>9, <1>10 DEF IInv, Safe

LEMMA InvStep == IInv /\ [Next]_vars => IInv'
<1> SUFFICES ASSUME IInv, [Next]_vars PROVE IInv'
  OBVIOUS
<1>f. Flags /\ Flags' /\ Values
  BY Typed, FlagsStep DEF IInv
<1>t. Flags' /\ Values' => TypeOK'
  BY Typed, PTL
<1>b. Begun /\ "cancelled" \in Codes /\ "failed" \in Codes /\ "ok" \in Codes
      /\ "error" \in Codes
  BY DEF IInv, Codes
<1> USE DEF store
<1>1. CASE notSetup \/ executeFails
  <2>1. \E a \in {"error", "failed"} : answers' = <<a>>
    BY <1>1, First DEF notSetup, executeFails, IInv, Untouched
  <2>2. /\ thread' = "done" /\ stream' = "none"
        /\ txn' \in {"none", "active"} /\ closer' = closer
        /\ con' \in {"none", "open"} /\ (con' = "open" => abandoned')
    <3>1. CASE notSetup
      BY <1>1, <3>1 DEF notSetup, IInv, Untouched
    <3>2. CASE executeFails
      BY <1>1, <3>2 DEF executeFails, IInv, Untouched
    <3> QED
      BY <1>1, <3>1, <3>2
  <2>3. Values'
    <3>1. answers' \in Seq(Codes)
      BY <1>b, <2>1, Short
    <3> QED
      BY <1>f, <2>2, <3>1 DEF Values, Txns
  <2>4. Untouched' /\ Begun' /\ Refused' /\ Scheduled'
    BY <1>1, <2>2 DEF notSetup, executeFails, IInv, Untouched, Begun, Refused,
                      Scheduled, Inside
  <2>5. Safe'
    BY <2>1, <2>2 DEF Safe, SuccessIsDurable, ErrorIsRolledBack,
       StreamReadsOpenStore, NotForgotten, FirstAnswerCounts
  <2> QED
    BY <1>f, <1>t, <2>3, <2>4, <2>5 DEF IInv
<1>2. CASE execute \/ submit
  <2>1. /\ thread' \in Inside /\ con' = "open" /\ txn' = "active"
        /\ stream' = "none" /\ answers' = <<>> /\ closer' = closer
    BY <1>2 DEF execute, submit, IInv, Untouched, Begun, Inside
  <2>2. Values'
    <3>1. <<>> \in Seq(Codes)
      BY <1>b, Short
    <3> QED
      BY <1>f, <2>1, <3>1 DEF Values, Txns, Inside
  <2>3. Untouched' /\ Begun' /\ Refused' /\ Scheduled'
    BY <1>2, <2>1 DEF execute, submit, IInv, Untouched, Begun, Refused,
                      Scheduled, Inside
  <2>4. Safe'
    BY <2>1 DEF Safe, SuccessIsDurable, ErrorIsRolledBack, Inside,
       StreamReadsOpenStore, NotForgotten, FirstAnswerCounts
  <2> QED
    BY <1>f, <1>t, <2>2, <2>3, <2>4 DEF IInv
<1>3. CASE respond \/ authenticationFails
  <2>1. thread \in Inside /\ thread' \in {"done", "failed"}
    BY <1>3 DEF respond, authenticationFails, Inside
  <2>2. PICK r \in Results :
          completed(r) /\ (thread' = "failed" => r.code = "error")
    BY <1>3 DEF respond, authenticationFails, Errors
  <2>3. Completed(r)
    BY <1>f, <1>b, <2>1, <2>2, Completes
  <2>4. PICK a \in Codes :
          /\ answers' = <<a>> /\ a \in {r.code, "failed"}
          /\ a = "ok" /\ unsafe => txn' = "committed"
          /\ txn' = "committed" => unsafe /\ (a = "ok" \/ failedLate')
    BY <2>3, Zenon DEF Completed
  <2>5. /\ txn' \in Txns /\ ~trans' /\ UNCHANGED <<unsafe, closer>>
        /\ (stream' = "none" /\ Ended) \/ Streams(r)
    BY <2>3, Zenon DEF Completed
  <2>6. thread' = "failed" => a # "ok" /\ stream' = "none"
    BY <2>2, <2>4, <2>5 DEF Streams
  <2> QED
    <3>1. (stream' = "none" /\ Ended) \/ (stream' = "open" /\ con' = "open")
      BY <2>5, Zenon DEF Streams
    <3>2. unsafe' = unsafe /\ closer' = closer
      BY <2>5
    <3> QED
      BY <1>f, <2>1, <2>4, <2>5, <2>6, <3>1, <3>2, Over, Zenon
<1>4. CASE raiseError \/ reject
  <2>1. thread \in Inside /\ thread' = "done"
    BY <1>4 DEF raiseError, reject, Inside
  <2>2. PICK calls \in {<<"cancelled">>, <<"cancelled", "cancelled">>} :
          cancelled(calls)
    BY <1>4 DEF raiseError, reject
  <2>3. con = "open" /\ txn = "active" /\ stream = "none" /\ answers = <<>>
    BY <2>1 DEF IInv, Begun
  <2>4. /\ answers' = <<"cancelled">> \/ answers' = <<"cancelled", "cancelled">>
        /\ UNCHANGED <<unsafe, stream, closer>> /\ endTransaction(txn)
    BY <2>2, <2>3 DEF cancelled
  <2>5. txn' \in Txns /\ txn' # "committed" /\ Ended
    <3>1. txn \in Txns
      BY <2>3 DEF Txns
    <3> QED
      BY <1>f, <2>3, <2>4, <3>1, Ends DEF Ended
  <2>6. stream' = "none" /\ unsafe' = unsafe /\ closer' = closer
    BY <2>3, <2>4
  <2>7. /\ "cancelled" # "ok" /\ thread' # "failed"
        /\ thread' \in {"done", "failed"}
    BY <2>1
  <2>8. (stream' = "none" /\ Ended) \/ (stream' = "open" /\ con' = "open")
    BY <2>5, <2>6, Zenon
  <2> QED
    BY <1>f, <1>b, <2>1, <2>4, <2>5, <2>6, <2>7, <2>8, Over, Zenon
<1>5. CASE goesOn
  <2>1. /\ thread = "failed" /\ thread' = "done" /\ endTransaction(txn)
        /\ Answer("failed") /\ UNCHANGED <<unsafe, stream, closer, failedLate>>
    BY <1>5, Zenon DEF goesOn, IInv, Refused
  <2>2. Len(answers) = 1 /\ answers[1] # "ok" /\ stream = "none"
        /\ (con = "open" => abandoned)
    BY <2>1 DEF IInv, Refused
  <2>3. /\ Len(answers') = 2 /\ answers'[1] = answers[1]
        /\ answers'[2] = "failed" /\ answers' \in Seq(Codes)
    BY <1>f, <1>b, <2>1, <2>2, Second DEF Answer, Values
  <2>4. /\ con' \in {"none", "open", "closed"} /\ txn' \in Txns
        /\ (txn' = "committed" => txn = "committed")
        /\ (con' = "open" => abandoned')
    <3>1. CASE con = "open"
      BY <1>f, <2>1, <3>1, Ends DEF Values
    <3>2. CASE con # "open"
      BY <1>f, <2>1, <3>2 DEF Values, endTransaction
    <3> QED
      BY <3>1, <3>2
  <2>5. Values'
    BY <1>f, <2>1, <2>3, <2>4 DEF Values
  <2>6. Untouched' /\ Begun' /\ Refused' /\ Scheduled'
    BY <2>1 DEF IInv, Untouched, Begun, Refused, Scheduled, Inside
  <2>7. SuccessIsDurable'
    <3>1. \A i \in DOMAIN answers' : answers'[i] # "ok"
      BY <2>2, <2>3
    <3> QED
      BY <3>1 DEF SuccessIsDurable
  <2>8. ErrorIsRolledBack'
    BY <2>1, <2>3, <2>4, Zenon DEF IInv, Safe, ErrorIsRolledBack
  <2>9. StreamReadsOpenStore' /\ NotForgotten' /\ FirstAnswerCounts'
    BY <2>1, <2>2, <2>3, <2>4
    DEF StreamReadsOpenStore, NotForgotten, FirstAnswerCounts
  <2> QED
    BY <1>f, <1>t, <2>5, <2>6, <2>7, <2>8, <2>9 DEF IInv, Safe
<1>6. CASE closeEntity
  <2>1. /\ stream = "open" /\ stream' = "closed"
        /\ UNCHANGED <<unsafe, thread, trans, con, txn, abandoned, failedLate,
                       answers>>
    BY <1>6 DEF closeEntity
  <2>2. PICK calls \in (SUBSET Closers) \ {{}} :
          closer' = [c \in Closers |->
                       IF c \in calls THEN "scheduled" ELSE "idle"]
    BY <1>6 DEF closeEntity
  <2>3. \E c \in Closers : closer'[c] = "scheduled"
    <3>1. PICK c \in Closers : c \in calls
      <4>1. calls \subseteq Closers /\ calls # {}
        BY <2>2
      <4> QED
        BY <4>1
    <3>2. closer'[c] = "scheduled"
      BY <2>2, <3>1
    <3> QED
      BY <3>2
  <2>4. Values'
    BY <1>f, <2>1, <2>2 DEF Values
  <2>5. thread = "done"
    BY <1>f, <2>1 DEF IInv, Values, Untouched, Begun, Refused, Inside
  <2>6. Untouched' /\ Begun' /\ Refused' /\ Scheduled'
    BY <2>1, <2>5 DEF Untouched, Begun, Refused, Scheduled, Inside
  <2>7. SuccessIsDurable' /\ ErrorIsRolledBack' /\ FirstAnswerCounts'
    BY <2>1, Zenon DEF IInv, Safe, SuccessIsDurable, ErrorIsRolledBack,
                       FirstAnswerCounts
  <2>8. StreamReadsOpenStore' /\ NotForgotten'
    BY <2>1, <2>3 DEF StreamReadsOpenStore, NotForgotten
  <2> QED
    BY <1>f, <1>t, <2>4, <2>6, <2>7, <2>8 DEF IInv, Safe
<1>7. ASSUME NEW c \in Closers, endTransactionLater(c) PROVE IInv'
  <2>1. /\ UNCHANGED <<unsafe, thread, trans, stream, failedLate, answers>>
        /\ closer[c] = "scheduled" /\ endTransaction(txn)
        /\ closer' = [closer EXCEPT ![c] = "done"]
    BY <1>7 DEF endTransactionLater, Runs
  <2>3. stream = "closed"
    BY <2>1 DEF IInv, Scheduled
  <2>4. thread = "done"
    BY <1>f, <2>3 DEF IInv, Values, Untouched, Begun, Refused, Inside
  <2>5. /\ con' \in {"none", "open", "closed"} /\ txn' \in Txns
        /\ (txn' = "committed" <=> txn = "committed")
        /\ con' = "open" => abandoned'
    <3>1. CASE con = "open"
      BY <1>f, <2>1, <3>1, Ends DEF Values
    <3>2. CASE con # "open"
      BY <1>f, <2>1, <3>2 DEF endTransaction, Values
    <3> QED
      BY <3>1, <3>2
  <2>6. Values'
    BY <1>f, <2>1, <2>5 DEF Values
  <2>7. Untouched' /\ Begun' /\ Refused' /\ Scheduled'
    BY <2>1, <2>3, <2>4 DEF Untouched, Begun, Refused, Scheduled, Inside
  <2>8. SuccessIsDurable' /\ ErrorIsRolledBack' /\ FirstAnswerCounts'
    BY <2>1, <2>5, Zenon DEF IInv, Safe, SuccessIsDurable, ErrorIsRolledBack,
                             FirstAnswerCounts
  <2>9. StreamReadsOpenStore'
    BY <2>1, <2>3 DEF StreamReadsOpenStore
  <2>10. NotForgotten'
    BY <2>5 DEF NotForgotten
  <2> QED
    BY <1>f, <1>t, <2>6, <2>7, <2>8, <2>9, <2>10 DEF IInv, Safe
<1>8. CASE UNCHANGED vars
  <2>1. UNCHANGED <<thread, unsafe, trans, con, txn, abandoned, failedLate,
                    stream, closer, answers>>
    BY <1>8 DEF vars, store
  <2>2. Untouched' /\ Begun' /\ Refused' /\ Scheduled'
    BY <2>1, Zenon DEF IInv, Untouched, Begun, Refused, Scheduled, Inside
  <2>3. TypeOK'
    BY <2>1, Zenon DEF IInv, TypeOK
  <2>4. SuccessIsDurable' /\ ErrorIsRolledBack' /\ FirstAnswerCounts'
    BY <2>1, Zenon DEF IInv, Safe, SuccessIsDurable, ErrorIsRolledBack,
                       FirstAnswerCounts
  <2>5. StreamReadsOpenStore' /\ NotForgotten'
    BY <2>1, Zenon DEF IInv, Safe, StreamReadsOpenStore, NotForgotten
  <2> QED
    BY <2>2, <2>3, <2>4, <2>5, Zenon DEF IInv, Safe
<1> QED
  BY <1>1, <1>2, <1>3, <1>4, <1>5, <1>6, <1>7, <1>8, Zenon DEF Next, Request

LEMMA Invariance == Spec => []IInv
BY InvInit, InvStep, PTL DEF Spec

(* Every variable of a request's transaction keeps its type.                 *)
THEOREM TransactionTypes == Spec => []TypeOK
<1>1. IInv => TypeOK
  BY DEF IInv
<1> QED
  BY <1>1, Invariance, PTL

(* A client that is told of success finds its changes in the store.          *)
THEOREM AnswersAreTrue == Spec => []SuccessIsDurable
<1>1. IInv => SuccessIsDurable
  BY DEF IInv, Safe
<1> QED
  BY <1>1, Invariance, PTL

(* Nothing is committed for a client that is told of an error, but in the    *)
(* two cases where the error comes after the commit.                         *)
THEOREM ErrorsAreRolledBack == Spec => []ErrorIsRolledBack
<1>1. IInv => ErrorIsRolledBack
  BY DEF IInv, Safe
<1> QED
  BY <1>1, Invariance, PTL

(* A streamed entity reads an open connection, and one that is still open    *)
(* when the request is over is somebody's to close, however often the entity *)
(* of the response is closed.                                                *)
THEOREM ConnectionsAreOwned == Spec => []ConnectionOwned
<1>1. IInv => ConnectionOwned
  BY DEF IInv, Safe, ConnectionOwned
<1> QED
  BY <1>1, Invariance, PTL

(* Only the first call of the callback carries a response, and the handler   *)
(* of the resource does not run after it.                                    *)
THEOREM OneAnswer == Spec => []FirstAnswerCounts
<1>1. IInv => FirstAnswerCounts
  BY DEF IInv, Safe
<1> QED
  BY <1>1, Invariance, PTL
(* A thread that is done with a request has answered it.                     *)
DoneIsAnswered == thread = "done" => answers # <<>>

LEMMA AnswerStep == IInv /\ DoneIsAnswered /\ [Next]_vars => DoneIsAnswered'
<1> SUFFICES ASSUME IInv, DoneIsAnswered, [Next]_vars, thread' = "done"
             PROVE  answers' # <<>>
  BY DEF DoneIsAnswered
<1>f. Flags /\ Flags' /\ Values /\ Begun
  BY Typed, FlagsStep DEF IInv
<1>c. "failed" \in Codes /\ "error" \in Codes
  BY DEF Codes
<1>1. CASE thread = "done"
  <2>1. answers # <<>>
    BY <1>1 DEF DoneIsAnswered
  <2>2. answers' = answers
    BY <1>1 DEF Runs, Next, Request, notSetup, executeFails, execute, respond,
       raiseError, authenticationFails, goesOn, submit, reject, closeEntity,
       endTransactionLater, vars
  <2> QED
    BY <2>1, <2>2
<1>2. CASE notSetup \/ executeFails \/ goesOn
  <2>1. Answer("error") \/ Answer("failed")
    BY <1>2, Zenon DEF notSetup, executeFails, goesOn, IInv, Refused
  <2>2. answers \in Seq(Codes)
    BY <1>f DEF Values
  <2> QED
    BY <1>c, <2>1, <2>2, AppendProperties DEF Answer
<1>3. CASE respond
  <2>1. thread \in Inside /\ \E r \in Results : completed(r)
    BY <1>3 DEF respond, Inside
  <2>2. PICK r \in Results : Completed(r)
    BY <1>f, <2>1, Completes
  <2> QED
    BY <2>2 DEF Completed
<1>4. CASE raiseError \/ reject
  <2>1. /\ thread \in Inside
        /\ \/ answers' = answers \o <<"cancelled">>
           \/ answers' = answers \o <<"cancelled", "cancelled">>
    BY <1>4 DEF raiseError, reject, cancelled, Inside
  <2>2. answers = <<>>
    BY <1>f, <2>1 DEF Begun
  <2> QED
    BY <2>1, <2>2
<1> QED
  BY <1>1, <1>2, <1>3, <1>4
  DEF Next, Request, execute, submit, authenticationFails, closeEntity,
      endTransactionLater, Runs, vars

(* No path through the handlers, and no failure, leaves a client without an  *)
(* answer (TransactionHandler.java:107-144, BlockingExecChain.java:85).      *)
THEOREM NoneLeftUnanswered == Spec => []DoneIsAnswered
<1>1. Init => DoneIsAnswered
  BY DEF Init, DoneIsAnswered
<1> QED
  BY <1>1, InvInit, InvStep, AnswerStep, PTL DEF Spec

-----------------------------------------------------------------------------
(* RequestTransaction implements Outcome.  A step that answers decides, and  *)
(* the lemmas above say what it leaves in the store; every other step leaves *)
(* the first answer, the commit and the lateness of a failure as they are.   *)

Told == IF answers = <<>> THEN "nothing"
        ELSE IF answers[1] = "ok" THEN "ok" ELSE "error"
Committed == txn = "committed"

LEMMA DecisionInit == Init => Decision!Init
BY DEF Init, Decision!Init

(* A failure after the commit is noted, and only for an answer that fails.   *)
LEMMA Notes ==
  ASSUME Begun, thread \in Inside, NEW r \in Results, completed(r)
  PROVE  \/ failedLate' = failedLate
         \/ failedLate' = TRUE /\ answers' = <<"failed">>
<1>1. answers = <<>>
  BY DEF Begun
<1> QED
  BY <1>1, First, Zenon
  DEF completed, createSafeHttpEntity, commitFails

(* The first answer decides.                                                 *)
LEMMA Decides ==
  ASSUME Flags, Flags', txn # "committed", answers = <<>>, unsafe' = unsafe,
         NEW a \in Codes, answers' # <<>>, answers'[1] = a,
         \/ failedLate' = failedLate
         \/ failedLate' = TRUE /\ a # "ok",
         a = "ok" /\ unsafe => txn' = "committed",
         txn' = "committed" => unsafe /\ (a = "ok" \/ failedLate')
  PROVE  Decision!Next
<1>1. /\ Told = "nothing" /\ Told' = IF a = "ok" THEN "ok" ELSE "error"
      /\ Committed = FALSE /\ Committed' \in BOOLEAN /\ unsafe \in BOOLEAN
      /\ failedLate \in BOOLEAN /\ failedLate' \in BOOLEAN
  BY DEF Told, Committed, Flags
<1>2. Committed' <=> txn' = "committed"
  BY DEF Committed
<1>3. CASE a = "ok"
  <2>1. Committed' <=> unsafe
    BY <1>2, <1>3, Zenon
  <2>2. Committed' = unsafe
    BY <1>1, <2>1
  <2>3. failedLate' = failedLate
    BY <1>3
  <2>4. Told = "nothing" /\ Told' = "ok"
    BY <1>1, <1>3
  <2>5. Decision!succeed
    BY <2>2, <2>3, <2>4 DEF Decision!succeed, Told, Committed
  <2> QED
    BY <2>5 DEF Decision!Next
<1>4. CASE a # "ok"
  <2>1. Told = "nothing" /\ Told' = "error"
    BY <1>1, <1>4
  <2>2. CASE txn' = "committed"
    <3>1. unsafe = TRUE /\ failedLate' = TRUE /\ Committed' = TRUE
      BY <1>1, <1>2, <1>4, <2>2, Zenon
    <3>2. Decision!failLate
      BY <2>1, <3>1 DEF Decision!failLate, Told, Committed
    <3> QED
      BY <3>2 DEF Decision!Next
  <2>3. CASE txn' # "committed" /\ failedLate' = failedLate
    <3>1. Committed' = Committed
      BY <1>1, <1>2, <2>3
    <3>2. Decision!refuse
      BY <2>1, <2>3, <3>1 DEF Decision!refuse, Told, Committed
    <3> QED
      BY <3>2 DEF Decision!Next
  <2>4. CASE txn' # "committed" /\ failedLate' = TRUE
    <3>1. Committed' = FALSE
      BY <1>1, <1>2, <2>4
    <3>2. Decision!failLate
      BY <2>1, <2>4, <3>1 DEF Decision!failLate, Told, Committed
    <3> QED
      BY <3>2 DEF Decision!Next
  <2> QED
    BY <2>2, <2>3, <2>4, Zenon
<1> QED
  BY <1>3, <1>4

(* What has been decided, or not yet, stays.                                 *)
LEMMA Stays ==
  ASSUME UNCHANGED <<unsafe, failedLate>>,
         txn' = "committed" <=> txn = "committed",
         answers' = answers \/ (answers # <<>> /\ answers' # <<>>
                                  /\ answers'[1] = answers[1])
  PROVE  UNCHANGED Decision!vars
<1>1. Told' = Told
  BY DEF Told
<1>2. Committed' = Committed
  <2>1. Committed' <=> Committed
    BY DEF Committed
  <2>2. Committed \in BOOLEAN /\ Committed' \in BOOLEAN
    BY DEF Committed
  <2> QED
    BY <2>1, <2>2
<1> QED
  BY <1>1, <1>2, Zenon DEF Decision!vars, Told, Committed

LEMMA DecisionStep == IInv /\ [Next]_vars => [Decision!Next]_(Decision!vars)
<1> SUFFICES ASSUME IInv, [Next]_vars PROVE [Decision!Next]_(Decision!vars)
  OBVIOUS
<1>f. Flags /\ Flags' /\ Values /\ Begun
  BY Typed, FlagsStep DEF IInv
<1>c. /\ {"error", "failed", "cancelled"} \subseteq Codes
      /\ "ok" \notin {"error", "failed", "cancelled"}
  BY DEF Codes
<1>s. ASSUME NEW a, answers' = <<a>> \/ answers' = <<a, "cancelled">>
      PROVE  answers' # <<>> /\ answers'[1] = a
  BY <1>s
<1> USE DEF store
<1>1. CASE notSetup \/ executeFails
  <2>1. answers = <<>> /\ txn = "none"
    BY <1>1 DEF notSetup, executeFails, IInv, Untouched
  <2>2. PICK a \in {"error", "failed"} : answers' = <<a>>
    BY <1>1, <2>1, First DEF notSetup, executeFails
  <2>3. txn' # "committed" /\ UNCHANGED <<unsafe, failedLate>>
    BY <1>1, <2>1 DEF notSetup, executeFails
  <2>4. answers' # <<>> /\ answers'[1] = a /\ a \in Codes /\ a # "ok"
    BY <1>c, <1>s, <2>2
  <2> QED
    BY <1>f, <2>1, <2>3, <2>4, Decides
<1>2. CASE execute \/ submit
  <2>1. /\ UNCHANGED <<unsafe, failedLate, answers>>
        /\ txn # "committed" /\ txn' # "committed"
    BY <1>2 DEF execute, submit, IInv, Untouched, Begun, Inside
  <2> QED
    BY <2>1, Stays
<1>3. CASE respond \/ authenticationFails
  <2>1. thread \in Inside
    BY <1>3 DEF respond, authenticationFails, Inside
  <2>2. PICK r \in Results : completed(r)
    BY <1>3 DEF respond, authenticationFails, Errors
  <2>3. Completed(r)
    BY <1>f, <2>1, <2>2, Completes
  <2>4. PICK a \in Codes :
          /\ answers' = <<a>>
          /\ a = "ok" /\ unsafe => txn' = "committed"
          /\ txn' = "committed" => unsafe /\ (a = "ok" \/ failedLate')
    BY <2>3, Zenon DEF Completed
  <2>5. answers = <<>> /\ txn # "committed"
    BY <1>f, <2>1 DEF Begun
  <2>6. unsafe' = unsafe
    BY <2>3 DEF Completed
  <2>7. answers' # <<>> /\ answers'[1] = a
    BY <1>s, <2>4
  <2>8. \/ failedLate' = failedLate
        \/ failedLate' = TRUE /\ a # "ok"
    <3>1. \/ failedLate' = failedLate
          \/ failedLate' = TRUE /\ answers' = <<"failed">>
      BY <1>f, <2>1, <2>2, Notes
    <3>2. answers' = <<"failed">> => a # "ok"
      BY <2>4
    <3> QED
      BY <3>1, <3>2
  <2>9. Decision!Next
    BY <1>f, <2>4, <2>5, <2>6, <2>7, <2>8, Decides, Zenon
  <2> QED
    BY <2>9
<1>4. CASE raiseError \/ reject
  <2>1. thread \in Inside
    BY <1>4 DEF raiseError, reject, Inside
  <2>2. con = "open" /\ txn = "active" /\ answers = <<>>
    BY <1>f, <2>1 DEF Begun
  <2>3. PICK calls \in {<<"cancelled">>, <<"cancelled", "cancelled">>} :
          cancelled(calls)
    BY <1>4 DEF raiseError, reject
  <2>4. /\ answers' = <<"cancelled">> \/ answers' = <<"cancelled", "cancelled">>
        /\ UNCHANGED <<unsafe, failedLate>> /\ endTransaction(txn)
    BY <2>2, <2>3 DEF cancelled
  <2>5. txn' # "committed"
    <3>1. txn \in Txns
      BY <2>2 DEF Txns
    <3> QED
      BY <1>f, <2>2, <2>4, <3>1, Ends
  <2>6. /\ answers' # <<>> /\ answers'[1] = "cancelled"
        /\ "cancelled" \in Codes /\ "cancelled" # "ok"
    BY <1>c, <1>s, <2>4
  <2>7. unsafe' = unsafe /\ failedLate' = failedLate /\ txn # "committed"
    BY <2>2, <2>4
  <2>8. Decision!Next
    BY <1>f, <2>2, <2>5, <2>6, <2>7, Decides, Zenon
  <2> QED
    BY <2>8
<1>5. CASE goesOn
  <2>1. /\ endTransaction(txn) /\ Answer("failed")
        /\ UNCHANGED <<unsafe, failedLate>> /\ Len(answers) = 1
    BY <1>5, Zenon DEF goesOn, IInv, Refused
  <2>2. txn' = "committed" <=> txn = "committed"
    <3>1. CASE con = "open"
      BY <1>f, <2>1, <3>1, Ends DEF Values
    <3>2. CASE con # "open"
      BY <2>1, <3>2 DEF endTransaction
    <3> QED
      BY <3>1, <3>2
  <2>3. Len(answers') = 2 /\ answers'[1] = answers[1]
    BY <1>f, <1>c, <2>1, Second DEF Answer, Values
  <2>4. answers # <<>> /\ answers' # <<>>
    BY <2>1, <2>3
  <2>5. UNCHANGED Decision!vars
    BY <2>1, <2>2, <2>3, <2>4, Stays
  <2> QED
    BY <2>5
<1>6. CASE closeEntity
  <2>1. UNCHANGED <<unsafe, failedLate, answers, txn>>
    BY <1>6 DEF closeEntity
  <2> QED
    BY <2>1, Stays
<1>7. ASSUME NEW c \in Closers, endTransactionLater(c)
      PROVE  UNCHANGED Decision!vars
  <2>1. /\ UNCHANGED <<unsafe, failedLate, answers>>
        /\ txn' = "committed" <=> txn = "committed"
    <3>1. /\ UNCHANGED <<unsafe, failedLate, answers>> /\ endTransaction(txn)
      BY <1>7 DEF endTransactionLater, Runs
    <3>2. CASE con = "open"
      BY <1>f, <3>1, <3>2, Ends DEF Values
    <3>3. CASE con # "open"
      BY <3>1, <3>3 DEF endTransaction
    <3> QED
      BY <3>1, <3>2, <3>3
  <2> QED
    BY <2>1, Stays
<1>8. CASE UNCHANGED vars
  <2>1. UNCHANGED <<unsafe, failedLate, answers, txn>>
    BY <1>8 DEF vars
  <2> QED
    BY <2>1, Stays
<1> QED
  BY <1>1, <1>2, <1>3, <1>4, <1>5, <1>6, <1>7, <1>8, Zenon DEF Next, Request

(* However the handlers, the store and any number of closing tasks go on, a   *)
(* request has one outcome, which is decided with its first answer.          *)
THEOREM DecidesOnce == Spec => DecidedOnce
BY InvInit, InvStep, DecisionInit, DecisionStep, PTL
DEF Spec, DecidedOnce, Decision!Spec
=============================================================================
