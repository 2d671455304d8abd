-------------------- MODULE AntiDeadlockThreadPoolProofs --------------------
(* The bounds of the pool and the watch over its queue, for any tasks, any   *)
(* sizes and any waiting between the tasks.                                  *)
EXTENDS AntiDeadlockThreadPool, FiniteSetTheorems, SequenceTheorems, TLAPS

States == {"new", "queued", "running", "done", "rejected"}
Running == In("running")

(* The threads that are busy can be counted.                                 *)
Busy == IsFiniteSet(Running) /\ Cardinality(Running) \in Nat
          /\ Cardinality(Running) <= workers
Sizes == corePoolSize <= maximumPoolSize /\ workers <= maximumPoolSize

IInv == TypeOK /\ Busy /\ Sizes /\ Watched

-----------------------------------------------------------------------------
(* A task that begins or ends to run, or neither.                            *)

LEMMA Begins ==
  ASSUME TypeOK, NEW t \in Tasks, Set(t, "running"), IsFiniteSet(Running)
  PROVE  /\ IsFiniteSet(Running') /\ Cardinality(Running') \in Nat
         /\ Cardinality(Running') <= Cardinality(Running) + 1
<1>1. Running' = Running \cup {t}
  BY DEF Running, In, Set, TypeOK
<1>2. /\ IsFiniteSet(Running \cup {t})
      /\ Cardinality(Running \cup {t})
           = IF t \in Running THEN Cardinality(Running)
                              ELSE Cardinality(Running) + 1
  BY FS_AddElement
<1>3. Cardinality(Running) \in Nat
  BY FS_CardinalityType
<1> QED
  BY <1>1, <1>2, <1>3

LEMMA NotBegun ==
  ASSUME TypeOK, NEW t \in Tasks, NEW s \in States \ {"running"}, Set(t, s),
         IsFiniteSet(Running)
  PROVE  /\ IsFiniteSet(Running') /\ Cardinality(Running') \in Nat
         /\ Cardinality(Running') <= Cardinality(Running)
<1>1. Running' \subseteq Running
  BY DEF Running, In, Set, TypeOK, States
<1> QED
  BY <1>1, FS_Subset, FS_CardinalityType

(* Sequences.                                                                *)
LEMMA Appended ==
  ASSUME NEW S, NEW s \in Seq(S), NEW e \in S
  PROVE  /\ Append(s, e) \in Seq(S) /\ Len(Append(s, e)) = Len(s) + 1
         /\ \A i \in 1..Len(s) : Append(s, e)[i] = s[i]
         /\ Append(s, e)[Len(s) + 1] = e
BY AppendProperties

LEMMA Taken ==
  ASSUME NEW S, NEW s \in Seq(S), s # <<>>
  PROVE  /\ s[1] \in S /\ Tail(s) \in Seq(S) /\ Len(Tail(s)) = Len(s) - 1
         /\ \A i \in 1..Len(Tail(s)) : Tail(s)[i] = s[i + 1]
BY HeadTailProperties, EmptySeq

(* A task that the ThreadPoolExecutor accepts or not.                        *)
LEMMA Accepts ==
  ASSUME IInv, NEW t \in Tasks, accept(t),
         corePoolSize' = corePoolSize
  PROVE  /\ task' \in [Tasks -> States] /\ workers' \in Nat
         /\ queue' \in Seq(Tasks) /\ Len(queue') <= QueueCapacity
         /\ Busy' /\ workers' <= maximumPoolSize
         /\ queue' = queue \/ (queue' = Append(queue, t) /\ task'[t] = "queued")
<1> USE PoolAssumption DEF PoolAssumption, IInv, Sizes
<1>1. /\ task \in [Tasks -> States] /\ workers \in Nat /\ corePoolSize \in Nat
      /\ queue \in Seq(Tasks) /\ Len(queue) <= QueueCapacity
  BY DEF TypeOK, States
<1>2. CASE /\ Set(t, "running") /\ workers' = workers + 1 /\ queue' = queue
           /\ workers < maximumPoolSize
  <2>1. task' \in [Tasks -> States]
    BY <1>1, <1>2 DEF Set, States
  <2>2. Busy'
    BY <1>1, <1>2, Begins DEF Busy
  <2> QED
    BY <1>1, <1>2, <2>1, <2>2
<1>3. CASE Set(t, "queued") /\ queue' = Append(queue, t) /\ workers' = workers
           /\ Len(queue) < QueueCapacity
  <2>1. task' \in [Tasks -> States] /\ task'[t] = "queued"
    BY <1>1, <1>3 DEF Set, States
  <2>2. Busy'
    BY <1>1, <1>3, NotBegun DEF Busy, States
  <2>3. queue' \in Seq(Tasks) /\ Len(queue') <= QueueCapacity
    BY <1>1, <1>3, Appended
  <2> QED
    BY <1>1, <1>3, <2>1, <2>2, <2>3
<1>4. CASE Set(t, "rejected") /\ queue' = queue /\ workers' = workers
  <2>1. task' \in [Tasks -> States]
    BY <1>1, <1>4 DEF Set, States
  <2>2. Busy'
    BY <1>1, <1>4, NotBegun DEF Busy, States
  <2> QED
    BY <1>1, <1>4, <2>1, <2>2
<1> QED
  BY <1>1, <1>2, <1>3, <1>4 DEF accept

-----------------------------------------------------------------------------
(* The invariant.                                                            *)

LEMMA InvInit == Init => IInv
<1> SUFFICES ASSUME Init PROVE IInv
  OBVIOUS
<1> USE PoolAssumption DEF PoolAssumption, Init
<1>1. TypeOK
  BY DEF TypeOK
<1>2. Running = {}
  BY DEF Running, In
<1>3. Busy
  BY <1>2, FS_EmptySet DEF Busy
<1>4. Sizes /\ Watched
  BY DEF Sizes, Watched
<1> QED
  BY <1>1, <1>3, <1>4 DEF IInv

LEMMA InvStep == IInv /\ [Next]_vars => IInv'
<1> SUFFICES ASSUME IInv, [Next]_vars PROVE IInv'
  OBVIOUS
<1> USE PoolAssumption DEF PoolAssumption
<1>t. /\ task \in [Tasks -> States] /\ workers \in Nat /\ corePoolSize \in Nat
      /\ queue \in Seq(Tasks) /\ Len(queue) <= QueueCapacity
      /\ schedule \in Tasks \cup {None} /\ executing \in Tasks \cup {None}
  BY DEF IInv, TypeOK, States
<1>p. peek \in Tasks \cup {None} /\ (peek = None <=> queue = <<>>)
  BY <1>t, Taken DEF peek
<1>1. ASSUME NEW t \in Tasks, submit(t) PROVE IInv'
  <2>1. t \notin Executed /\ accept(t)
        /\ UNCHANGED <<corePoolSize, schedule, executing>>
    BY <1>1 DEF submit
  <2>2. /\ task' \in [Tasks -> States] /\ workers' \in Nat
        /\ queue' \in Seq(Tasks) /\ Len(queue') <= QueueCapacity
        /\ Busy' /\ workers' <= maximumPoolSize
        /\ queue' = queue \/ queue' = Append(queue, t)
    BY <2>1, Accepts
  <2>3. TypeOK' /\ Sizes'
    BY <1>t, <2>1, <2>2 DEF IInv, TypeOK, States, Sizes
  <2>4. Watched'
    <3>1. ASSUME NEW i \in DOMAIN queue', queue'[i] \in Executed
          PROVE  \E j \in DOMAIN queue : queue[j] \in Executed
      BY <1>t, <2>1, <2>2, <3>1, Appended
    <3> QED
      BY <2>1, <3>1 DEF IInv, Watched
  <2> QED
    BY <2>2, <2>3, <2>4 DEF IInv
<1>2. ASSUME NEW t \in Tasks, execute(t) PROVE IInv'
  <2>1. /\ accept(t) /\ UNCHANGED <<corePoolSize, schedule>>
        /\ executing' = IF task'[t] = "rejected" THEN None ELSE t
    BY <1>2 DEF execute
  <2>2. /\ task' \in [Tasks -> States] /\ workers' \in Nat
        /\ queue' \in Seq(Tasks) /\ Len(queue') <= QueueCapacity
        /\ Busy' /\ workers' <= maximumPoolSize
        /\ queue' = queue \/ (queue' = Append(queue, t) /\ task'[t] = "queued")
    BY <2>1, Accepts
  <2>3. TypeOK' /\ Sizes'
    BY <1>t, <2>1, <2>2 DEF IInv, TypeOK, States, Sizes
  <2>4. Watched'
    <3>1. CASE task'[t] = "rejected"
      BY <1>2, <2>1, <2>2, <3>1 DEF IInv, Watched, execute
    <3>2. CASE task'[t] # "rejected"
      BY <2>1, <3>2 DEF Watched
    <3> QED
      BY <3>1, <3>2
  <2> QED
    BY <2>2, <2>3, <2>4 DEF IInv
<1>3. ASSUME NEW t \in Tasks, finish(t) PROVE IInv'
  <2>1. /\ Set(t, "done")
        /\ UNCHANGED <<queue, workers, corePoolSize, schedule, executing>>
    BY <1>3 DEF finish
  <2>2. Busy'
    BY <1>t, <2>1, NotBegun DEF IInv, Busy, States
  <2>3. TypeOK' /\ Sizes' /\ Watched'
    BY <1>t, <2>1 DEF IInv, TypeOK, States, Set, Sizes, Watched
  <2> QED
    BY <2>2, <2>3 DEF IInv
<1>4. CASE executed
  <2>1. /\ executing' = None /\ UNCHANGED <<task, queue, workers, corePoolSize>>
        /\ schedule' = IF schedule = None /\ corePoolSize < maximumPoolSize
                         THEN peek ELSE schedule
    BY <1>4 DEF executed
  <2>2. TypeOK' /\ Busy' /\ Sizes'
    BY <1>t, <1>p, <2>1
    DEF IInv, TypeOK, States, Busy, Running, In, Sizes
  <2>3. Watched'
    BY <1>t, <1>p, <2>1 DEF Watched
  <2> QED
    BY <2>2, <2>3 DEF IInv
<1>5. CASE run
  <2>1. UNCHANGED <<task, queue, executing>>
    BY <1>5 DEF run
  <2>2. \/ /\ expires /\ schedule' = None
           /\ UNCHANGED <<corePoolSize, workers>>
        \/ /\ ~expires /\ schedule = peek /\ schedule' = schedule
           /\ corePoolSize' = corePoolSize + 1
           /\ workers' = IF workers < corePoolSize' THEN workers + 1
                                                    ELSE workers
        \/ /\ ~expires /\ schedule' = peek
           /\ UNCHANGED <<corePoolSize, workers>>
    BY <1>5 DEF run, grow
  <2>3. TypeOK' /\ Sizes'
    BY <1>t, <1>p, <2>1, <2>2 DEF IInv, TypeOK, States, Sizes, expires
  <2>4. Running' = Running /\ workers <= workers'
    BY <1>t, <2>1, <2>2 DEF Running, In
  <2>5. Busy'
    BY <1>t, <2>3, <2>4 DEF IInv, Busy, TypeOK
  <2>6. Watched'
    BY <1>t, <1>p, <2>1, <2>2 DEF Watched, expires
  <2> QED
    BY <2>3, <2>5, <2>6 DEF IInv
<1>6. CASE take
  <2>1. /\ queue # <<>> /\ Cardinality(Running) < workers
        /\ Set(queue[1], "running") /\ queue' = Tail(queue)
        /\ UNCHANGED <<workers, corePoolSize, schedule, executing>>
    BY <1>6 DEF take, Running
  <2>2. /\ queue[1] \in Tasks /\ queue' \in Seq(Tasks)
        /\ Len(queue') = Len(queue) - 1
        /\ \A i \in 1..Len(queue') : queue'[i] = queue[i + 1]
    BY <1>t, <2>1, Taken
  <2>3. Busy'
    BY <1>t, <2>1, <2>2, Begins DEF IInv, Busy
  <2>4. TypeOK' /\ Sizes'
    BY <1>t, <2>1, <2>2 DEF IInv, TypeOK, States, Set, Sizes
  <2>5. Watched'
    <3>1. ASSUME NEW i \in DOMAIN queue', queue'[i] \in Executed
          PROVE  \E j \in DOMAIN queue : queue[j] \in Executed
      <4>1. i \in 1..Len(queue') /\ i + 1 \in DOMAIN queue
        BY <1>t, <2>2, <3>1
      <4> QED
        BY <2>2, <3>1, <4>1
    <3> QED
      BY <2>1, <3>1 DEF IInv, Watched
  <2> QED
    BY <2>3, <2>4, <2>5 DEF IInv
<1>7. CASE threadTimesOut
  <2>1. /\ Cardinality(Running) < workers /\ workers' = workers - 1
        /\ UNCHANGED <<task, queue, corePoolSize, schedule, executing>>
    BY <1>7 DEF threadTimesOut, Running
  <2>2. Running' = Running
    BY <2>1 DEF Running, In
  <2>3. Busy' /\ workers' \in Nat
    BY <1>t, <2>1, <2>2 DEF IInv, Busy
  <2>4. TypeOK' /\ Sizes' /\ Watched'
    BY <1>t, <2>1, <2>3 DEF IInv, TypeOK, States, Sizes, Watched
  <2> QED
    BY <2>3, <2>4 DEF IInv
<1>8. CASE UNCHANGED vars
  BY <1>8 DEF vars, IInv, TypeOK, Busy, Running, In, Sizes, Watched
<1> QED
  BY <1>1, <1>2, <1>3, <1>4, <1>5, <1>6, <1>7, <1>8 DEF Next

LEMMA Invariance == Spec => []IInv
BY InvInit, InvStep, PTL DEF Spec

(* Neither the watchdog nor a full queue takes the pool past its maximum,    *)
(* nor do threads that time out leave a running task without one.            *)
THEOREM PoolIsBounded == Spec => [](TypeOK /\ Bounded)
<1>1. IInv => TypeOK /\ Bounded
  BY DEF IInv, Busy, Running, Sizes, Bounded
<1> QED
  BY <1>1, Invariance, PTL

(* A task given to execute() never waits in the queue unwatched while the    *)
(* pool may still grow, in whatever order threads, tasks and watchdog go.    *)
THEOREM QueueIsWatched == Spec => []Watched
<1>1. IInv => Watched
  BY DEF IInv
<1> QED
  BY <1>1, Invariance, PTL
=============================================================================
