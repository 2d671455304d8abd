----------------------- MODULE AntiDeadlockThreadPool -----------------------
(***************************************************************************)
(* The pool that triages and handles requests                              *)
(* (concurrent/AntiDeadlockThreadPool.java).  A task may wait for another  *)
(* one: with every thread waiting and the tasks they wait for in the queue *)
(* nothing would move, so a watchdog adds a thread when the head of the    *)
(* queue has not changed between two of its runs.  The ThreadPoolExecutor  *)
(* inside is external.                                                     *)
(***************************************************************************)
EXTENDS Naturals, FiniteSets, Sequences

CONSTANTS Tasks,
          Needs,          \* Needs[t]: the tasks t waits for
          Executed,       \* tasks given to execute(); the others to submit()
          corePoolSize0,  \* availableProcessors() * 2 + 1
          maximumPoolSize,
          QueueCapacity,  \* MAX_QUEUE_SIZE
          None

ASSUME PoolAssumption ==
  /\ None \notin Tasks /\ Executed \subseteq Tasks
  /\ corePoolSize0 \in Nat \ {0} /\ maximumPoolSize \in Nat
  /\ corePoolSize0 <= maximumPoolSize
  /\ QueueCapacity \in Nat \ {0}
  /\ Needs \in [Tasks -> SUBSET Tasks]

VARIABLES
  task,          \* "new", "queued", "running", "done" or "rejected"
  queue,         \* the ArrayBlockingQueue
  workers,       \* threads of the pool, busy or idle
  corePoolSize,  \* the field, and the ThreadPoolExecutor's
  schedule,      \* None, or the watchdog's "previous"
  executing      \* the task for which execute() holds the monitor

vars == <<task, queue, workers, corePoolSize, schedule, executing>>

Init ==
  /\ task = [t \in Tasks |-> "new"] /\ queue = <<>> /\ workers = 0
  /\ corePoolSize = corePoolSize0 /\ schedule = None /\ executing = None

In(s) == {t \in Tasks : task[t] = s}
Set(t, s) == task' = [task EXCEPT ![t] = s]

\* queue.peek()
peek == IF queue = <<>> THEN None ELSE queue[1]

-----------------------------------------------------------------------------
(* java.util.concurrent.ThreadPoolExecutor.                                *)

\* A thread below the core size, else a place in the queue, else a thread
\* below the maximum, else RejectedExecutionException.
accept(t) ==
  IF workers < corePoolSize
     \/ (Len(queue) = QueueCapacity /\ workers < maximumPoolSize)
    THEN Set(t, "running") /\ workers' = workers + 1 /\ UNCHANGED queue
  ELSE IF Len(queue) < QueueCapacity
    THEN Set(t, "queued") /\ queue' = Append(queue, t) /\ UNCHANGED workers
  ELSE Set(t, "rejected") /\ UNCHANGED <<queue, workers>>

\* An idle thread takes the head of the queue.
take ==
  /\ queue # <<>> /\ Cardinality(In("running")) < workers
  /\ Set(queue[1], "running") /\ queue' = Tail(queue)
  /\ UNCHANGED <<workers, corePoolSize, schedule, executing>>

finish(t) ==
  /\ task[t] = "running"
  /\ Needs[t] \subseteq In("done") \cup In("rejected")
  /\ Set(t, "done")
  /\ UNCHANGED <<queue, workers, corePoolSize, schedule, executing>>

\* allowCoreThreadTimeOut(true)
threadTimesOut ==
  /\ queue = <<>> /\ Cardinality(In("running")) < workers
  /\ workers' = workers - 1
  /\ UNCHANGED <<task, queue, corePoolSize, schedule, executing>>

-----------------------------------------------------------------------------
(* AntiDeadlockThreadPool.                                                 *)

\* submit() is inherited: it goes to the ThreadPoolExecutor.
submit(t) ==
  /\ task[t] = "new" /\ t \notin Executed
  /\ accept(t)
  /\ UNCHANGED <<corePoolSize, schedule, executing>>

\* super.execute(command), which may throw; the pool's threads do not wait
\* for the monitor.
execute(t) ==
  /\ task[t] = "new" /\ t \in Executed /\ executing = None
  /\ accept(t)
  /\ executing' = IF task'[t] = "rejected" THEN None ELSE t
  /\ UNCHANGED <<corePoolSize, schedule>>

executed ==
  /\ executing # None /\ executing' = None
  /\ schedule' = IF schedule = None /\ corePoolSize < maximumPoolSize
                   THEN peek ELSE schedule
  /\ UNCHANGED <<task, queue, workers, corePoolSize>>

expiresUnbounded == peek = None   \* seeded fault: the maximum is not checked
expiresOnAdvance ==   \* seeded fault: a queue that moves needs no watchdog
  peek # schedule \/ corePoolSize >= maximumPoolSize
expires == peek = None \/ corePoolSize >= maximumPoolSize

\* seeded fault: the size is counted and the executor is not told
growQuietly == corePoolSize' = corePoolSize + 1 /\ UNCHANGED workers

\* setCorePoolSize starts a thread, for there is a task in the queue.
grow == /\ corePoolSize' = corePoolSize + 1
        /\ workers' = IF workers < corePoolSize' THEN workers + 1 ELSE workers

\* The scheduled "check for starving tasks".
run ==
  /\ schedule # None /\ executing = None
  /\ IF expires
       THEN schedule' = None /\ UNCHANGED <<corePoolSize, workers>>
     ELSE IF schedule = peek
       THEN grow /\ UNCHANGED schedule
     ELSE schedule' = peek /\ UNCHANGED <<corePoolSize, workers>>
  /\ UNCHANGED <<task, queue, executing>>

Next == \/ \E t \in Tasks : submit(t) \/ execute(t) \/ finish(t)
        \/ executed \/ run \/ take \/ threadTimesOut

Spec == Init /\ [][Next]_vars

\* execute() returns, the scheduler runs the watchdog, idle threads take from
\* the queue, and a task that waits for nobody ends.  Nobody has to call.
Fairness == /\ WF_vars(executed) /\ WF_vars(run) /\ WF_vars(take)
            /\ \A t \in Tasks : WF_vars(finish(t))
FairSpec == Spec /\ Fairness

-----------------------------------------------------------------------------
(* Properties.                                                             *)

\* Every variable has its type, and the queue its capacity.
TypeOK ==
  /\ task \in [Tasks -> {"new", "queued", "running", "done", "rejected"}]
  /\ queue \in Seq(Tasks) /\ Len(queue) <= QueueCapacity
  /\ workers \in Nat /\ corePoolSize \in Nat
  /\ schedule \in Tasks \cup {None} /\ executing \in Tasks \cup {None}

\* The pool never has more threads than its maximum, nor tasks than threads,
\* however the watchdog, the queue and the timeouts of the threads interleave.
Bounded == /\ corePoolSize <= maximumPoolSize /\ workers <= maximumPoolSize
           /\ Cardinality(In("running")) <= workers

\* No task given to execute() waits in the queue unwatched while the pool may
\* still grow.
Watched ==
  (\E i \in DOMAIN queue : queue[i] \in Executed) =>
    schedule # None \/ executing # None \/ corePoolSize >= maximumPoolSize

\* Every task that execute() accepts runs, also when the tasks in front of it
\* wait for it.
AcceptedRuns == \A t \in Executed : task[t] = "queued" ~> task[t] = "running"

\* "increase the number of threads when the queue has not changed in five
\* seconds": a queue that keeps its head makes the pool grow.
GrowsWhenStuck ==
  \A t \in Tasks, n \in 0..maximumPoolSize :
    peek = t /\ corePoolSize = n /\ n < maximumPoolSize
      ~> peek # t \/ corePoolSize > n
=============================================================================
