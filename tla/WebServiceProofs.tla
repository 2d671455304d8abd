-------------------------- MODULE WebServiceProofs --------------------------
(* Starting and stopping the service, for any number of clients and of       *)
(* commands.                                                                 *)
EXTENDS WebService, SequenceTheorems, TLAPS

Starter(t) == t.op \in {"start", "restart"}
Counted(c) == client[c] \in {"checking", "submitting"} /\ want[c].op = "restart"
Clean == ~overlap /\ ~refused
Starts == {"restop", "create", "listen"}
StartersIn(s) == {i \in DOMAIN s : Starter(s[i])}

(* What a client wants and what the executor runs are commands.              *)
Wants ==
  \A c \in Clients :
    /\ client[c] = "counting" => want[c] \in Counting
    /\ client[c] \in {"checking", "submitting"}
         => want[c] \in Command /\ want[c].op # "start"
Runs ==
  /\ executor # "idle" => task \in Command
  /\ executor \in {"stop", "destroy"} => task.op # "start"
  /\ executor \in {"start"} \cup Starts => Starter(task)

(* The reactor: only listen() has a thread that is to begin, and a reactor   *)
(* that is active belongs to the server, or to one that was forgotten.       *)
Reactor ==
  /\ thread = "started" => executor = "listen" /\ ~listening
  /\ server = "null" /\ executor # "listen"
       => reactor # "active" \/ forgotten
  /\ executor \in {"destroy", "restop"} => reactor = "shut down"
  /\ server = "started" /\ executor \notin {"destroy", "restop"}
       => reactor = "active" \/ failed

(* The last command is the last in the queue, or the one that runs.          *)
Last ==
  /\ tasks # <<>> => last = tasks[Len(tasks)]
  /\ tasks = <<>> /\ executor # "idle" => last = task
  /\ tasks = <<>> /\ executor = "idle" /\ last.op = "stop"
       => ~isWebServiceRunning

(* Unless two ++starting have met, the numbers that are waiting increase, up *)
(* to starting, and a start that has begun has the number starting.          *)
Numbers ==
  Clean =>
    /\ \A i \in StartersIn(tasks) :
         /\ tasks[i].start <= starting
         /\ \A j \in StartersIn(tasks) :
              i < j => tasks[i].start < tasks[j].start
         /\ executor # "idle" /\ Starter(task) => task.start < tasks[i].start
    /\ executor # "idle" /\ Starter(task) => task.start <= starting
    /\ executor \in Starts => task.start = starting
    /\ \A c \in Clients :
         /\ client[c] = "counting" => want[c].start >= starting
         /\ Counted(c) =>
              /\ want[c].start = starting
              /\ \A i \in StartersIn(tasks) : tasks[i].start < starting
              /\ executor # "idle" /\ Starter(task) => task.start < starting
              /\ \A d \in Clients : Counted(d) => d = c

(* The last command is the latest, and when nothing is left to do it is done. *)
Latest ==
  Clean /\ Starter(last) /\ (\A c \in Clients : ~Counted(c)) =>
    IF tasks = <<>> /\ executor = "idle"
      THEN isWebServiceRunning \/ failed
      ELSE last.start = starting

(* A number other than 0 is somebody's who will take it back to 0.           *)
Owned ==
  starting > 0 /\ ~refused /\ ~skipped =>
    \/ executor \in Starts
    \/ executor # "idle" /\ Starter(task) /\ task.start = starting
    \/ \E i \in StartersIn(tasks) : tasks[i].start = starting
    \/ \E c \in Clients : Counted(c) /\ want[c].start = starting

IInv == TypeOK /\ Wants /\ Runs /\ Reactor /\ Last /\ Numbers /\ Latest /\ Owned

-----------------------------------------------------------------------------
(* Sequences.                                                                *)

LEMMA Appended ==
  ASSUME NEW S, NEW s \in Seq(S), NEW e \in S
  PROVE  /\ Append(s, e) \in Seq(S) /\ Len(Append(s, e)) = Len(s) + 1
         /\ \A i \in 1..Len(s) : Append(s, e)[i] = s[i]
         /\ Append(s, e)[Len(s) + 1] = e
         /\ Append(s, e) # <<>>
BY AppendProperties

LEMMA Taken ==
  ASSUME NEW S, NEW s \in Seq(S), s # <<>>
  PROVE  /\ Head(s) \in S /\ Head(s) = s[1] /\ Len(s) \in Nat \ {0}
         /\ Tail(s) \in Seq(S) /\ Len(Tail(s)) = Len(s) - 1
         /\ \A i \in 1..Len(Tail(s)) : Tail(s)[i] = s[i + 1]
         /\ (Tail(s) = <<>> <=> Len(s) = 1)
<1>1. /\ Head(s) \in S /\ Head(s) = s[1] /\ Len(s) \in Nat \ {0}
      /\ Tail(s) \in Seq(S) /\ Len(Tail(s)) = Len(s) - 1
      /\ \A i \in 1..Len(Tail(s)) : Tail(s)[i] = s[i + 1]
  BY HeadTailProperties, EmptySeq
<1>2. Tail(s) = <<>> <=> Len(Tail(s)) = 0
  BY <1>1, EmptySeq
<1> QED
  BY <1>1, <1>2

(* Records.                                                                  *)
LEMMA Commands ==
  /\ NoTask \in Task /\ Command \subseteq Task
  /\ [op |-> "stop", start |-> 0] \in Command
  /\ \A n \in Nat : /\ [op |-> "start", start |-> n + 1] \in Command
                    /\ [op |-> "restart", start |-> n] \in Counting
                    /\ [op |-> "restart", start |-> n + 1] \in Command
  /\ \A t \in Task : t.start \in Nat
  /\ \A t \in Command : t.op \in {"start", "restart", "stop"}
  /\ \A t \in Command : Starter(t) => t.start > 0
  /\ NoTask.op = "none"
BY DEF Task, Command, Counting, NoTask, Starter

LEMMA Counts ==
  ASSUME NEW w \in Counting
  PROVE  /\ w.start \in Nat /\ w.op = "restart"
         /\ [w EXCEPT !.start = @ + 1]
              = [op |-> "restart", start |-> w.start + 1]
BY DEF Counting

-----------------------------------------------------------------------------
(* Typing; the truth values are typed apart from the rest.                   *)

Flags == /\ exception \in BOOLEAN /\ listening \in BOOLEAN
         /\ failed \in BOOLEAN /\ overlap \in BOOLEAN /\ refused \in BOOLEAN
         /\ skipped \in BOOLEAN /\ forgotten \in BOOLEAN

Values ==
  /\ starting \in Nat /\ server \in {"null", "started"}
  /\ tasks \in Seq(Command) /\ task \in Task /\ last \in Task
  /\ executor \in {"idle", "stop", "destroy", "restop", "start", "create",
                   "listen"}
  /\ reactor \in {"none", "active", "shut down"}
  /\ thread \in {"none", "started", "executing", "ending", "ended"}
  /\ client \in [Clients -> {"idle", "counting", "checking", "submitting"}]
  /\ want \in [Clients -> Task \cup Counting] /\ commands \in 0..MaxCommands

LEMMA Typed == TypeOK <=> Flags /\ Values
BY Zenon DEF TypeOK, Flags, Values

LEMMA FlagsStep == Flags /\ [Next]_vars => Flags'
<1> SUFFICES ASSUME Flags, [Next]_vars PROVE Flags'
  OBVIOUS
<1> USE DEF Flags, manager, web, clients, history
<1>1. ASSUME NEW c \in Clients, Client(c) PROVE Flags'
  <2>1. CASE startWebService(c)
    BY <2>1, Zenon DEF startWebService, append
  <2>2. CASE stopWebService(c) \/ restartWebService(c)
    BY <2>2, Zenon DEF stopWebService, restartWebService
  <2>3. CASE count(c)
    BY <2>3, Zenon DEF count
  <2>4. CASE checkForErrors(c)
    BY <2>4, Zenon DEF checkForErrors
  <2>5. CASE submit(c)
    BY <2>5, Zenon DEF submit
  <2> QED
    BY <1>1, <2>1, <2>2, <2>3, <2>4, <2>5, Zenon DEF Client
<1>2. CASE Executor
  <2>1. CASE run \/ stopWebServiceNow \/ destroy \/ startWebServiceNow
    BY <2>1, Zenon DEF run, stopWebServiceNow, destroy, startWebServiceNow
  <2>2. CASE startFails \/ startResumes \/ createServer \/ listen
    BY <2>2, Zenon DEF startFails, startEnds, startResumes, createServer,
                       listen, reset
  <2>3. CASE stopThrows
    BY <2>3, Zenon DEF stopThrows, forget
  <2>4. CASE restopThrows \/ stopGoesOn
    BY <2>4, Zenon DEF restopThrows, startEnds, stopGoesOn, forget, reset
  <2> QED
    BY <1>2, <2>1, <2>2, <2>3, <2>4, Zenon DEF Executor
<1>3. CASE Thread
  BY <1>3, Zenon DEF Thread, threadListens, threadEnds, threadStops
<1>4. CASE UNCHANGED vars
  BY <1>4, Zenon DEF vars
<1> QED
  BY <1>1, <1>2, <1>3, <1>4, Zenon DEF Next

-----------------------------------------------------------------------------
(* What a step does, without the truth values.                               *)

Kept == (overlap => overlap') /\ (refused => refused')

LEMMA KeptStep == Flags /\ [Next]_vars => Kept
<1> SUFFICES ASSUME Flags, [Next]_vars PROVE Kept
  OBVIOUS
<1> USE DEF Kept, Flags, manager, web, clients, history
<1>1. ASSUME NEW c \in Clients, Client(c) PROVE Kept
  <2>1. CASE startWebService(c)
    BY <2>1, Zenon DEF startWebService, append
  <2>2. CASE stopWebService(c) \/ restartWebService(c)
    BY <2>2, Zenon DEF stopWebService, restartWebService
  <2>3. CASE count(c)
    BY <2>3, Zenon DEF count
  <2>4. CASE checkForErrors(c)
    BY <2>4, Zenon DEF checkForErrors
  <2>5. CASE submit(c)
    BY <2>5, Zenon DEF submit
  <2> QED
    BY <1>1, <2>1, <2>2, <2>3, <2>4, <2>5, Zenon DEF Client
<1>2. CASE Executor
  <2>1. CASE run \/ stopWebServiceNow \/ destroy \/ startWebServiceNow
    BY <2>1, Zenon DEF run, stopWebServiceNow, destroy, startWebServiceNow
  <2>2. CASE startFails \/ startResumes \/ createServer \/ listen
    BY <2>2, Zenon DEF startFails, startEnds, startResumes, createServer,
                       listen, reset
  <2>3. CASE stopThrows
    BY <2>3, Zenon DEF stopThrows, forget
  <2>4. CASE restopThrows \/ stopGoesOn
    BY <2>4, Zenon DEF restopThrows, startEnds, stopGoesOn, forget, reset
  <2> QED
    BY <1>2, <2>1, <2>2, <2>3, <2>4, Zenon DEF Executor
<1>3. CASE Thread
  BY <1>3, Zenon DEF Thread, threadListens, threadEnds, threadStops
<1>4. CASE UNCHANGED vars
  BY <1>4, Zenon DEF vars
<1> QED
  BY <1>1, <1>2, <1>3, <1>4, Zenon DEF Next

LEMMA CleanStep == Clean' /\ Flags /\ [Next]_vars => Clean
BY KeptStep, Zenon DEF Kept, Clean

LEMMA CountsAlone ==
  ASSUME NEW c \in Clients, count(c), Clean'
  PROVE  ~Restarting(c) /\ ~Held
BY Zenon DEF count, Clean

LEMMA StartsAlone ==
  ASSUME NEW c \in Clients, startWebService(c), ~isWebServiceRunning, ~refused'
  PROVE  /\ starting' = starting + 1
         /\ append([op |-> "start", start |-> starting + 1])
         /\ ~overlap' => ~Restarting(c)
BY Zenon DEF startWebService, preIncrement

LEMMA ChecksOut ==
  ASSUME NEW c \in Clients, checkForErrors(c), ~refused'
  PROVE  want[c].op = "restart" =>
           client' = [client EXCEPT ![c] = "submitting"]
BY Zenon DEF checkForErrors

(* The stop that fails, without the truth values it sets.                    *)
Clears ==
  /\ server' = "null" /\ reactor' = reactor /\ UNCHANGED <<thread, listening>>
  /\ UNCHANGED <<tasks, last, client, want, commands>>
  /\ (failed => failed')

LEMMA StopThrows ==
  ASSUME stopThrows
  PROVE  /\ Clears /\ UNCHANGED starting /\ End
         /\ executor \in {"stop", "destroy"}
         /\ executor = "stop" /\ server # "null" => forgotten'
         /\ forgotten => forgotten'
         /\ task.op = "restart" /\ task.start = starting => failed' /\ skipped'
<1>1. /\ server' = "null" /\ UNCHANGED <<web, clients, tasks, last, starting>>
      /\ End /\ executor \in {"stop", "destroy"}
  BY DEF stopThrows, forget, serverCleared
<1>2. /\ executor = "stop" /\ server # "null" => forgotten'
      /\ forgotten => forgotten'
  <2>1. CASE executor = "stop" /\ forget
    BY <2>1, Zenon DEF forget
  <2>2. CASE executor = "destroy" /\ forgotten' = forgotten
    BY <2>2
  <2> QED
    BY <2>1, <2>2, Zenon DEF stopThrows
<1>3. /\ task.op = "restart" /\ task.start = starting => failed' /\ skipped'
      /\ failed => failed'
  BY Zenon DEF stopThrows
<1> QED
  BY <1>1, <1>2, <1>3 DEF Clears, web, clients

LEMMA RestopThrows ==
  ASSUME restopThrows
  PROVE  /\ Clears /\ End /\ starting' = 0 /\ failed'
         /\ executor \in {"start", "restop"}
         /\ executor = "start" => task.start = starting /\ forgotten'
         /\ forgotten => forgotten'
<1>1. /\ server' = "null" /\ UNCHANGED <<web, clients, tasks, last>>
      /\ End /\ starting' = 0 /\ executor \in {"start", "restop"}
      /\ executor = "start" => task.start = starting
  BY DEF restopThrows, forget, serverCleared, startEnds, reset
<1>2. /\ executor = "start" => forgotten'
      /\ forgotten => forgotten'
  <2>1. CASE executor = "start" /\ isWebServiceRunning /\ forget
    BY <2>1, Zenon DEF forget, isWebServiceRunning
  <2>2. CASE executor = "restop" /\ forgotten' = forgotten
    BY <2>2
  <2> QED
    BY <2>1, <2>2, Zenon DEF restopThrows
<1>3. failed'
  BY Zenon DEF restopThrows, startEnds
<1> QED
  BY <1>1, <1>2, <1>3, Zenon DEF Clears, web, clients

LEMMA StopGoesOn ==
  ASSUME stopGoesOn
  PROVE  /\ Clears /\ UNCHANGED <<starting, failed>> /\ forgotten'
         /\ \/ executor = "stop" /\ task.op = "stop" /\ End
            \/ /\ executor = "stop" /\ task.op # "stop"
               /\ executor' = "start" /\ UNCHANGED task
            \/ /\ executor = "start" /\ task.start = starting
               /\ executor' = "create" /\ UNCHANGED task
<1>1. forgotten' /\ failed' = failed
  BY Zenon DEF stopGoesOn, forget
<1>2. /\ server' = "null" /\ starting' = starting
      /\ UNCHANGED <<web, clients, tasks, last>>
  BY DEF stopGoesOn, forget
<1>3. \/ executor = "stop" /\ task.op = "stop" /\ End
      \/ /\ executor = "stop" /\ task.op # "stop"
         /\ executor' = "start" /\ UNCHANGED task
      \/ /\ executor = "start" /\ task.start = starting
         /\ executor' = "create" /\ UNCHANGED task
  BY Zenon DEF stopGoesOn
<1> QED
  BY <1>1, <1>2, <1>3, Zenon DEF Clears, web, clients

StopFails == stopThrows \/ restopThrows \/ stopGoesOn

LEMMA ValuesStep == Values /\ Wants /\ Runs /\ [Next]_vars => Values'
<1> SUFFICES ASSUME Values, Wants, Runs, [Next]_vars PROVE Values'
  OBVIOUS
<1>m. commands < MaxCommands /\ commands' = commands + 1
        => commands' \in 0..MaxCommands
  <2>1. MaxCommands \in Nat /\ commands \in 0..MaxCommands
    BY ClientsAssumption, Zenon DEF ClientsAssumption, Values
  <2> QED
    BY <2>1
<1> USE Commands DEF Values
<1>1. ASSUME NEW c \in Clients, startWebService(c) PROVE Values'
  <2>1. /\ UNCHANGED <<server, executor, task, reactor, thread, client, want>>
        /\ commands < MaxCommands /\ commands' = commands + 1
    BY <1>1 DEF startWebService, web, command
  <2>2. starting' \in Nat /\ tasks' \in Seq(Command) /\ last' \in Task
    <3>1. CASE UNCHANGED <<starting, tasks, last>>
      BY <3>1
    <3>2. CASE UNCHANGED <<tasks, last>> /\ starting' = starting + 1
      BY <3>2
    <3>3. CASE /\ starting' = starting + 1
               /\ append([op |-> "start", start |-> starting + 1])
      <4>1. [op |-> "start", start |-> starting + 1] \in Command
        OBVIOUS
      <4> QED
        BY <3>3, <4>1, Appended DEF append
    <3> QED
      BY <1>1, <3>1, <3>2, <3>3, Zenon DEF startWebService, preIncrement
  <2>3. commands' \in 0..MaxCommands
    BY <1>m, <2>1
  <2> QED
    BY <2>1, <2>2, <2>3
<1>2. ASSUME NEW c \in Clients, stopWebService(c) \/ restartWebService(c)
      PROVE  Values'
  <2>1. /\ UNCHANGED <<starting, server, executor, task, tasks, reactor, thread,
                       last>>
        /\ commands < MaxCommands /\ commands' = commands + 1
    BY <1>2 DEF stopWebService, restartWebService, manager, web, history,
                command
  <2>2. /\ client' \in [Clients -> {"idle", "counting", "checking",
                                    "submitting"}]
        /\ want' \in [Clients -> Task \cup Counting]
    BY <1>2 DEF stopWebService, restartWebService
  <2>3. commands' \in 0..MaxCommands
    BY <1>m, <2>1
  <2> QED
    BY <2>1, <2>2, <2>3
<1>3. ASSUME NEW c \in Clients, count(c) PROVE Values'
  <2>1. want[c] \in Counting
    BY <1>3 DEF count, Wants
  <2>2. /\ want' = [want EXCEPT ![c] = [op |-> "restart",
                                        start |-> want[c].start + 1]]
        /\ want[c].start \in Nat
    BY <1>3, <2>1, Counts, Zenon DEF count
  <2>3. want' \in [Clients -> Task \cup Counting]
    BY <2>2
  <2>4. /\ UNCHANGED <<server, tasks, executor, task, reactor, thread,
                       commands, last>>
        /\ client' = [client EXCEPT ![c] = "checking"]
        /\ starting' = want[c].start + 1
    BY <1>3 DEF count, web
  <2> QED
    BY <2>2, <2>3, <2>4
<1>4. ASSUME NEW c \in Clients, checkForErrors(c) PROVE Values'
  BY <1>4 DEF checkForErrors, web
<1>5. ASSUME NEW c \in Clients, submit(c) PROVE Values'
  <2>1. want[c] \in Command /\ append(want[c])
    BY <1>5 DEF submit, Wants
  <2>2. tasks' \in Seq(Command) /\ last' \in Command
    BY <2>1, Appended DEF append
  <2> QED
    BY <1>5, <2>2 DEF submit, web
<1>6. CASE run
  <2>1. Head(tasks) \in Command /\ Tail(tasks) \in Seq(Command)
    BY <1>6, Taken DEF run
  <2> QED
    BY <1>6, <2>1 DEF run, web, clients, history
<1>7. CASE stopWebServiceNow \/ destroy \/ startWebServiceNow
  BY <1>7 DEF stopWebServiceNow, destroy, startWebServiceNow, End, shutdown,
              serverCleared, web, clients, history
<1>8. CASE startFails \/ startResumes \/ createServer \/ listen
  BY <1>8 DEF startFails, startEnds, startResumes, createServer, listen, End,
              reset, web, clients, history
<1>11. CASE StopFails
  BY <1>11, StopThrows, RestopThrows, StopGoesOn, Zenon
  DEF StopFails, Clears, End
<1>9. CASE Thread
  BY <1>9 DEF Thread, threadListens, threadEnds, threadStops, manager, clients,
              history
<1>10. CASE UNCHANGED vars
  BY <1>10 DEF vars, manager, web, clients, history
<1> QED
  BY <1>1, <1>2, <1>3, <1>4, <1>5, <1>6, <1>7, <1>8, <1>9, <1>10, <1>11, Zenon
  DEF Next, Client, Executor, StopFails
-----------------------------------------------------------------------------
(* The clients, the executor, the reactor.                                   *)

LEMMA WantsStep == Values /\ Wants /\ [Next]_vars => Wants'
<1> SUFFICES ASSUME Values, Wants, [Next]_vars PROVE Wants'
  OBVIOUS
<1> USE Commands DEF Values, Wants
<1>1. ASSUME NEW c \in Clients, startWebService(c) PROVE Wants'
  BY <1>1 DEF startWebService
<1>2. ASSUME NEW c \in Clients, stopWebService(c) \/ restartWebService(c)
      PROVE  Wants'
  BY <1>2 DEF stopWebService, restartWebService
<1>3. ASSUME NEW c \in Clients, count(c) PROVE Wants'
  <2>1. want[c] \in Counting
    BY <1>3 DEF count
  <2>2. /\ want' = [want EXCEPT ![c] = [op |-> "restart",
                                        start |-> want[c].start + 1]]
        /\ want[c].start \in Nat
    BY <1>3, <2>1, Counts, Zenon DEF count
  <2> QED
    BY <1>3, <2>2 DEF count
<1>4. ASSUME NEW c \in Clients, checkForErrors(c) \/ submit(c) PROVE Wants'
  BY <1>4 DEF checkForErrors, submit
<1>5. CASE Executor \/ Thread \/ UNCHANGED vars
  <2>1. UNCHANGED <<client, want>>
    BY <1>5 DEF Executor, Thread, run, stopWebServiceNow, destroy,
       startWebServiceNow, startFails, startEnds, startResumes, createServer,
       listen, stopThrows, restopThrows, stopGoesOn, threadListens, threadEnds,
       threadStops, clients, vars
  <2> QED
    BY <2>1
<1> QED
  BY <1>1, <1>2, <1>3, <1>4, <1>5, Zenon DEF Next, Client

LEMMA RunsStep == Values /\ Runs /\ [Next]_vars => Runs'
<1> SUFFICES ASSUME Values, Runs, [Next]_vars PROVE Runs'
  OBVIOUS
<1> USE Commands DEF Values, Runs, Starts, Starter
<1>1. ASSUME NEW c \in Clients, Client(c) PROVE Runs'
  <2>1. UNCHANGED <<executor, task>>
    BY <1>1 DEF Client, startWebService, stopWebService, restartWebService,
       count, checkForErrors, submit, manager
  <2> QED
    BY <2>1
<1>2. CASE Thread \/ UNCHANGED vars
  <2>1. UNCHANGED <<executor, task>>
    BY <1>2 DEF Thread, threadListens, threadEnds, threadStops, manager, vars
  <2> QED
    BY <2>1
<1>3. CASE run
  <2>1. Head(tasks) \in Command
    BY <1>3, Taken DEF run
  <2> QED
    BY <1>3, <2>1 DEF run
<1>4. CASE stopWebServiceNow \/ destroy \/ startWebServiceNow
  BY <1>4 DEF stopWebServiceNow, destroy, startWebServiceNow, End
<1>5. CASE startFails \/ startResumes \/ createServer \/ listen
  BY <1>5 DEF startFails, startEnds, startResumes, createServer, listen, End
<1>6. CASE stopThrows \/ restopThrows \/ stopGoesOn
  BY <1>6 DEF stopThrows, restopThrows, startEnds, stopGoesOn, End
<1> QED
  BY <1>1, <1>2, <1>3, <1>4, <1>5, <1>6, Zenon DEF Next, Executor

(* A reactor that was active and is not any more has failed.                 *)
LEMMA ThreadEnds ==
  ASSUME threadEnds
  PROVE  /\ thread' = "ending" /\ reactor' = "shut down"
         /\ reactor = "active" => failed'
         /\ failed => failed'
         /\ UNCHANGED <<server, executor, listening, forgotten>>
<1>1. (reactor = "active" => failed') /\ (failed => failed')
  BY Zenon DEF threadEnds
<1> QED
  BY <1>1 DEF threadEnds, manager

LEMMA ReactorStep == Flags /\ Values /\ Reactor /\ [Next]_vars => Reactor'
<1> SUFFICES ASSUME Flags, Values, Reactor, [Next]_vars PROVE Reactor'
  OBVIOUS
<1> USE DEF Values, Reactor
<1>1. ASSUME UNCHANGED <<thread, executor, listening, server, reactor, failed,
                        forgotten>>
      PROVE  Reactor'
  BY <1>1
<1>2. ASSUME NEW c \in Clients, Client(c) PROVE Reactor'
  <2>1. UNCHANGED <<thread, executor, listening, server, reactor, failed,
                    forgotten>>
    BY <1>2 DEF Client, startWebService, stopWebService, restartWebService,
       count, checkForErrors, submit, manager, web, history
  <2> QED
    BY <1>1, <2>1
<1>3. CASE UNCHANGED vars
  BY <1>1, <1>3 DEF vars, manager, web, history
<1>4. CASE run
  BY <1>4 DEF run, web, history
<1>5. CASE stopWebServiceNow
  BY <1>5 DEF stopWebServiceNow, End, shutdown, history
<1>6. CASE destroy
  BY <1>6 DEF destroy, End, serverCleared, web, history
<1>7. CASE startWebServiceNow
  BY <1>7 DEF startWebServiceNow, End, shutdown, isWebServiceRunning, history
<1>8. CASE startFails
  <2>1. failed'
    BY <1>8, Zenon DEF startFails, startEnds
  <2>2. UNCHANGED <<thread, listening, server, reactor, forgotten>>
        /\ executor = "create" /\ executor' = "idle"
    BY <1>8 DEF startFails, startEnds, End, web
  <2> QED
    BY <2>1, <2>2
<1>9. CASE startResumes
  BY <1>9 DEF startResumes, End, web, history
<1>10. CASE createServer
  <2>1. ~listening'
    BY <1>10, Zenon DEF createServer
  <2> QED
    BY <1>10, <2>1 DEF createServer
<1>11. CASE listen
  <2>1. listening /\ (reactor # "active" => failed')
    BY <1>11, Zenon DEF listen
  <2>2. executor = "listen" /\ executor' = "idle"
        /\ server' = (IF reactor = "active" THEN "started" ELSE "null")
        /\ UNCHANGED <<thread, reactor, forgotten>>
    BY <1>11 DEF listen, End, web
  <2> QED
    BY <2>1, <2>2
<1>12. CASE threadListens
  BY <1>12 DEF threadListens, manager, history
<1>13. CASE threadEnds
  BY <1>13, ThreadEnds
<1>14. CASE threadStops
  BY <1>14 DEF threadStops, manager, history
<1>15. CASE stopThrows
  BY <1>15, StopThrows DEF Clears, End
<1>16. CASE restopThrows
  BY <1>16, RestopThrows DEF Clears, End
<1>17. CASE stopGoesOn
  BY <1>17, StopGoesOn DEF Clears, End
<1> QED
  BY <1>2, <1>3, <1>4, <1>5, <1>6, <1>7, <1>8, <1>9, <1>10, <1>11, <1>12,
     <1>13, <1>14, <1>15, <1>16, <1>17, Zenon DEF Next, Executor, Thread
-----------------------------------------------------------------------------
(* The queue of the executor.                                                *)

LEMMA LastStep ==
  Values /\ Wants /\ Runs /\ Reactor /\ Last /\ [Next]_vars => Last'
<1> SUFFICES ASSUME Values, Wants, Runs, Reactor, Last, [Next]_vars
             PROVE  Last'
  OBVIOUS
<1> USE DEF Values, Last, isWebServiceRunning
<1>1. ASSUME UNCHANGED <<tasks, last, executor, task, server, reactor>>
      PROVE  Last'
  BY <1>1
<1>2. ASSUME NEW t \in Command, append(t) PROVE Last'
  <2>1. tasks' = Append(tasks, t) /\ last' = t /\ tasks \in Seq(Command)
    BY <1>2 DEF append
  <2>2. /\ Append(tasks, t) # <<>>
        /\ Len(Append(tasks, t)) = Len(tasks) + 1
        /\ Append(tasks, t)[Len(tasks) + 1] = t
    <3> HIDE DEF Values, Last
    <3> QED
      BY <2>1, Appended
  <2>3. tasks' # <<>> /\ last' = tasks'[Len(tasks')]
    BY <2>1, <2>2, Zenon
  <2> QED
    BY <2>3
<1>3. ASSUME NEW c \in Clients, startWebService(c) PROVE Last'
  <2>1. [op |-> "start", start |-> preIncrement] \in Command
    BY Commands DEF preIncrement
  <2>2. UNCHANGED <<executor, task, server, reactor>>
    BY <1>3 DEF startWebService, web
  <2>3. \/ UNCHANGED <<tasks, last>>
        \/ append([op |-> "start", start |-> preIncrement])
    BY <1>3, Zenon DEF startWebService
  <2> QED
    BY <1>1, <1>2, <2>1, <2>2, <2>3
<1>4. ASSUME NEW c \in Clients, submit(c) PROVE Last'
  BY <1>2, <1>4 DEF submit, Wants
<1>5. ASSUME NEW c \in Clients,
             stopWebService(c) \/ restartWebService(c) \/ count(c)
               \/ checkForErrors(c)
      PROVE  Last'
  <2>1. UNCHANGED <<tasks, last, executor, task, server, reactor>>
    BY <1>5 DEF stopWebService, restartWebService, count, checkForErrors,
                manager, web, history
  <2> QED
    BY <1>1, <2>1
<1>6. CASE run
  <2>1. /\ tasks # <<>> /\ task' = Head(tasks) /\ tasks' = Tail(tasks)
        /\ executor' # "idle" /\ last' = last
    BY <1>6 DEF run, history
  <2>2. /\ Head(tasks) = tasks[1] /\ Len(tasks) \in Nat \ {0}
        /\ tasks' \in Seq(Command) /\ Len(tasks') = Len(tasks) - 1
        /\ \A i \in 1..Len(tasks') : tasks'[i] = tasks[i + 1]
        /\ (tasks' = <<>> <=> Len(tasks) = 1)
    BY <2>1, Taken
  <2>3. CASE Len(tasks) = 1
    BY <2>1, <2>2, <2>3
  <2>4. CASE Len(tasks) # 1
    <3>1. Len(tasks') \in 1..Len(tasks') /\ Len(tasks') + 1 = Len(tasks)
      <4> HIDE DEF Values, Last
      <4> QED
        BY <2>2, <2>4
    <3>2. tasks'[Len(tasks')] = tasks[Len(tasks)]
      BY <2>2, <3>1, Zenon
    <3> QED
      BY <2>1, <2>2, <2>4, <3>2
  <2> QED
    BY <2>3, <2>4
<1>7. CASE stopWebServiceNow \/ destroy
  BY <1>7 DEF stopWebServiceNow, destroy, serverCleared, End, history, web
<1>8. CASE startWebServiceNow \/ createServer
  BY <1>8 DEF startWebServiceNow, createServer, End, history, Runs, Starts,
              Starter
<1>9. CASE startFails \/ startResumes \/ listen
  BY <1>9 DEF startFails, startEnds, startResumes, listen, End, history, Runs,
              Starts, Starter
<1>10. CASE Thread
  BY <1>10 DEF Thread, threadListens, threadEnds, threadStops, manager, history,
               Reactor
<1>11. CASE UNCHANGED vars
  BY <1>1, <1>11 DEF vars, manager, web, history
<1>12. CASE StopFails
  BY <1>12, StopThrows, RestopThrows, StopGoesOn DEF StopFails, Clears, End
<1> QED
  BY <1>3, <1>4, <1>5, <1>6, <1>7, <1>8, <1>9, <1>10, <1>11, <1>12, Zenon
  DEF Next, Client, Executor, StopFails

LEMMA StartersAre ==
  ASSUME NEW s \in Seq(Command)
  PROVE  \A i : i \in StartersIn(s) <=> i \in 1..Len(s) /\ Starter(s[i])
BY DEF StartersIn

(* The numbers, when a command is put into the queue ...                     *)
LEMMA NumbersAppend ==
  ASSUME Values, Clean, Numbers, NEW t \in Command, append(t),
         UNCHANGED <<executor, task>>, starting' \in {starting, starting + 1},
         executor \in Starts => starting' = starting,
         Starter(t) =>
           /\ t.start = starting'
           /\ \A i \in StartersIn(tasks) : tasks[i].start < starting'
           /\ executor # "idle" /\ Starter(task) => task.start < starting'
  PROVE  /\ \A i \in StartersIn(tasks') :
              /\ tasks'[i].start <= starting'
              /\ \A j \in StartersIn(tasks') :
                   i < j => tasks'[i].start < tasks'[j].start
              /\ executor' # "idle" /\ Starter(task')
                   => task'.start < tasks'[i].start
         /\ executor' # "idle" /\ Starter(task') => task'.start <= starting'
         /\ executor' \in Starts => task'.start = starting'
<1>1. /\ tasks' \in Seq(Command) /\ Len(tasks') = Len(tasks) + 1
      /\ \A i \in 1..Len(tasks) : tasks'[i] = tasks[i]
      /\ tasks'[Len(tasks) + 1] = t
  <2>1. tasks' = Append(tasks, t) /\ tasks \in Seq(Command)
    BY DEF append, Values
  <2> QED
    BY <2>1, Appended
<1>2. tasks \in Seq(Command) /\ Len(tasks) \in Nat
  <2>1. tasks \in Seq(Command)
    BY DEF Values
  <2> QED
    BY <2>1
<1>3. \A i \in StartersIn(tasks') :
        \/ i \in StartersIn(tasks) /\ tasks'[i] = tasks[i]
        \/ i = Len(tasks) + 1 /\ tasks'[i] = t /\ Starter(t)
  <2>1. \A i \in 1..(Len(tasks) + 1) :
          i \in 1..Len(tasks) \/ i = Len(tasks) + 1
    BY <1>2
  <2> QED
    BY <1>1, <1>2, <2>1, StartersAre, Zenon
<1>4. \A i \in StartersIn(tasks) : tasks[i].start \in Nat /\ i \in 1..Len(tasks)
  BY <1>2, StartersAre, Commands
<1>5. task.start \in Nat /\ starting \in Nat /\ t.start \in Nat
  BY Commands DEF Values
<1> QED
  BY <1>2, <1>3, <1>4, <1>5 DEF Numbers

(* ... and when one is taken from it.                                        *)
LEMMA NumbersTake ==
  ASSUME Values, Clean, Numbers, run
  PROVE  /\ \A i \in StartersIn(tasks') :
              /\ tasks'[i].start <= starting'
              /\ \A j \in StartersIn(tasks') :
                   i < j => tasks'[i].start < tasks'[j].start
              /\ executor' # "idle" /\ Starter(task')
                   => task'.start < tasks'[i].start
              /\ tasks'[i] = tasks[i + 1] /\ i + 1 \in StartersIn(tasks)
         /\ Starter(task') => task'.start <= starting'
         /\ task' = tasks[1] /\ (Starter(task') => 1 \in StartersIn(tasks))
<1>1. /\ task' = tasks[1] /\ Len(tasks) \in Nat \ {0}
      /\ tasks' \in Seq(Command) /\ Len(tasks') = Len(tasks) - 1
      /\ \A i \in 1..Len(tasks') : tasks'[i] = tasks[i + 1]
  <2>1. /\ tasks' = Tail(tasks) /\ task' = Head(tasks) /\ tasks # <<>>
        /\ tasks \in Seq(Command)
    BY DEF run, Values
  <2> QED
    BY <2>1, Taken
<1>2. tasks \in Seq(Command) /\ starting' = starting
  BY DEF run, Values
<1>3. \A i \in StartersIn(tasks') :
        /\ i \in 1..Len(tasks') /\ tasks'[i] = tasks[i + 1]
        /\ i + 1 \in StartersIn(tasks)
  <2>1. \A i \in 1..Len(tasks') : i + 1 \in 1..Len(tasks)
    BY <1>1
  <2> QED
    BY <1>1, <1>2, <2>1, StartersAre, Zenon
<1>4. Starter(task') => 1 \in StartersIn(tasks)
  <2>1. 1 \in 1..Len(tasks)
    BY <1>1
  <2> QED
    BY <1>1, <1>2, <2>1, StartersAre, Zenon
<1>5. Starter(task') => task'.start <= starting
  <2>1. Starter(task') => 1 \in StartersIn(tasks) /\ task' = tasks[1]
    BY <1>1, <1>4
  <2>2. \A i \in StartersIn(tasks) : tasks[i].start <= starting
    BY Zenon DEF Numbers
  <2> QED
    BY <2>1, <2>2, Zenon
<1>6. ASSUME NEW i \in StartersIn(tasks')
      PROVE  /\ tasks'[i].start <= starting
             /\ Starter(task') => task'.start < tasks'[i].start
             /\ \A j \in StartersIn(tasks') :
                  i < j => tasks'[i].start < tasks'[j].start
  <2>1. /\ i \in Nat \ {0} /\ tasks'[i] = tasks[i + 1]
        /\ i + 1 \in StartersIn(tasks)
    BY <1>1, <1>3
  <2>2. tasks[i + 1].start <= starting
    BY <2>1, Zenon DEF Numbers
  <2>3. \A j \in StartersIn(tasks) :
          /\ i + 1 < j => tasks[i + 1].start < tasks[j].start
          /\ j < i + 1 => tasks[j].start < tasks[i + 1].start
    BY <2>1, Zenon DEF Numbers
  <2>4. Starter(task') => task'.start < tasks'[i].start
    <3>1. 1 < i + 1
      BY <2>1
    <3> QED
      BY <3>1, <1>1, <1>4, <2>1, <2>3, Zenon
  <2>5. ASSUME NEW j \in StartersIn(tasks'), i < j
        PROVE  tasks'[i].start < tasks'[j].start
    <3>1. j \in Nat /\ j + 1 \in StartersIn(tasks) /\ tasks'[j] = tasks[j + 1]
      BY <1>1, <1>3
    <3>2. i + 1 < j + 1
      BY <2>1, <2>5, <3>1
    <3> QED
      BY <3>1, <3>2, <2>1, <2>3, Zenon
  <2> QED
    BY <2>1, <2>2, <2>4, <2>5, Zenon
<1> QED
  BY <1>1, <1>2, <1>3, <1>4, <1>5, <1>6, Zenon

(* Nobody but c is between a ++starting and its submit.                      *)
LEMMA Alone ==
  ASSUME Wants, NEW c \in Clients, ~Restarting(c)
  PROVE  \A d \in Clients \ {c} : client[d] # "counting" /\ ~Counted(d)
BY DEF Restarting, Wants, Counting, Counted

(* A start that is about to end with starting = 0 is the latest there is.    *)
LEMMA Resets ==
  ASSUME Values, Runs, Clean, Numbers,
         executor \in Starts \/ (executor = "start" /\ task.start = starting)
  PROVE  /\ Starter(task) /\ task.start = starting
         /\ StartersIn(tasks) = {} /\ \A c \in Clients : ~Counted(c)
<1>1. Starter(task) /\ task.start = starting /\ executor # "idle"
  BY DEF Runs, Numbers, Starts
<1>2. starting \in Nat
  BY DEF Values
<1>3. tasks \in Seq(Command)
  BY DEF Values
<1>4. \A i \in StartersIn(tasks) : tasks[i].start \in Nat
  BY <1>3, StartersAre, Commands
<1>5. StartersIn(tasks) = {}
  BY <1>1, <1>2, <1>4 DEF Numbers
<1>6. ASSUME NEW c \in Clients, Counted(c) PROVE FALSE
  <2>1. task.start < starting
    BY <1>1, <1>6 DEF Numbers
  <2> QED
    BY <1>1, <1>2, <2>1
<1> QED
  BY <1>1, <1>5, <1>6

LEMMA NumbersStep ==
  Flags /\ Values /\ Wants /\ Runs /\ Numbers /\ [Next]_vars => Numbers'
<1> SUFFICES ASSUME Flags, Values, Wants, Runs, Numbers, [Next]_vars, Clean'
             PROVE  Numbers'
  BY DEF Numbers
<1>c. Clean
  BY CleanStep
<1>v. /\ starting \in Nat /\ tasks \in Seq(Command) /\ task.start \in Nat
      /\ client \in [Clients -> {"idle", "counting", "checking", "submitting"}]
      /\ want \in [Clients -> Task \cup Counting]
      /\ \A i \in StartersIn(tasks) : tasks[i].start \in Nat
  <2>1. tasks \in Seq(Command)
    BY DEF Values
  <2>2. \A i \in StartersIn(tasks) : tasks[i].start \in Nat
    BY <2>1, StartersAre, Commands
  <2> QED
    BY <2>1, <2>2, Commands DEF Values
<1>n. Numbers /\ Clean
  BY <1>c
<1>u. ASSUME UNCHANGED <<starting, tasks, executor, task, client, want>>
      PROVE  Numbers'
  BY <1>n, <1>u DEF Numbers, StartersIn, Starter, Counted
<1>1. ASSUME NEW c \in Clients, startWebService(c) PROVE Numbers'
  <2>1. CASE isWebServiceRunning
    BY <1>1, <1>u, <2>1 DEF startWebService
  <2>2. CASE ~isWebServiceRunning
    <3>1. ~refused' /\ ~overlap'
      BY DEF Clean
    <3>2. /\ starting' = starting + 1 /\ ~Restarting(c)
          /\ append([op |-> "start", start |-> starting + 1])
      BY <1>1, <2>2, <3>1, StartsAlone
    <3>3. /\ UNCHANGED <<executor, task, client, want>> /\ ~Held
          /\ client[c] = "idle"
      BY <1>1 DEF startWebService
    <3>4. [op |-> "start", start |-> starting + 1] \in Command
      BY <1>v, Commands
    <3>5. executor \notin Starts
      BY <3>3 DEF Held, Starts
    <3>6. /\ \A i \in StartersIn(tasks) : tasks[i].start < starting'
          /\ executor # "idle" /\ Starter(task) => task.start < starting'
      BY <1>n, <1>v, <3>2 DEF Numbers
    <3>7. \A d \in Clients : client'[d] # "counting" /\ ~Counted(d)'
      BY <1>v, <3>2, <3>3, Alone DEF Counted
    <3> DEFINE t == [op |-> "start", start |-> starting + 1]
    <3>8. t \in Command /\ append(t) /\ t.start = starting'
      BY <3>2, <3>4
    <3> HIDE DEF t
    <3> QED
      BY <1>n, <3>2, <3>3, <3>5, <3>6, <3>7, <3>8, NumbersAppend DEF Numbers
  <2> QED
    BY <2>1, <2>2
<1>2. ASSUME NEW c \in Clients, stopWebService(c) PROVE Numbers'
  <2>1. UNCHANGED <<starting, tasks, executor, task>>
    BY <1>2 DEF stopWebService, manager
  <2>2. \/ UNCHANGED <<client, want>>
        \/ /\ client' = [client EXCEPT ![c] = "checking"]
           /\ want' = [want EXCEPT ![c] = [op |-> "stop", start |-> 0]]
    BY <1>2 DEF stopWebService
  <2>3. \A d \in Clients :
          /\ client'[d] = "counting" => client[d] = "counting"
                                          /\ want'[d] = want[d]
          /\ Counted(d)' => Counted(d) /\ want'[d] = want[d]
    BY <1>v, <2>2 DEF Counted
  <2> QED
    BY <1>n, <2>1, <2>3 DEF Numbers, StartersIn, Starter
<1>3. ASSUME NEW c \in Clients, restartWebService(c) PROVE Numbers'
  <2>1. /\ UNCHANGED <<starting, tasks, executor, task>>
        /\ client' = [client EXCEPT ![c] = "counting"]
        /\ want' = [want EXCEPT ![c] = [op |-> "restart", start |-> starting]]
    BY <1>3 DEF restartWebService, manager
  <2>2. /\ want'[c].start = starting
        /\ \A d \in Clients : Counted(d)' => Counted(d) /\ want'[d] = want[d]
        /\ \A d \in Clients \ {c} : client'[d] = client[d] /\ want'[d] = want[d]
    BY <1>v, <2>1 DEF Counted
  <2> QED
    BY <1>n, <1>v, <2>1, <2>2 DEF Numbers, StartersIn, Starter
<1>4. ASSUME NEW c \in Clients, count(c) PROVE Numbers'
  <2>1. ~Restarting(c) /\ executor \notin Starts
    BY <1>4, CountsAlone DEF Held, Starts
  <2>2. /\ UNCHANGED <<tasks, executor, task>> /\ client[c] = "counting"
        /\ client' = [client EXCEPT ![c] = "checking"]
        /\ starting' = want[c].start + 1
    BY <1>4 DEF count
  <2>3. /\ want' = [want EXCEPT ![c] = [op |-> "restart",
                                        start |-> want[c].start + 1]]
        /\ want[c].start \in Nat
    <3>1. want[c] \in Counting
      BY <2>2 DEF Wants
    <3> QED
      BY <1>4, <3>1, Counts, Zenon DEF count
  <2>4. want[c].start >= starting
    BY <1>n, <2>2 DEF Numbers
  <2>5. /\ want'[c].start = starting' /\ starting < starting'
        /\ client'[c] = "checking"
    BY <1>v, <2>2, <2>3, <2>4
  <2>6. \A d \in Clients \ {c} : client'[d] # "counting" /\ ~Counted(d)'
    <3>1. \A d \in Clients \ {c} :
            client'[d] = client[d] /\ want'[d] = want[d]
      BY <1>v, <2>2, <2>3
    <3> QED
      BY <2>1, <3>1, Alone DEF Counted
  <2>7. /\ \A i \in StartersIn(tasks) : tasks[i].start < starting'
        /\ executor # "idle" /\ Starter(task) => task.start < starting'
    BY <1>n, <1>v, <2>2, <2>3, <2>4 DEF Numbers
  <2>8. starting' \in Nat
    BY <2>2, <2>3
  <2> QED
    BY <1>n, <1>v, <2>1, <2>2, <2>5, <2>6, <2>7, <2>8
    DEF Numbers, StartersIn, Starter
<1>5. ASSUME NEW c \in Clients, checkForErrors(c) PROVE Numbers'
  <2>1. UNCHANGED <<starting, tasks, executor, task, want>>
    BY <1>5 DEF checkForErrors
  <2>2. \A d \in Clients :
          /\ client'[d] = "counting" => client[d] = "counting"
          /\ Counted(d)' => Counted(d)
    BY <1>5, <1>v DEF checkForErrors, Counted
  <2> QED
    BY <1>n, <2>1, <2>2 DEF Numbers, StartersIn, Starter
<1>6. ASSUME NEW c \in Clients, submit(c) PROVE Numbers'
  <2>1. /\ client[c] = "submitting" /\ append(want[c])
        /\ client' = [client EXCEPT ![c] = "idle"]
        /\ UNCHANGED <<starting, executor, task, want>>
    BY <1>6 DEF submit
  <2>2. want[c] \in Command
    BY <2>1 DEF Wants
  <2>3. Starter(want[c]) => want[c].op = "start" \/ Counted(c)
    BY <2>1 DEF Starter, Counted
  <2>4. want[c].op # "start"
    BY <2>1 DEF Wants
  <2>5. Starter(want[c]) =>
          /\ want[c].start = starting'
          /\ \A i \in StartersIn(tasks) : tasks[i].start < starting'
          /\ executor # "idle" /\ Starter(task) => task.start < starting'
    BY <1>n, <2>1, <2>3, <2>4 DEF Numbers
  <2>6. \A d \in Clients :
          /\ client'[d] = "counting" => client[d] = "counting"
          /\ Counted(d)' => d # c /\ Counted(d)
    BY <1>v, <2>1 DEF Counted
  <2>7. \A d \in Clients : Counted(d)' => ~Starter(want[c])
    BY <1>n, <2>3, <2>4, <2>6 DEF Numbers
  <2>8. \A i \in StartersIn(tasks') :
          \/ i \in StartersIn(tasks) /\ tasks'[i] = tasks[i]
          \/ Starter(want[c])
    <3>1. /\ tasks' \in Seq(Command) /\ Len(tasks') = Len(tasks) + 1
          /\ \A i \in 1..Len(tasks) : tasks'[i] = tasks[i]
          /\ tasks'[Len(tasks) + 1] = want[c] /\ Len(tasks) \in Nat
      BY <1>v, <2>1, <2>2, Appended DEF append
    <3>2. \A i \in 1..(Len(tasks) + 1) :
            i \in 1..Len(tasks) \/ i = Len(tasks) + 1
      BY <3>1
    <3> QED
      BY <1>v, <3>1, <3>2, StartersAre, Zenon
  <2>9. \A d \in Clients : Counted(d)' =>
          /\ want'[d].start = starting'
          /\ \A i \in StartersIn(tasks') : tasks'[i].start < starting'
          /\ executor' # "idle" /\ Starter(task') => task'.start < starting'
          /\ \A e \in Clients : Counted(e)' => e = d
    BY <1>n, <2>1, <2>6, <2>7, <2>8 DEF Numbers
  <2>10. executor \in Starts => starting' = starting
    BY <2>1
  <2>11. \A d \in Clients :
           client'[d] = "counting" => want'[d].start >= starting'
    BY <1>n, <2>1, <2>6 DEF Numbers
  <2> QED
    BY <1>n, <2>1, <2>2, <2>5, <2>9, <2>10, <2>11, NumbersAppend DEF Numbers
<1>7. CASE run
  <2>1. UNCHANGED <<starting, client, want>> /\ executor' \in {"start", "stop"}
    BY <1>7 DEF run, clients
  <2>2. \A d \in Clients : Counted(d)' => Counted(d)
    BY <2>1 DEF Counted
  <2>3. \A d \in Clients : Counted(d)' =>
          /\ \A i \in StartersIn(tasks') : tasks'[i].start < starting'
          /\ Starter(task') => task'.start < starting'
    BY <1>7, <1>n, <2>1, <2>2, NumbersTake DEF Numbers
  <2> QED
    BY <1>7, <1>n, <2>1, <2>2, <2>3, NumbersTake DEF Numbers, Starts
<1>8. CASE stopWebServiceNow \/ destroy \/ startWebServiceNow \/ createServer
  <2>1. UNCHANGED <<starting, tasks, client, want>>
    BY <1>8 DEF stopWebServiceNow, destroy, startWebServiceNow, createServer,
                clients
  <2>2. executor' # "idle" => executor # "idle" /\ task' = task
    BY <1>8 DEF stopWebServiceNow, destroy, startWebServiceNow, createServer,
                End
  <2>3. executor' \in Starts => task.start = starting
    BY <1>8, <1>n DEF stopWebServiceNow, destroy, startWebServiceNow,
                      createServer, End, Numbers, Starts
  <2> QED
    BY <1>n, <2>1, <2>2, <2>3 DEF Numbers, StartersIn, Starter, Counted, Starts
<1>9. CASE startFails \/ startResumes \/ listen \/ restopThrows
  <2>1. /\ \/ executor \in Starts
           \/ executor = "start" /\ task.start = starting
        /\ executor' = "idle" /\ starting' = 0
        /\ UNCHANGED <<tasks, client, want>>
    <3>1. CASE startFails \/ startResumes \/ listen
      BY <3>1 DEF startFails, startEnds, startResumes, listen, End, reset,
                  clients, Starts
    <3>2. CASE restopThrows
      BY <3>2, RestopThrows DEF Clears, End, Starts
    <3> QED
      BY <1>9, <3>1, <3>2
  <2>2. StartersIn(tasks) = {} /\ \A c \in Clients : ~Counted(c)
    BY <1>n, <2>1, Resets
  <2>3. \A c \in Clients : client[c] = "counting" => want[c].start >= 0
    BY <1>v DEF Wants, Counting
  <2>4. StartersIn(tasks') = {} /\ \A c \in Clients : ~Counted(c)'
    BY <2>1, <2>2, Zenon DEF StartersIn, Starter, Counted
  <2> QED
    BY <2>1, <2>3, <2>4 DEF Numbers, Starts
<1>10. CASE Thread
  BY <1>10, <1>u DEF Thread, threadListens, threadEnds, threadStops, manager,
                     clients
<1>11. CASE UNCHANGED vars
  BY <1>11, <1>u DEF vars, manager, clients
<1>12. CASE stopThrows \/ stopGoesOn
  <2>1. UNCHANGED <<starting, tasks, client, want>> /\ executor # "idle"
    BY <1>12, StopThrows, StopGoesOn, Zenon DEF Clears
  <2>2. executor' # "idle" =>
          /\ executor # "idle" /\ task' = task
          /\ executor' = "start" \/ task.start = starting
    BY <1>12, StopThrows, StopGoesOn DEF End
  <2> QED
    BY <1>n, <2>1, <2>2 DEF Numbers, StartersIn, Starter, Counted, Starts
<1> QED
  BY <1>1, <1>2, <1>3, <1>4, <1>5, <1>6, <1>7, <1>8, <1>9, <1>10, <1>11, <1>12,
     Zenon
  DEF Next, Client, Executor

-----------------------------------------------------------------------------
(* The command that is done in the end.                                      *)

LEMMA LatestStep ==
  /\ Flags /\ Values /\ Wants /\ Runs /\ Reactor /\ Last /\ Numbers /\ Latest
  /\ [Next]_vars
  => Latest'
<1> SUFFICES ASSUME Flags, Values, Wants, Runs, Reactor, Last, Numbers, Latest,
                    [Next]_vars,
                    Clean', Starter(last'), \A c \in Clients : ~Counted(c)'
             PROVE  IF tasks' = <<>> /\ executor' = "idle"
                      THEN isWebServiceRunning' \/ failed'
                      ELSE last'.start = starting'
  BY DEF Latest, Starter
<1> DEFINE Goal == IF tasks' = <<>> /\ executor' = "idle"
                     THEN isWebServiceRunning' \/ failed'
                     ELSE last'.start = starting'
<1> SUFFICES Goal
  OBVIOUS
<1>c. Clean
  BY CleanStep
<1>v. /\ starting \in Nat /\ tasks \in Seq(Command)
      /\ client \in [Clients -> {"idle", "counting", "checking", "submitting"}]
      /\ want \in [Clients -> Task \cup Counting]
      /\ server \in {"null", "started"}
  BY DEF Values
<1>a. ASSUME NEW t \in Command, append(t), t.start = starting' PROVE Goal
  <2>1. tasks' = Append(tasks, t) /\ last' = t
    BY <1>a DEF append
  <2>2. Append(tasks, t) # <<>>
    BY <1>v, Appended
  <2> QED
    BY <1>a, <2>1, <2>2
<1>b. ASSUME \A c \in Clients : ~Counted(c), Starter(last)
      PROVE  IF tasks = <<>> /\ executor = "idle"
               THEN isWebServiceRunning \/ failed
               ELSE last.start = starting
  BY <1>b, <1>c DEF Latest
<1>u. ASSUME \A c \in Clients : ~Counted(c),
             UNCHANGED <<starting, tasks, executor, last, server, reactor,
                         failed>>
      PROVE  Goal
  BY <1>b, <1>u DEF isWebServiceRunning
<1>1. ASSUME NEW c \in Clients, startWebService(c) PROVE Goal
  <2>1. CASE isWebServiceRunning
    <3>1. UNCHANGED <<client, want, starting, tasks, executor, last, server,
                      reactor, failed>>
      BY <1>1, <2>1 DEF startWebService, web
    <3>2. \A d \in Clients : ~Counted(d)
      BY <3>1 DEF Counted
    <3> QED
      BY <1>u, <3>1, <3>2
  <2>2. CASE ~isWebServiceRunning
    <3>1. ~refused'
      BY DEF Clean
    <3>2. /\ starting' = starting + 1
          /\ append([op |-> "start", start |-> starting + 1])
      BY <1>1, <2>2, <3>1, StartsAlone
    <3>3. [op |-> "start", start |-> starting + 1] \in Command
      BY <1>v, Commands
    <3>4. [op |-> "start", start |-> starting + 1].start = starting + 1
      OBVIOUS
    <3> QED
      BY <1>a, <3>2, <3>3, <3>4
  <2> QED
    BY <2>1, <2>2
<1>2. ASSUME NEW c \in Clients, stopWebService(c) \/ restartWebService(c)
      PROVE  Goal
  <2>1. UNCHANGED <<starting, tasks, executor, last, server, reactor, failed>>
    BY <1>2 DEF stopWebService, restartWebService, manager, web, history
  <2>2. client[c] = "idle"
    BY <1>2 DEF stopWebService, restartWebService
  <2>3. \A d \in Clients \ {c} : client'[d] = client[d] /\ want'[d] = want[d]
    BY <1>2, <1>v DEF stopWebService, restartWebService
  <2>4. \A d \in Clients : ~Counted(d)
    BY <2>2, <2>3 DEF Counted
  <2> QED
    BY <1>u, <2>1, <2>4
<1>3. ASSUME NEW c \in Clients, count(c) PROVE FALSE
  <2>1. want[c].op = "restart" /\ want[c] \in Counting
    BY <1>3 DEF count, Wants, Counting
  <2>2. client'[c] = "checking" /\ want'[c].op = "restart"
    <3>1. want' = [want EXCEPT ![c] = [op |-> "restart",
                                       start |-> want[c].start + 1]]
      BY <1>3, <2>1, Counts, Zenon DEF count
    <3> QED
      BY <1>3, <1>v, <3>1 DEF count
  <2> QED
    BY <2>2 DEF Counted
<1>4. ASSUME NEW c \in Clients, checkForErrors(c) PROVE Goal
  <2>1. UNCHANGED <<starting, tasks, executor, last, server, reactor, failed,
                    want>>
    BY <1>4 DEF checkForErrors, web
  <2>2. ~Counted(c)
    <3> SUFFICES ASSUME Counted(c) PROVE FALSE
      OBVIOUS
    <3>1. client' = [client EXCEPT ![c] = "submitting"]
      BY <1>4, ChecksOut DEF Counted, Clean
    <3> QED
      BY <1>v, <2>1, <3>1 DEF Counted
  <2>3. \A d \in Clients \ {c} : client'[d] = client[d]
    BY <1>4, <1>v DEF checkForErrors
  <2>4. \A d \in Clients : ~Counted(d)
    BY <2>1, <2>2, <2>3 DEF Counted
  <2> QED
    BY <1>u, <2>1, <2>4
<1>5. ASSUME NEW c \in Clients, submit(c) PROVE Goal
  <2>1. client[c] = "submitting" /\ append(want[c]) /\ starting' = starting
    BY <1>5 DEF submit
  <2>2. want[c] \in Command /\ want[c].op # "start" /\ last' = want[c]
    BY <2>1 DEF Wants, append
  <2>3. Counted(c)
    BY <2>1, <2>2 DEF Starter, Counted
  <2>4. want[c].start = starting'
    BY <1>c, <2>1, <2>3 DEF Numbers
  <2> QED
    BY <1>a, <2>1, <2>2, <2>4
<1>6. CASE Executor
  <2>1. UNCHANGED <<client, want, last>>
    BY <1>6 DEF Executor, run, stopWebServiceNow, destroy, startWebServiceNow,
       startFails, startEnds, startResumes, createServer, listen, stopThrows,
       restopThrows, stopGoesOn, clients, history
  <2>2. (\A c \in Clients : ~Counted(c)) /\ Starter(last)
    BY <2>1 DEF Counted, Starter
  <2>3. tasks # <<>> \/ executor # "idle" => last.start = starting
    BY <1>b, <2>2
  <2>4. CASE run
    BY <2>1, <2>3, <2>4 DEF run
  <2>5. CASE stopWebServiceNow \/ destroy
    <3>1. UNCHANGED <<starting, tasks>> /\ executor # "idle"
      BY <2>5 DEF stopWebServiceNow, destroy
    <3>2. executor' = "idle" => task.op = "stop"
      BY <2>5 DEF stopWebServiceNow, destroy, End
    <3>3. tasks = <<>> => executor' # "idle"
      BY <2>2, <3>1, <3>2 DEF Last, Starter
    <3> QED
      BY <2>1, <2>3, <3>1, <3>3
  <2>6. CASE startWebServiceNow
    <3>1. UNCHANGED <<starting, tasks>> /\ executor # "idle"
      BY <2>6 DEF startWebServiceNow
    <3>2. executor' = "idle" => task.start # starting
      BY <2>6 DEF startWebServiceNow, End
    <3>3. tasks = <<>> => executor' # "idle"
      BY <2>3, <3>1, <3>2 DEF Last
    <3> QED
      BY <2>1, <2>3, <3>1, <3>3
  <2>7. CASE createServer
    BY <2>1, <2>3, <2>7 DEF createServer
  <2>8. CASE startFails \/ startResumes \/ listen \/ restopThrows
    <3>1. /\ \/ executor \in Starts
             \/ executor = "start" /\ task.start = starting
          /\ tasks' = tasks /\ executor' = "idle"
      <4>1. CASE startFails \/ startResumes \/ listen
        BY <4>1 DEF startFails, startEnds, startResumes, listen, End, Starts
      <4>2. CASE restopThrows
        BY <4>2, RestopThrows DEF Clears, End, Starts
      <4> QED
        BY <2>8, <4>1, <4>2
    <3>2. tasks = <<>>
      <4> SUFFICES ASSUME tasks # <<>> PROVE FALSE
        OBVIOUS
      <4>1. last = tasks[Len(tasks)] /\ Len(tasks) \in 1..Len(tasks)
        BY <1>v, EmptySeq DEF Last
      <4>2. Len(tasks) \in StartersIn(tasks)
        BY <1>v, <2>2, <4>1, StartersAre
      <4> QED
        BY <1>c, <3>1, <4>2, Resets
    <3>3. isWebServiceRunning' \/ failed'
      <4>1. CASE startFails \/ restopThrows
        BY <4>1, RestopThrows, Zenon DEF startFails, startEnds
      <4>2. CASE startResumes
        <5>1. /\ server = "started" /\ server' = "started" /\ reactor' = reactor
              /\ executor = "create"
          BY <1>v, <4>2 DEF startResumes, web
        <5>2. failed => failed'
          BY <4>2, Zenon DEF startResumes, history
        <5> QED
          BY <5>1, <5>2 DEF Reactor, isWebServiceRunning
      <4>3. CASE listen
        <5>1. reactor # "active" => failed'
          BY <4>3, Zenon DEF listen
        <5>2. server' = (IF reactor = "active" THEN "started" ELSE "null")
              /\ reactor' = reactor
          BY <4>3 DEF listen, web
        <5> QED
          BY <5>1, <5>2 DEF isWebServiceRunning
      <4> QED
        BY <2>8, <4>1, <4>2, <4>3
    <3> QED
      BY <3>1, <3>2, <3>3
  <2>9. CASE stopGoesOn
    <3>1. UNCHANGED <<starting, tasks>> /\ executor # "idle"
      BY <2>9, StopGoesOn, Zenon DEF Clears
    <3>2. executor' = "idle" => task.op = "stop"
      BY <2>9, StopGoesOn
    <3>3. tasks = <<>> => executor' # "idle"
      BY <2>2, <3>1, <3>2 DEF Last, Starter
    <3> QED
      BY <2>1, <2>3, <3>1, <3>3
  <2>10. CASE stopThrows
    <3>1. UNCHANGED <<starting, tasks>> /\ executor \in {"stop", "destroy"}
      BY <2>10, StopThrows, Zenon DEF Clears
    <3>2. tasks = <<>> => task.op = "restart" /\ task.start = starting
      BY <2>2, <2>3, <3>1 DEF Last, Runs, Starter
    <3>3. tasks = <<>> => failed'
      BY <2>10, <3>2, StopThrows, Zenon
    <3> QED
      BY <2>1, <2>3, <3>1, <3>3
  <2> QED
    BY <1>6, <2>4, <2>5, <2>6, <2>7, <2>8, <2>9, <2>10, Zenon DEF Executor
<1>7. CASE Thread
  <2>1. UNCHANGED <<client, want, last, starting, tasks, executor, server>>
    BY <1>7 DEF Thread, threadListens, threadEnds, threadStops, manager,
                clients, history
  <2>2. (\A c \in Clients : ~Counted(c)) /\ Starter(last)
    BY <2>1 DEF Counted, Starter
  <2>3. CASE threadListens
    BY <1>b, <2>1, <2>2, <2>3 DEF threadListens, Reactor
  <2>4. CASE threadEnds
    BY <1>b, <2>1, <2>2, <2>4, ThreadEnds DEF isWebServiceRunning
  <2>5. CASE threadStops
    BY <1>u, <2>1, <2>2, <2>5 DEF threadStops, history
  <2> QED
    BY <1>7, <2>3, <2>4, <2>5 DEF Thread
<1>8. CASE UNCHANGED vars
  <2>1. UNCHANGED <<client, want, starting, tasks, executor, last, server,
                    reactor, failed>>
    BY <1>8 DEF vars, manager, web, clients, history
  <2>2. \A c \in Clients : ~Counted(c)
    BY <2>1 DEF Counted
  <2> QED
    BY <1>u, <2>1, <2>2
<1> HIDE DEF Goal
<1> QED
  BY <1>1, <1>2, <1>3, <1>4, <1>5, <1>6, <1>7, <1>8, Zenon DEF Next, Client

(* The number that is somebody's.                                            *)

LEMMA OwnedStep ==
  Flags /\ Values /\ Wants /\ Runs /\ Owned /\ [Next]_vars => Owned'
<1> DEFINE Somebody ==
             \/ executor \in Starts
             \/ executor # "idle" /\ Starter(task) /\ task.start = starting
             \/ \E i \in StartersIn(tasks) : tasks[i].start = starting
             \/ \E c \in Clients : Counted(c) /\ want[c].start = starting
<1> SUFFICES ASSUME Flags, Values, Wants, Runs, Owned, [Next]_vars,
                    starting' > 0, ~refused', ~skipped'
             PROVE  Somebody'
  BY DEF Owned
<1>r. ~refused
  BY KeptStep, Zenon DEF Kept
<1>k. skipped => starting' = 0
  <2>1. ASSUME NEW c \in Clients, Client(c) PROVE skipped' = skipped
    <3>1. CASE startWebService(c) \/ stopWebService(c) \/ restartWebService(c)
      BY <3>1, Zenon DEF startWebService, stopWebService, restartWebService,
                         history
    <3>2. CASE count(c) \/ checkForErrors(c) \/ submit(c)
      BY <3>2, Zenon DEF count, checkForErrors, submit
    <3> QED
      BY <2>1, <3>1, <3>2, Zenon DEF Client
  <2>2. CASE Executor
    <3>1. CASE run \/ stopWebServiceNow \/ destroy \/ startWebServiceNow
               \/ createServer \/ stopGoesOn
      BY <3>1, Zenon DEF run, stopWebServiceNow, destroy, startWebServiceNow,
                         createServer, stopGoesOn, history
    <3>2. CASE stopThrows
      BY <3>2, Zenon DEF stopThrows
    <3>3. CASE startFails \/ startResumes \/ listen \/ restopThrows
      BY <3>3, Zenon DEF startFails, startEnds, startResumes, listen,
                         restopThrows, reset
    <3> QED
      BY <2>2, <3>1, <3>2, <3>3, Zenon DEF Executor
  <2>3. CASE Thread
    BY <2>3, Zenon DEF Thread, threadListens, threadEnds, threadStops, history
  <2>4. CASE UNCHANGED vars
    BY <2>4, Zenon DEF vars, history
  <2> QED
    BY <2>1, <2>2, <2>3, <2>4, Zenon DEF Next
<1>v. /\ starting \in Nat /\ tasks \in Seq(Command)
      /\ client \in [Clients -> {"idle", "counting", "checking", "submitting"}]
      /\ want \in [Clients -> Task \cup Counting]
  BY DEF Values
<1>z. ~skipped
  BY <1>k
<1>s. starting' = starting => Somebody
  BY <1>r, <1>z DEF Owned
<1>a. ASSUME NEW t \in Command, append(t) PROVE
        /\ \A i \in StartersIn(tasks) :
             i \in StartersIn(tasks') /\ tasks'[i] = tasks[i]
        /\ Starter(t) => \E i \in StartersIn(tasks') : tasks'[i] = t
  <2>1. /\ tasks' \in Seq(Command) /\ Len(tasks') = Len(tasks) + 1
        /\ \A i \in 1..Len(tasks) : tasks'[i] = tasks[i]
        /\ tasks'[Len(tasks) + 1] = t
    <3>1. tasks' = Append(tasks, t)
      BY <1>a DEF append
    <3> QED
      BY <1>v, <3>1, Appended
  <2>2. /\ \A i \in 1..Len(tasks) : i \in 1..(Len(tasks) + 1)
        /\ Len(tasks) + 1 \in 1..(Len(tasks) + 1)
    BY <1>v
  <2> QED
    BY <1>v, <2>1, <2>2, StartersAre, Zenon
<1>1. ASSUME NEW c \in Clients, startWebService(c) PROVE Somebody'
  <2>1. CASE isWebServiceRunning
    <3>1. UNCHANGED <<client, want, starting, tasks, executor, task>>
      BY <1>1, <2>1 DEF startWebService
    <3> QED
      BY <1>s, <3>1 DEF StartersIn, Starter, Counted
  <2>2. CASE ~isWebServiceRunning
    <3>1. /\ starting' = starting + 1
          /\ append([op |-> "start", start |-> starting + 1])
      BY <1>1, <2>2, StartsAlone
    <3>2. [op |-> "start", start |-> starting + 1] \in Command
      BY <1>v, Commands
    <3>3. [op |-> "start", start |-> starting + 1].start = starting + 1
          /\ Starter([op |-> "start", start |-> starting + 1])
      BY DEF Starter
    <3>4. PICK i \in StartersIn(tasks') :
            tasks'[i] = [op |-> "start", start |-> starting + 1]
      BY <1>a, <3>1, <3>2, <3>3
    <3>5. tasks'[i].start = starting'
      BY <3>1, <3>3, <3>4
    <3> QED
      BY <3>5
  <2> QED
    BY <2>1, <2>2
<1>2. ASSUME NEW c \in Clients, stopWebService(c) \/ restartWebService(c)
      PROVE  Somebody'
  <2>1. UNCHANGED <<starting, tasks, executor, task>> /\ client[c] = "idle"
    BY <1>2 DEF stopWebService, restartWebService, manager
  <2>2. \A d \in Clients \ {c} : client'[d] = client[d] /\ want'[d] = want[d]
    BY <1>2, <1>v DEF stopWebService, restartWebService
  <2>3. \A d \in Clients : Counted(d) => Counted(d)' /\ want'[d] = want[d]
    BY <2>1, <2>2 DEF Counted
  <2> QED
    BY <1>s, <2>1, <2>3 DEF StartersIn, Starter
<1>3. ASSUME NEW c \in Clients, count(c) PROVE Somebody'
  <2>1. want[c] \in Counting
    BY <1>3 DEF count, Wants
  <2>2. /\ want' = [want EXCEPT ![c] = [op |-> "restart",
                                        start |-> want[c].start + 1]]
        /\ starting' = want[c].start + 1
    BY <1>3, <2>1, Counts, Zenon DEF count
  <2>3. client' = [client EXCEPT ![c] = "checking"]
    BY <1>3 DEF count
  <2>4. Counted(c)' /\ want'[c].start = starting'
    BY <1>v, <2>2, <2>3 DEF Counted
  <2> QED
    BY <2>4
<1>4. ASSUME NEW c \in Clients, checkForErrors(c) PROVE Somebody'
  <2>1. UNCHANGED <<starting, tasks, executor, task, want>>
    BY <1>4 DEF checkForErrors
  <2>2. \A d \in Clients \ {c} : client'[d] = client[d]
    BY <1>4, <1>v DEF checkForErrors
  <2>3. want[c].op = "restart" => client'[c] = "submitting"
    BY <1>4, <1>v, ChecksOut
  <2>4. \A d \in Clients : Counted(d) => Counted(d)'
    BY <2>1, <2>2, <2>3 DEF Counted
  <2> QED
    BY <1>s, <2>1, <2>4 DEF StartersIn, Starter
<1>5. ASSUME NEW c \in Clients, submit(c) PROVE Somebody'
  <2>1. /\ client[c] = "submitting" /\ append(want[c])
        /\ client' = [client EXCEPT ![c] = "idle"]
        /\ UNCHANGED <<starting, executor, task, want>>
    BY <1>5 DEF submit
  <2>2. want[c] \in Command
    BY <2>1 DEF Wants
  <2>3. CASE Counted(c) /\ want[c].start = starting
    <3>1. Starter(want[c])
      BY <2>3 DEF Counted, Starter
    <3>2. PICK i \in StartersIn(tasks') : tasks'[i] = want[c]
      BY <1>a, <2>1, <2>2, <3>1
    <3> QED
      BY <2>1, <2>3, <3>2
  <2>4. CASE ~(Counted(c) /\ want[c].start = starting)
    <3>1. \A d \in Clients \ {c} : Counted(d) => Counted(d)'
      BY <1>v, <2>1 DEF Counted
    <3>2. \A i \in StartersIn(tasks) :
            i \in StartersIn(tasks') /\ tasks'[i] = tasks[i]
      BY <1>a, <2>1, <2>2
    <3> QED
      BY <1>s, <2>1, <2>4, <3>1, <3>2 DEF Starter
  <2> QED
    BY <2>3, <2>4
<1>6. CASE run
  <2>1. /\ UNCHANGED <<starting, client, want>> /\ executor' # "idle"
        /\ executor = "idle" /\ executor \notin Starts
    BY <1>6 DEF run, clients, Starts
  <2>2. /\ task' = tasks[1] /\ Len(tasks) \in Nat \ {0}
        /\ tasks' \in Seq(Command) /\ Len(tasks') = Len(tasks) - 1
        /\ \A i \in 1..Len(tasks') : tasks'[i] = tasks[i + 1]
    <3>1. tasks' = Tail(tasks) /\ task' = Head(tasks) /\ tasks # <<>>
      BY <1>6 DEF run
    <3> QED
      BY <1>v, <3>1, Taken
  <2>3. ASSUME NEW i \in StartersIn(tasks), tasks[i].start = starting
        PROVE  Somebody'
    <3>1. i \in 1..Len(tasks) /\ Starter(tasks[i])
      BY <1>v, <2>3, StartersAre
    <3>2. CASE i = 1
      BY <2>1, <2>2, <2>3, <3>1, <3>2 DEF Starter
    <3>3. CASE i # 1
      <4>1. i - 1 \in 1..Len(tasks') /\ (i - 1) + 1 = i
        BY <2>2, <3>1, <3>3
      <4>2. tasks'[i - 1] = tasks[i]
        BY <2>2, <4>1, Zenon
      <4>3. i - 1 \in StartersIn(tasks')
        BY <2>2, <3>1, <4>1, <4>2, StartersAre, Zenon
      <4> QED
        BY <2>1, <2>3, <4>2, <4>3
    <3> QED
      BY <3>2, <3>3
  <2> QED
    BY <1>s, <2>1, <2>3 DEF Counted
<1>7. CASE stopWebServiceNow \/ destroy \/ startWebServiceNow \/ createServer
  <2>1. UNCHANGED <<starting, tasks, client, want>>
    BY <1>7 DEF stopWebServiceNow, destroy, startWebServiceNow, createServer,
                clients
  <2>2. \/ executor' \in Starts
        \/ executor \notin Starts /\ executor' # "idle" /\ task' = task
        \/ executor \notin Starts /\ task.op = "stop"
        \/ executor \notin Starts /\ task.start # starting
    <3>1. CASE stopWebServiceNow
      BY <3>1 DEF stopWebServiceNow, End, Starts
    <3>2. CASE destroy
      BY <3>2 DEF destroy, End, Starts, Runs, Starter
    <3>3. CASE startWebServiceNow
      BY <3>3 DEF startWebServiceNow, End, Starts
    <3>4. CASE createServer
      BY <3>4 DEF createServer, Starts
    <3> QED
      BY <1>7, <3>1, <3>2, <3>3, <3>4
  <2> QED
    BY <1>s, <2>1, <2>2 DEF StartersIn, Starter, Counted
<1>8. CASE startFails \/ startResumes \/ listen \/ restopThrows
  <2>1. starting' = 0
    BY <1>8 DEF startFails, startEnds, startResumes, listen, restopThrows, reset
  <2> QED
    BY <2>1
<1>11. CASE stopThrows \/ stopGoesOn
  <2>1. UNCHANGED <<starting, tasks, client, want>> /\ executor \notin Starts
    BY <1>11, StopThrows, StopGoesOn DEF Clears, Starts
  <2>2. \/ executor' \in Starts
        \/ executor' # "idle" /\ task' = task
        \/ task.op # "restart" \/ task.start # starting
    <3>1. CASE stopGoesOn
      BY <3>1, StopGoesOn
    <3>2. CASE stopThrows
      BY <3>2, StopThrows, Zenon
    <3> QED
      BY <1>11, <3>1, <3>2
  <2>3. task.op # "restart" => executor' \in Starts \/ task.op = "stop"
                              \/ (executor' # "idle" /\ task' = task)
    <3>1. CASE stopGoesOn
      BY <3>1, StopGoesOn
    <3>2. CASE stopThrows
      <4>1. executor \in {"stop", "destroy"}
        BY <3>2, StopThrows
      <4> QED
        BY <4>1, Commands DEF Runs
    <3> QED
      BY <1>11, <3>1, <3>2
  <2> QED
    BY <1>s, <2>1, <2>2, <2>3 DEF StartersIn, Starter, Counted
<1>9. CASE Thread
  <2>1. UNCHANGED <<starting, tasks, executor, task, client, want>>
    BY <1>9 DEF Thread, threadListens, threadEnds, threadStops, manager, clients
  <2> QED
    BY <1>s, <2>1 DEF StartersIn, Starter, Counted
<1>10. CASE UNCHANGED vars
  <2>1. UNCHANGED <<starting, tasks, executor, task, client, want>>
    BY <1>10 DEF vars, manager, clients
  <2> QED
    BY <1>s, <2>1 DEF StartersIn, Starter, Counted
<1> HIDE DEF Somebody
<1> QED
  BY <1>1, <1>2, <1>3, <1>4, <1>5, <1>6, <1>7, <1>8, <1>9, <1>10, <1>11, Zenon
  DEF Next, Client, Executor

-----------------------------------------------------------------------------
(* The invariant and what follows from it.                                   *)

LEMMA InvInit == Init => IInv
<1> SUFFICES ASSUME Init PROVE IInv
  OBVIOUS
<1>1. Flags
  BY Zenon DEF Init, Flags
<1>2. Values
  <2>1. <<>> \in Seq(Command) /\ 0 \in 0..MaxCommands
    BY ClientsAssumption, EmptySeq DEF ClientsAssumption
  <2> QED
    BY <2>1, Commands DEF Init, Values
<1>3. Wants /\ Runs /\ Last
  BY Commands DEF Init, Wants, Runs, Last, Starts
<1>4. thread # "started"
  BY DEF Init
<1>5. Reactor
  BY <1>4 DEF Init, Reactor
<1>6. StartersIn(tasks) = {} /\ \A c \in Clients : ~Counted(c)
  BY DEF Init, StartersIn, Counted
<1>7. Numbers /\ Latest /\ Owned
  BY <1>6, Commands DEF Init, Numbers, Latest, Owned, Starts, Starter
<1> QED
  BY <1>1, <1>2, <1>3, <1>5, <1>7, Typed DEF IInv

LEMMA InvStep == IInv /\ [Next]_vars => IInv'
<1>1. Flags /\ Values => TypeOK
  BY Typed
<1>2. Flags' /\ Values' => TypeOK'
  BY <1>1, Typed, PTL
<1> QED
  BY <1>2, Typed, FlagsStep, ValuesStep, WantsStep, RunsStep, ReactorStep,
     LastStep, NumbersStep, LatestStep, OwnedStep, Zenon DEF IInv

LEMMA Invariance == Spec => []IInv
BY InvInit, InvStep, PTL DEF Spec

(* Every variable of the service keeps its type.                             *)
THEOREM ServiceTypes == Spec => []TypeOK
<1>1. IInv => TypeOK
  BY DEF IInv
<1> QED
  BY <1>1, Invariance, PTL

(* A start that was counted is dropped only with a later one in its place,   *)
(* so that starting is 0 again in the end - unless it was refused, or skipped *)
(* by a stop that has thrown.                                                *)
LEMMA StartingEnds == IInv => InProgressEnds
<1> SUFFICES ASSUME IInv, Quiet, starting > 0
             PROVE  refused \/ skipped
  BY DEF InProgressEnds
<1>1. executor = "idle" /\ StartersIn(tasks) = {}
  BY DEF Quiet, StartersIn
<1>2. \A c \in Clients : ~Counted(c)
  BY DEF Quiet, Counted
<1> QED
  BY <1>1, <1>2 DEF IInv, Owned, Starts

(* When all is done the service is as the last command wants it, whatever    *)
(* the number of clients and of commands and however they interleave.        *)
THEOREM ServiceSettles == Spec => []Settled
<1>1. IInv => Settled
  <2> SUFFICES ASSUME IInv, Quiet PROVE
        /\ last.op = "stop" => ~isWebServiceRunning
        /\ last.op \in {"start", "restart"} /\ ~(failed \/ overlap \/ refused)
             => isWebServiceRunning
    BY StartingEnds DEF Settled
  <2>1. \A c \in Clients : ~Counted(c)
    BY DEF Quiet, Counted
  <2>2. last.op = "stop" => ~isWebServiceRunning
    BY DEF IInv, Last, Quiet
  <2>3. Clean /\ Starter(last) => isWebServiceRunning \/ failed
    BY <2>1, Zenon DEF IInv, Latest, Quiet
  <2> QED
    BY <2>2, <2>3, Zenon DEF Clean, Starter
<1> QED
  BY <1>1, Invariance, PTL

(* A reactor is created only when the one before it was shut down, has ended *)
(* or was forgotten by a stop that failed.                                   *)
THEOREM NoSecondReactor == Spec => OneReactor
<1>1. IInv /\ [Next]_vars
        => [thread' = "started" =>
              thread' = thread \/ reactor # "active" \/ forgotten]_vars
  <2> SUFFICES ASSUME IInv, Next, thread' = "started", thread' # thread
               PROVE  reactor # "active" \/ forgotten
    OBVIOUS
  <2>1. createServer
    <3>1. ASSUME NEW c \in Clients, Client(c) PROVE thread' = thread
      BY <3>1 DEF Client, startWebService, stopWebService, restartWebService,
         count, checkForErrors, submit, web
    <3>2. ~Thread
      BY DEF Thread, threadListens, threadEnds, threadStops
    <3>3. Executor
      BY <3>1, <3>2 DEF Next
    <3> QED
      BY <3>3 DEF Executor, run, stopWebServiceNow, destroy, startWebServiceNow,
                  startFails, startEnds, startResumes, listen, stopThrows,
                  restopThrows, stopGoesOn, web
  <2> QED
    BY <2>1 DEF createServer, IInv, Reactor
<1> QED
  BY <1>1, Invariance, PTL DEF Spec, OneReactor
-----------------------------------------------------------------------------
(* What a task that waits for the reactor's thread may count on: a server is *)
(* kept only with a thread that listens, or one that has ended by itself;    *)
(* while listen() waits nobody shuts the reactor down.                       *)
Alive ==
  /\ executor \in {"destroy", "restop"} => server = "started"
  /\ server = "started" => listening \/ (thread = "ended" /\ failed)
  /\ executor = "listen" /\ ~listening =>
       thread = "started" \/ (thread = "ended" /\ failed)
  /\ thread \in {"executing", "ending"} => listening
  /\ reactor = "active" => thread = "executing"
  /\ executor = "listen" /\ thread = "executing" => reactor = "active"
  /\ /\ thread = "ending" /\ executor \notin {"destroy", "restop"}
     /\ server = "started" \/ executor = "listen"
     => failed

LEMMA AliveStep ==
  Flags /\ Values /\ Reactor /\ Alive /\ [Next]_vars => Alive'
<1> SUFFICES ASSUME Flags, Values, Reactor, Alive, [Next]_vars PROVE Alive'
  OBVIOUS
<1> USE DEF Values, Alive
<1>1. ASSUME UNCHANGED <<thread, executor, listening, server, reactor, failed>>
      PROVE  Alive'
  BY <1>1
<1>2. ASSUME NEW c \in Clients, Client(c) PROVE Alive'
  <2>1. UNCHANGED <<thread, executor, listening, server, reactor, failed>>
    BY <1>2 DEF Client, startWebService, stopWebService, restartWebService,
       count, checkForErrors, submit, manager, web, history
  <2> QED
    BY <1>1, <2>1
<1>3. CASE UNCHANGED vars
  BY <1>1, <1>3 DEF vars, manager, web, history
<1>4. CASE run
  BY <1>4 DEF run, web, history
<1>5. CASE stopWebServiceNow
  BY <1>5 DEF stopWebServiceNow, End, shutdown, history
<1>6. CASE destroy
  BY <1>6 DEF destroy, End, serverCleared, web, history
<1>7. CASE startWebServiceNow
  BY <1>7 DEF startWebServiceNow, End, shutdown, isWebServiceRunning, history
<1>8. CASE startFails
  <2>1. failed'
    BY <1>8, Zenon DEF startFails, startEnds
  <2>2. UNCHANGED <<thread, listening, server, reactor>>
        /\ executor = "create" /\ executor' = "idle"
    BY <1>8 DEF startFails, startEnds, End, web
  <2> QED
    BY <2>1, <2>2
<1>9. CASE startResumes
  BY <1>9 DEF startResumes, End, web, history
<1>10. CASE createServer
  <2>1. ~listening'
    BY <1>10, Zenon DEF createServer
  <2> QED
    BY <1>10, <2>1 DEF createServer
<1>11. CASE listen
  <2>1. listening
    BY <1>11, Zenon DEF listen
  <2>2. /\ executor = "listen" /\ executor' = "idle"
        /\ server' = (IF reactor = "active" THEN "started" ELSE "null")
        /\ UNCHANGED <<thread, reactor, listening>>
    BY <1>11 DEF listen, End, web
  <2> QED
    BY <2>1, <2>2
<1>12. CASE threadListens
  <2>1. listening'
    BY <1>12, Zenon DEF threadListens
  <2> QED
    BY <1>12, <2>1 DEF threadListens, manager, history
<1>13. CASE threadEnds
  <2>1. thread = "executing"
    BY <1>13 DEF threadEnds
  <2> QED
    BY <1>13, <2>1, ThreadEnds DEF Reactor
<1>14. CASE threadStops
  <2>1. /\ thread = "ending" /\ thread' = "ended"
        /\ executor \notin {"destroy", "restop"}
        /\ UNCHANGED <<executor, server, reactor, failed>>
    BY <1>14 DEF threadStops, manager, history
  <2> QED
    BY <2>1
<1>15. CASE stopThrows
  BY <1>15, StopThrows DEF Clears, End
<1>16. CASE restopThrows
  BY <1>16, RestopThrows DEF Clears, End
<1>17. CASE stopGoesOn
  BY <1>17, StopGoesOn DEF Clears, End
<1> QED
  BY <1>2, <1>3, <1>4, <1>5, <1>6, <1>7, <1>8, <1>9, <1>10, <1>11, <1>12,
     <1>13, <1>14, <1>15, <1>16, <1>17, Zenon DEF Next, Executor, Thread

(* A task waits, with the monitors that every JMX call needs, only for a      *)
(* thread that will still tell that it listens, unless it ended by itself.   *)
THEOREM TasksWaitForThread == Spec => []WaitsForThread
<1>1. Init => Alive
  <2> SUFFICES ASSUME Init PROVE Alive
    OBVIOUS
  <2>1. server = "started" => listening
    BY Zenon DEF Init
  <2> QED
    BY <2>1 DEF Init, Alive
<1>2. IInv /\ Alive /\ [Next]_vars => Alive'
  BY AliveStep, Typed, Zenon DEF IInv
<1>3. Alive => WaitsForThread
  BY Zenon DEF Alive, WaitsForThread
<1> QED
  BY <1>1, <1>2, <1>3, Invariance, PTL DEF Spec
=============================================================================
