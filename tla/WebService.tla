----------------------------- MODULE WebService -----------------------------
(***************************************************************************)
(* Starting, stopping and restarting the web service                       *)
(* (management/CalliServer.java and server/WebServer.java).  JMX clients   *)
(* call startWebService, restartWebService and stopWebService, which only  *)
(* submit a task to a single-threaded executor; a start carries the number *)
(* it got by ++starting and is dropped when it no longer is the latest.    *)
(* The executor's tasks hold CalliServer's monitor, also while they wait   *)
(* for the thread that runs the I/O reactor; restartWebService counts      *)
(* without the monitor and takes it only to submit.  One reactor is        *)
(* modelled (no SSL ports).                                                *)
(***************************************************************************)
EXTENDS Naturals, Sequences

CONSTANTS Clients,
          MaxCommands   \* bound: the commands all clients give

ASSUME ClientsAssumption == MaxCommands \in Nat

VARIABLES
  \* the fields of CalliServer
  starting, exception, server,   \* server: "null" or "started"
  tasks, executor, task,         \* the executor, and the task it runs
  \* the fields of WebServer and the thread that runs its reactor
  listening, reactor, thread,
  \* the clients
  client, want, commands,
  \* what became of the commands
  last,      \* the task submitted last
  failed,    \* the last start failed, or its reactor has ended since
  overlap,   \* ++starting met a restart's or the end of a start
  refused,   \* a start was not submitted: checkForErrors threw an old error
  skipped,   \* the start of the latest restart: its stop has thrown
  forgotten  \* the server of this reactor, by a stop that did not destroy it

manager == <<starting, exception, server, tasks, executor, task>>
web == <<listening, reactor, thread>>
clients == <<client, want, commands>>
history == <<last, failed, overlap, refused, skipped, forgotten>>
vars == <<manager, web, clients, history>>

NoTask == [op |-> "none", start |-> 0]

\* After Server.init and start, with or without an origin that is set up.
Init ==
  /\ starting = 0 /\ exception = FALSE
  /\ tasks = <<>> /\ executor = "idle" /\ task = NoTask
  /\ \/ server = "null" /\ listening = FALSE /\ reactor = "none"
        /\ thread = "none"
     \/ server = "started" /\ listening = TRUE /\ reactor = "active"
        /\ thread = "executing"
  /\ client = [c \in Clients |-> "idle"] /\ want = [c \in Clients |-> NoTask]
  /\ commands = 0 /\ last = NoTask
  /\ failed = FALSE /\ overlap = FALSE /\ refused = FALSE
  /\ skipped = FALSE /\ forgotten = FALSE

\* Nobody else can enter a synchronized method of CalliServer.
Held == executor \in {"destroy", "restop", "create", "listen"}

isWebServiceRunning == server # "null" /\ reactor = "active"

-----------------------------------------------------------------------------
(* The clients.                                                            *)

\* executor.submit.
append(t) == tasks' = Append(tasks, t) /\ last' = t

command == commands < MaxCommands /\ commands' = commands + 1

\* Another client is between its ++starting and its submit.
Restarting(c) ==
  \E d \in Clients \ {c} : client[d] # "idle" /\ want[d].op = "restart"

preIncrement == starting + 1

\* startWebService has the monitor from the check to the submit; submit first
\* throws the exception of an earlier task.
startWebService(c) ==
  /\ client[c] = "idle" /\ ~Held /\ command
  /\ IF isWebServiceRunning
       THEN UNCHANGED <<starting, exception, tasks, last, overlap, refused>>
       ELSE /\ starting' = starting + 1
            /\ overlap' = (overlap \/ Restarting(c))
            /\ exception' = FALSE
            /\ refused' = (refused \/ exception)
            /\ IF exception
                 THEN UNCHANGED <<tasks, last>>
                 ELSE append([op |-> "start", start |-> preIncrement])
  /\ UNCHANGED <<server, executor, task, web, client, want, failed, skipped,
                 forgotten>>

\* stopWebService has the monitor for isWebServiceRunning only.
stopWebService(c) ==
  /\ client[c] = "idle" /\ command
  /\ \/ /\ executor \in {"destroy", "restop"}   \* stopping
        /\ UNCHANGED <<client, want>>
     \/ /\ ~Held /\ ~isWebServiceRunning
        /\ UNCHANGED <<client, want>>
     \/ /\ ~Held /\ isWebServiceRunning
        /\ client' = [client EXCEPT ![c] = "checking"]
        /\ want' = [want EXCEPT ![c] = [op |-> "stop", start |-> 0]]
  /\ UNCHANGED <<manager, web, history>>

\* restartWebService reads starting ...
restartWebService(c) ==
  /\ client[c] = "idle" /\ command
  /\ client' = [client EXCEPT ![c] = "counting"]
  /\ want' = [want EXCEPT ![c] = [op |-> "restart", start |-> starting]]
  /\ UNCHANGED <<manager, web, history>>

\* ... and writes it, plus one.
count(c) ==
  /\ client[c] = "counting"
  /\ client' = [client EXCEPT ![c] = "checking"]
  /\ want' = [want EXCEPT ![c].start = @ + 1]
  /\ starting' = want[c].start + 1
  /\ overlap' = (overlap \/ Restarting(c) \/ Held)
  /\ UNCHANGED <<exception, server, tasks, executor, task, web, commands, last,
                 failed, refused, skipped, forgotten>>

\* The first half of submit, with the monitor ...
checkForErrors(c) ==
  /\ client[c] = "checking" /\ ~Held
  /\ client' = [client EXCEPT ![c] = IF exception THEN "idle" ELSE "submitting"]
  /\ exception' = FALSE
  /\ refused' = (refused \/ (exception /\ want[c].op = "restart"))
  /\ UNCHANGED <<starting, server, tasks, executor, task, web, want, commands,
                 last, failed, overlap, skipped, forgotten>>

\* ... and the second, without.
submit(c) ==
  /\ client[c] = "submitting"
  /\ client' = [client EXCEPT ![c] = "idle"]
  /\ append(want[c])
  /\ UNCHANGED <<starting, exception, server, executor, task, web, want,
                 commands, failed, overlap, refused, skipped, forgotten>>

-----------------------------------------------------------------------------
(* The executor.                                                           *)

run ==
  /\ executor = "idle" /\ tasks # <<>>
  /\ task' = Head(tasks) /\ tasks' = Tail(tasks)
  /\ executor' = IF task'.op = "start" THEN "start" ELSE "stop"
  /\ UNCHANGED <<starting, exception, server, web, clients, history>>

End == executor' = "idle" /\ task' = NoTask

pause == UNCHANGED reactor   \* seeded fault: WebServer.stop without destroy
shutdown == reactor' = "shut down"

\* stopWebServiceNow, up to the wait in WebServer.destroy.
stopWebServiceNow ==
  /\ executor = "stop"
  /\ IF server = "null"
       THEN /\ UNCHANGED reactor
            /\ IF task.op = "stop"
                 THEN End
                 ELSE executor' = "start" /\ UNCHANGED task
       ELSE executor' = "destroy" /\ shutdown /\ UNCHANGED task
  /\ UNCHANGED <<starting, exception, server, tasks, listening, thread, clients,
                 history>>

serverKept == UNCHANGED server   \* seeded fault: the field is not cleared
serverCleared == server' = "null"

\* destroy waits while the reactor's thread is not listening; that thread
\* cannot change listening before, for destroy holds the WebServer's monitor.
destroy ==
  /\ executor \in {"destroy", "restop"} /\ listening
  /\ serverCleared
  /\ CASE executor = "restop"   -> executor' = "create" /\ UNCHANGED task
       [] task.op = "stop"       -> End
       [] OTHER                  -> executor' = "start" /\ UNCHANGED task
  /\ UNCHANGED <<starting, exception, tasks, web, clients, history>>

\* startWebServiceNow drops a start that is not the latest; a service that is
\* running is stopped first, within the same method.
startWebServiceNow ==
  /\ executor = "start"
  /\ IF task.start # starting
       THEN End /\ UNCHANGED reactor
     ELSE IF isWebServiceRunning
       THEN executor' = "restop" /\ shutdown /\ UNCHANGED task
     ELSE executor' = "create" /\ UNCHANGED <<reactor, task>>
  /\ UNCHANGED <<starting, exception, server, tasks, listening, thread, clients,
                 history>>

reset == starting' = 0 /\ skipped' = FALSE

\* A RuntimeException, as the IllegalStateException that there is no port or no
\* origin, is thrown by the next submit; an IOException, as when the port is in
\* use, or the store's OpenRDFException is logged.
startEnds ==
  /\ End /\ reset
  /\ exception' \in {exception, TRUE} /\ failed' = TRUE
  /\ UNCHANGED <<tasks, web, clients, last, overlap, refused>>

startFails == executor = "create" /\ startEnds /\ UNCHANGED <<server, forgotten>>

\* A server whose reactor has ended is kept, and resumed to no avail.
startResumes ==
  /\ executor = "create" /\ server # "null"
  /\ End /\ reset
  /\ server' = "started"
  /\ UNCHANGED <<exception, tasks, web, clients, last, failed, overlap, refused,
                 forgotten>>

\* createServer: listen() starts the thread and waits for it.
createServer ==
  /\ executor = "create" /\ server = "null"
  /\ executor' = "listen"
  /\ listening' = FALSE /\ reactor' = "none" /\ thread' = "started"
  /\ forgotten' = FALSE
  /\ UNCHANGED <<starting, exception, server, tasks, task, clients, last, failed,
                 overlap, refused, skipped>>

\* listen() returns, or throws when the reactor is not active.
listen ==
  /\ executor = "listen" /\ listening
  /\ server' = IF reactor = "active" THEN "started" ELSE "null"
  /\ failed' = (reactor # "active")
  /\ End /\ reset
  /\ UNCHANGED <<exception, tasks, web, clients, last, overlap, refused,
                 forgotten>>

(* The stop that fails.  The finally clause forgets the server in any case,  *)
(* and its reactor with it when destroy has not been reached: WebServer.stop *)
(* only pauses the reactor.                                                  *)
forget == server' = "null" /\ forgotten' = (forgotten \/ server # "null")

\* The rest of the task is skipped, for a restart startWebServiceNow, which
\* would have set starting to 0 (CalliServer.java:326-328).
stopThrows ==
  /\ \/ executor = "stop" /\ forget
     \/ executor = "destroy" /\ listening   \* the last shutDownRepositories
        /\ serverCleared /\ UNCHANGED forgotten
  /\ End /\ exception' = TRUE
  /\ LET latest == task.op = "restart" /\ task.start = starting
     IN  failed' = (failed \/ latest) /\ skipped' = (skipped \/ latest)
  /\ UNCHANGED <<starting, tasks, web, clients, last, overlap, refused>>

\* Within startWebServiceNow, whose own finally clause follows.
restopThrows ==
  /\ \/ executor = "start" /\ task.start = starting /\ isWebServiceRunning
        /\ forget
     \/ executor = "restop" /\ listening
        /\ serverCleared /\ UNCHANGED forgotten
  /\ startEnds

\* An IOException before or in destroy is logged, and the task goes on.
stopGoesOn ==
  /\ server # "null" /\ forget
  /\ \/ executor = "stop" /\ task.op = "stop" /\ End
     \/ executor = "stop" /\ task.op # "stop"
        /\ executor' = "start" /\ UNCHANGED task
     \/ executor = "start" /\ task.start = starting /\ isWebServiceRunning
        /\ executor' = "create" /\ UNCHANGED task
  /\ UNCHANGED <<starting, exception, tasks, web, clients, last, failed, overlap,
                 refused, skipped>>

-----------------------------------------------------------------------------
(* The thread that listen() starts.                                        *)

\* seeded fault: it tells that it listens when it no longer does
threadListensLate ==
  /\ thread = "started"
  /\ reactor' = "active" /\ thread' = "executing"
  /\ UNCHANGED <<manager, listening, clients, history>>

threadListens ==
  /\ thread = "started"
  /\ listening' = TRUE /\ reactor' = "active" /\ thread' = "executing"
  /\ UNCHANGED <<manager, clients, history>>

\* The reactor fails, or has been shut down.
threadEnds ==
  /\ thread = "executing"
  /\ reactor' = "shut down" /\ thread' = "ending"
  /\ failed' = (failed \/ reactor = "active")
  /\ UNCHANGED <<manager, listening, clients, last, overlap, refused, skipped,
                 forgotten>>

threadStops ==
  /\ thread = "ending" /\ executor \notin {"destroy", "restop"}
  /\ listening' = FALSE /\ thread' = "ended"
  /\ UNCHANGED <<manager, reactor, clients, history>>

Executor == \/ run \/ stopWebServiceNow \/ destroy \/ startWebServiceNow
            \/ startFails \/ startResumes \/ createServer \/ listen
            \/ stopThrows \/ restopThrows \/ stopGoesOn
Thread == threadListens \/ threadEnds \/ threadStops
Client(c) == \/ startWebService(c) \/ stopWebService(c) \/ restartWebService(c)
             \/ count(c) \/ checkForErrors(c) \/ submit(c)

Next == Executor \/ Thread \/ \E c \in Clients : Client(c)

Spec == Init /\ [][Next]_vars

\* The executor and the reactor's thread go on, and a client that has begun a
\* command ends it.
Fairness == /\ WF_vars(Executor) /\ WF_vars(threadListens)
            /\ \A c \in Clients :
                 WF_vars(count(c) \/ checkForErrors(c) \/ submit(c))
FairSpec == Spec /\ Fairness

-----------------------------------------------------------------------------
(* Properties.                                                             *)

Command == [op : {"start", "restart"}, start : Nat \ {0}]
             \cup [op : {"stop"}, start : {0}]
Task == Command \cup {NoTask}
Counting == [op : {"restart"}, start : Nat]
Quiet == /\ executor = "idle" /\ tasks = <<>>
         /\ \A c \in Clients : client[c] = "idle"

\* Every variable has its type; no start or restart has the number 0, which
\* stands for no start in progress.
TypeOK ==
  /\ starting \in Nat /\ exception \in BOOLEAN
  /\ server \in {"null", "started"}
  /\ tasks \in Seq(Command) /\ task \in Task /\ last \in Task
  /\ executor \in {"idle", "stop", "destroy", "restop", "start", "create",
                   "listen"}
  /\ listening \in BOOLEAN
  /\ reactor \in {"none", "active", "shut down"}
  /\ thread \in {"none", "started", "executing", "ending", "ended"}
  /\ client \in [Clients -> {"idle", "counting", "checking", "submitting"}]
  /\ want \in [Clients -> Task \cup Counting] /\ commands \in 0..MaxCommands
  /\ failed \in BOOLEAN /\ overlap \in BOOLEAN /\ refused \in BOOLEAN
  /\ skipped \in BOOLEAN /\ forgotten \in BOOLEAN

\* A start leaves no trace of being in progress, but for one that was counted
\* and then not submitted, or skipped in a restart whose stop has thrown.
InProgressEnds == Quiet /\ starting > 0 => refused \/ skipped

\* When all is done the service is as the last command wants it, however the
\* commands before it interleaved with the executor - unless the start failed or
\* was skipped by a stop that failed before it, a later start was counted and
\* never submitted, or two ++starting were spoiled by each other or by the end of
\* a start, which sets starting to 0. And isStartingInProgress() tells the truth
\* then, but for the two starts that InProgressEnds names.
Settled ==
  /\ InProgressEnds
  /\ Quiet =>
    /\ last.op = "stop" => ~isWebServiceRunning
    /\ last.op \in {"start", "restart"} /\ ~(failed \/ overlap \/ refused) =>
         isWebServiceRunning

\* The executor does not start a second reactor while the first is active -
\* unless a stop that failed has forgotten the first without destroying it.
OneReactor ==
  [][thread' = "started" =>
       thread' = thread \/ reactor # "active" \/ forgotten]_vars

\* Whoever waits for the reactor's thread, in listen() or in destroy() with the
\* monitors of both servers, waits for a thread that is still to tell that it
\* listens - or for one that has ended by itself, which tells nothing any more
\* (WebServer.java:451-475, 524-531).
WaitsForThread ==
  executor \in {"destroy", "restop", "listen"} /\ ~listening =>
    thread = "started" \/ (thread = "ended" /\ failed)

\* Every task ends and leaves the monitor to the clients - unless the reactor's
\* thread has ended by itself, for which WebServer.destroy waits for ever.
TaskEnds ==
  executor # "idle" ~> executor = "idle" \/ (failed /\ thread = "ended")
=============================================================================
