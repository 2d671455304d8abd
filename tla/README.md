# Callimachus: verification project

TLA+ modules, TLC configurations and TLAPS proofs for the concurrent core of
Callimachus, the Java server that keeps linked data in an RDF store, serves it
over HTTP and lets it be edited in the browser. The modules are translated from
the Java and JavaScript source; source paths below are relative to
`src/src/org/callimachusproject/`, those of scripts to `src/webapp/scripts/`.

- [The system](#the-system)
- [Modules](#modules)
- [Runs and bounds](#runs-and-bounds)
- [Fairness](#fairness)
- [What is proved](#what-is-proved)
- [Where code and comments disagree](#where-code-and-comments-disagree)
- [Behaviours worth knowing](#behaviours-worth-knowing)
- [Not modelled](#not-modelled)
- [Plan](#plan)
- [Running it](#running-it)

## The system

One process runs a web server on Apache HttpCore's non-blocking reactor
(`server/WebServer.java`), a set of RDF repositories
(`repository/CalliRepository.java`) and a management bean
(`management/CalliServer.java`) that operators reach over JMX. A request goes

1. from an I/O reactor thread into an `Exchange` (`server/helpers/Exchange.java`),
   which feeds the body into an `AsyncPipe` (`io/AsyncPipe.java`) and hands the
   request to the handler chain,
2. through the triaging pool and the filters and handlers of `server/chain/`,
   where `TransactionHandler` opens a store transaction, authentication and
   preconditions are checked, and `PooledExecChain` passes the request to the
   handling pool,
3. to the method of the resource (`ResourceOperation`, `InvokeHandler`), and
4. back through the callbacks: the transaction is committed or rolled back, the
   response is submitted to the `Exchange`, and the reactor produces it,
   possibly while it is still being read from the store.

| Part | State it keeps | Operations | Hard behaviour | What makes it correct |
|---|---|---|---|---|
| `AsyncPipe` with `Exchange.Consumer` | ring buffer, error, closed, stored resume action, input interest | sink, source, close, fail, onAvailableCapacity | I/O thread and reader in any order; suspension of the connection; close from a third thread | no byte lost, no false end, no lost resume, no missed wake-up |
| `Exchange` | the container's exchange, response, producer, ready, cancelled, queue of the connection | submitContinue, submitResponse, cancel, generateResponse, produceContent | response before, during or after the request; several responses; lost connection | one submission, the entity of its own head, no entity left open |
| Request transaction | connection and transaction of the store, streamed entity | execute, completed, failed, cancelled, endTransaction | failures of the store at each call; an entity closed twice; two calls of one callback | success is durable, errors roll back, no connection left open |
| `AntiDeadlockThreadPool` | queue, workers, core size, watchdog | execute, submit, watchdog run | tasks that wait for tasks behind them in the queue | every accepted task runs |
| Web service lifecycle | `starting`, server, executor's tasks, reactor thread | start, stop, restart, listen, destroy | unsynchronised counting; monitor held while waiting; starts and stops that fail half way | the last command decides; one reactor |
| Background parsing | bounded queue, done, exceptions, parser thread | put, toss, done, getNextElement, close | parser, readers and closer in any order; end marker put back by readers | order, no false end, close ends the parser |
| Audit trail (`repository/auditing`) | quads of the store by bundle, recent bundles in memory, purge task | add, remove, commit, trim, purge, initialize, shutDown | commits race with the trimming and the purge; crash between the commit and its bookkeeping; every store call may fail | no flagged bundle forgotten, no live content purged, obsolete bundles purged |
| Editing in the browser (`load-editor.js`, `text-editor.js`, `document-editor.js`, `etag.js`) | text, what counts as saved, tag of the file, saves under way, callbacks | load, type, save, GET text, PUT text, complete, leave | messages between two windows, requests and answers in any order; others change the file | a save accepted only against the version it was made from, saves in order, replies to the right callback, no unsaved text without a warning |
| Realm, group and annotation caches (`auth`) | maps and a revision | lookup, resetCache | reset against commit and against a load | no stale entry after a change |
| `FailManager` | failures by user, used nonces | attempt, replay check | locks held while sleeping; bounded map | lock-out holds, replay found |
| `ManagedExecutors` | pools by name | register, reset, shutdown | replacing a pool that runs | no task lost |
| Cache and conditional requests (`server/chain`) | HTTP caches by target | execute, reset | reset against requests in flight | no stale answer |
| Data sources (`sql`, `DatasourceManager`) | pools by name | get, borrow, close | close against borrow | no use after close |
| `Server`, `ServerMonitor`, `Setup` | pid file, service | start, stop, dump | two processes | one server |
| Fluid, engine, rewrite, script, XProc, XML, forms, setup, logging | - | conversions and translations of one document on one thread | - | output |

`PROJECT.json` lists every part with its files under `components`, and the places
where the code is hard to test under `hazards`.

## Modules

Each component module declares the fields of its classes as variables, with one
action per method, cut where another thread can get in: at the end of a
`synchronized` method or block, at `wait()`, at an access to a volatile field or a
concurrent queue, at a hand-over to an executor. The `MC` modules only give
constants their values. Definitions commented `seeded fault` are not used by
the specification: each is what a plausible bug would make of the definition
that follows it, and the property named with it in `PROJECT.json` fails with it.

**AsyncPipe** (`io/AsyncPipe.java`; `Exchange.Consumer` and `closeRequest` in
`server/helpers/Exchange.java`). A byte is its position in the body, so order,
loss and repetition are visible. `consumeContent` is cut into `sink`,
the two checks of capacity with their timed waits, and `suspendInput`; the
reader of `source()` is a second thread, and `closeRequest` a third. Compact and
flip are the removal of a prefix of `buf`. A connection may break off in two
ways: with an exception, which `failed` puts into the pipe, and by the
container's close of the consumer (`dropped`), which closes it like a complete
body.

**Exchange** (`server/helpers/Exchange.java`, `AsyncRequestHandler.java`,
`server/chain/ExpectContinueHandler.java`). The container's side (HttpCore) is
the order in which its callbacks may come, with a lost connection at any
point. The body is reduced to the state of its pipe. The two modules share the
two methods `close` and `consumeContent` of the request's consumer: in Exchange
a pipe that is closed is one of which AsyncPipe describes the rest.

**RequestTransaction** (`server/chain/TransactionHandler.java`,
`AuthenticationHandler.java`, `ResponseExceptionHandler.java`,
`server/helpers/PooledExecChain.java`, `BlockingExecChain.java`,
`client/CloseableEntity.java`, `StreamingHttpEntity.java`). The callback chain of
one request is sequential, so what happens between two threads is one action;
the store may throw in each call. Its `answers` are what the `Exchange` sees as
submitted responses: that there may be more than one is why Exchange takes a
set of them. A streamed entity is closed by the reactor, whose `close()` calls
`finish()` itself and through its stream: two closing tasks, one after the
other.

**AntiDeadlockThreadPool** (`concurrent/AntiDeadlockThreadPool.java`,
`ManagedThreadPool.java`). The
`ThreadPoolExecutor` inside is external and modelled by its documented
rules: a thread below the core size, else the queue, else a thread below the
maximum, else rejection. A task is running until all the tasks it needs are done.

**WebService** (`management/CalliServer.java`, `server/WebServer.java`). JMX
clients, the single-threaded executor, and the thread that runs the reactor.
`++starting` is a read and a write, because `restartWebService` counts without
the monitor; a client that starts or stops does so in one action with it. A stop
may fail in each of its calls (`stopThrows`, `restopThrows`, and `stopGoesOn` for an
`IOException`, which is logged): its `finally` clause forgets the server either way.
`skipped` and `forgotten` remember what came of that.

**QueueCursor** (`server/util/QueueCursor.java`, `BackgroundGraphResult.java`).
The parser's thread, any number of readers, a thread that closes. Every access to
`done`, the queue or the exceptions is its own action; `done` is volatile and
the queue is an `ArrayBlockingQueue`.

**AuditTrail** (`repository/auditing/AuditingRepository.java`,
`AuditingRepositoryConnection.java`, `helpers/ActivityTagFactory.java`). The store
is a set of quads `<<bundle, kind, about>>`; a connection collects what it adds and
removes (`added`, `removed`) and applies both at the commit, as the store below
does. A commit is cut where the code calls the store or takes the repository's
monitor: `finalizeBundles`, `commit`, `addRecentBundles`, `activityEnded`. The
trimming holds the monitor but is one transaction per bundle; the SPARQL updates
`UPDATE_ACTIVITY`, `TRIM_RECENT_BUNDLE` and `PURGE_EARLIER` are the set expressions
of `TakesOver`, `trimRecentBundle` and `Purgeable`. The triples of a client come in
two sorts: `data`, which `TRIM_RECENT_BUNDLE` counts as content, and `unseen`, of the
`rdf:`, `prov:` and `audit:` predicates that its FILTER drops. `puringTask` says whether
the task that purges is still scheduled, waits for ever, or has ended; `stall`,
`commitPurge` and `failPurge` may change it. `shutDown` stands for the crash
as well: both lose the memory and keep the store.

**EditSession** (`load-editor.js`, `text-editor.js`, `document-editor.js`, `etag.js`;
`server/chain/UnmodifiedSinceHandler.java`, `ContentHeadersFilter.java`). One page
and the editor in its frame, which talk by `postMessage` (two queues, one per
direction), the requests the page has sent (`puts`), and the file with its
version. A text is a member of a small set. Each message records with it the
version its text was made from (`base`), which the code does not have:
`AcceptedWhenCurrent` compares with it. A save is compared (`execute`) and written
(`write`) in two steps, as in the code, and the property is about the first.

**Delivery** is what a reader may expect of a document that another thread
produces while it reads: order, no loss, no end before the end, unless something
has cut the delivery. It is not code but the abstract specification of two
components: `AsyncPipe!Body` and `QueueCursor!Document` instantiate it, with what
the reader has got for the items taken, and `BodyDelivered` and
`DocumentDelivered` say that each of them implements it.

**Outcome** is what a client and the store may expect of one request: what the
client is told and what the store keeps are decided together, once, and agree,
but for a change that was kept before something failed late (a commit that throws
after the store has committed, an entity that breaks while it is copied).
`RequestTransaction!Decision` instantiates it, with the first of the `answers` for
what the client is told, and `DecidedOnce` says that RequestTransaction
implements it.

**AsyncPipeProofs**, **ExchangeProofs**, **QueueCursorProofs**,
**RequestTransactionProofs**, **AntiDeadlockThreadPoolProofs**, **WebServiceProofs**,
**AuditTrailProofs** and **EditSessionProofs** hold the theorems.

## Runs and bounds

| Run | Shows | Bounds, and why they are enough |
|---|---|---|
| `pipe` | `ResumePending`, `NoStandoff`; the pipe implements Delivery (`BodyDelivered`); a suspended input is resumed (`SuspensionEnds`), the reader of a client that goes on gets an end or an exception (`BodyEnds`) | Buffer of 3, body of 7: the input is suspended and resumed more than once, half a buffer is neither zero nor the whole. The invariants are proved for all sizes |
| `pipe_after_close` | violation, see below | smallest body that shows it |
| `exchange` | one submission, no entity left, body of its own head, the queue forgets exactly what is answered; what is submitted is handed over (`HandedOver`) and sent to a client that reads | 3 responses, two with an entity: an accepted, a replacing and a refused one. The invariants are proved for any set |
| `transaction` | success is durable and errors roll back, as Outcome wants it (`DecidedOnce`); a connection is open while it is streamed and never forgotten; one answer counts; every request is answered and every connection closed, unless a client does not take what is streamed | one request, two closers: `close()` calls `finish()` itself and through its stream |
| `pool` | bounds of the pool; tasks given to `execute` are watched and all run | 5 tasks, one initial thread, maximum 3, queue 3: a chain of three tasks that stops unless the pool grows twice. The invariants are proved for all sizes |
| `pool_submit` | violation, see below | as above |
| `service` | the last command decides, no second reactor, a task waits only for a thread that will listen (`WaitsForThread`), tasks end | two clients, four commands, any start or stop failing: a restart during a start, two restarts at once, and one after. The invariants are proved for any clients and commands |
| `queue` | the queue implements Delivery (`DocumentDelivered`); no reader or parser waits for somebody who has gone (`NoStandoff`); closing ends the parser, reads end | 3 statements, 2 places, 2 readers: full, emptied and refilled. The invariants are proved for all sizes |
| `queue_others` | violation, see below | two readers |
| `audit` | no flagged bundle forgotten, the deque bounded, trimming leaves its minimum, entities keep their generation, content leaves only if it was removed, obsolete bundles are purged while the task stays scheduled | two connections, three transactions, one entity, trimming from 2 to 1, one restart: two commits race, one bundle is used twice, and a trimming takes one of two. The first connection adds `unseen` triples, the second `data` (`DataKinds`), so that either takes the entity over from a bundle of the other sort; the task may wait for ever or end in every state (`Stalls`). All but the purge in time is proved for all sizes, sorts and standstills |
| `editing` | replies reach their callback, handed-over texts are saved, `saving` ends, a save is accepted only against the version it was made from, saves in order | two texts, three versions, three saves, one edit at any time: two saves under way and a change by somebody else in between. All properties are proved for all bounds |
| `editing_leaving` | violation, see below | document editor, two saves |

The runs and their exact properties are in `PROJECT.json`. Type invariants are not
among them: each `TypeOK` is proved, for every value of the constants.
Deadlock is not checked where a request, a body or a document ends and the
model stops with it.

Exemptions that a property names are behaviours of the code, described
below; they are kept as narrow as the code allows.

## Fairness

Only threads that the code or the JVM drives are fair: a thread that is inside a
method goes on (weak fairness of its actions), executors run what they have
accepted, a scheduled watchdog runs. Nothing that only a user, a client or an
operator would do is assumed: no read, close, command, interrupt or timeout of
a handler has to happen. Sockets have no timeout (`WebServer.java`, 202 and 807-812:
0), so a client may stall for ever. Where a property needs a client it says so,
in its antecedent or in an exemption, and the specification does not:

- `BodyEnds` of AsyncPipe holds if the client goes on (`ClientGoesOn`): it sends
  another byte, fails, or closes its connection *as long as the input is on*. It
  is a strong fairness because events without a byte of the body may come in
  between. `SuspensionEnds` needs none of this; it rests on the stored action alone.
- `Answered` of Exchange holds if the client reads (`ClientReads`).
- `ConnectionEnds` of RequestTransaction exempts a response that is being streamed:
  the reactor closes the entity when the client has taken it or the connection is
  lost, and neither has to happen. The store and the handler return.

These assumptions are worth arguing:

- In AuditTrail time passes and a purge that is scheduled is run; `commitPurge` is
  strongly fair, for the store may refuse some purges but not every one. That the
  task stays scheduled is not assumed: `ObsoletePurged` exempts a task that waits
  for ever or has ended.
- EditSession assumes nothing; all its properties are about safety.
- In QueueCursor the parser moves on or fails as its input does.

## What is proved

The proofs hold for every value of the constants under the named assumptions.

**AsyncPipe** (`Capacity >= 2`, `Length \in Nat`). `FlowControl` proves `TypeOK`,
`ResumePending`, `NoStandoff` and `RoomToSink`, which are inductive only
together: that a reader who waits is not waiting for a suspended connection
(`NoStandoff`) needs the buffer of one to be more than half full
(`ResumePending`, stated by itself in `InputIsResumed`), and that a read which
finds the buffer half empty runs the stored action needs it to be stored.
`NothingLost` and `CompleteBody` prove `NoGap` and
`EndIsTheEnd` on top of it. Their strengthening (`DataInv`) says why a pipe may
be closed that nobody closed early: the body was completed, or the connection was
closed in the middle of it (`dropped`), or it failed and a
read has reported it or still will; and that a completed body was sunk to its
last byte. The lemmas `BytesConcat` and `SplitConcat` give what sinking and
draining do to `received \o buf`. Two bytes are needed because half of one is
zero, and the bound of `ResumePending` is then never met; the code's buffer
has 65536.

**Exchange** (any set of responses, with or without entities). The invariant
(`IInv`) is proved in one piece: the safety properties of the run, and three
strengthenings. `Progress` says what the I/O thread's place implies for the
fields (there is no exchange before the request has been read, and a body is
read only when its Expect header is done with). `Submission` says that the
exchange is ready exactly when the container has a producer, and that one there
is has something to send. `Kept` says that one response is kept as soon as one was
submitted, and that a response with an entity has the
producer made of it. From it follow `OneProducer`, `ReactorNeverWaits`,
`SubmittedIsHandedOver`, `EntitiesReleased`, `BodyBelongsToHead`,
`QueueListsThePending` and the action property `FinalResponse`.

**QueueCursor** (`Capacity > 0`, any `Readers`). `Ordered` proves `TypeOK` and
`InOrder`; `NoFalseEnd` proves `EndIsTheEnd`. `InOrder` alone is not inductive: a
reader that puts a marker back must know that no statement is to come. The
strengthening says that `done` holds exactly when the parser's thread has set
it, that a marker in the queue or in a reader's hand implies `done`, that what a
reader holds when it has looked at `done` still describes the queue
(`Told`), and that a parser that is past its document was `Excused` or tossed an
exception that nobody has thrown yet. `NobodyIsStranded` proves `NoStandoff` on top of
it: only the reader that leaves and the parser's thread when it ends could
strand a waiting reader, and what they put makes the queue not empty; and `close()` sets `closed`
before it looks for the parser's thread, which it can find as long as that
thread may still wait for a place (`CloseInv`), so the `put` it misses is
never begun.

**Refinement**. `DeliversBody` and `DeliversDocument` prove that AsyncPipe and
QueueCursor implement Delivery: the invariants above give what the mapping needs
(that what was received is a prefix, that an end without a cut comes after the
last item), and each step is a step of Delivery or a stutter. `DecidesOnce` proves
that RequestTransaction implements Outcome: the step that answers first is the one
that decides, with the store as `Safe` has it, and no later step changes
either side.

**RequestTransaction** (any set of closers). `ConnectionsAreOwned` and `OneAnswer`
prove the invariants of the run, `AnswersAreTrue` and `ErrorsAreRolledBack` what
`DecidedOnce` means for the state: success is durable, and nothing is committed for an
answer that fails unless it failed late. Their common invariant follows the
thread: before the request is passed on nothing has been opened (`Untouched`),
inside of the handlers the transaction is active and nobody has been answered
(`Begun`), a request that has failed and goes on has lost its context and its
transaction (`Refused`: why the chain that runs on can change nothing), and the
closing tasks begin only when the stream is closed (`Scheduled`).
`NoneLeftUnanswered` proves the safety half of `RequestAnswered`: a thread that is
done with a request has answered it.

**AntiDeadlockThreadPool** (`1 <= corePoolSize0 <= maximumPoolSize`, any tasks).
`PoolIsBounded` and `QueueIsWatched`. That the pool has no more tasks than threads
needs the number of running tasks as a cardinality (`Busy`, `Sizes`) and the
library's facts about finite sets.

**WebService** (any clients, any number of commands). `ServiceSettles`,
`NoSecondReactor` and `TasksWaitForThread`. `Settled` is about the moment when nothing is
left to do; its strengthening follows the last command to it. `Last`: it is the
last of the queue, or the one that runs. `Numbers`: the starts that wait have
increasing numbers, up to `starting`, and one that has begun has the number
`starting`, unless two `++starting` have met. `Latest`: the last start has the latest number
until it is done. `Owned`: a number other than 0 is that of a start that will
take it back, or that was refused, or skipped by a stop that failed. `Reactor` says
which thread may be started on which reactor, and that a reactor no server has is
shut down or `forgotten`.
`TasksWaitForThread` proves what `TaskEnds` rests on; its invariant (`Alive`)
says that a server is kept only with a thread that listens or that ended
by itself, and that nobody shuts the reactor down while `listen()` waits for it.

**AuditTrail** (`MinRecent < MaxRecent`, any connections and items, any sorts of
triples and standstills of the purge). `AuditTypes` and the five safety properties
of the run.

- `RecentAreTracked`: the flag is in a transaction before it is in the store and
  in the store before the deque, so the invariant adds which transactions may carry
  it, and that the trimming takes it only from the bundle at the head of what it has
  in hand.
- `RecentStayBounded`: who trims has left `MinRecent` in the deque, and nobody
  adds to it until the trimming ends (`BoundInv`).
- `OnlyRemovedTriplesLeave`: what a connection holds carries its own bundle
  (`HeldInv`), what is in the store was written by a connection past its commit,
  so a bundle marked obsolete gets content again only from a connection that
  begins another transaction (`TrailInv`). Content is what the FILTER of
  `TRIM_RECENT_BUNDLE` counts; of the other triples nothing of the kind holds.
- `TriplesWereGenerated`: a transaction that adds a triple of an entity, or takes
  the entity from the activity that generated it, adds that its own generated
  it (`ClaimInv`).
- `TrimmingKeepsMinimum`: the deque and the bundles in hand name flagged bundles,
  each once, as long as each connection has one transaction (`DequeInv`); so
  those that stay in the deque keep their flags when the ones before them lose
  theirs (`KeptInv`). That `MinRecent` different places are `MinRecent`
  different bundles is the counting lemma of the library.

**EditSession** (any texts and bounds). `SessionTypes` and the five properties of the
run.

- `AcceptsWhenCurrent`: the version a text was made from travels with it through every
  message and request (`TextInv`: it is the one that was loaded), and the tag that
  a save names is read from the tab later. The invariant says of every tag, in the
  tab (`TagInv`) or in a request or an answer (`PutInv`), that if it is the version
  the file has, then the page has loaded or written that version.
- `SavesKeepTheirOrder`: no request names a version later than the one the file
  has, and a request sent later makes a version later than the one an earlier
  request names (`OrderInv`).
- `RefusesOnlyWhileSaving`: by what each step does to the list of requests; a
  request is sent, goes on, or stays as it is.
- `RepliesFindTheirCallback`: of all the messages that ask and are under way, in
  either direction, no two have the same identity, and each has its callback
  (`AskInv`); the identities of both windows are accounted for together, since a
  reply carries the identity of its question.
- `LeavesNothingUnsaved`: what the text editor counts as saved was loaded, is in a
  message to the page or in a request, unless a save was dropped (`LostInv`).

What remains with TLC is liveness, which rests on fairness and is out of the prover's
reach: `SuspensionEnds`, `BodyEnds`, `Answered`, `ConnectionEnds`, `RequestAnswered`,
`AcceptedRuns`, `TaskEnds`, `CloseEndsParser`, `ReadEnds` and `ObsoletePurged`. For most of them
the theorems give the half that is about safety, that nobody waits for something
that nobody is to do: `ResumePending` for `SuspensionEnds`, `NoStandoff` for `BodyEnds` and
`ReadEnds`, `HandedOver` for `Answered`, `ConnectionOwned` for `ConnectionEnds`,
`DoneIsAnswered` for `RequestAnswered`, `Watched` for `AcceptedRuns`, `WaitsForThread`
for `TaskEnds`, and of QueueCursor's `NoStandoff` the half about `put` for `CloseEndsParser`.

## Where code and comments disagree

Four runs look for a counterexample to what the repository says of itself, and find it.

1. `pipe_after_close`: the comment of `AsyncPipe.close()` says that source
   operations see no more data after it and that the buffer is dropped; a sink after it fills the
   buffer again and a read returns what it sank.
2. `pool_submit`: the comment of `AntiDeadlockThreadPool` promises a new thread
   when the queue has not changed; only `execute` starts the watchdog, so a
   queue of tasks given to `submit` may stay as it is for ever. The server gives
   its requests to `submit` (`PooledExecChain.java:65`).
3. `queue_others`: `getNextElement` puts the end marker back "for others", but
   not when the last look for an exception throws: another reader then waits in
   `take()` for ever.
4. `editing_leaving`: the comment in `document-editor.js` (378) is to "warn the user
   before leaving a changed but unsaved article"; the article counts as saved when
   the page asks for its text (427), before the server has been asked. A refused
   save is left without a warning.

## Behaviours worth knowing

Found while modelling; nothing in the repository says they should be otherwise.

- AsyncPipe: when the container closes the consumer of a connection in mid-body
  without an exception (`Exchange.java`, 286-291), the pipe ends as after a complete
  body, and a reader takes the truncated body for the whole. A client that stalls
  keeps the reader in `read()` for ever.
- Exchange: the producer of a replaced response stays when the response that
  replaces it has no entity; a response submitted by a chain whose connection was lost before
  the request was read is consumed only by the container; a request that expects
  100 and has no body can be answered by the 100 alone.
- RequestTransaction: an `IOException` while an entity is copied is followed by
  the commit and then by a failure for the client; so is an audit trail that
  cannot record the end of the activity, since `commit` of
  `AuditingRepositoryConnection` throws after the store has committed; the connection leaks when
  `begin` or `initiateActivity` throws, and when a rollback throws; a client that
  does not take its streamed response keeps the store's connection; the chain
  goes on after `AuthenticationHandler` has failed the request; an `Error` in a
  handling thread cancels twice.
- WebService: a restart that is counted while a start ends is lost (`starting` is
  set to 0 over it); a start refused because of an old error leaves `starting`
  up; after a reactor thread has ended by itself `destroy` waits for ever with
  the monitor that every JMX call needs. When `server.stop()` or
  `shutDownRepositories()` throws (714, 719), `destroy` is not reached but the server is
  forgotten all the same (729): its reactor stays, paused or active, and the next
  start makes another; in a restart the start is skipped (326-328) and stays
  counted, so that `isStartingInProgress` is true until the next one ends.
- QueueCursor: a `RuntimeException` of the parser ends the document cleanly;
  `close()` may throw a `NullPointerException` between its two looks at
  `parserThread` and then leaves the input open; its interrupt may reach the
  pool thread's next task.
- AuditTrail: a connection that goes on after its bundle was found obsolete writes
  into a graph that the purge deletes: nothing takes `ObsoleteBundle` back. The
  trimming takes triples with predicates of `rdf:` (but `rdf:type`), `prov:` and `audit:`
  for metadata (111-115): when another activity has taken over the entities of a
  bundle, those that are left in it are purged, though nobody removed them. All
  repositories purge on one thread, where a purge waits as many milliseconds as
  it took (375-379); if that is 0 it waits until its repository is shut down, and
  nothing is purged meanwhile. A `RuntimeException` ends the schedule (384-387).
  `SELECT_RECENT` orders by an end of the bundle, which the activity has, so the
  deque has any order after a restart; bundles of a trimming that failed go to
  the end of it. A bundle trimmed and purged before `activityEnded` is left
  with its end alone. `shutDown` does not wait for a purge, since a cancelled
  future is done at once. With `CalliActivityFactory` a bundle never becomes
  obsolete, for `activityStarted` adds content to it (145-154); the model has the
  default factory.
- EditSession: a save before the file is loaded overwrites it unseen, and a text
  typed that early is replaced without a question, or counts as saved when it is
  typed within 100 ms after it. `complete` makes `saving` itself `false`, after which any number
  of saves are under way; before, a save while one is under way is dropped
  although the text editor counts it as saved. `onbeforeunload` of the document
  editor throws, and so does not ask, before a text was recorded. Two saves
  compared with the same version are both written unless the store refuses one,
  and it is configured not to be serializable; so a save that was accepted also
  overwrites what somebody else wrote after the comparison.

## Not modelled

`PROJECT.json` gives each part that is not modelled a reason. In short: format
conversions, templates, pipelines and setup run on one thread and translate
data, which bounded checking does not reach in a useful size; of the web
application only the editing scripts have state that outlives an event, and most
of its lines are vendored libraries (Ace, Angular, jQuery, D3, DataTables), so
the modelled share of its lines is small whatever is modelled; HttpCore, the
Sesame store and `java.util.concurrent` are external and appear as the order
of their callbacks and the failures of their calls. Below the level of the
modules: SSL ports, priorities of threads, and the
contents of headers.

Left out of AuditTrail: triples that a client adds about a bundle itself (which the
trimming does not count either), the purge on close when no task is scheduled
(a `purgeAfter` of four minutes or less), reified triples outside of bundles (`trimEarlier`),
non-transactional repositories (`balanceBundle`), read-only connections, a second
`initialize` of one object, and the clearing of a map of a connection that has
grown too large. Left out of EditSession: the creation of a new file
(`initEditor`, `setText`), hash and line numbers, sizes, the disabled state, the
error messages, a browser without `sessionStorage`, and what CKEditor filters.

## Plan

Done: the eight component modules above, each with its proofs, and three refinements,
two of Delivery and one of Outcome. What is left, in order of what matters most to a running server:

1. ProducerChannel over an abstract pipe, with the pool that may never run it.
2. The cancellation of an exchange as it reaches the task that handles it
   (DelegatingFuture, PooledExecChain), composed with RequestTransaction.
3. Caches: realms, groups, annotation properties and the HTTP cache, one
   module, against commits; abstract specification: an entry is never older
   than the last reset.
4. FailManager, ManagedExecutors, LockCleanupManager, the SQL pools.
5. Operators checked against a reference: heuristic freshness, URI substitution
   of `rewrite`.
6. A composition of Exchange with the answers of RequestTransaction.

## Running it

In this directory:

    tlc -workers 2 -config MCAsyncPipe.cfg MCAsyncPipe
    tlapm AsyncPipeProofs.tla

and so for every run of `PROJECT.json` and every module whose name ends in
`Proofs`. The largest runs (`audit`, `editing`) take about a minute or two.
