------------------------------ MODULE AuditTrail ------------------------------
(***************************************************************************)
(* The audit trail of a repository: AuditingRepository, the connections it *)
(* hands out, and the store below.  A connection writes into one graph of  *)
(* its own, the bundle of its activity, and keeps it for all transactions. *)
(* A commit flags the bundle as recent; the repository remembers the       *)
(* recent bundles in memory, takes the flag from the oldest ones when      *)
(* there are too many and marks the bundles left without content as        *)
(* obsolete, which a scheduled task deletes after a time.                  *)
(*                                                                         *)
(* The store is a set of <<bundle, kind, about>>: "data", "unseen" and     *)
(* "generated" (an entity prov:wasGeneratedBy the activity) are about an   *)
(* item; the kinds "bundle", "revised", "influenced", "recent", "obsolete" *)
(* and "ended" are metadata.  The unseen triples are data, too, but of     *)
(* predicates that the trimming takes for metadata: those of rdf: (but     *)
(* rdf:type), of prov: and of audit:.  Triples that a client would add     *)
(* about a bundle itself are left out.  A transaction collects what it     *)
(* adds and removes and applies both at its commit (OptimisticSail,        *)
(* configured as neither snapshot nor serializable: no conflict is         *)
(* detected).                                                              *)
(***************************************************************************)
EXTENDS Naturals, Sequences, FiniteSets, Functions

CONSTANTS
  Last,        \* bound: connections, numbered as they begin
  Items,       \* the entities described, with a triple of each sort about each
  DataKinds,   \* bound: the sorts of triples that each connection adds
  MinRecent,   \* minimumRecentActivities
  MaxRecent,   \* maximumRecentActivities
  MaxOpen,     \* bound: connections not yet closed at a time
  MaxTxns,     \* bound: transactions altogether
  MaxUnended,  \* bound: bundles at a time whose end the store has refused
  MaxStarts,   \* bound: initialisations after the first one
  Stalls       \* bound: how the task that purges may come to a standstill

Data == {"data", "unseen"}

ASSUME SizeAssumption == /\ MinRecent \in Nat /\ MaxRecent \in Nat
                         /\ MinRecent < MaxRecent

ASSUME ConnsAssumption == Last \in Nat

\* The connections; each is the name of the bundle it writes into, too.
Conns == 1 .. Last

ASSUME KindsAssumption == /\ DataKinds \in [Conns -> SUBSET Data]
                          /\ Stalls \subseteq {"waits", "ended"}

VARIABLES
  store,       \* what is committed
  aged,        \* bundles that ended longer than purgeAfter ago
  pc,          \* where the thread of each connection is
  txns,        \* the transactions each has begun
  added,       \* what its transaction adds to the store
  removed,     \* and removes from it
  up,          \* the repository is initialised
  starts,      \* the initialisations after the first
  recent,      \* the deque of the bundles that have the flag
  trim,        \* the trimming under way: it holds the repository's monitor
  trimFailed,  \* the last trimming gave up
  purge,       \* what the purge under way has chosen to delete
  puringTask   \* the task that purges: it is scheduled, it (or another
               \* repository's, on the same thread) waits for ever, or it ended

txn == <<pc, txns, added, removed>>
memory == <<up, starts, recent, trim, trimFailed, purge, puringTask>>
vars == <<store, aged, txn, memory>>

Kinds == Data \cup {"generated", "revised", "influenced", "bundle", "recent",
                    "obsolete", "ended"}
Quads == Conns \X Kinds \X (Items \cup Conns)

Flag(b, kind) == <<b, kind, b>>
Flagged(S, kind) == {b \in Conns : Flag(b, kind) \in S}

\* The orders in which a query without a sort key may return S.
Orders(S) ==
  {s \in [1 .. Cardinality(S) -> S] : S \subseteq {s[i] : i \in DOMAIN s}}

\* A LinkedHashSet filled from s keeps the first of equal elements.
Distinct(s) ==
  LET First(b) == CHOOSE i \in DOMAIN s : s[i] = b /\ \A j \in 1 .. i - 1 :
                                                        s[j] # b
  IN  {t \in Orders(Range(s)) : \A i, j \in DOMAIN t :
                                  i < j => First(t[i]) < First(t[j])}

NoTrim == [hand |-> <<>>, picked |-> FALSE, adds |-> {}, dels |-> {},
           by |-> 0]

Init ==
  /\ store = {} /\ aged = {}
  /\ pc = [c \in Conns |-> "new"]
  /\ txns = [c \in Conns |-> 0]
  /\ added = [c \in Conns |-> {}] /\ removed = [c \in Conns |-> {}]
  /\ up = TRUE /\ starts = 0
  /\ recent = <<>> /\ trim = NoTrim /\ trimFailed = FALSE
  /\ purge = {} /\ puringTask = "scheduled"

-----------------------------------------------------------------------------
(* A connection: AuditingRepositoryConnection.                             *)

Goto(c, to) == pc' = [pc EXCEPT ![c] = to]

\* What c reads: the committed statements, with its own changes.
View(c) == (store \ removed[c]) \cup added[c]

Change(c, adds, dels) ==
  /\ added' = [added EXCEPT ![c] = (@ \ dels) \cup adds]
  /\ removed' = [removed EXCEPT ![c] = (@ \cup dels) \ adds]

Forget(c) ==
  /\ added' = [added EXCEPT ![c] = {}]
  /\ removed' = [removed EXCEPT ![c] = {}]

Open == {c \in Conns : pc[c] \notin {"new", "closed"}}

Total == FoldFunction(+, 0, txns)

\* A transaction begins with its first change (one that changes nothing is
\* left out).
Begun(c) ==
  \/ pc[c] = "active" /\ UNCHANGED <<pc, txns>>
  \/ /\ up /\ Total < MaxTxns
     /\ \/ pc[c] = "open"
        \/ /\ pc[c] = "new" /\ Cardinality(Open) < MaxOpen
           /\ \A d \in 1 .. c - 1 : pc[d] # "new"
     /\ txns' = [txns EXCEPT ![c] = @ + 1]
     /\ Goto(c, "active")

\* addWithoutCommit: the activity is started, the entity generated by it.
add(c, k, x) ==
  /\ Begun(c)
  /\ Change(c, {<<c, k, x>>, <<c, "generated", x>>, Flag(c, "bundle")}, {})
  /\ UNCHANGED <<store, aged, memory>>

\* removeWithoutCommit, from every graph; AuditingConnection records which.
remove(c, k, x) ==
  LET gone == {q \in View(c) : q[2] = k /\ q[3] = x}
      influences == {<<c, "influenced", q[1]>> :
                       q \in {r \in gone : r[1] # c}}
  IN  /\ Begun(c)
      /\ Change(c, {<<c, "revised", x>>, Flag(c, "bundle")} \cup influences,
                gone)
      /\ UNCHANGED <<store, aged, memory>>

\* UPDATE_ACTIVITY: an entity that the activity touched is no longer generated
\* by the activities of other bundles but by this one.
TakesOver(c) ==
  LET own == {q[3] : q \in {r \in View(c) :
                              r[1] = c /\ r[2] \in {"generated", "revised"}}}
      old == {q \in View(c) : q[1] # c /\ q[2] = "generated" /\ q[3] \in own}
  IN  Change(c, {<<c, "generated", q[3]>> : q \in old}
                \cup {<<c, "influenced", q[1]>> : q \in old}
                \cup {Flag(c, "recent")}, old)

\* commit: finalizeBundles ...
finalizeBundles(c) ==
  /\ pc[c] = "active" /\ Goto(c, "finalized")
  /\ TakesOver(c)
  /\ UNCHANGED <<store, aged, txns, memory>>

\* ... super.commit ...
commit(c) ==
  /\ up /\ pc[c] = "finalized"
  /\ store' = (store \ removed[c]) \cup added[c]
  /\ Goto(c, "committed")
  /\ Forget(c)
  /\ UNCHANGED <<aged, txns, memory>>

\* ... closeBundle: the repository remembers the bundle, when no trimming
\* holds the monitor ...
addRecentBundles(c) ==
  /\ pc[c] = "committed" /\ trim = NoTrim
  /\ recent' = Append(recent, c)
  /\ Goto(c, "registered")
  /\ UNCHANGED <<store, aged, txns, added, removed, up, starts, trim,
                 trimFailed, purge, puringTask>>

\* ... and the end of the activity is added outside of the transaction ...
activityEnded(c) ==
  /\ up /\ pc[c] = "registered" /\ Goto(c, "open")
  /\ store' = store \cup {Flag(c, "ended")}
  /\ UNCHANGED <<aged, txns, added, removed, memory>>

\* ... but the store may refuse it, and commit throws although it committed.
endRefused(c) ==
  /\ up /\ pc[c] = "registered" /\ Goto(c, "open")
  /\ Cardinality(Flagged(store, "bundle") \ Flagged(store, "ended"))
       <= MaxUnended
  /\ UNCHANGED <<store, aged, txns, added, removed, memory>>

\* rollback, also of a commit that the store has refused
rollback(c) ==
  /\ pc[c] \in {"active", "finalized"} /\ Goto(c, "open")
  /\ Forget(c)
  /\ UNCHANGED <<store, aged, txns, memory>>

-----------------------------------------------------------------------------
(* The recent bundles: trim() of AuditingRepository.                       *)

PolledToMaximum == Len(recent) - MaxRecent \* seeded fault: the wrong limit
PolledTooMany == Len(recent) - MinRecent + 1    \* seeded fault: >= minRecent
Polled == Len(recent) - MinRecent

\* The bundles to trim are taken from the head of the deque.
startTrim(by) ==
  /\ \E h \in Distinct(SubSeq(recent, 1, Polled)) :
       trim' = [NoTrim EXCEPT !.hand = h, !.by = by]
  /\ recent' = SubSeq(recent, Polled + 1, Len(recent))

\* close() drops an active transaction; then cleanup().
close(c) ==
  /\ up /\ pc[c] \in {"active", "open"} /\ trim = NoTrim
  /\ Forget(c)
  /\ IF Len(recent) >= MaxRecent
       THEN startTrim(c) /\ Goto(c, "cleanup")
       ELSE Goto(c, "closed") /\ UNCHANGED <<trim, recent>>
  /\ UNCHANGED <<store, aged, txns, up, starts, trimFailed, purge, puringTask>>

\* seeded fault: every prov: triple is taken for metadata
HasContentData(S, b) == \E q \in S : q[1] = b /\ q[2] = "data"

\* seeded fault: only the entities are looked at
HasContentEntities(S, b) == \E q \in S : q[1] = b /\ q[2] = "generated"

\* The FILTER of TRIM_RECENT_BUNDLE: more than metadata, and than what it takes
\* for metadata.
HasContent(S, b) == \E q \in S : q[1] = b /\ q[2] \in {"data", "generated"}

\* TRIM_RECENT_BUNDLE for the first of the bundles: its flag goes, and it and
\* the bundles it was influenced by are obsolete if nothing is left in them.
trimRecentBundle ==
  LET b == Head(trim.hand)
      candidates == {b} \cup {q[3] : q \in {r \in store : r[1] = b /\
                                              r[2] = "influenced"}}
      obsolete == {o \in candidates : /\ ~HasContent(store, o)
                                      /\ \E q \in store : q[1] = o}
  IN  /\ up /\ trim.hand # <<>> /\ ~trim.picked
      /\ IF Flag(b, "recent") \in store
           THEN trim' = [trim EXCEPT !.picked = TRUE,
                           !.dels = {Flag(b, "recent")},
                           !.adds = {Flag(o, "obsolete") : o \in obsolete}]
           ELSE trim' = [trim EXCEPT !.picked = TRUE]
      /\ UNCHANGED <<store, aged, txn, up, starts, recent, trimFailed, purge,
                     puringTask>>

commitTrim ==
  /\ up /\ trim.picked
  /\ store' = (store \ trim.dels) \cup trim.adds
  /\ trim' = [NoTrim EXCEPT !.hand = Tail(trim.hand), !.by = trim.by]
  /\ UNCHANGED <<aged, txn, up, starts, recent, trimFailed, purge, puringTask>>

\* Who trims leaves the monitor; a connection is closed then.
Leave ==
  /\ trim' = NoTrim
  /\ pc' = [c \in Conns |-> IF trim.by = c THEN "closed" ELSE pc[c]]
  /\ UNCHANGED <<store, aged, txns, added, removed, up, starts, purge,
                 puringTask>>

endTrim ==
  /\ trim # NoTrim /\ trim.hand = <<>>
  /\ trimFailed' = FALSE
  /\ Leave /\ UNCHANGED recent

\* The store fails: what is not trimmed goes back, to the end of the deque.
failTrim ==
  /\ trim.hand # <<>> /\ trimFailed' = TRUE
  /\ Leave /\ recent' = recent \o trim.hand

-----------------------------------------------------------------------------
(* The purge: a task of the executor, and the end of initialize().  The one  *)
(* thread of the executor runs the tasks of all repositories.  The purge on  *)
(* close is left out: it is for a purgeAfter of four minutes or less, which  *)
(* has no task.                                                              *)

\* seeded fault: a bundle has to have ended
PurgeableEnded(S) ==
  {b \in Flagged(S, "obsolete") \ Flagged(S, "recent") :
     b \in Flagged(S, "ended") \cap aged}

\* PURGE_EARLIER: of a bundle whose end was not recorded no age is asked.
Purgeable(S) ==
  {b \in Flagged(S, "obsolete") \ Flagged(S, "recent") :
     b \in Flagged(S, "ended") => b \in aged}

\* A purge with nothing to delete is left out, but for its end (stall).
purgeObsolete ==
  /\ up /\ puringTask = "scheduled" /\ purge = {} /\ Purgeable(store) # {}
  /\ purge' = {q \in store : q[1] \in Purgeable(store)}
  /\ UNCHANGED <<store, aged, txn, up, starts, recent, trim, trimFailed,
                 puringTask>>

\* purge() then waits the milliseconds that this took; if that is 0, for ever.
commitPurge ==
  /\ up /\ purge # {} /\ purge' = {}
  /\ store' = store \ purge
  /\ puringTask' \in {puringTask} \cup (Stalls \cap {"waits"})
  /\ UNCHANGED <<aged, txn, up, starts, recent, trim, trimFailed>>

\* An OpenRDFException is logged; a RuntimeException ends the schedule.
failPurge ==
  /\ purge # {} /\ purge' = {}
  /\ puringTask' \in {puringTask} \cup (Stalls \cap {"ended"})
  /\ UNCHANGED <<store, aged, txn, up, starts, recent, trim, trimFailed>>

\* The same of a purge with nothing to delete; or another repository waits.
stall ==
  /\ up /\ puringTask = "scheduled" /\ purge = {}
  /\ puringTask' \in Stalls
  /\ UNCHANGED <<store, aged, txn, up, starts, recent, trim, trimFailed, purge>>

\* The other repository is shut down, which ends its wait.
resume ==
  /\ up /\ puringTask = "waits" /\ puringTask' = "scheduled"
  /\ UNCHANGED <<store, aged, txn, up, starts, recent, trim, trimFailed, purge>>

\* Time passes; only for an obsolete bundle it makes a difference.
age(b) ==
  /\ b \in (Flagged(store, "ended") \cap Flagged(store, "obsolete")) \ aged
  /\ aged' = aged \cup {b}
  /\ UNCHANGED <<store, txn, memory>>

-----------------------------------------------------------------------------
(* Crash, shut down and initialisation.                                    *)

\* A crash loses what is in memory; so does shutDown(), which waits for nobody
\* (a cancelled future is done), since the next repository is another object.
shutDown ==
  /\ up /\ up' = FALSE
  /\ pc' = [c \in Conns |-> IF pc[c] = "new" THEN "new" ELSE "closed"]
  /\ added' = [c \in Conns |-> {}] /\ removed' = [c \in Conns |-> {}]
  /\ recent' = <<>> /\ trim' = NoTrim /\ trimFailed' = FALSE /\ purge' = {}
  /\ puringTask' = "scheduled"   \* by the initialisation that follows
  /\ UNCHANGED <<store, aged, txns, starts>>

initializeEmpty ==   \* seeded fault: the flagged bundles are not loaded
  /\ ~up /\ up' = TRUE
  /\ starts < MaxStarts /\ starts' = starts + 1
  /\ UNCHANGED <<store, aged, txn, recent, trim, trimFailed, purge, puringTask>>

\* initialize(): SELECT_RECENT orders by an end that a bundle does not have (its
\* activity has it), so that the order is any; then trim().
initialize ==
  /\ ~up /\ up' = TRUE
  /\ starts < MaxStarts /\ starts' = starts + 1
  /\ \E s \in Orders(Flagged(store, "recent")) :
       IF Len(s) >= MaxRecent
         THEN /\ trim' = [NoTrim EXCEPT !.hand =
                              SubSeq(s, 1, Len(s) - MinRecent)]
              /\ recent' = SubSeq(s, Len(s) - MinRecent + 1, Len(s))
         ELSE recent' = s /\ UNCHANGED trim
  /\ UNCHANGED <<store, aged, txn, trimFailed, purge, puringTask>>

-----------------------------------------------------------------------------
Commit(c) == \/ finalizeBundles(c) \/ commit(c) \/ addRecentBundles(c)
             \/ activityEnded(c) \/ endRefused(c)
Use(c) == \/ \E k \in DataKinds[c], x \in Items : add(c, k, x)
          \/ \E k \in Data, x \in Items : remove(c, k, x)
          \/ rollback(c) \/ close(c)
Trim == trimRecentBundle \/ commitTrim \/ endTrim \/ failTrim
Purge == purgeObsolete \/ commitPurge \/ failPurge \/ stall \/ resume

Next == \/ \E c \in Conns : Use(c) \/ Commit(c) \/ age(c)
        \/ Trim \/ Purge \/ shutDown \/ initialize

Spec == Init /\ [][Next]_vars

\* Time passes, a purge that is scheduled is run, and the store does not refuse
\* every one. That the task stays scheduled is not assumed.
Fairness == /\ WF_vars(\E c \in Conns : age(c))
            /\ WF_vars(purgeObsolete) /\ SF_vars(commitPurge)
FairSpec == Spec /\ Fairness

-----------------------------------------------------------------------------
(* Properties.                                                             *)

\* Every variable has its type.
TypeOK ==
  /\ store \subseteq Quads /\ aged \subseteq Conns
  /\ pc \in [Conns -> {"new", "active", "finalized", "committed",
                       "registered", "open", "cleanup", "closed"}]
  /\ txns \in [Conns -> Nat]
  /\ added \in [Conns -> SUBSET Quads] /\ removed \in [Conns -> SUBSET Quads]
  /\ up \in BOOLEAN /\ starts \in Nat
  /\ recent \in Seq(Conns)
  /\ trim \in [hand : Seq(Conns), picked : BOOLEAN, adds : SUBSET Quads,
               dels : SUBSET Quads,
               by : 0 .. Last]
  /\ trimFailed \in BOOLEAN /\ purge \subseteq Quads
  /\ puringTask \in {"scheduled", "waits", "ended"}

\* No bundle keeps its flag for ever: the repository knows of every flagged
\* bundle, or whoever trims or commits it is about to tell, after a failed
\* trimming and after a crash between the commit and addRecentBundles too.
FlaggedIsTracked ==
  up => \A b \in Flagged(store, "recent") :
          b \in Range(recent) \cup Range(trim.hand) \/ pc[b] = "committed"

\* When every connection is closed, fewer than MaxRecent bundles are left in
\* the deque, if the last trimming did not fail.
RecentBounded ==
  up /\ trim = NoTrim /\ ~trimFailed
     /\ (\A c \in Conns : pc[c] \in {"new", "closed"})
    => Len(recent) < MaxRecent

\* An entity with a triple in the store was generated by some activity: no
\* concurrent commits, and no purge, leave it without one.  (A connection that
\* goes on after its bundle became obsolete may lose both to the purge.)
Generated ==
  (\A c \in Conns : txns[c] <= 1) =>
    \A q \in store : q[2] \in Data =>
      \E r \in store : r[2] = "generated" /\ r[3] = q[3]

\* A triple of the data leaves the store only with the commit of a transaction
\* that removed it: the purge deletes none, unless the bundle was used for a
\* transaction again (ObsoleteBundle is never taken back). Nothing is said of
\* the unseen triples: when another bundle has taken over all their entities
\* they are purged, though nobody removed them (the FILTER of
\* TRIM_RECENT_BUNDLE, AuditingRepository.java:111-115).
OnlyRemovedLeaves ==
  [][\A q \in store \ store' : q[2] = "data" =>
       \/ \E c \in Conns : pc[c] = "finalized" /\ q \in removed[c]
       \/ txns[q[1]] > 1]_vars

\* Trimming leaves at least MinRecent bundles flagged, while no bundle was
\* used for a second transaction (it may be in the deque twice).
MinimumKept ==
  [][trim.picked /\ (\A c \in Conns : txns[c] <= 1)
       => \/ Flagged(store', "recent") = Flagged(store, "recent")
          \/ Cardinality(Flagged(store', "recent")) >= MinRecent]_vars

\* While the task stays scheduled, an obsolete bundle is deleted in time, also
\* one whose end was not recorded. A task that waits for ever, or that has
\* ended, is exempt: until the next initialisation nothing is purged then.
ObsoletePurged ==
  \A b \in Conns :
    LET Waits == b \in Flagged(store, "obsolete") \ Flagged(store, "recent")
    IN  up /\ Waits ~> ~up \/ ~Waits \/ puringTask # "scheduled"
=============================================================================
