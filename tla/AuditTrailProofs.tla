-------------------------- MODULE AuditTrailProofs --------------------------
(* The invariants of AuditTrail for any connections, items and sizes.       *)
EXTENDS AuditTrail, FiniteSetTheorems, TLAPS

States == {"new", "active", "finalized", "committed", "registered", "open",
           "cleanup", "closed"}

AnyTrims == [hand : Seq(Conns), picked : BOOLEAN, adds : SUBSET Quads,
             dels : SUBSET Quads, by : 0 .. Last]
Trims == {t \in AnyTrims : t.picked => t.hand # <<>>}

-----------------------------------------------------------------------------
(* Sequences.                                                              *)

LEMMA RangeAppend ==
  ASSUME NEW S, NEW s \in Seq(S), NEW e \in S
  PROVE  Append(s, e) \in Seq(S) /\ Range(Append(s, e)) = Range(s) \cup {e}
<1>1. /\ Append(s, e) \in Seq(S) /\ Len(s) \in Nat /\ DOMAIN s = 1 .. Len(s)
      /\ DOMAIN Append(s, e) = 1 .. Len(s) + 1
      /\ \A i \in 1 .. Len(s) : Append(s, e)[i] = s[i]
      /\ Append(s, e)[Len(s) + 1] = e
  OBVIOUS
<1>2. \A i \in 1 .. Len(s) + 1 : i \in 1 .. Len(s) \/ i = Len(s) + 1
  BY <1>1
<1>3. \A i \in 1 .. Len(s) : i \in 1 .. Len(s) + 1
  BY <1>1
<1>4. Len(s) + 1 \in 1 .. Len(s) + 1
  BY <1>1
<1>5. Range(Append(s, e)) \subseteq Range(s) \cup {e}
  BY <1>1, <1>2, Zenon DEF Range
<1>6. Range(s) \cup {e} \subseteq Range(Append(s, e))
  BY <1>1, <1>3, <1>4, Zenon DEF Range
<1> QED
  BY <1>1, <1>5, <1>6

LEMMA RangeConcat ==
  ASSUME NEW S, NEW s \in Seq(S), NEW t \in Seq(S)
  PROVE  s \o t \in Seq(S) /\ Range(s \o t) = Range(s) \cup Range(t)
<1>1. s \o t \in Seq(S) /\ Len(s \o t) = Len(s) + Len(t)
  OBVIOUS
<1>2. ASSUME NEW i \in DOMAIN t PROVE (s \o t)[Len(s) + i] = t[i]
  OBVIOUS
<1>3. \A i \in DOMAIN s : (s \o t)[i] = s[i]
  OBVIOUS
<1>4. \A i \in DOMAIN (s \o t) :
        i \in DOMAIN s \/ (i - Len(s) \in DOMAIN t
                             /\ (s \o t)[i] = t[i - Len(s)])
  OBVIOUS
<1>5. DOMAIN (s \o t) = 1 .. Len(s) + Len(t) /\ DOMAIN s = 1 .. Len(s)
        /\ DOMAIN t = 1 .. Len(t) /\ Len(s) \in Nat /\ Len(t) \in Nat
  OBVIOUS
<1>6. ASSUME NEW e \in Range(s \o t) PROVE e \in Range(s) \cup Range(t)
  <2>1. PICK i \in DOMAIN (s \o t) : e = (s \o t)[i]
    BY DEF Range
  <2> QED
    BY <2>1, <1>3, <1>4 DEF Range
<1>7. ASSUME NEW e \in Range(s) PROVE e \in Range(s \o t)
  <2>1. PICK i \in DOMAIN s : e = s[i]
    BY DEF Range
  <2> QED
    BY <2>1, <1>3, <1>5 DEF Range
<1>8. ASSUME NEW e \in Range(t) PROVE e \in Range(s \o t)
  <2>1. PICK i \in DOMAIN t : e = t[i]
    BY DEF Range
  <2>2. Len(s) + i \in DOMAIN (s \o t)
    BY <1>5
  <2> QED
    BY <2>1, <2>2, <1>2 DEF Range
<1> QED
  BY <1>1, <1>6, <1>7, <1>8

LEMMA RangeHead ==
  ASSUME NEW S, NEW s \in Seq(S), s # <<>>
  PROVE  /\ Head(s) \in S /\ Tail(s) \in Seq(S)
         /\ Range(s) = {Head(s)} \cup Range(Tail(s))
<1>1. /\ Len(s) \in Nat \ {0} /\ DOMAIN s = 1 .. Len(s)
      /\ Head(s) = s[1] /\ Tail(s) \in Seq(S) /\ Len(Tail(s)) = Len(s) - 1
      /\ DOMAIN Tail(s) = 1 .. Len(s) - 1
      /\ \A i \in 1 .. Len(s) - 1 : Tail(s)[i] = s[i + 1]
  OBVIOUS
<1>2. \A i \in DOMAIN s : i = 1 \/ (i - 1 \in 1 .. Len(s) - 1
                                      /\ s[i] = Tail(s)[i - 1])
  BY <1>1
<1>3. ASSUME NEW e \in Range(s) PROVE e \in {Head(s)} \cup Range(Tail(s))
  <2>1. PICK i \in DOMAIN s : e = s[i]
    BY DEF Range
  <2> QED
    BY <2>1, <1>1, <1>2 DEF Range
<1>4. ASSUME NEW e \in Range(Tail(s)) PROVE e \in Range(s)
  <2>1. PICK i \in 1 .. Len(s) - 1 : e = Tail(s)[i]
    BY <1>1 DEF Range
  <2>2. i + 1 \in DOMAIN s
    BY <1>1
  <2> QED
    BY <2>1, <2>2, <1>1 DEF Range
<1>5. Head(s) \in Range(s)
  BY <1>1 DEF Range
<1> QED
  BY <1>1, <1>3, <1>4, <1>5

LEMMA RangeSplit ==
  ASSUME NEW S, NEW s \in Seq(S), NEW n \in 0 .. Len(s)
  PROVE  /\ SubSeq(s, 1, n) \in Seq(S) /\ SubSeq(s, n + 1, Len(s)) \in Seq(S)
         /\ Range(s) = Range(SubSeq(s, 1, n))
                         \cup Range(SubSeq(s, n + 1, Len(s)))
<1> DEFINE a == SubSeq(s, 1, n)
           z == SubSeq(s, n + 1, Len(s))
<1>1. Len(s) \in Nat /\ n \in Nat /\ DOMAIN s = 1 .. Len(s)
  OBVIOUS
<1>2. a \in Seq(S) /\ DOMAIN a = 1 .. n /\ \A i \in 1 .. n : a[i] = s[i]
  OBVIOUS
<1>3. /\ z \in Seq(S) /\ DOMAIN z = 1 .. Len(s) - n
      /\ \A i \in 1 .. Len(s) - n : z[i] = s[n + i]
  OBVIOUS
<1>4. \A i \in 1 .. Len(s) : i \in 1 .. n \/ i - n \in 1 .. Len(s) - n
  BY <1>1
<1>5. \A i \in 1 .. Len(s) - n : n + i \in 1 .. Len(s)
  BY <1>1
<1>6. \A i \in 1 .. Len(s) : n + (i - n) = i
  BY <1>1
<1> HIDE DEF a, z
<1>7. ASSUME NEW e \in Range(s) PROVE e \in Range(a) \cup Range(z)
  <2>1. PICK i \in 1 .. Len(s) : e = s[i]
    BY <1>1 DEF Range
  <2>2. CASE i \in 1 .. n
    BY <2>1, <2>2, <1>2 DEF Range
  <2>3. CASE i - n \in 1 .. Len(s) - n
    <3>1. z[i - n] = s[i]
      BY <2>3, <1>3, <1>6
    <3> QED
      BY <3>1, <2>1, <2>3, <1>3 DEF Range
  <2> QED
    BY <2>2, <2>3, <1>4
<1>8. ASSUME NEW e \in Range(a) PROVE e \in Range(s)
  <2>1. PICK i \in 1 .. n : e = a[i]
    BY <1>2 DEF Range
  <2>2. i \in 1 .. Len(s) /\ a[i] = s[i]
    BY <1>1, <1>2
  <2> QED
    BY <2>1, <2>2, <1>1 DEF Range
<1>9. ASSUME NEW e \in Range(z) PROVE e \in Range(s)
  <2>1. PICK i \in 1 .. Len(s) - n : e = z[i]
    BY <1>3 DEF Range
  <2>2. n + i \in 1 .. Len(s) /\ z[i] = s[n + i]
    BY <1>3, <1>5
  <2> QED
    BY <2>1, <2>2, <1>1 DEF Range
<1> QED
  BY <1>2, <1>3, <1>7, <1>8, <1>9 DEF a, z

LEMMA OrdersSeq ==
  ASSUME NEW S, NEW s \in Orders(S), Cardinality(S) \in Nat
  PROVE  s \in Seq(S) /\ Range(s) = S
BY DEF Orders, Range

-----------------------------------------------------------------------------
(* Types.                                                                  *)

Sorts ==
  /\ store \subseteq Quads
  /\ pc \in [Conns -> States]
  /\ txns \in [Conns -> Nat]
  /\ added \in [Conns -> SUBSET Quads] /\ removed \in [Conns -> SUBSET Quads]
  /\ starts \in Nat /\ recent \in Seq(Conns) /\ trim \in Trims
  /\ aged \subseteq Conns /\ purge \subseteq Quads

Flags == /\ up \in BOOLEAN /\ trimFailed \in BOOLEAN
         /\ puringTask \in {"scheduled", "waits", "ended"}

LEMMA QuadsOf ==
  ASSUME NEW b \in Conns, NEW kind \in Kinds, NEW e \in Items \cup Conns
  PROVE  <<b, kind, e>> \in Quads
BY DEF Quads

LEMMA FlagQuad ==
  ASSUME NEW b \in Conns, NEW kind \in Kinds
  PROVE  Flag(b, kind) \in Quads
BY DEF Quads, Flag

LEMMA ChangeSorts ==
  ASSUME Sorts, NEW c \in Conns, NEW adds \in SUBSET Quads,
         NEW dels \in SUBSET Quads, Change(c, adds, dels)
  PROVE  /\ added' \in [Conns -> SUBSET Quads]
         /\ removed' \in [Conns -> SUBSET Quads]
BY DEF Sorts, Change

LEMMA GotoSorts ==
  ASSUME Sorts, NEW c \in Conns, NEW s \in States, Goto(c, s)
  PROVE  pc' \in [Conns -> States]
BY DEF Sorts, Goto

LEMMA BegunSorts ==
  ASSUME Sorts, NEW c \in Conns, Begun(c)
  PROVE  pc' \in [Conns -> States] /\ txns' \in [Conns -> Nat]
<1>1. CASE UNCHANGED <<pc, txns>>
  BY <1>1 DEF Sorts
<1>2. CASE txns' = [txns EXCEPT ![c] = @ + 1] /\ Goto(c, "active")
  BY <1>2, GotoSorts DEF Sorts, States
<1> QED
  BY <1>1, <1>2 DEF Begun

LEMMA AddSorts ==
  ASSUME Sorts, NEW c \in Conns, NEW k \in Data, NEW x \in Items,
         add(c, k, x)
  PROVE  Sorts'
<1> DEFINE adds == {<<c, k, x>>, <<c, "generated", x>>, Flag(c, "bundle")}
<1>1. adds \in SUBSET Quads
  BY QuadsOf, FlagQuad DEF Kinds
<1>2. Change(c, adds, {}) /\ Begun(c)
  BY DEF add
<1> HIDE DEF adds
<1>3. added' \in [Conns -> SUBSET Quads] /\ removed' \in [Conns -> SUBSET Quads]
  BY <1>1, <1>2, ChangeSorts
<1>4. pc' \in [Conns -> States] /\ txns' \in [Conns -> Nat]
  BY <1>2, BegunSorts
<1> QED
  BY <1>3, <1>4 DEF Sorts, add, memory

LEMMA ViewQuads ==
  ASSUME Sorts, NEW c \in Conns
  PROVE  View(c) \subseteq Quads
BY DEF Sorts, View

LEMMA RemoveSorts ==
  ASSUME Sorts, NEW c \in Conns, NEW k \in Data, NEW x \in Items,
         remove(c, k, x)
  PROVE  Sorts'
<1> DEFINE gone == {q \in View(c) : q[2] = k /\ q[3] = x}
           influences == {<<c, "influenced", q[1]>> :
                            q \in {r \in gone : r[1] # c}}
           adds == {<<c, "revised", x>>, Flag(c, "bundle")} \cup influences
<1>1. gone \in SUBSET Quads
  BY ViewQuads
<1>2. influences \in SUBSET Quads
  BY <1>1 DEF Quads, Kinds
<1>3. adds \in SUBSET Quads
  BY <1>2, QuadsOf, FlagQuad DEF Kinds
<1>4. Change(c, adds, gone) /\ Begun(c)
  BY DEF remove
<1> HIDE DEF adds, gone, influences
<1>5. added' \in [Conns -> SUBSET Quads] /\ removed' \in [Conns -> SUBSET Quads]
  BY <1>1, <1>3, <1>4, ChangeSorts
<1>6. pc' \in [Conns -> States] /\ txns' \in [Conns -> Nat]
  BY <1>4, BegunSorts
<1> QED
  BY <1>5, <1>6 DEF Sorts, remove, memory

LEMMA TakesOverSorts ==
  ASSUME Sorts, NEW c \in Conns, TakesOver(c)
  PROVE  /\ added' \in [Conns -> SUBSET Quads]
         /\ removed' \in [Conns -> SUBSET Quads]
<1> DEFINE own == {q[3] : q \in {r \in View(c) :
                              r[1] = c /\ r[2] \in {"generated", "revised"}}}
           old == {q \in View(c) : q[1] # c /\ q[2] = "generated"
                                     /\ q[3] \in own}
           gens == {<<c, "generated", q[3]>> : q \in old}
           infs == {<<c, "influenced", q[1]>> : q \in old}
           adds == gens \cup infs \cup {Flag(c, "recent")}
<1>1. old \in SUBSET Quads
  BY ViewQuads
<1>2. gens \in SUBSET Quads
  BY <1>1 DEF Quads, Kinds
<1>3. infs \in SUBSET Quads
  BY <1>1 DEF Quads, Kinds
<1>4. adds \in SUBSET Quads
  BY <1>2, <1>3, FlagQuad DEF Kinds
<1>5. Change(c, adds, old)
  BY DEF TakesOver
<1> HIDE DEF adds, old
<1> QED
  BY <1>1, <1>4, <1>5, ChangeSorts

LEMMA FlaggedFinite ==
  ASSUME NEW S, NEW kind
  PROVE  /\ Flagged(S, kind) \subseteq Conns /\ IsFiniteSet(Flagged(S, kind))
         /\ Cardinality(Flagged(S, kind)) \in Nat
<1>1. IsFiniteSet(Conns)
  BY ConnsAssumption, FS_Interval DEF ConnsAssumption, Conns
<1>2. Flagged(S, kind) \subseteq Conns
  BY DEF Flagged
<1> QED
  BY <1>1, <1>2, FS_Subset, FS_CardinalityType

LEMMA SortsInit == Init => Sorts
<1> SUFFICES ASSUME Init PROVE Sorts
  OBVIOUS
<1>1. trim \in Trims
  BY ConnsAssumption DEF Init, NoTrim, Trims, AnyTrims, ConnsAssumption
<1> QED
  BY <1>1 DEF Init, Sorts, States

(* The head of the deque and the rest, as trimming splits it.              *)
LEMMA PolledRange ==
  ASSUME NEW s \in Seq(Conns), Len(s) >= MaxRecent
  PROVE  Len(s) - MinRecent \in 0 .. Len(s)
BY SizeAssumption DEF SizeAssumption

LEMMA DistinctRange ==
  ASSUME NEW s \in Seq(Conns), NEW h \in Distinct(s)
  PROVE  h \in Seq(Conns) /\ Range(h) = Range(s)
<1>1. h \in Orders(Range(s))
  BY DEF Distinct
<1>2. Range(s) \subseteq Conns
  BY DEF Range
<1>3. IsFiniteSet(Range(s))
  BY <1>2, ConnsAssumption, FS_Interval, FS_Subset DEF ConnsAssumption, Conns
<1>4. h \in Seq(Range(s)) /\ Range(h) = Range(s)
  BY <1>1, <1>3, FS_CardinalityType, OrdersSeq
<1> QED
  BY <1>2, <1>4

LEMMA StartTrim ==
  ASSUME Sorts, NEW c \in Conns, startTrim(c), Len(recent) >= MaxRecent
  PROVE  /\ recent' \in Seq(Conns) /\ trim' \in Trims
         /\ Range(recent) = Range(trim'.hand) \cup Range(recent')
         /\ trim'.dels = {} /\ trim'.adds = {} /\ trim'.picked = FALSE
<1> DEFINE n == Len(recent) - MinRecent
<1>1. recent \in Seq(Conns) /\ n \in 0 .. Len(recent)
  BY PolledRange DEF Sorts
<1>2. PICK h \in Distinct(SubSeq(recent, 1, n)) :
        trim' = [NoTrim EXCEPT !.hand = h, !.by = c]
  BY DEF startTrim, Polled
<1>3. recent' = SubSeq(recent, n + 1, Len(recent))
  BY DEF startTrim, Polled
<1> HIDE DEF n
<1>4. /\ SubSeq(recent, 1, n) \in Seq(Conns) /\ recent' \in Seq(Conns)
      /\ Range(recent) = Range(SubSeq(recent, 1, n)) \cup Range(recent')
  BY <1>1, <1>3, RangeSplit
<1>5. h \in Seq(Conns) /\ Range(h) = Range(SubSeq(recent, 1, n))
  BY <1>4, DistinctRange
<1>6. trim' = [hand |-> h, picked |-> FALSE, adds |-> {}, dels |-> {}, by |-> c]
  BY <1>2 DEF NoTrim
<1>7. trim' \in Trims
  BY <1>5, <1>6 DEF Trims, AnyTrims, Conns
<1> QED
  BY <1>4, <1>5, <1>6, <1>7

(* What a connection is used for, by the sorts of triples.                  *)
LEMMA Uses ==
  ASSUME NEW c \in Conns, Use(c)
  PROVE  \/ \E k \in Data, x \in Items : add(c, k, x) \/ remove(c, k, x)
         \/ rollback(c) \/ close(c)
BY KindsAssumption DEF KindsAssumption, Use

LEMMA CommitSorts ==
  ASSUME Sorts, NEW c \in Conns, Use(c) \/ Commit(c)
  PROVE  Sorts'
<1>1. CASE \E k \in Data, x \in Items : add(c, k, x) \/ remove(c, k, x)
  BY <1>1, AddSorts, RemoveSorts
<1>2. CASE rollback(c)
  BY <1>2, GotoSorts DEF Sorts, rollback, Forget, memory, States
<1>3. CASE close(c)
  <2>1. CASE Len(recent) >= MaxRecent
    <3>1. startTrim(c) /\ Goto(c, "cleanup")
      BY <1>3, <2>1 DEF close
    <3> QED
      BY <1>3, <3>1, <2>1, StartTrim, GotoSorts DEF Sorts, close, Forget, States
  <2>2. CASE ~(Len(recent) >= MaxRecent)
    BY <1>3, <2>2, GotoSorts DEF Sorts, close, Forget, States
  <2> QED
    BY <2>1, <2>2
<1>4. CASE finalizeBundles(c)
  BY <1>4, TakesOverSorts, GotoSorts DEF Sorts, finalizeBundles, memory, States
<1>5. CASE commit(c)
  <2>1. store' \subseteq Quads
    BY <1>5 DEF commit, Sorts
  <2> QED
    BY <1>5, <2>1, GotoSorts DEF Sorts, commit, Forget, memory, States
<1>6. CASE addRecentBundles(c)
  BY <1>6, GotoSorts, RangeAppend DEF Sorts, addRecentBundles, States
<1>7. CASE activityEnded(c)
  BY <1>7, GotoSorts, FlagQuad DEF Sorts, activityEnded, memory, States, Kinds
<1>8. CASE endRefused(c)
  BY <1>8, GotoSorts DEF Sorts, endRefused, memory, States
<1> QED
  BY <1>1, <1>2, <1>3, <1>4, <1>5, <1>6, <1>7, <1>8, Uses DEF Commit

LEMMA LeaveSorts ==
  ASSUME Sorts, Leave
  PROVE  pc' \in [Conns -> States] /\ trim' \in Trims
BY ConnsAssumption
DEF ConnsAssumption, Leave, Sorts, States, NoTrim, Trims, AnyTrims

LEMMA TrimSorts ==
  ASSUME Sorts, Trim
  PROVE  Sorts'
<1> USE DEF Sorts
<1>1. CASE trimRecentBundle
  <2> DEFINE b == Head(trim.hand)
  <2>1. b \in Conns
    BY <1>1, RangeHead DEF trimRecentBundle, Trims, AnyTrims
  <2>2. PICK A \in SUBSET Quads :
          \/ trim' = [trim EXCEPT !.picked = TRUE, !.dels = {Flag(b, "recent")},
                                  !.adds = A]
          \/ trim' = [trim EXCEPT !.picked = TRUE]
    <3> DEFINE cands == {b} \cup {q[3] : q \in {r \in store : r[1] = b /\
                                              r[2] = "influenced"}}
               obs == {o \in cands : /\ ~HasContent(store, o)
                                     /\ \E q \in store : q[1] = o}
    <3>1. obs \subseteq Conns
      BY <2>1 DEF Quads
    <3>2. {Flag(o, "obsolete") : o \in obs} \in SUBSET Quads
      BY <3>1, FlagQuad DEF Kinds
    <3> QED
      BY <1>1, <3>2 DEF trimRecentBundle
  <2>3. {Flag(b, "recent")} \in SUBSET Quads
    BY <2>1, FlagQuad DEF Kinds
  <2> HIDE DEF b
  <2>5. trim \in AnyTrims /\ trim.hand # <<>>
    BY <1>1 DEF trimRecentBundle, Trims
  <2>6. \A X \in SUBSET Quads, D \in SUBSET Quads :
          [trim EXCEPT !.picked = TRUE, !.dels = D, !.adds = X] \in Trims
    BY <2>5 DEF Trims, AnyTrims
  <2>7. [trim EXCEPT !.picked = TRUE] \in Trims
    BY <2>5 DEF Trims, AnyTrims
  <2>8. trim' \in Trims
    BY <2>2, <2>3, <2>6, <2>7, Zenon
  <2> QED
    BY <1>1, <2>8 DEF trimRecentBundle, txn
<1>2. CASE commitTrim
  <2>1. trim' \in Trims
    BY <1>2, RangeHead DEF commitTrim, NoTrim, Trims, AnyTrims
  <2> QED
    BY <1>2, <2>1 DEF commitTrim, txn, Trims, AnyTrims
<1>3. CASE endTrim
  BY <1>3, LeaveSorts DEF endTrim, Leave
<1>4. CASE failTrim
  <2>1. recent' \in Seq(Conns)
    BY <1>4, RangeConcat DEF failTrim, Trims, AnyTrims
  <2> QED
    BY <1>4, <2>1, LeaveSorts DEF failTrim, Leave
<1> QED
  BY <1>1, <1>2, <1>3, <1>4 DEF Trim

LEMMA InitializeSplit ==
  ASSUME Sorts, initialize
  PROVE  /\ recent' \in Seq(Conns) /\ trim' \in Trims
         /\ \/ trim'.dels = {} /\ trim'.adds = {} /\ trim'.picked = FALSE
            \/ UNCHANGED trim
         /\ trim'.by \in Conns => trim'.by = trim.by /\ UNCHANGED trim
         /\ Flagged(store, "recent") \subseteq Range(recent')
                                               \cup Range(trim'.hand)
<1> DEFINE F == Flagged(store, "recent")
<1>1. PICK s \in Orders(F) :
        IF Len(s) >= MaxRecent
          THEN /\ trim' = [NoTrim EXCEPT !.hand =
                               SubSeq(s, 1, Len(s) - MinRecent)]
               /\ recent' = SubSeq(s, Len(s) - MinRecent + 1, Len(s))
          ELSE recent' = s /\ UNCHANGED trim
  BY DEF initialize
<1>2. s \in Seq(F) /\ Range(s) = F /\ F \subseteq Conns
  BY FlaggedFinite, OrdersSeq
<1>3. s \in Seq(Conns)
  BY <1>2
<1> HIDE DEF F
<1>4. CASE Len(s) >= MaxRecent
  <2> DEFINE n == Len(s) - MinRecent
  <2>1. n \in 0 .. Len(s)
    BY <1>3, <1>4, PolledRange
  <2>2. recent' = SubSeq(s, n + 1, Len(s))
    BY <1>1, <1>4
  <2>3. trim' = [hand |-> SubSeq(s, 1, n), picked |-> FALSE, adds |-> {},
                 dels |-> {}, by |-> 0]
    BY <1>1, <1>4 DEF NoTrim
  <2> HIDE DEF n
  <2>4. /\ SubSeq(s, 1, n) \in Seq(Conns) /\ recent' \in Seq(Conns)
        /\ F = Range(SubSeq(s, 1, n)) \cup Range(recent')
    BY <1>2, <1>3, <2>1, <2>2, RangeSplit
  <2>5. trim' \in Trims
    BY <2>3, <2>4, ConnsAssumption DEF Trims, AnyTrims, ConnsAssumption
  <2>6. 0 \notin Conns
    BY DEF Conns
  <2> QED
    BY <2>3, <2>4, <2>5, <2>6 DEF F
<1>5. CASE ~(Len(s) >= MaxRecent)
  BY <1>1, <1>2, <1>3, <1>5 DEF F, Sorts
<1> QED
  BY <1>4, <1>5

LEMMA OtherSorts ==
  ASSUME Sorts, Purge \/ shutDown \/ initialize \/ \E c \in Conns : age(c)
  PROVE  Sorts'
<1>1. CASE Purge
  BY <1>1 DEF Purge, purgeObsolete, commitPurge, failPurge, stall, resume,
       Sorts, txn
<1>2. CASE shutDown
  <2>1. trim' \in Trims
    BY <1>2, ConnsAssumption DEF shutDown, NoTrim, Trims, AnyTrims,
       ConnsAssumption
  <2> QED
    BY <1>2, <2>1 DEF shutDown, Sorts, States
<1>3. CASE initialize
  <2>1. recent' \in Seq(Conns) /\ trim' \in Trims
    BY <1>3, InitializeSplit
  <2>2. starts' = starts + 1 /\ UNCHANGED <<store, aged, txn, purge>>
    BY <1>3 DEF initialize
  <2> QED
    BY <2>1, <2>2 DEF Sorts, txn
<1>4. CASE \E c \in Conns : age(c)
  BY <1>4 DEF age, Sorts, txn, memory
<1> QED
  BY <1>1, <1>2, <1>3, <1>4

LEMMA SortsStep == Sorts /\ [Next]_vars => Sorts'
<1> SUFFICES ASSUME Sorts, [Next]_vars PROVE Sorts'
  OBVIOUS
<1>1. CASE UNCHANGED vars
  BY <1>1 DEF vars, txn, memory, Sorts
<1> QED
  BY <1>1, CommitSorts, TrimSorts, OtherSorts DEF Next

-----------------------------------------------------------------------------
(* Every flagged bundle is tracked.  A transaction holds the flag of its own *)
(* bundle from finalizeBundles to its commit only; the flag that trimming    *)
(* takes away is that of the bundle at the head of its hand, unless the      *)
(* bundle has just been committed again, and waits for the monitor that the  *)
(* trimming holds.  Who holds it is closing its connection.                  *)
Recent(b) == Flag(b, "recent")

TrackInv ==
  /\ \A c, b \in Conns : Recent(b) \in added[c] => b = c /\ pc[c] = "finalized"
  /\ \A b \in Conns : Recent(b) \notin trim.adds
  /\ \A b \in Conns :
       Recent(b) \in store /\ trim.picked /\ b = Head(trim.hand)
         => Recent(b) \in trim.dels \/ pc[b] = "committed"
  /\ trim.by \in Conns => pc[trim.by] = "cleanup"
  /\ FlaggedIsTracked

Inv == Sorts /\ TrackInv

LEMMA FlaggedMember ==
  ASSUME NEW S, NEW b \in Conns
  PROVE  b \in Flagged(S, "recent") <=> Recent(b) \in S
BY DEF Flagged, Recent

LEMMA InvInit == Init => Inv
<1> SUFFICES ASSUME Init PROVE Inv
  OBVIOUS
<1>1. 0 \notin Conns
  BY DEF Conns
<1> QED
  BY <1>1, SortsInit DEF Init, Inv, TrackInv, FlaggedIsTracked, Flagged, NoTrim

(* A step that leaves the store, the trimming, the deque and the flags that  *)
(* transactions hold as they are, and moves threads away from none of the    *)
(* places that matter, keeps the invariant.                                  *)
LEMMA QuietKeeps ==
  ASSUME Inv, UNCHANGED <<up, recent, trim>>,
         \A b \in Conns : Recent(b) \in store' => Recent(b) \in store,
         \A c, b \in Conns : Recent(b) \in added'[c] =>
                              b = c /\ pc'[c] = "finalized",
         \A c \in Conns : pc[c] \in {"committed", "cleanup"} => pc'[c] = pc[c]
  PROVE  TrackInv'
BY FlaggedMember DEF Inv, TrackInv, FlaggedIsTracked, Flagged

LEMMA AddInv ==
  ASSUME Inv, NEW c \in Conns, NEW k \in Data, NEW x \in Items,
         add(c, k, x) \/ remove(c, k, x)
  PROVE  TrackInv'
<1> USE DEF Inv
<1>1. PICK adds, dels : Change(c, adds, dels)
                          /\ \A b \in Conns : Recent(b) \notin adds
  BY DEF Data, add, remove, Flag, Recent
<1>2. Begun(c) /\ UNCHANGED <<store, memory>>
  BY DEF add, remove
<1>3. \A d \in Conns : pc'[d] # pc[d] => d = c /\ pc[c] \in {"open", "new"}
  BY <1>2 DEF Begun, Goto, Sorts
<1>4. \A d, b \in Conns : Recent(b) \in added'[d] => Recent(b) \in added[d]
  BY <1>1 DEF Change, Sorts
<1>5. \A d, b \in Conns : Recent(b) \in added'[d] =>
                             b = d /\ pc'[d] = "finalized"
  BY <1>3, <1>4 DEF TrackInv
<1> QED
  BY <1>2, <1>3, <1>5, QuietKeeps DEF memory

LEMMA FinalizeInv ==
  ASSUME Inv, NEW c \in Conns, finalizeBundles(c)
  PROVE  TrackInv'
<1> USE DEF Inv
<1>1. PICK adds, dels : Change(c, adds, dels)
                          /\ \A b \in Conns : Recent(b) \in adds => b = c
  BY DEF finalizeBundles, TakesOver, Flag, Recent
<1>2. pc[c] = "active" /\ pc' = [pc EXCEPT ![c] = "finalized"]
        /\ UNCHANGED <<store, memory>>
  BY DEF finalizeBundles, Goto
<1>3. \A d, b \in Conns : Recent(b) \in added'[d] =>
                             b = d /\ pc'[d] = "finalized"
  BY <1>1, <1>2 DEF Change, Sorts, TrackInv
<1> QED
  BY <1>2, <1>3, QuietKeeps DEF memory, Sorts

LEMMA CommitInv ==
  ASSUME Inv, NEW c \in Conns, commit(c)
  PROVE  TrackInv'
<1> USE DEF Inv
<1>1. /\ pc[c] = "finalized" /\ pc' = [pc EXCEPT ![c] = "committed"]
      /\ added' = [added EXCEPT ![c] = {}]
      /\ store' = (store \ removed[c]) \cup added[c]
      /\ UNCHANGED <<up, recent, trim>>
  BY DEF commit, Goto, Forget, memory
<1>2. \A b \in Conns : Recent(b) \in store' => Recent(b) \in store \/ b = c
  BY <1>1 DEF TrackInv
<1>3. \A d \in Conns : pc'[d] = IF d = c THEN "committed" ELSE pc[d]
  BY <1>1 DEF Sorts
<1>4. \A d, b \in Conns : Recent(b) \in added'[d] => d # c
                                                  /\ Recent(b) \in added[d]
  BY <1>1 DEF Sorts
<1> QED
  BY <1>1, <1>2, <1>3, <1>4, FlaggedMember
  DEF TrackInv, FlaggedIsTracked, Flagged

LEMMA RegisterInv ==
  ASSUME Inv, NEW c \in Conns, addRecentBundles(c)
  PROVE  TrackInv'
<1> USE DEF Inv
<1>1. /\ trim = NoTrim /\ pc' = [pc EXCEPT ![c] = "registered"]
      /\ recent' = Append(recent, c) /\ pc[c] = "committed"
      /\ UNCHANGED <<store, added, up, trim>>
  BY DEF addRecentBundles, Goto
<1>2. Range(recent') = Range(recent) \cup {c}
  BY <1>1, RangeAppend DEF Sorts
<1>3. ~trim.picked /\ trim.by \notin Conns
  BY <1>1 DEF NoTrim, Conns
<1>4. \A d \in Conns : pc'[d] = IF d = c THEN "registered" ELSE pc[d]
  BY <1>1 DEF Sorts
<1> QED
  BY <1>1, <1>2, <1>3, <1>4, FlaggedMember
  DEF TrackInv, FlaggedIsTracked, Flagged

LEMMA EndInv ==
  ASSUME Inv, NEW c \in Conns, activityEnded(c) \/ endRefused(c)
  PROVE  TrackInv'
<1> USE DEF Inv
<1>1. /\ pc[c] = "registered" /\ pc' = [pc EXCEPT ![c] = "open"]
      /\ store' \in {store, store \cup {Flag(c, "ended")}}
      /\ UNCHANGED <<added, memory>>
  BY DEF activityEnded, endRefused, Goto
<1>2. \A b \in Conns : Recent(b) \in store' => Recent(b) \in store
  BY <1>1 DEF Recent, Flag
<1>3. \A d, b \in Conns : Recent(b) \in added'[d] =>
                             b = d /\ pc'[d] = "finalized"
  BY <1>1 DEF TrackInv, Sorts
<1> QED
  BY <1>1, <1>2, <1>3, QuietKeeps DEF memory, Sorts

LEMMA RollbackInv ==
  ASSUME Inv, NEW c \in Conns, rollback(c)
  PROVE  TrackInv'
<1> USE DEF Inv
<1>1. /\ pc[c] \in {"active", "finalized"} /\ pc' = [pc EXCEPT ![c] = "open"]
      /\ added' = [added EXCEPT ![c] = {}]
      /\ UNCHANGED <<store, memory>>
  BY DEF rollback, Goto, Forget
<1>2. \A d, b \in Conns : Recent(b) \in added'[d] =>
                             b = d /\ pc'[d] = "finalized"
  BY <1>1 DEF TrackInv, Sorts
<1> QED
  BY <1>1, <1>2, QuietKeeps DEF memory, Sorts

LEMMA CloseInv ==
  ASSUME Inv, NEW c \in Conns, close(c)
  PROVE  TrackInv'
<1> USE DEF Inv
<1>1. /\ pc[c] \in {"active", "open"} /\ trim = NoTrim
      /\ added' = [added EXCEPT ![c] = {}] /\ UNCHANGED <<store, up>>
  BY DEF close, Forget
<1>2. Range(trim.hand) = {}
  BY <1>1 DEF NoTrim, Range
<1>3. ~trim.picked /\ trim.by \notin Conns
  BY <1>1 DEF NoTrim, Conns
<1>4. CASE Len(recent) >= MaxRecent
  <2>1. startTrim(c) /\ pc' = [pc EXCEPT ![c] = "cleanup"]
    BY <1>4 DEF close, Goto
  <2>2. /\ Range(recent) = Range(trim'.hand) \cup Range(recent')
        /\ trim'.adds = {} /\ trim'.picked = FALSE
    BY <1>4, <2>1, StartTrim
  <2>3. trim'.by = c
    BY <2>1 DEF startTrim, NoTrim
  <2>4. \A d, b \in Conns : Recent(b) \in added'[d] =>
                               b = d /\ pc'[d] = "finalized"
    BY <1>1, <2>1 DEF TrackInv, Sorts
  <2>5. \A d \in Conns : pc'[d] = IF d = c THEN "cleanup" ELSE pc[d]
    BY <2>1 DEF Sorts
  <2> QED
    BY <1>1, <1>2, <2>2, <2>3, <2>4, <2>5, FlaggedMember
    DEF TrackInv, FlaggedIsTracked, Flagged
<1>5. CASE ~(Len(recent) >= MaxRecent)
  <2>1. pc' = [pc EXCEPT ![c] = "closed"] /\ UNCHANGED <<trim, recent>>
    BY <1>5 DEF close, Goto
  <2>2. \A d, b \in Conns : Recent(b) \in added'[d] =>
                               b = d /\ pc'[d] = "finalized"
    BY <1>1, <2>1 DEF TrackInv, Sorts
  <2> QED
    BY <1>1, <2>1, <2>2, QuietKeeps DEF Sorts
<1> QED
  BY <1>4, <1>5

LEMMA TrimInv ==
  ASSUME Inv, Trim
  PROVE  TrackInv'
<1> USE DEF Inv
<1>0. trim \in AnyTrims /\ (trim.picked => trim.hand # <<>>)
  BY DEF Sorts, Trims
<1>1. CASE trimRecentBundle
  <2> DEFINE b == Head(trim.hand)
  <2>1. PICK adds : /\ \A e \in Conns : Recent(e) \notin adds
                    /\ trim' = IF Recent(b) \in store
                         THEN [trim EXCEPT !.picked = TRUE,
                                 !.dels = {Recent(b)}, !.adds = adds]
                         ELSE [trim EXCEPT !.picked = TRUE]
    <3> DEFINE cands == {b} \cup {q[3] : q \in {r \in store : r[1] = b /\
                                              r[2] = "influenced"}}
               obs == {o \in cands : /\ ~HasContent(store, o)
                                     /\ \E q \in store : q[1] = o}
               marks == {Flag(o, "obsolete") : o \in obs}
    <3>1. trim' = IF Recent(b) \in store
                    THEN [trim EXCEPT !.picked = TRUE,
                            !.dels = {Recent(b)}, !.adds = marks]
                    ELSE [trim EXCEPT !.picked = TRUE]
      BY <1>1 DEF trimRecentBundle, Recent
    <3>2. \A e \in Conns : Recent(e) \notin marks
      BY DEF Recent, Flag
    <3> HIDE DEF marks
    <3> QED
      BY <3>1, <3>2
  <2>2. UNCHANGED <<store, pc, added, up, recent>>
    BY <1>1 DEF trimRecentBundle, txn
  <2>3. trim'.hand = trim.hand /\ trim'.by = trim.by
    BY <1>0, <2>1 DEF AnyTrims
  <2>4. \A e \in Conns : Recent(e) \notin trim'.adds
    BY <1>0, <2>1 DEF AnyTrims, TrackInv
  <2>5. Recent(b) \in store => Recent(b) \in trim'.dels
    BY <1>0, <2>1 DEF AnyTrims
  <2> HIDE DEF b
  <2>6. \A e \in Conns : Recent(e) \in store /\ e = Head(trim'.hand)
                            => Recent(e) \in trim'.dels
    BY <2>3, <2>5 DEF b
  <2> QED
    BY <2>2, <2>3, <2>4, <2>6 DEF TrackInv, FlaggedIsTracked, Flagged
<1>2. CASE commitTrim
  <2>1. /\ trim.picked /\ store' = (store \ trim.dels) \cup trim.adds
        /\ UNCHANGED <<pc, added, up, recent>>
    BY <1>2 DEF commitTrim, txn
  <2>2. /\ trim'.hand = Tail(trim.hand) /\ trim'.by = trim.by
        /\ trim'.adds = {} /\ trim'.picked = FALSE
    BY <1>2 DEF commitTrim, NoTrim
  <2>3. Range(trim.hand) = {Head(trim.hand)} \cup Range(trim'.hand)
    BY <1>0, <2>1, <2>2, RangeHead DEF AnyTrims
  <2>4. \A e \in Conns : Recent(e) \in store' => Recent(e) \in store
                                               /\ Recent(e) \notin trim.dels
    BY <2>1 DEF TrackInv
  <2>5. \A e \in Conns : Recent(e) \in store' /\ e = Head(trim.hand)
                           => pc[e] = "committed"
    BY <2>1, <2>4 DEF TrackInv
  <2>6. FlaggedIsTracked'
    BY <2>1, <2>3, <2>4, <2>5 DEF TrackInv, FlaggedIsTracked, Flagged, Recent
  <2> QED
    BY <2>1, <2>2, <2>6 DEF TrackInv
<1>3. CASE endTrim \/ failTrim
  <2>1. Range(trim.hand) \cup Range(recent) = Range(recent')
    <3>1. CASE endTrim
      BY <3>1 DEF endTrim, Range
    <3>2. CASE failTrim
      BY <3>2, <1>0, RangeConcat DEF failTrim, Sorts, AnyTrims
    <3> QED
      BY <1>3, <3>1, <3>2
  <2>2. /\ trim' = NoTrim /\ UNCHANGED <<store, added, up>>
        /\ pc' = [d \in Conns |-> IF trim.by = d THEN "closed" ELSE pc[d]]
    BY <1>3 DEF endTrim, failTrim, Leave
  <2>3. ~trim'.picked /\ trim'.by \notin Conns /\ trim'.adds = {}
    BY <2>2 DEF NoTrim, Conns
  <2>4. \A d \in Conns : pc[d] \in {"committed", "finalized"} =>
                           pc'[d] = pc[d]
    BY <2>2 DEF TrackInv
  <2> QED
    BY <2>1, <2>2, <2>3, <2>4, FlaggedMember
    DEF TrackInv, FlaggedIsTracked, Flagged
<1> QED
  BY <1>1, <1>2, <1>3 DEF Trim

LEMMA OtherInv ==
  ASSUME Inv, Purge \/ shutDown \/ initialize \/ \E c \in Conns : age(c)
  PROVE  TrackInv'
<1> USE DEF Inv
<1>1. CASE Purge \/ \E c \in Conns : age(c)
  <2>1. UNCHANGED <<pc, added, up, recent, trim>> /\ store' \subseteq store
    BY <1>1 DEF Purge, purgeObsolete, commitPurge, failPurge, stall, resume,
         age, txn, memory
  <2> QED
    BY <2>1, QuietKeeps DEF TrackInv
<1>2. CASE shutDown
  <2>1. /\ up' = FALSE /\ trim' = NoTrim
        /\ added' = [c \in Conns |-> {}]
    BY <1>2 DEF shutDown
  <2>2. ~trim'.picked /\ trim'.by \notin Conns /\ trim'.adds = {}
    BY <2>1 DEF NoTrim, Conns
  <2> QED
    BY <2>1, <2>2 DEF TrackInv, FlaggedIsTracked
<1>3. CASE initialize
  <2>1. UNCHANGED <<store, pc, added>>
    BY <1>3 DEF initialize, txn
  <2>2. /\ \/ trim'.adds = {} /\ trim'.picked = FALSE
           \/ UNCHANGED trim
        /\ trim'.by \in Conns => trim'.by = trim.by
        /\ Flagged(store, "recent") \subseteq Range(recent')
                                              \cup Range(trim'.hand)
    BY <1>3, InitializeSplit
  <2> QED
    BY <2>1, <2>2 DEF TrackInv, FlaggedIsTracked, Flagged
<1> QED
  BY <1>1, <1>2, <1>3

LEMMA InvStep == Inv /\ [Next]_vars => Inv'
<1> SUFFICES ASSUME Inv, [Next]_vars PROVE Inv'
  OBVIOUS
<1>1. Sorts'
  BY SortsStep DEF Inv
<1>2. CASE UNCHANGED vars
  BY <1>2, QuietKeeps, <1>1 DEF vars, txn, memory, Inv, TrackInv
<1>3. CASE \E c \in Conns : Use(c) \/ Commit(c)
  BY <1>1, <1>3, AddInv, FinalizeInv, CommitInv, RegisterInv, EndInv,
     RollbackInv, CloseInv, Uses DEF Commit, Inv
<1> QED
  BY <1>1, <1>2, <1>3, TrimInv, OtherInv DEF Next, Inv

LEMMA FlagsStep == Sorts /\ Flags /\ [Next]_vars => Flags'
<1> SUFFICES ASSUME Flags, [Next]_vars PROVE Flags'
  OBVIOUS
<1>1. CASE \E c \in Conns : Use(c) \/ Commit(c) \/ age(c)
  <2>1. UNCHANGED <<up, trimFailed, puringTask>>
    BY <1>1 DEF Use, Commit, add, remove, rollback, close, finalizeBundles,
       commit, addRecentBundles, activityEnded, endRefused, age, txn, memory
  <2> QED
    BY <2>1, Zenon DEF Flags
<1>2. CASE Trim
  BY <1>2, Zenon DEF Trim, trimRecentBundle, commitTrim, endTrim, failTrim,
     Leave, Flags
<1>3. CASE Purge
  <2>1. UNCHANGED <<up, trimFailed>>
    BY <1>3 DEF Purge, purgeObsolete, commitPurge, failPurge, stall, resume
  <2>2. puringTask' \in {puringTask, "scheduled"} \cup Stalls
    BY <1>3 DEF Purge, purgeObsolete, commitPurge, failPurge, stall, resume
  <2>3. puringTask' \in {"scheduled", "waits", "ended"}
    BY <2>2, KindsAssumption DEF KindsAssumption, Flags
  <2> QED
    BY <2>1, <2>3, Zenon DEF Flags
<1>4. CASE shutDown
  BY <1>4, Zenon DEF shutDown, Flags
<1>5. CASE initialize
  BY <1>5, Zenon DEF initialize, Flags
<1>6. CASE UNCHANGED vars
  BY <1>6, Zenon DEF vars, memory, Flags
<1> QED
  BY <1>1, <1>2, <1>3, <1>4, <1>5, <1>6 DEF Next

\* Every variable has its type, however the crashes and failures fall.
THEOREM AuditTypes == Spec => []TypeOK
<1>1. Init => Flags
  BY Zenon DEF Init, Flags
<1>2. Sorts /\ Flags => TypeOK
  <2>1. Sorts => trim \in AnyTrims
    BY DEF Sorts, Trims
  <2> HIDE DEF AnyTrims
  <2>2. SUFFICES ASSUME Sorts, Flags PROVE TypeOK
    OBVIOUS
  <2>3. trim \in AnyTrims
    BY <2>1, <2>2
  <2> QED
    BY <2>2, <2>3, Zenon DEF Sorts, Flags, TypeOK, AnyTrims, States
<1> QED
  BY SortsInit, SortsStep, FlagsStep, <1>1, <1>2, PTL DEF Spec

\* No bundle keeps its flag for ever because the repository forgot it: not
\* after a trimming that failed, and not after a crash.
THEOREM RecentAreTracked == Spec => []FlaggedIsTracked
<1>1. Inv => FlaggedIsTracked
  BY DEF Inv, TrackInv
<1> QED
  BY InvInit, InvStep, <1>1, PTL DEF Spec
-----------------------------------------------------------------------------
(* The deque stays bounded.  Whoever trims has taken all but MinRecent from  *)
(* it, nobody adds to it until the trimming ends, and what is closed without *)
(* a trimming found fewer than MaxRecent.                                    *)
BoundInv ==
  /\ ~up => trim = NoTrim
  /\ trim # NoTrim => Len(recent) = MinRecent
  /\ RecentBounded

\* what close() leaves in the deque when it trims, what initialize() leaves
LEMMA TrimLeaves ==
  ASSUME NEW s \in Seq(Conns), Len(s) >= MaxRecent
  PROVE  /\ Len(SubSeq(s, Len(s) - MinRecent + 1, Len(s))) = MinRecent
         /\ MinRecent < MaxRecent
<1>1. Len(s) \in Nat /\ MinRecent \in Nat /\ MaxRecent \in Nat
        /\ MinRecent < MaxRecent
  BY SizeAssumption DEF SizeAssumption
<1>2. Len(s) - MinRecent + 1 \in 1 .. Len(s) + 1
  BY <1>1
<1>3. \A m \in 1 .. Len(s) + 1 : Len(SubSeq(s, m, Len(s))) = Len(s) - m + 1
  OBVIOUS
<1> QED
  BY <1>1, <1>2, <1>3

LEMMA CloseBound ==
  ASSUME Sorts, BoundInv, NEW c \in Conns, close(c)
  PROVE  BoundInv'
<1>1. recent \in Seq(Conns) /\ MaxRecent \in Nat /\ Len(recent) \in Nat
  BY SizeAssumption DEF Sorts, SizeAssumption
<1>2. up /\ trim = NoTrim /\ UNCHANGED <<up, trimFailed>>
  BY DEF close
<1>3. CASE Len(recent) >= MaxRecent
  <2>1. startTrim(c) /\ Goto(c, "cleanup")
    BY <1>3 DEF close
  <2>2. trim'.by = c /\ NoTrim.by = 0 /\ c # 0
    BY <2>1 DEF startTrim, NoTrim, Conns
  <2>3. Len(recent') = MinRecent
    BY <1>1, <1>3, <2>1, TrimLeaves DEF startTrim, Polled
  <2>4. trim' # NoTrim
    BY <2>2
  <2> QED
    BY <1>2, <2>3, <2>4 DEF BoundInv, RecentBounded
<1>4. CASE ~(Len(recent) >= MaxRecent)
  <2>1. UNCHANGED <<trim, recent>>
    BY <1>4 DEF close
  <2> QED
    BY <1>1, <1>2, <1>4, <2>1 DEF BoundInv, RecentBounded
<1> QED
  BY <1>3, <1>4

LEMMA TrimBound ==
  ASSUME Sorts, BoundInv, Trim
  PROVE  BoundInv'
<1>1. MinRecent < MaxRecent
  BY SizeAssumption DEF SizeAssumption
<1>2. NoTrim.hand = <<>> /\ NoTrim.picked = FALSE
  BY DEF NoTrim
<1>3. CASE trimRecentBundle
  <2>1. up /\ trim # NoTrim /\ UNCHANGED <<up, recent>>
    BY <1>2, <1>3 DEF trimRecentBundle
  <2>2. trim'.picked = TRUE
    BY <1>3 DEF trimRecentBundle, Sorts, Trims, AnyTrims
  <2>3. trim' # NoTrim
    BY <1>2, <2>2
  <2> QED
    BY <2>1, <2>3 DEF BoundInv, RecentBounded
<1>4. CASE commitTrim
  <2>1. up /\ trim # NoTrim /\ UNCHANGED <<up, recent>>
    BY <1>2, <1>4 DEF commitTrim
  <2> QED
    BY <1>1, <2>1 DEF BoundInv, RecentBounded
<1>5. CASE endTrim
  <2>1. trim # NoTrim /\ trim' = NoTrim /\ UNCHANGED <<up, recent>>
    BY <1>5 DEF endTrim, Leave
  <2> QED
    BY <1>1, <2>1 DEF BoundInv, RecentBounded
<1>6. CASE failTrim
  BY <1>6 DEF failTrim, Leave, BoundInv, RecentBounded
<1> QED
  BY <1>3, <1>4, <1>5, <1>6 DEF Trim

LEMMA InitializeBound ==
  ASSUME Sorts, BoundInv, initialize
  PROVE  BoundInv'
<1>1. PICK s \in Orders(Flagged(store, "recent")) :
        IF Len(s) >= MaxRecent
          THEN recent' = SubSeq(s, Len(s) - MinRecent + 1, Len(s))
          ELSE recent' = s /\ UNCHANGED trim
  BY DEF initialize
<1>2. s \in Seq(Conns) /\ Len(s) \in Nat /\ MaxRecent \in Nat
  BY FlaggedFinite, OrdersSeq, SizeAssumption DEF SizeAssumption
<1>3. trim = NoTrim /\ up'
  BY DEF initialize, BoundInv
<1>4. CASE Len(s) >= MaxRecent
  <2>1. Len(recent') = MinRecent /\ MinRecent < MaxRecent
    BY <1>1, <1>2, <1>4, TrimLeaves
  <2> QED
    BY <1>3, <2>1 DEF BoundInv, RecentBounded
<1>5. CASE ~(Len(s) >= MaxRecent)
  BY <1>1, <1>2, <1>3, <1>5 DEF BoundInv, RecentBounded
<1> QED
  BY <1>4, <1>5

LEMMA BoundStep == Sorts /\ BoundInv /\ [Next]_vars => BoundInv'
<1> SUFFICES ASSUME Sorts, BoundInv, [Next]_vars PROVE BoundInv'
  OBVIOUS
<1>1. ASSUME NEW c \in Conns, pc'[c] \notin {"new", "closed"},
             UNCHANGED <<up, trim, trimFailed>>,
             trim # NoTrim => UNCHANGED recent
      PROVE  BoundInv'
  BY <1>1 DEF BoundInv, RecentBounded
<1>2. ASSUME NEW c \in Conns, Use(c) PROVE BoundInv'
  <2>1. ASSUME NEW k \in Data, NEW x \in Items,
         add(c, k, x) \/ remove(c, k, x) PROVE BoundInv'
    <3>1. pc'[c] = "active" /\ UNCHANGED memory
      BY <2>1 DEF add, remove, Begun, Goto, Sorts
    <3> QED
      BY <1>1, <3>1 DEF memory
  <2>2. CASE rollback(c)
    <3>1. pc'[c] = "open" /\ UNCHANGED memory
      BY <2>2 DEF rollback, Goto, Sorts
    <3> QED
      BY <1>1, <3>1 DEF memory
  <2> QED
    BY <1>2, <2>1, <2>2, CloseBound, Uses
<1>3. ASSUME NEW c \in Conns, Commit(c) PROVE BoundInv'
  <2>1. pc'[c] \in {"finalized", "committed", "registered", "open"}
    BY <1>3
    DEF Commit, finalizeBundles, commit, addRecentBundles, activityEnded,
        endRefused, Goto, Sorts
  <2>2. /\ UNCHANGED <<up, trim, trimFailed>>
        /\ trim # NoTrim => UNCHANGED recent
    BY <1>3
    DEF Commit, finalizeBundles, commit, addRecentBundles, activityEnded,
        endRefused, memory
  <2> QED
    BY <1>1, <2>1, <2>2
<1>4. CASE Purge \/ (\E c \in Conns : age(c)) \/ UNCHANGED vars
  <2>1. UNCHANGED <<up, trim, trimFailed, recent, pc>>
    BY <1>4
    DEF Purge, purgeObsolete, commitPurge, failPurge, stall, resume, age, vars,
        txn, memory
  <2> QED
    BY <2>1 DEF BoundInv, RecentBounded
<1>5. CASE shutDown
  BY <1>5 DEF shutDown, BoundInv, RecentBounded
<1> QED
  BY <1>2, <1>3, <1>4, <1>5, TrimBound, InitializeBound DEF Next

\* When every connection is closed, fewer than MaxRecent bundles are left in
\* the deque, whoever trims meanwhile, if the last trimming did not fail
\* (cleanup and trim of AuditingRepository).
THEOREM RecentStayBounded == Spec => []RecentBounded
<1>1. Init => BoundInv
  <2>1. MaxRecent \in Nat /\ 0 < MaxRecent /\ Len(<<>>) = 0
    BY SizeAssumption DEF SizeAssumption
  <2> QED
    BY <2>1 DEF Init, BoundInv, RecentBounded
<1>2. BoundInv => RecentBounded
  BY DEF BoundInv
<1> QED
  BY <1>1, <1>2, SortsInit, SortsStep, BoundStep, PTL DEF Spec
-----------------------------------------------------------------------------
(* What is in the store was written by a connection that is past the commit, *)
(* unless it has begun another transaction.  So a bundle that is marked as   *)
(* obsolete, as nothing but metadata is left in it, gets no content any more *)
(* and the purge may delete it.                                              *)
Content == {"data", "generated"}
Removable == Data \cup {"generated"}
Past(b) == pc[b] \notin {"new", "active", "finalized"} \/ txns[b] > 1
Reused(b) == txns[b] > 1

\* what transactions and trimming hold
HeldInv ==
  /\ \A c \in Conns : \A q \in added[c] :
       q[1] = c /\ q[2] \notin {"obsolete", "ended"}
  /\ \A c \in Conns : added[c] # {} => pc[c] \in {"active", "finalized"}
  /\ \A c \in Conns : \A q \in removed[c] : q[2] \in Removable
  /\ \A q \in trim.adds : q[2] = "obsolete"
  /\ \A q \in trim.dels : q[2] = "recent"

TrailInv ==
  /\ \A c \in Conns : pc[c] # "new" => txns[c] >= 1
  /\ HeldInv
  /\ \A q \in store \cup trim.adds : Past(q[1])
  /\ \A q \in store \cup trim.adds :
       q[2] = "obsolete" => Reused(q[1]) \/ ~HasContent(store, q[1])
  /\ \A q \in purge : q[2] \in Content => Reused(q[1])

\* the transactions of a connection are counted only, and whoever is past a
\* commit begins another one before it writes again
Ahead(c) ==
  /\ txns'[c] >= txns[c]
  /\ pc'[c] # "new" => txns'[c] >= 1
  /\ Past(c) => Past(c)'
  /\ Reused(c) => Reused(c)'

LEMMA PastStays ==
  ASSUME Inv, TrailInv, [Next]_vars
  PROVE  \A c \in Conns : Ahead(c)
<1>0. \A c \in Conns : txns[c] \in Nat /\ (pc[c] # "new" => txns[c] >= 1)
  BY DEF Inv, Sorts, TrailInv
<1>1. ASSUME UNCHANGED txns,
             \A d \in Conns : \/ pc'[d] = pc[d]
                              \/ pc'[d] = "finalized" /\ pc[d] = "active"
                              \/ /\ pc'[d] \notin {"new", "active", "finalized"}
                                 /\ pc[d] # "new"
      PROVE  \A d \in Conns : Ahead(d)
  BY <1>0, <1>1 DEF Past, Reused, Ahead
<1>2. ASSUME NEW c \in Conns, Begun(c)
      PROVE  \A d \in Conns : Ahead(d)
  <2>1. CASE UNCHANGED <<pc, txns>>
    BY <1>1, <2>1
  <2>2. CASE /\ pc[c] \in {"new", "open"}
             /\ txns' = [txns EXCEPT ![c] = @ + 1] /\ Goto(c, "active")
    <3>1. txns'[c] = txns[c] + 1 /\ pc'[c] = "active"
          /\ \A d \in Conns \ {c} : txns'[d] = txns[d] /\ pc'[d] = pc[d]
      BY <2>2 DEF Goto, Inv, Sorts
    <3>2. Past(c) => txns[c] >= 1
      BY <1>0 DEF Past
    <3>3. Ahead(c)
      BY <1>0, <3>1, <3>2 DEF Past, Reused, Ahead
    <3>4. \A d \in Conns \ {c} : Ahead(d)
      BY <1>0, <3>1 DEF Past, Reused, Ahead
    <3> QED
      BY <3>3, <3>4
  <2> QED
    BY <1>2, <2>1, <2>2 DEF Begun
<1>3. ASSUME NEW c \in Conns, NEW s \in {"committed", "registered", "open",
                                         "cleanup", "closed"},
             pc[c] # "new", Goto(c, s), UNCHANGED txns
      PROVE  \A d \in Conns : Ahead(d)
  BY <1>1, <1>3 DEF Goto, Inv, Sorts
<1>4. CASE \E c \in Conns : Use(c)
  <2>1. PICK c \in Conns : Use(c)
    BY <1>4
  <2>2. CASE \E k \in Data, x \in Items : add(c, k, x) \/ remove(c, k, x)
    BY <1>2, <2>2 DEF add, remove
  <2>3. CASE rollback(c)
    BY <1>3, <2>3 DEF rollback
  <2>4. CASE close(c)
    BY <1>3, <2>4 DEF close
  <2> QED
    BY <2>1, <2>2, <2>3, <2>4, Uses
<1>5. CASE \E c \in Conns : Commit(c)
  <2>1. PICK c \in Conns : Commit(c)
    BY <1>5
  <2>2. CASE finalizeBundles(c)
    BY <1>1, <2>2 DEF finalizeBundles, Goto, Inv, Sorts
  <2>3. CASE commit(c) \/ addRecentBundles(c) \/ activityEnded(c)
             \/ endRefused(c)
    BY <1>3, <2>3 DEF commit, addRecentBundles, activityEnded, endRefused
  <2> QED
    BY <2>1, <2>2, <2>3 DEF Commit
<1>6. CASE shutDown
  <2>1. \A d \in Conns : pc'[d] = IF pc[d] = "new" THEN "new" ELSE "closed"
    BY <1>6 DEF shutDown
  <2> QED
    BY <1>1, <1>6, <2>1 DEF shutDown
<1>7. CASE endTrim \/ failTrim
  <2>1. UNCHANGED txns
        /\ \A d \in Conns : pc'[d] = IF trim.by = d THEN "closed" ELSE pc[d]
    BY <1>7 DEF endTrim, failTrim, Leave
  <2>2. \A d \in Conns : trim.by = d => pc[d] # "new"
    BY DEF Inv, TrackInv
  <2> QED
    BY <1>1, <2>1, <2>2
<1>8. CASE \/ trimRecentBundle \/ commitTrim \/ Purge \/ initialize
           \/ UNCHANGED vars \/ \E c \in Conns : age(c)
  <2>1. UNCHANGED <<pc, txns>>
    BY <1>8
    DEF trimRecentBundle, commitTrim, Purge, purgeObsolete, commitPurge,
        failPurge, stall, resume, initialize, vars, age, txn
  <2> QED
    BY <1>1, <2>1
<1> QED
  BY <1>4, <1>5, <1>6, <1>7, <1>8 DEF Next, Trim
(* Transactions and trimming hold only what they may: a change ...          *)
LEMMA ChangeHolds ==
  ASSUME Sorts, HeldInv, NEW c \in Conns, NEW adds, NEW dels,
         Change(c, adds, dels), UNCHANGED trim,
         \A q \in adds : q[1] = c /\ q[2] \notin {"obsolete", "ended"},
         \A q \in dels : q[2] \in Removable,
         pc'[c] \in {"active", "finalized"},
         \A d \in Conns \ {c} : pc'[d] = pc[d]
  PROVE  HeldInv'
<1>1. /\ added'[c] = (added[c] \ dels) \cup adds
      /\ removed'[c] = (removed[c] \cup dels) \ adds
      /\ \A d \in Conns \ {c} : added'[d] = added[d] /\ removed'[d] = removed[d]
  BY DEF Change, Sorts
<1> QED
  BY <1>1 DEF HeldInv

(* ... and a step after which they hold no more than before.                *)
LEMMA LessHolds ==
  ASSUME HeldInv,
         \A d \in Conns : /\ added'[d] \subseteq added[d]
                          /\ removed'[d] \subseteq removed[d]
                          /\ added'[d] # {} => pc'[d] = pc[d],
         trim'.adds \subseteq trim.adds, trim'.dels \subseteq trim.dels
  PROVE  HeldInv'
BY DEF HeldInv

LEMMA BegunPlaces ==
  ASSUME Sorts, NEW c \in Conns, Begun(c)
  PROVE  pc'[c] = "active" /\ \A d \in Conns \ {c} : pc'[d] = pc[d]
BY DEF Begun, Goto, Sorts

LEMMA UseHolds ==
  ASSUME Inv, HeldInv, NEW c \in Conns, Use(c)
  PROVE  HeldInv'
<1> USE DEF Inv
<1>1. ASSUME NEW k \in Data, NEW x \in Items, add(c, k, x)
      PROVE  HeldInv'
  <2> DEFINE adds == {<<c, k, x>>, <<c, "generated", x>>, Flag(c, "bundle")}
  <2>1. \A q \in adds : q[1] = c /\ q[2] \notin {"obsolete", "ended"}
    BY DEF Data, Flag
  <2>2. Change(c, adds, {}) /\ Begun(c) /\ UNCHANGED trim
    BY <1>1 DEF add, memory
  <2> HIDE DEF adds
  <2> QED
    BY <2>1, <2>2, ChangeHolds, BegunPlaces
<1>2. ASSUME NEW k \in Data, NEW x \in Items, remove(c, k, x)
      PROVE  HeldInv'
  <2> DEFINE gone == {q \in View(c) : q[2] = k /\ q[3] = x}
             influences == {<<c, "influenced", q[1]>> :
                              q \in {r \in gone : r[1] # c}}
             adds == {<<c, "revised", x>>, Flag(c, "bundle")} \cup influences
  <2>1. \A q \in adds : q[1] = c /\ q[2] \notin {"obsolete", "ended"}
    BY DEF Flag
  <2>2. \A q \in gone : q[2] \in Removable
    BY DEF Removable
  <2>3. Change(c, adds, gone) /\ Begun(c) /\ UNCHANGED trim
    BY <1>2 DEF remove, memory
  <2> HIDE DEF adds, gone
  <2> QED
    BY <2>1, <2>2, <2>3, ChangeHolds, BegunPlaces
<1>3. CASE rollback(c) \/ close(c)
  <2>1. /\ added' = [added EXCEPT ![c] = {}]
        /\ removed' = [removed EXCEPT ![c] = {}]
        /\ \A d \in Conns \ {c} : pc'[d] = pc[d]
    BY <1>3 DEF rollback, close, Forget, Goto, Sorts
  <2>2. trim' = trim \/ (trim'.adds = {} /\ trim'.dels = {})
    <3>1. ASSUME close(c), Len(recent) >= MaxRecent
          PROVE  trim'.adds = {} /\ trim'.dels = {}
      BY <3>1, StartTrim DEF close
    <3>2. CASE close(c) /\ ~(Len(recent) >= MaxRecent)
      BY <3>2 DEF close
    <3>3. CASE rollback(c)
      BY <3>3 DEF rollback, memory
    <3> QED
      BY <1>3, <3>1, <3>2, <3>3
  <2>3. \A d \in Conns : /\ added'[d] \subseteq added[d]
                         /\ removed'[d] \subseteq removed[d]
                         /\ added'[d] # {} => pc'[d] = pc[d]
    BY <2>1 DEF Sorts
  <2> QED
    BY <2>2, <2>3, LessHolds
<1> QED
  BY <1>1, <1>2, <1>3, Uses

LEMMA CommitHolds ==
  ASSUME Inv, HeldInv, NEW c \in Conns, Commit(c)
  PROVE  HeldInv'
<1> USE DEF Inv
<1>1. CASE finalizeBundles(c)
  <2> DEFINE own == {q[3] : q \in {r \in View(c) :
                              r[1] = c /\ r[2] \in {"generated", "revised"}}}
             old == {q \in View(c) : q[1] # c /\ q[2] = "generated"
                                       /\ q[3] \in own}
             gens == {<<c, "generated", q[3]>> : q \in old}
             infs == {<<c, "influenced", q[1]>> : q \in old}
             adds == gens \cup infs \cup {Flag(c, "recent")}
  <2>1. \A q \in adds : q[1] = c /\ q[2] \notin {"obsolete", "ended"}
    BY DEF Flag
  <2>2. \A q \in old : q[2] \in Removable
    BY DEF Removable
  <2>3. Change(c, adds, old) /\ UNCHANGED trim
    BY <1>1 DEF finalizeBundles, TakesOver, memory
  <2> HIDE DEF adds, old
  <2>4. pc'[c] = "finalized" /\ \A d \in Conns \ {c} : pc'[d] = pc[d]
    BY <1>1 DEF finalizeBundles, Goto, Sorts
  <2> QED
    BY <2>1, <2>2, <2>3, <2>4, ChangeHolds
<1>2. CASE commit(c)
  <2>1. \A d \in Conns : /\ added'[d] \subseteq added[d]
                         /\ removed'[d] \subseteq removed[d]
                         /\ added'[d] # {} => pc'[d] = pc[d]
    BY <1>2 DEF commit, Forget, Goto, Sorts
  <2> QED
    BY <1>2, <2>1, LessHolds DEF commit, memory
<1>3. CASE addRecentBundles(c) \/ activityEnded(c) \/ endRefused(c)
  <2>1. /\ pc[c] \in {"committed", "registered"}
        /\ \A d \in Conns \ {c} : pc'[d] = pc[d]
        /\ UNCHANGED <<added, removed, trim>>
    BY <1>3 DEF addRecentBundles, activityEnded, endRefused, Goto, Sorts, memory
  <2>2. added[c] = {}
    BY <2>1 DEF HeldInv
  <2> QED
    BY <2>1, <2>2, LessHolds
<1> QED
  BY <1>1, <1>2, <1>3 DEF Commit

\* the marks of a trimming: their bundles have something, but no content
LEMMA Marks ==
  ASSUME Sorts, trimRecentBundle
  PROVE  /\ UNCHANGED <<store, pc, added, removed>>
         /\ \A q \in trim'.dels : q \in trim.dels \/ q[2] = "recent"
         /\ \A q \in trim'.adds : \/ q \in trim.adds
                                  \/ /\ q[2] = "obsolete"
                                     /\ ~HasContent(store, q[1])
                                     /\ \E r \in store : r[1] = q[1]
<1> DEFINE b == Head(trim.hand)
           cands == {b} \cup {q[3] : q \in {r \in store : r[1] = b /\
                                              r[2] = "influenced"}}
           obs == {o \in cands : /\ ~HasContent(store, o)
                                 /\ \E q \in store : q[1] = o}
           marks == {Flag(o, "obsolete") : o \in obs}
<1>1. \/ trim' = [trim EXCEPT !.picked = TRUE, !.dels = {Flag(b, "recent")},
                              !.adds = marks]
      \/ trim' = [trim EXCEPT !.picked = TRUE]
  BY DEF trimRecentBundle
<1>2. \A q \in marks : /\ q[2] = "obsolete" /\ ~HasContent(store, q[1])
                       /\ \E r \in store : r[1] = q[1]
  BY DEF Flag
<1>3. \A q \in {Flag(b, "recent")} : q[2] = "recent"
  BY DEF Flag
<1>4. trim \in AnyTrims
  BY DEF Sorts, Trims
<1> HIDE DEF marks, b
<1>5. \/ trim'.dels = {Flag(b, "recent")} /\ trim'.adds = marks
      \/ trim'.dels = trim.dels /\ trim'.adds = trim.adds
  BY <1>1, <1>4 DEF AnyTrims
<1>6. UNCHANGED <<store, pc, added, removed>>
  BY DEF trimRecentBundle, txn
<1> QED
  BY <1>2, <1>3, <1>5, <1>6, Zenon

LEMMA HeldStep ==
  ASSUME Inv, HeldInv, [Next]_vars
  PROVE  HeldInv'
<1>1. CASE trimRecentBundle
  BY <1>1, Marks DEF HeldInv, Inv
<1>2. CASE commitTrim
  <2>1. /\ trim'.adds = {} /\ trim'.dels = {}
        /\ UNCHANGED <<pc, added, removed>>
    BY <1>2 DEF commitTrim, NoTrim, txn
  <2> QED
    BY <2>1, LessHolds
<1>3. CASE endTrim \/ failTrim
  <2>1. /\ trim'.adds = {} /\ trim'.dels = {} /\ UNCHANGED <<added, removed>>
        /\ \A d \in Conns : pc'[d] = IF trim.by = d THEN "closed" ELSE pc[d]
    BY <1>3 DEF endTrim, failTrim, Leave, NoTrim
  <2>2. \A d \in Conns : trim.by = d => added[d] = {}
    BY DEF Inv, TrackInv, HeldInv
  <2> QED
    BY <2>1, <2>2, LessHolds
<1>4. CASE shutDown
  <2>1. /\ trim'.adds = {} /\ trim'.dels = {}
        /\ \A d \in Conns : added'[d] = {} /\ removed'[d] = {}
    BY <1>4 DEF shutDown, NoTrim
  <2> QED
    BY <2>1, LessHolds
<1>5. CASE initialize
  <2>1. UNCHANGED <<pc, added, removed>>
    BY <1>5 DEF initialize, txn
  <2>2. trim' = trim \/ (trim'.adds = {} /\ trim'.dels = {})
    <3>1. Sorts
      BY DEF Inv
    <3> QED
      BY <1>5, <3>1, InitializeSplit, Zenon
  <2> QED
    BY <2>1, <2>2, LessHolds
<1>6. CASE Purge \/ UNCHANGED vars \/ \E c \in Conns : age(c)
  <2>1. UNCHANGED <<pc, added, removed, trim>>
    BY <1>6
    DEF Purge, purgeObsolete, commitPurge, failPurge, stall, resume, age, vars,
        txn, memory
  <2> QED
    BY <2>1, LessHolds
<1> QED
  BY <1>1, <1>2, <1>3, <1>4, <1>5, <1>6, UseHolds, CommitHolds DEF Next, Trim
(* What may get into the store, or be marked.                               *)
Ends(c, q) == pc[c] = "registered" /\ pc'[c] = "open" /\ q = Flag(c, "ended")
Writes(c, q) == pc[c] = "finalized" /\ pc'[c] = "committed" /\ q \in added[c]
Marked(q) == /\ q[2] = "obsolete" /\ ~HasContent(store, q[1])
             /\ \E r \in store : r[1] = q[1]

LEMMA Written ==
  ASSUME Inv, HeldInv, [Next]_vars, NEW q \in store' \cup trim'.adds
  PROVE  \/ q \in store \cup trim.adds \/ Marked(q)
         \/ \E c \in Conns : Ends(c, q) \/ Writes(c, q)
<1>1. CASE \E c \in Conns : Use(c) \/ age(c)
  <2>1. PICK c \in Conns : Use(c) \/ age(c)
    BY <1>1
  <2>2. CASE close(c)
    <3>1. CASE Len(recent) >= MaxRecent
      BY <2>2, <3>1, StartTrim DEF close, Inv
    <3>2. CASE ~(Len(recent) >= MaxRecent)
      BY <2>2, <3>2 DEF close
    <3> QED
      BY <3>1, <3>2
  <2>3. CASE \/ \E k \in Data, x \in Items :
                  add(c, k, x) \/ remove(c, k, x)
             \/ rollback(c) \/ age(c)
    <3>1. UNCHANGED <<store, trim>>
      BY <2>3 DEF add, remove, rollback, age, memory
    <3> QED
      BY <3>1
  <2> QED
    BY <2>1, <2>2, <2>3, Uses
<1>2. CASE \E c \in Conns : Commit(c)
  <2>1. PICK c \in Conns : Commit(c)
    BY <1>2
  <2>2. CASE finalizeBundles(c) \/ addRecentBundles(c) \/ endRefused(c)
    <3>1. UNCHANGED <<store, trim>>
      BY <2>2 DEF finalizeBundles, addRecentBundles, endRefused, memory
    <3> QED
      BY <3>1
  <2>3. CASE commit(c)
    <3>1. /\ pc[c] = "finalized" /\ pc'[c] = "committed" /\ trim' = trim
          /\ store' = (store \ removed[c]) \cup added[c]
      BY <2>3 DEF commit, memory, Goto, Inv, Sorts
    <3> QED
      BY <3>1 DEF Writes
  <2>4. CASE activityEnded(c)
    <3>1. /\ pc[c] = "registered" /\ pc'[c] = "open" /\ trim' = trim
          /\ store' = store \cup {Flag(c, "ended")}
      BY <2>4 DEF activityEnded, memory, Goto, Inv, Sorts
    <3> QED
      BY <3>1 DEF Ends
  <2> QED
    BY <2>1, <2>2, <2>3, <2>4 DEF Commit
<1>3. CASE trimRecentBundle
  BY <1>3, Marks DEF Inv, Marked
<1>4. CASE commitTrim
  BY <1>4 DEF commitTrim, NoTrim
<1>5. CASE endTrim \/ failTrim \/ shutDown
  BY <1>5 DEF endTrim, failTrim, Leave, shutDown, NoTrim
<1>6. CASE initialize
  <2>1. trim'.adds = {} \/ trim' = trim
    BY <1>6, InitializeSplit DEF Inv
  <2>2. store' = store
    BY <1>6 DEF initialize
  <2> QED
    BY <2>1, <2>2
<1>7. CASE Purge \/ UNCHANGED vars
  <2>1. store' \subseteq store /\ trim' = trim
    BY <1>7
    DEF Purge, purgeObsolete, commitPurge, failPurge, stall, resume, vars,
        memory
  <2> QED
    BY <2>1
<1> QED
  BY <1>1, <1>2, <1>3, <1>4, <1>5, <1>6, <1>7 DEF Next, Trim

LEMMA QuadParts ==
  ASSUME Sorts, NEW q, q \in store \/ q \in store' \/ q \in trim.adds
                       \/ q \in trim'.adds \/ q \in purge,
         Sorts'
  PROVE  q \in Quads /\ q[1] \in Conns /\ q[2] \in Kinds
<1>1. q \in Quads
  <2>1. trim.adds \subseteq Quads /\ trim'.adds \subseteq Quads
    BY DEF Sorts, Trims, AnyTrims
  <2> QED
    BY <2>1 DEF Sorts
<1> QED
  BY <1>1 DEF Quads

LEMMA FlagParts ==
  ASSUME NEW b, NEW kind
  PROVE  Flag(b, kind)[1] = b /\ Flag(b, kind)[2] = kind
BY DEF Flag

LEMMA TrailStep == Inv /\ TrailInv /\ [Next]_vars => TrailInv'
<1> SUFFICES ASSUME Inv, TrailInv, [Next]_vars PROVE TrailInv'
  OBVIOUS
<1>1. Sorts /\ Sorts' /\ HeldInv /\ HeldInv'
  BY SortsStep, HeldStep DEF Inv, TrailInv
<1>2. \A c \in Conns : Ahead(c)
  BY PastStays
<1>3. \A c \in Conns : pc'[c] # "new" => txns'[c] >= 1
  BY <1>2 DEF Ahead
<1>4. ASSUME NEW q \in store' \cup trim'.adds PROVE Past(q[1])'
  <2>1. q[1] \in Conns
    BY <1>1, QuadParts
  <2>2. CASE q \in store \cup trim.adds
    BY <1>2, <2>1, <2>2 DEF TrailInv, Ahead
  <2>3. CASE Marked(q)
    BY <1>2, <2>1, <2>3 DEF TrailInv, Ahead, Marked
  <2>4. ASSUME NEW c \in Conns, Ends(c, q) \/ Writes(c, q)
        PROVE  Past(q[1])'
    <3>1. pc'[c] \in {"open", "committed"} /\ q[1] = c
      BY <1>1, <2>4, FlagParts DEF Ends, Writes, HeldInv
    <3> QED
      BY <3>1 DEF Past
  <2> QED
    BY <1>1, <2>2, <2>3, <2>4, Written
<1>5. ASSUME NEW q \in store' \cup trim'.adds, q[2] = "obsolete",
             ~Reused(q[1])'
      PROVE  ~HasContent(store', q[1])
  <2>1. q[1] \in Conns /\ ~Reused(q[1])
    BY <1>1, <1>2, <1>5, QuadParts DEF Ahead
  <2>2. /\ Past(q[1]) /\ ~HasContent(store, q[1])
    <3>1. CASE q \in store \cup trim.adds
      BY <1>5, <2>1, <3>1 DEF TrailInv
    <3>2. CASE Marked(q)
      BY <3>2 DEF TrailInv, Marked
    <3>3. ASSUME NEW c \in Conns, Ends(c, q) \/ Writes(c, q) PROVE FALSE
      BY <1>1, <1>5, <3>3, FlagParts DEF Ends, Writes, HeldInv
    <3> QED
      BY <1>1, <3>1, <3>2, <3>3, Written
  <2>3. pc[q[1]] # "finalized"
    BY <2>1, <2>2 DEF Past, Reused
  <2>4. ASSUME NEW r \in store', r[1] = q[1], r[2] \in Content PROVE FALSE
    <3>1. CASE r \in store
      BY <2>2, <2>4, <3>1 DEF HasContent, Content
    <3>2. CASE r \in trim.adds
      BY <1>1, <2>4, <3>2 DEF HeldInv, Content
    <3>3. CASE Marked(r)
      BY <2>4, <3>3 DEF Marked, Content
    <3>4. ASSUME NEW c \in Conns, Ends(c, r) PROVE FALSE
      BY <2>4, <3>4, FlagParts DEF Ends, Content
    <3>5. ASSUME NEW c \in Conns, Writes(c, r) PROVE FALSE
      BY <1>1, <2>3, <2>4, <3>5 DEF Writes, HeldInv
    <3> QED
      BY <1>1, <3>1, <3>2, <3>3, <3>4, <3>5, Written
  <2> QED
    BY <2>4 DEF HasContent, Content
<1>6. ASSUME NEW q \in purge', q[2] \in Content PROVE Reused(q[1])'
  <2>1. CASE q \in purge
    BY <1>1, <1>2, <1>6, <2>1, QuadParts DEF TrailInv, Ahead
  <2>2. CASE purgeObsolete
    <3>1. q \in store /\ q[1] \in Purgeable(store)
      BY <1>6, <2>2 DEF purgeObsolete
    <3>2. Flag(q[1], "obsolete") \in store /\ q[1] \in Conns
      BY <3>1 DEF Purgeable, Flagged
    <3>3. Reused(q[1]) \/ ~HasContent(store, q[1])
      BY <3>2, FlagParts DEF TrailInv
    <3>4. Reused(q[1])
      BY <1>6, <3>1, <3>3 DEF HasContent, Content
    <3> QED
      BY <1>2, <3>2, <3>4 DEF Ahead
  <2>3. ~purgeObsolete => purge' \subseteq purge
    BY DEF Next, vars, memory, Use, Commit, Trim, Purge, add, remove, rollback,
           close, finalizeBundles, commit, addRecentBundles, activityEnded,
           endRefused, age, trimRecentBundle, commitTrim, endTrim, failTrim,
           Leave, commitPurge, failPurge, stall, resume, shutDown, initialize
  <2> QED
    BY <1>6, <2>1, <2>2, <2>3
<1> QED
  BY <1>1, <1>3, <1>4, <1>5, <1>6 DEF TrailInv

LEMMA TrailInit == Init => TrailInv
<1> SUFFICES ASSUME Init PROVE TrailInv
  OBVIOUS
<1> QED
  BY DEF Init, TrailInv, HeldInv, NoTrim

LEMMA RemovedLeaves ==
  ASSUME Inv, TrailInv, [Next]_vars, NEW q \in store \ store', q[2] = "data"
  PROVE  \/ \E c \in Conns : pc[c] = "finalized" /\ q \in removed[c]
         \/ txns[q[1]] > 1
<1>1. \/ \E c \in Conns : commit(c)
      \/ commitTrim \/ commitPurge \/ store \subseteq store'
  BY DEF Next, vars, memory, Use, Commit, Trim, Purge, add, remove, rollback,
         close, finalizeBundles, addRecentBundles, activityEnded,
         endRefused, age, trimRecentBundle, endTrim, failTrim,
         Leave, purgeObsolete, failPurge, stall, resume, shutDown, initialize
<1>2. CASE \E c \in Conns : commit(c)
  BY <1>2 DEF commit
<1>3. CASE commitTrim
  BY <1>3 DEF commitTrim, TrailInv, HeldInv
<1>4. CASE commitPurge
  BY <1>4 DEF commitPurge, TrailInv, Content, Reused
<1> QED
  BY <1>1, <1>2, <1>3, <1>4

\* No triple that the trimming counts as content is deleted but by the
\* transaction that removed it: what the purge chooses was written to nowhere
\* since, unless its bundle was used again (TRIM_RECENT_BUNDLE and PURGE_EARLIER
\* of AuditingRepository).  It says nothing of what its FILTER drops.
THEOREM OnlyRemovedTriplesLeave == Spec => OnlyRemovedLeaves
<1>1. Inv /\ TrailInv /\ [Next]_vars =>
        [\A q \in store \ store' : q[2] = "data" =>
           \/ \E c \in Conns : pc[c] = "finalized" /\ q \in removed[c]
           \/ txns[q[1]] > 1]_vars
  BY RemovedLeaves
<1> QED
  BY <1>1, InvInit, InvStep, TrailInit, TrailStep, PTL
  DEF Spec, OnlyRemovedLeaves
-----------------------------------------------------------------------------
(* Every entity with a triple was generated by some activity.  A transaction *)
(* that adds a triple of an entity, or takes the entity from the activity    *)
(* that generated it, adds that it was generated by its own.                 *)
Once == \A c \in Conns : txns[c] <= 1

ClaimInv ==
  \A c \in Conns :
    /\ \A q \in added[c] :
         q[2] \in Data => <<c, "generated", q[3]>> \in added[c]
    /\ \A q \in removed[c] :
         q[2] = "generated" => <<c, "generated", q[3]>> \in added[c]

LEMMA OnceBefore ==
  ASSUME Inv, TrailInv, [Next]_vars, Once'
  PROVE  Once
<1>1. \A c \in Conns : /\ txns'[c] >= txns[c] /\ txns'[c] <= 1
                       /\ txns[c] \in Nat /\ txns'[c] \in Nat
  BY PastStays, SortsStep DEF Ahead, Once, Inv, Sorts
<1> QED
  BY <1>1 DEF Once

LEMMA ChangeClaims ==
  ASSUME Sorts, ClaimInv, NEW c \in Conns, NEW adds, NEW dels,
         Change(c, adds, dels),
         \A q \in adds : q[2] \in Data => <<c, "generated", q[3]>> \in adds,
         \A q \in dels : q[2] = "generated" =>
           q[1] # c /\ <<c, "generated", q[3]>> \in adds
  PROVE  ClaimInv'
<1>1. /\ added'[c] = (added[c] \ dels) \cup adds
      /\ removed'[c] = (removed[c] \cup dels) \ adds
      /\ \A d \in Conns \ {c} : added'[d] = added[d] /\ removed'[d] = removed[d]
  BY DEF Change, Sorts
<1>2. \A e : <<c, "generated", e>> \notin dels
  OBVIOUS
<1>3. ASSUME NEW q \in added'[c], q[2] \in Data
      PROVE  <<c, "generated", q[3]>> \in added'[c]
  BY <1>1, <1>2, <1>3 DEF ClaimInv
<1>4. ASSUME NEW q \in removed'[c], q[2] = "generated"
      PROVE  <<c, "generated", q[3]>> \in added'[c]
  BY <1>1, <1>2, <1>4 DEF ClaimInv
<1> QED
  BY <1>1, <1>3, <1>4 DEF ClaimInv

LEMMA ClaimStep ==
  ASSUME Sorts, ClaimInv, [Next]_vars
  PROVE  ClaimInv'
<1>1. ASSUME NEW c \in Conns, NEW k \in Data, NEW x \in Items,
             add(c, k, x)
      PROVE  ClaimInv'
  <2> DEFINE adds == {<<c, k, x>>, <<c, "generated", x>>, Flag(c, "bundle")}
  <2>1. \A q \in adds : q[2] \in Data => <<c, "generated", q[3]>> \in adds
    BY DEF Data, Flag
  <2>2. Change(c, adds, {})
    BY <1>1 DEF add
  <2> HIDE DEF adds
  <2> QED
    BY <2>1, <2>2, ChangeClaims
<1>2. ASSUME NEW c \in Conns, NEW k \in Data, NEW x \in Items,
             remove(c, k, x)
      PROVE  ClaimInv'
  <2> DEFINE gone == {q \in View(c) : q[2] = k /\ q[3] = x}
             influences == {<<c, "influenced", q[1]>> :
                              q \in {r \in gone : r[1] # c}}
             adds == {<<c, "revised", x>>, Flag(c, "bundle")} \cup influences
  <2>1. \A q \in adds : q[2] \notin Data
    BY DEF Data, Flag
  <2>2. \A q \in gone : q[2] # "generated"
    BY DEF Data
  <2>3. Change(c, adds, gone)
    BY <1>2 DEF remove
  <2> HIDE DEF adds, gone
  <2> QED
    BY <2>1, <2>2, <2>3, ChangeClaims
<1>3. ASSUME NEW c \in Conns, finalizeBundles(c) PROVE ClaimInv'
  <2> DEFINE own == {q[3] : q \in {r \in View(c) :
                              r[1] = c /\ r[2] \in {"generated", "revised"}}}
             old == {q \in View(c) : q[1] # c /\ q[2] = "generated"
                                       /\ q[3] \in own}
             gens == {<<c, "generated", q[3]>> : q \in old}
             infs == {<<c, "influenced", q[1]>> : q \in old}
             adds == gens \cup infs \cup {Flag(c, "recent")}
  <2>1. \A q \in adds : q[2] \notin Data
    BY DEF Data, Flag
  <2>2. \A q \in old : q[1] # c /\ <<c, "generated", q[3]>> \in adds
    OBVIOUS
  <2>3. Change(c, adds, old)
    BY <1>3 DEF finalizeBundles, TakesOver
  <2> HIDE DEF adds, old
  <2> QED
    BY <2>1, <2>2, <2>3, ChangeClaims
<1>4. ASSUME NEW c \in Conns, rollback(c) \/ close(c) \/ commit(c)
      PROVE  ClaimInv'
  <2>1. /\ added' = [added EXCEPT ![c] = {}]
        /\ removed' = [removed EXCEPT ![c] = {}]
    BY <1>4 DEF rollback, close, commit, Forget
  <2> QED
    BY <2>1 DEF ClaimInv, Sorts
<1>5. CASE shutDown
  BY <1>5 DEF shutDown, ClaimInv
<1>6. CASE \/ Trim \/ Purge \/ initialize \/ UNCHANGED vars
           \/ \E c \in Conns : \/ addRecentBundles(c) \/ activityEnded(c)
                               \/ endRefused(c) \/ age(c)
  <2>1. UNCHANGED <<added, removed>>
    BY <1>6
    DEF Trim, trimRecentBundle, commitTrim, endTrim, failTrim, Leave, Purge,
        purgeObsolete, commitPurge, failPurge, stall, resume, initialize, vars,
        txn,
        addRecentBundles, activityEnded, endRefused, age
  <2> QED
    BY <2>1 DEF ClaimInv
<1> QED
  BY <1>1, <1>2, <1>3, <1>4, <1>5, <1>6, Uses DEF Next, Commit

LEMMA GeneratedStep ==
  ASSUME Inv, TrailInv, ClaimInv, Generated, [Next]_vars
  PROVE  Generated'
<1> SUFFICES ASSUME Once', NEW q \in store', q[2] \in Data
             PROVE  \E r \in store' : r[2] = "generated" /\ r[3] = q[3]
  BY DEF Generated, Once
<1>1. Once /\ HeldInv
  BY OnceBefore DEF TrailInv
<1>2. ASSUME q \in store
      PROVE  \E r \in store : r[2] = "generated" /\ r[3] = q[3]
  BY <1>1, <1>2 DEF Generated, Once
<1>3. CASE \E c \in Conns : commit(c)
  <2>1. PICK c \in Conns : store' = (store \ removed[c]) \cup added[c]
    BY <1>3 DEF commit
  <2>2. ASSUME <<c, "generated", q[3]>> \in added[c]
        PROVE  \E r \in store' : r[2] = "generated" /\ r[3] = q[3]
    <3> DEFINE r == <<c, "generated", q[3]>>
    <3>1. r \in store' /\ r[2] = "generated" /\ r[3] = q[3]
      BY <2>1, <2>2
    <3> QED
      BY <3>1
  <2>3. CASE q \in added[c]
    BY <2>2, <2>3 DEF ClaimInv
  <2>4. CASE q \in store
    <3>1. PICK r \in store : r[2] = "generated" /\ r[3] = q[3]
      BY <1>2, <2>4
    <3>2. CASE r \in removed[c]
      BY <2>2, <3>1, <3>2 DEF ClaimInv
    <3>3. CASE r \notin removed[c]
      BY <2>1, <3>1, <3>3
    <3> QED
      BY <3>2, <3>3
  <2> QED
    BY <2>1, <2>3, <2>4
<1>4. CASE commitTrim
  <2>1. store' = (store \ trim.dels) \cup trim.adds
    BY <1>4 DEF commitTrim
  <2>2. q \in store /\ \A r \in store : r[2] = "generated" => r \in store'
    BY <1>1, <2>1 DEF HeldInv, Data
  <2> QED
    BY <1>2, <2>2
<1>5. CASE commitPurge
  <2>1. store' = store \ purge
    BY <1>5 DEF commitPurge
  <2>2. \A r \in store : r[2] = "generated" => r \notin purge
    BY <1>1, QuadParts DEF TrailInv, Content, Reused, Once, Inv, Sorts, Quads
  <2> QED
    BY <1>2, <2>1, <2>2
<1>6. CASE store' \in {store} \cup {store \cup {Flag(c, "ended")} : c \in Conns}
  <2>1. q \in store /\ store \subseteq store'
    BY <1>6, FlagParts DEF Data
  <2> QED
    BY <1>2, <2>1
<1>7. \/ \E c \in Conns : commit(c)
      \/ commitTrim \/ commitPurge
      \/ store' \in {store} \cup {store \cup {Flag(c, "ended")} : c \in Conns}
  BY DEF Next, vars, memory, Use, Commit, Trim, Purge, add, remove, rollback,
         close, finalizeBundles, addRecentBundles, activityEnded,
         endRefused, age, trimRecentBundle, endTrim, failTrim,
         Leave, purgeObsolete, failPurge, stall, resume, shutDown, initialize
<1> QED
  BY <1>3, <1>4, <1>5, <1>6, <1>7

\* An entity with a triple in the store was generated by some activity, which
\* concurrent commits, the trimming and the purge leave as it is
\* (UPDATE_ACTIVITY of AuditingRepositoryConnection).
THEOREM TriplesWereGenerated == Spec => []Generated
<1>1. Init => ClaimInv /\ Generated
  BY DEF Init, ClaimInv, Generated
<1>2. Inv /\ TrailInv /\ ClaimInv /\ Generated /\ [Next]_vars =>
        ClaimInv' /\ Generated'
  BY ClaimStep, GeneratedStep DEF Inv
<1> QED
  BY <1>1, <1>2, InvInit, InvStep, TrailInit, TrailStep, PTL DEF Spec
-----------------------------------------------------------------------------
(* Sequences without duplicates.                                           *)
Single(s) == \A i, j \in DOMAIN s : s[i] = s[j] => i = j

LEMMA SingleAppend ==
  ASSUME NEW S, NEW s \in Seq(S), NEW e \in S, Single(s), e \notin Range(s)
  PROVE  Single(Append(s, e))
<1>1. /\ Len(s) \in Nat /\ DOMAIN s = 1 .. Len(s)
      /\ DOMAIN Append(s, e) = 1 .. Len(s) + 1
      /\ \A i \in 1 .. Len(s) : Append(s, e)[i] = s[i]
      /\ Append(s, e)[Len(s) + 1] = e
  OBVIOUS
<1>2. \A i \in 1 .. Len(s) + 1 : i \in 1 .. Len(s) \/ i = Len(s) + 1
  BY <1>1
<1>3. \A i \in 1 .. Len(s) : s[i] # e
  BY <1>1 DEF Range
<1> QED
  BY <1>1, <1>2, <1>3 DEF Single

LEMMA SingleTail ==
  ASSUME NEW S, NEW s \in Seq(S), s # <<>>, Single(s)
  PROVE  Single(Tail(s)) /\ Head(s) \notin Range(Tail(s))
<1>1. /\ Len(s) \in Nat \ {0} /\ DOMAIN s = 1 .. Len(s) /\ Head(s) = s[1]
      /\ DOMAIN Tail(s) = 1 .. Len(s) - 1
      /\ \A i \in 1 .. Len(s) - 1 : Tail(s)[i] = s[i + 1]
  OBVIOUS
<1>2. \A i \in 1 .. Len(s) - 1 : i \in Nat /\ i + 1 \in 1 .. Len(s) /\ i + 1 # 1
  BY <1>1
<1>3. Single(Tail(s))
  <2> SUFFICES ASSUME NEW i \in 1 .. Len(s) - 1, NEW j \in 1 .. Len(s) - 1,
                      Tail(s)[i] = Tail(s)[j]
               PROVE  i = j
    BY <1>1 DEF Single
  <2>1. i + 1 = j + 1
    BY <1>1, <1>2 DEF Single
  <2> QED
    BY <1>2, <2>1
<1>4. ASSUME NEW i \in 1 .. Len(s) - 1, Tail(s)[i] = Head(s) PROVE FALSE
  <2>1. 1 \in 1 .. Len(s) /\ i + 1 \in 1 .. Len(s) /\ i + 1 # 1
    BY <1>1, <1>2
  <2> QED
    BY <1>1, <1>4, <2>1 DEF Single
<1> QED
  BY <1>1, <1>3, <1>4 DEF Range

LEMMA SingleConcat ==
  ASSUME NEW S, NEW s \in Seq(S), NEW t \in Seq(S), Single(s), Single(t),
         Range(s) \cap Range(t) = {}
  PROVE  Single(s \o t)
<1>1. /\ DOMAIN (s \o t) = 1 .. Len(s) + Len(t) /\ DOMAIN s = 1 .. Len(s)
      /\ DOMAIN t = 1 .. Len(t) /\ Len(s) \in Nat /\ Len(t) \in Nat
  OBVIOUS
<1>2. \A i \in DOMAIN (s \o t) :
        \/ i \in DOMAIN s /\ (s \o t)[i] = s[i]
        \/ i - Len(s) \in DOMAIN t /\ (s \o t)[i] = t[i - Len(s)]
  OBVIOUS
<1>3. \A i \in DOMAIN s, j \in DOMAIN t : s[i] # t[j]
  BY DEF Range
<1> SUFFICES ASSUME NEW i \in DOMAIN (s \o t), NEW j \in DOMAIN (s \o t),
                    (s \o t)[i] = (s \o t)[j]
             PROVE  i = j
  BY DEF Single
<1>4. CASE i \in DOMAIN s /\ j \in DOMAIN s
            /\ (s \o t)[i] = s[i] /\ (s \o t)[j] = s[j]
  BY <1>4 DEF Single
<1>5. CASE i - Len(s) \in DOMAIN t /\ j - Len(s) \in DOMAIN t
            /\ (s \o t)[i] = t[i - Len(s)] /\ (s \o t)[j] = t[j - Len(s)]
  <2>1. i - Len(s) = j - Len(s)
    BY <1>5 DEF Single
  <2> QED
    BY <1>1, <2>1
<1> QED
  BY <1>2, <1>3, <1>4, <1>5

LEMMA SingleSplit ==
  ASSUME NEW S, NEW s \in Seq(S), NEW n \in 0 .. Len(s), Single(s)
  PROVE  /\ Single(SubSeq(s, n + 1, Len(s)))
         /\ Range(SubSeq(s, 1, n)) \cap Range(SubSeq(s, n + 1, Len(s))) = {}
<1> DEFINE a == SubSeq(s, 1, n)
           z == SubSeq(s, n + 1, Len(s))
<1>1. Len(s) \in Nat /\ n \in Nat /\ DOMAIN s = 1 .. Len(s)
  OBVIOUS
<1>2. a \in Seq(S) /\ DOMAIN a = 1 .. n /\ \A i \in 1 .. n : a[i] = s[i]
  OBVIOUS
<1>3. /\ z \in Seq(S) /\ DOMAIN z = 1 .. Len(s) - n
      /\ \A i \in 1 .. Len(s) - n : z[i] = s[n + i]
  OBVIOUS
<1>4. \A i \in 1 .. Len(s) - n : i \in Nat /\ n + i \in 1 .. Len(s)
  BY <1>1
<1>5. \A i \in 1 .. n : i \in 1 .. Len(s)
  BY <1>1
<1> HIDE DEF a, z
<1>6. Single(z)
  <2> SUFFICES ASSUME NEW i \in 1 .. Len(s) - n, NEW j \in 1 .. Len(s) - n,
                      z[i] = z[j]
               PROVE  i = j
    BY <1>3 DEF Single
  <2>1. n + i = n + j
    BY <1>1, <1>3, <1>4 DEF Single
  <2> QED
    BY <1>1, <1>4, <2>1
<1>7. ASSUME NEW i \in 1 .. n, NEW j \in 1 .. Len(s) - n, a[i] = z[j]
      PROVE  FALSE
  <2>1. i = n + j
    BY <1>1, <1>2, <1>3, <1>4, <1>5, <1>7 DEF Single
  <2> QED
    BY <1>1, <2>1
<1>8. Range(a) \cap Range(z) = {}
  BY <1>2, <1>3, <1>7 DEF Range
<1> QED
  BY <1>6, <1>8 DEF a, z

LEMMA SingleFront ==
  ASSUME NEW S, NEW s \in Seq(S), NEW n \in 0 .. Len(s), Single(s)
  PROVE  Single(SubSeq(s, 1, n))
<1> DEFINE a == SubSeq(s, 1, n)
<1>1. Len(s) \in Nat /\ n \in Nat /\ DOMAIN s = 1 .. Len(s)
  OBVIOUS
<1>2. DOMAIN a = 1 .. n /\ \A i \in 1 .. n : a[i] = s[i] /\ i \in 1 .. Len(s)
  OBVIOUS
<1> HIDE DEF a
<1>3. Single(a)
  BY <1>1, <1>2 DEF Single
<1> QED
  BY <1>3 DEF a

\* what a query returns has no duplicates
LEMMA OrdersSingle ==
  ASSUME NEW S, IsFiniteSet(S), NEW s \in Orders(S)
  PROVE  Single(s)
<1> DEFINE n == Cardinality(S)
<1>1. n \in Nat
  BY FS_CardinalityType
<1>2. IsFiniteSet(1 .. n) /\ Cardinality(1 .. n) = n
  <2>1. Cardinality(1 .. n) = IF 1 > n THEN 0 ELSE n - 1 + 1
    BY <1>1, FS_Interval
  <2> QED
    BY <1>1, <2>1, FS_Interval
<1>3. s \in [1 .. n -> S] /\ S \subseteq {s[i] : i \in DOMAIN s}
  BY DEF Orders
<1> HIDE DEF n
<1>4. s \in Surjection(1 .. n, S)
  BY <1>3 DEF Surjection
<1>5. s \in Injection(1 .. n, S)
  BY <1>2, <1>4, FS_SurjSameCardinalityImpliesInj DEF n
<1> QED
  BY <1>3, <1>5 DEF Injection, IsInjective, Single

LEMMA SingleCardinality ==
  ASSUME NEW S, NEW s \in Seq(S), Single(s)
  PROVE  Cardinality(Range(s)) = Len(s)
<1> DEFINE n == Len(s)
<1>1. n \in Nat /\ s \in [1 .. n -> Range(s)] /\ DOMAIN s = 1 .. n
  BY DEF Range
<1> HIDE DEF n
<1>2. s \in Surjection(1 .. n, Range(s))
  BY <1>1 DEF Surjection, Range
<1>3. s \in Injection(1 .. n, Range(s))
  BY <1>1 DEF Injection, IsInjective, Single
<1>4. ExistsBijection(1 .. n, Range(s))
  BY <1>2, <1>3 DEF ExistsBijection, Bijection
<1> QED
  BY <1>1, <1>4, FS_CountingElements DEF n
-----------------------------------------------------------------------------
(* The minimum that trimming leaves.  The deque and what is being trimmed    *)
(* name flagged bundles, each of them once as long as each bundle is used    *)
(* for one transaction; so the MinRecent that are left in the deque keep     *)
(* their flags when those before them lose theirs.                           *)
KeptInv ==
  /\ ~up => \A c \in Conns : pc[c] \in {"new", "closed"}
  /\ \A b \in Conns : Recent(b) \notin purge
  /\ \A c \in Conns : pc[c] = "finalized" => Recent(c) \in added[c]
  /\ \A q \in trim.dels : trim.hand # <<>> /\ q = Recent(Head(trim.hand))

\* each bundle in the deque or to be trimmed is there once, and is flagged
Deque ==
  /\ Single(recent) /\ Single(trim.hand)
  /\ Range(recent) \cap Range(trim.hand) = {}
  /\ \A b \in Range(recent) \cup Range(trim.hand) :
       Recent(b) \in store /\ pc[b] # "committed"

DequeInv ==
  Once => /\ Deque
          /\ \A c \in Conns : pc[c] = "committed" => Recent(c) \in store

LEMMA KeptStep ==
  ASSUME Inv, HeldInv, KeptInv, [Next]_vars
  PROVE  KeptInv'
<1> USE DEF Inv
<1>1. ASSUME UNCHANGED <<up, purge, trim>>,
             ~up => UNCHANGED pc,
             \A c \in Conns : pc'[c] = "finalized" =>
               \/ Recent(c) \in added'[c]
               \/ pc[c] = "finalized" /\ added'[c] = added[c]
      PROVE  KeptInv'
  BY <1>1 DEF KeptInv
<1>2. ASSUME NEW c \in Conns, Use(c) PROVE KeptInv'
  <2>1. ASSUME NEW k \in Data, NEW x \in Items,
         add(c, k, x) \/ remove(c, k, x) PROVE KeptInv'
    <3>1. Begun(c) /\ UNCHANGED memory
      BY <2>1 DEF add, remove
    <3>2. pc'[c] = "active" /\ (\A d \in Conns \ {c} : pc'[d] = pc[d])
      BY <3>1, BegunPlaces
    <3>3. \A d \in Conns \ {c} : added'[d] = added[d]
      BY <2>1 DEF add, remove, Change, Sorts
    <3>4. ~up => UNCHANGED pc
      BY <3>1 DEF Begun, Goto
    <3> QED
      BY <1>1, <3>1, <3>2, <3>3, <3>4 DEF memory
  <2>2. CASE rollback(c)
    <3>1. /\ pc[c] \in {"active", "finalized"} /\ UNCHANGED memory
          /\ pc'[c] = "open" /\ \A d \in Conns \ {c} : pc'[d] = pc[d]
          /\ \A d \in Conns \ {c} : added'[d] = added[d]
      BY <2>2 DEF rollback, Goto, Forget, Sorts
    <3>2. up \/ KeptInv'
      BY <3>1 DEF KeptInv
    <3> QED
      BY <1>1, <3>1, <3>2 DEF memory
  <2>3. CASE close(c)
    <3>1. /\ up /\ UNCHANGED <<up, purge>>
          /\ pc'[c] \in {"closed", "cleanup"}
          /\ \A d \in Conns \ {c} : pc'[d] = pc[d]
          /\ \A d \in Conns \ {c} : added'[d] = added[d]
      BY <2>3 DEF close, Goto, Forget, Sorts
    <3>2. trim' = trim \/ trim'.dels = {}
      <4>1. CASE Len(recent) >= MaxRecent
        BY <2>3, <4>1, StartTrim DEF close
      <4>2. CASE ~(Len(recent) >= MaxRecent)
        BY <2>3, <4>2 DEF close
      <4> QED
        BY <4>1, <4>2
    <3> QED
      BY <3>1, <3>2 DEF KeptInv
  <2> QED
    BY <1>2, <2>1, <2>2, <2>3, Uses
<1>3. ASSUME NEW c \in Conns, Commit(c) PROVE KeptInv'
  <2>1. /\ pc[c] \in {"active", "finalized", "committed", "registered"}
        /\ UNCHANGED <<up, purge, trim>>
        /\ \A d \in Conns \ {c} : pc'[d] = pc[d] /\ added'[d] = added[d]
    BY <1>3
    DEF Commit, finalizeBundles, commit, addRecentBundles, activityEnded,
        endRefused, Goto, Forget, TakesOver, Change, Sorts, memory
  <2>2. up \/ KeptInv'
    BY <2>1 DEF KeptInv
  <2>3. pc'[c] = "finalized" => Recent(c) \in added'[c]
    <3>1. CASE finalizeBundles(c)
      <4>1. PICK adds, dels : Change(c, adds, dels) /\ Recent(c) \in adds
        BY <3>1 DEF finalizeBundles, TakesOver, Recent
      <4> QED
        BY <4>1 DEF Change, Sorts
    <3>2. CASE commit(c) \/ addRecentBundles(c) \/ activityEnded(c)
               \/ endRefused(c)
      BY <3>2
      DEF commit, addRecentBundles, activityEnded, endRefused, Goto, Sorts
    <3> QED
      BY <1>3, <3>1, <3>2 DEF Commit
  <2> QED
    BY <1>1, <2>1, <2>2, <2>3
<1>4. CASE trimRecentBundle
  <2>1. /\ trim.hand # <<>> /\ UNCHANGED <<up, purge, pc, added>>
        /\ \/ trim' = [trim EXCEPT !.picked = TRUE]
           \/ /\ trim'.dels = {Recent(Head(trim.hand))}
              /\ trim'.hand = trim.hand
    <3>1. trim \in AnyTrims
      BY DEF Sorts, Trims
    <3> QED
      BY <1>4, <3>1 DEF trimRecentBundle, txn, Recent, AnyTrims
  <2>2. trim'.hand = trim.hand
        /\ \A q \in trim'.dels : q \in trim.dels \/ q = Recent(Head(trim.hand))
    BY <2>1 DEF Sorts, Trims, AnyTrims
  <2> QED
    BY <2>1, <2>2 DEF KeptInv
<1>5. CASE commitTrim
  <2>1. /\ trim'.dels = {} /\ UNCHANGED <<up, purge, pc, added>>
    BY <1>5 DEF commitTrim, NoTrim, txn
  <2> QED
    BY <2>1 DEF KeptInv
<1>6. CASE endTrim \/ failTrim
  <2>1. /\ trim'.dels = {} /\ UNCHANGED <<up, purge, added>>
        /\ \A d \in Conns : pc'[d] = IF trim.by = d THEN "closed" ELSE pc[d]
    BY <1>6 DEF endTrim, failTrim, Leave, NoTrim
  <2> QED
    BY <2>1 DEF KeptInv
<1>7. CASE purgeObsolete
  <2>1. /\ UNCHANGED <<up, pc, added, trim>>
        /\ purge' = {q \in store : q[1] \in Purgeable(store)}
    BY <1>7 DEF purgeObsolete, txn
  <2>2. ASSUME NEW b \in Conns, Recent(b) \in purge' PROVE FALSE
    <3>1. Recent(b) \in store /\ b \in Purgeable(store)
      BY <2>1, <2>2, FlagParts DEF Recent
    <3> QED
      BY <3>1 DEF Purgeable, Flagged, Recent
  <2> QED
    BY <2>1, <2>2 DEF KeptInv
<1>8. CASE commitPurge \/ failPurge
  <2>1. UNCHANGED <<up, pc, added, trim>> /\ purge' = {}
    BY <1>8 DEF commitPurge, failPurge, txn
  <2> QED
    BY <2>1 DEF KeptInv
<1>9. CASE shutDown
  BY <1>9 DEF shutDown, NoTrim, KeptInv
<1>10. CASE initialize
  <2>1. up' = TRUE /\ UNCHANGED <<pc, added, purge>>
    BY <1>10 DEF initialize, txn
  <2>2. trim'.dels = {} \/ trim' = trim
    BY <1>10, InitializeSplit
  <2> QED
    BY <2>1, <2>2 DEF KeptInv
<1>11. CASE stall \/ resume \/ UNCHANGED vars \/ \E c \in Conns : age(c)
  <2>1. UNCHANGED <<up, pc, added, purge, trim>>
    BY <1>11 DEF stall, resume, vars, age, txn, memory
  <2> QED
    BY <2>1 DEF KeptInv
<1> QED
  BY <1>2, <1>3, <1>4, <1>5, <1>6, <1>7, <1>8, <1>9, <1>10, <1>11
  DEF Next, Trim, Purge
\* whoever is flagged and used once is past its commit
LEMMA FlaggedPast ==
  ASSUME Inv, TrailInv, Once, NEW b \in Conns, Recent(b) \in store
  PROVE  pc[b] \notin {"new", "active", "finalized"}
<1>1. Past(b)
  BY FlagParts DEF TrailInv, Recent
<1>2. txns[b] \in Nat /\ txns[b] <= 1
  BY DEF Inv, Sorts, Once
<1> QED
  BY <1>1, <1>2 DEF Past

(* A step that leaves the deque and the bundles to trim as they are, takes   *)
(* no flag from the store and commits only what has one.                     *)
LEMMA QuietDeque ==
  ASSUME Inv, TrailInv, Once, DequeInv,
         UNCHANGED recent, trim'.hand = trim.hand,
         \A b \in Conns : Recent(b) \in store => Recent(b) \in store',
         \A c \in Conns : pc'[c] = "committed" =>
                            \/ pc[c] = "committed"
                            \/ pc[c] = "finalized" /\ Recent(c) \in store'
  PROVE  DequeInv'
<1>1. Range(recent) \subseteq Conns /\ Range(trim.hand) \subseteq Conns
  BY DEF Inv, Sorts, Trims, AnyTrims, Range
<1>2. Deque
        /\ \A c \in Conns : pc[c] = "committed" => Recent(c) \in store
  BY DEF DequeInv
<1>3. \A b \in Range(recent) \cup Range(trim.hand) :
        Recent(b) \in store' /\ pc'[b] # "committed"
  BY <1>1, <1>2, FlaggedPast DEF Deque
<1>4. Deque'
  BY <1>2, <1>3 DEF Deque
<1> QED
  BY <1>2, <1>4 DEF DequeInv

(* One that drops some of them, moves others, and takes no flag from those.  *)
LEMMA NewDeque ==
  ASSUME Inv, Once, DequeInv,
         Single(recent'), Single(trim'.hand),
         Range(recent') \cap Range(trim'.hand) = {},
         Range(recent') \cup Range(trim'.hand)
           \subseteq Range(recent) \cup Range(trim.hand),
         \A b \in Range(recent') \cup Range(trim'.hand) :
           Recent(b) \in store => Recent(b) \in store',
         \A c \in Conns : pc[c] = "committed" /\ Recent(c) \in store =>
                            Recent(c) \in store',
         \A c \in Conns : pc'[c] = "committed" => pc[c] = "committed"
  PROVE  DequeInv'
<1>1. Range(recent) \subseteq Conns /\ Range(trim.hand) \subseteq Conns
  BY DEF Inv, Sorts, Trims, AnyTrims, Range
<1>2. Deque
        /\ \A c \in Conns : pc[c] = "committed" => Recent(c) \in store
  BY DEF DequeInv
<1>3. \A b \in Range(recent') \cup Range(trim'.hand) :
        Recent(b) \in store' /\ pc'[b] # "committed"
  BY <1>1, <1>2 DEF Deque
<1>4. Deque'
  BY <1>3 DEF Deque
<1> QED
  BY <1>2, <1>4 DEF DequeInv

LEMMA NoHand == NoTrim.hand = <<>> /\ Range(<<>>) = {} /\ Single(<<>>)
  BY DEF NoTrim, Range, Single

LEMMA DistinctSingle ==
  ASSUME NEW s \in Seq(Conns), NEW h \in Distinct(s)
  PROVE  Single(h)
<1>1. IsFiniteSet(Range(s))
  BY ConnsAssumption, FS_Interval, FS_Subset DEF ConnsAssumption, Conns, Range
<1> QED
  BY <1>1, OrdersSingle DEF Distinct

LEMMA CloseDeque ==
  ASSUME Inv, Once, DequeInv, NEW c \in Conns, close(c)
  PROVE  DequeInv'
<1>1. /\ trim = NoTrim /\ UNCHANGED store
      /\ pc[c] # "committed" /\ pc'[c] # "committed"
      /\ \A d \in Conns \ {c} : pc'[d] = pc[d]
  BY DEF close, Goto, Inv, Sorts
<1>2. Deque /\ recent \in Seq(Conns)
  BY <1>1, NoHand DEF DequeInv, Inv, Sorts
<1>3. CASE Len(recent) >= MaxRecent
  <2> DEFINE n == Len(recent) - MinRecent
             front == SubSeq(recent, 1, n)
  <2>1. startTrim(c) /\ n \in 0 .. Len(recent)
    BY <1>2, <1>3, PolledRange DEF close
  <2>2. PICK h \in Distinct(front) :
          trim' = [NoTrim EXCEPT !.hand = h, !.by = c]
    BY <2>1 DEF startTrim, Polled
  <2>3. trim'.hand = h /\ recent' = SubSeq(recent, n + 1, Len(recent))
    BY <2>1, <2>2 DEF startTrim, Polled, NoTrim
  <2> HIDE DEF n
  <2>4. front \in Seq(Conns) /\ Range(recent) = Range(front) \cup Range(recent')
    BY <1>2, <2>1, <2>3, RangeSplit
  <2>5. Single(recent') /\ Range(front) \cap Range(recent') = {}
    BY <1>2, <2>1, <2>3, SingleSplit DEF Deque
  <2> HIDE DEF front
  <2>6. Single(h) /\ Range(h) = Range(front)
    BY <2>4, DistinctRange, DistinctSingle
  <2> QED
    BY <1>1, <2>3, <2>4, <2>5, <2>6, NewDeque
<1>4. CASE ~(Len(recent) >= MaxRecent)
  <2>1. UNCHANGED <<trim, recent>>
    BY <1>4 DEF close
  <2>2. Single(recent) /\ Single(trim.hand)
        /\ Range(recent) \cap Range(trim.hand) = {}
    BY DEF DequeInv, Deque
  <2> QED
    BY <1>1, <2>1, <2>2, NewDeque
<1> QED
  BY <1>3, <1>4

LEMMA RegisterDeque ==
  ASSUME Inv, Once, DequeInv, NEW c \in Conns, addRecentBundles(c)
  PROVE  DequeInv'
<1>1. /\ trim = NoTrim /\ pc[c] = "committed" /\ recent' = Append(recent, c)
      /\ trim' = trim /\ UNCHANGED store /\ pc'[c] = "registered"
      /\ \A d \in Conns \ {c} : pc'[d] = pc[d]
  BY DEF addRecentBundles, Goto, Inv, Sorts
<1>2. /\ Deque /\ recent \in Seq(Conns)
      /\ \A d \in Conns : pc[d] = "committed" => Recent(d) \in store
  BY DEF DequeInv, Inv, Sorts
<1>3. c \notin Range(recent) /\ Recent(c) \in store /\ Range(trim.hand) = {}
  BY <1>1, <1>2, NoHand DEF Deque
<1>4. Single(recent') /\ Range(recent') = Range(recent) \cup {c}
  BY <1>1, <1>2, <1>3, SingleAppend, RangeAppend DEF Deque
<1>5. Range(recent) \subseteq Conns
  BY <1>2 DEF Range
<1>6. \A b \in Range(recent') \cup Range(trim.hand) :
        Recent(b) \in store /\ pc'[b] # "committed"
  BY <1>1, <1>2, <1>3, <1>4, <1>5 DEF Deque
<1>7. Deque'
  BY <1>1, <1>2, <1>3, <1>4, <1>6 DEF Deque
<1> QED
  BY <1>1, <1>2, <1>7 DEF DequeInv

LEMMA TrimDeque ==
  ASSUME Inv, TrailInv, KeptInv, Once, DequeInv, Trim
  PROVE  DequeInv'
<1>0. /\ trim.hand \in Seq(Conns) /\ recent \in Seq(Conns)
      /\ trim \in AnyTrims /\ (trim.picked => trim.hand # <<>>)
  BY DEF Inv, Sorts, Trims, AnyTrims
<1>1. /\ Single(recent) /\ Single(trim.hand)
      /\ Range(recent) \cap Range(trim.hand) = {}
      /\ \A b \in Range(recent) \cup Range(trim.hand) : pc[b] # "committed"
  BY DEF DequeInv, Deque
<1>2. CASE trimRecentBundle
  <2>1. trim'.hand = trim.hand /\ UNCHANGED <<store, pc, recent>>
    BY <1>0, <1>2 DEF trimRecentBundle, txn, AnyTrims
  <2> QED
    BY <2>1, QuietDeque
<1>3. CASE commitTrim
  <2> DEFINE b == Head(trim.hand)
  <2>1. /\ trim.hand # <<>> /\ trim'.hand = Tail(trim.hand)
        /\ UNCHANGED <<pc, recent>>
        /\ store' = (store \ trim.dels) \cup trim.adds
    BY <1>0, <1>3 DEF commitTrim, NoTrim, txn
  <2>2. /\ Single(trim'.hand) /\ b \notin Range(trim'.hand)
        /\ Range(trim.hand) = {b} \cup Range(trim'.hand)
    BY <1>0, <1>1, <2>1, SingleTail, RangeHead
  <2>3. \A q \in trim.dels : q = Recent(b)
    BY DEF KeptInv
  <2> HIDE DEF b
  <2>4. \A d : d # b /\ Recent(d) \in store => Recent(d) \in store'
    BY <2>1, <2>3, FlagParts DEF Recent
  <2>5. pc[b] # "committed" /\ b \notin Range(recent)
    BY <1>1, <2>2
  <2>6. \A d \in Range(recent) \cup Range(trim'.hand) : d # b
    BY <2>2, <2>5
  <2> QED
    BY <1>1, <2>1, <2>2, <2>4, <2>5, <2>6, NewDeque
<1>4. CASE endTrim \/ failTrim
  <2>1. /\ trim'.hand = <<>> /\ UNCHANGED store
        /\ \A d \in Conns : pc'[d] = IF trim.by = d THEN "closed" ELSE pc[d]
    BY <1>4, NoHand DEF endTrim, failTrim, Leave
  <2>2. Single(recent') /\ Range(recent') = Range(recent) \cup Range(trim.hand)
    <3>1. CASE endTrim
      BY <1>1, <3>1, NoHand DEF endTrim
    <3>2. CASE failTrim
      BY <1>0, <1>1, <3>2, SingleConcat, RangeConcat DEF failTrim
    <3> QED
      BY <1>4, <3>1, <3>2
  <2> QED
    BY <2>1, <2>2, NoHand, NewDeque
<1> QED
  BY <1>2, <1>3, <1>4 DEF Trim

LEMMA InitializeDeque ==
  ASSUME Inv, BoundInv, KeptInv, Once, DequeInv, initialize
  PROVE  DequeInv'
<1> DEFINE F == Flagged(store, "recent")
<1>1. PICK s \in Orders(F) :
        IF Len(s) >= MaxRecent
          THEN /\ trim' = [NoTrim EXCEPT !.hand =
                               SubSeq(s, 1, Len(s) - MinRecent)]
               /\ recent' = SubSeq(s, Len(s) - MinRecent + 1, Len(s))
          ELSE recent' = s /\ UNCHANGED trim
  BY DEF initialize
<1>2. s \in Seq(F) /\ Range(s) = F /\ F \subseteq Conns
  BY FlaggedFinite, OrdersSeq
<1>3. IsFiniteSet(F)
  BY FlaggedFinite
<1>4. s \in Seq(Conns) /\ Single(s) /\ \A b \in F : Recent(b) \in store
  BY <1>2, <1>3, OrdersSingle DEF Flagged, Recent
<1>5. UNCHANGED <<store, pc>> /\ \A c \in Conns : pc[c] \in {"new", "closed"}
  BY DEF initialize, KeptInv, txn
<1> HIDE DEF F
<1>6. ASSUME Single(recent'), Single(trim'.hand),
             Range(recent') \cap Range(trim'.hand) = {},
             Range(recent') \cup Range(trim'.hand) \subseteq F
      PROVE  DequeInv'
  <2>1. \A b \in Range(recent') \cup Range(trim'.hand) :
          Recent(b) \in store' /\ pc'[b] # "committed"
    BY <1>2, <1>4, <1>5, <1>6
  <2>2. Deque'
    BY <1>6, <2>1 DEF Deque
  <2> QED
    BY <1>5, <2>2 DEF DequeInv
<1>7. CASE Len(s) >= MaxRecent
  <2> DEFINE n == Len(s) - MinRecent
  <2>1. n \in 0 .. Len(s)
    BY <1>4, <1>7, PolledRange
  <2>2. trim'.hand = SubSeq(s, 1, n) /\ recent' = SubSeq(s, n + 1, Len(s))
    BY <1>1, <1>7 DEF NoTrim
  <2> HIDE DEF n
  <2>3. /\ Range(s) = Range(trim'.hand) \cup Range(recent')
        /\ Single(trim'.hand) /\ Single(recent')
        /\ Range(trim'.hand) \cap Range(recent') = {}
    BY <1>4, <2>1, <2>2, RangeSplit, SingleSplit, SingleFront
  <2> QED
    BY <1>2, <1>6, <2>3
<1>8. CASE ~(Len(s) >= MaxRecent)
  <2>1. recent' = s /\ trim' = trim /\ trim = NoTrim
    BY <1>1, <1>8 DEF initialize, BoundInv
  <2> QED
    BY <1>2, <1>4, <1>6, <2>1, NoHand
<1> QED
  BY <1>7, <1>8

LEMMA DequeStep ==
  ASSUME Inv, BoundInv, TrailInv, KeptInv, DequeInv, [Next]_vars
  PROVE  DequeInv'
<1> SUFFICES ASSUME Once' PROVE DequeInv'
  BY DEF DequeInv
<1>0. Once
  BY OnceBefore
<1> USE <1>0
<1>1. ASSUME UNCHANGED <<recent, trim>>, store \subseteq store',
             \A c \in Conns : pc'[c] = "committed" => pc[c] = "committed"
      PROVE  DequeInv'
  BY <1>1, QuietDeque
<1>2. ASSUME NEW c \in Conns, Use(c) PROVE DequeInv'
  <2>1. CASE \/ \E k \in Data, x \in Items :
                  add(c, k, x) \/ remove(c, k, x)
             \/ rollback(c)
    <3>1. UNCHANGED <<recent, trim, store>>
      BY <2>1 DEF add, remove, rollback, memory
    <3>2. pc'[c] \in {"active", "open"} /\ \A d \in Conns \ {c} : pc'[d] = pc[d]
      BY <2>1, BegunPlaces DEF add, remove, rollback, Goto, Inv, Sorts
    <3> QED
      BY <1>1, <3>1, <3>2
  <2> QED
    BY <1>2, <2>1, CloseDeque, Uses
<1>3. ASSUME NEW c \in Conns, Commit(c) PROVE DequeInv'
  <2>1. CASE finalizeBundles(c) \/ activityEnded(c) \/ endRefused(c)
    <3>1. UNCHANGED <<recent, trim>> /\ store \subseteq store'
      BY <2>1 DEF finalizeBundles, activityEnded, endRefused, memory
    <3>2. /\ pc'[c] \in {"finalized", "open"}
          /\ \A d \in Conns \ {c} : pc'[d] = pc[d]
      BY <2>1
      DEF finalizeBundles, activityEnded, endRefused, Goto, Inv, Sorts
    <3> QED
      BY <1>1, <3>1, <3>2
  <2>2. CASE commit(c)
    <3>1. /\ UNCHANGED <<recent, trim>> /\ pc[c] = "finalized"
          /\ store' = (store \ removed[c]) \cup added[c]
          /\ \A d \in Conns \ {c} : pc'[d] = pc[d]
      BY <2>2 DEF commit, memory, Goto, Inv, Sorts
    <3>2. \A b : Recent(b) \notin removed[c]
      BY FlagParts DEF TrailInv, HeldInv, Removable, Data, Recent
    <3>3. Recent(c) \in store'
      BY <3>1 DEF KeptInv
    <3> QED
      BY <3>1, <3>2, <3>3, QuietDeque
  <2> QED
    BY <1>3, <2>1, <2>2, RegisterDeque DEF Commit
<1>4. CASE Purge
  <2>1. /\ UNCHANGED <<recent, trim, pc>>
        /\ store' = store \/ store' = store \ purge
    BY <1>4 DEF Purge, purgeObsolete, commitPurge, failPurge, stall, resume, txn
  <2>2. \A b \in Conns : Recent(b) \in store => Recent(b) \in store'
    BY <2>1 DEF KeptInv
  <2> QED
    BY <2>1, <2>2, QuietDeque
<1>5. CASE UNCHANGED vars \/ \E c \in Conns : age(c)
  BY <1>1, <1>5 DEF vars, age, txn, memory
<1>6. CASE shutDown
  <2>1. /\ recent' = <<>> /\ trim'.hand = <<>> /\ UNCHANGED store
        /\ \A c \in Conns : pc'[c] # "committed"
    BY <1>6, NoHand DEF shutDown
  <2> QED
    BY <2>1, NoHand DEF DequeInv, Deque
<1> QED
  BY <1>2, <1>3, <1>4, <1>5, <1>6, TrimDeque, InitializeDeque DEF Next

LEMMA EnoughKept ==
  ASSUME Inv, BoundInv, TrailInv, KeptInv, DequeInv, [Next]_vars,
         trim.picked, Once
  PROVE  \/ Flagged(store', "recent") = Flagged(store, "recent")
         \/ Cardinality(Flagged(store', "recent")) >= MinRecent
<1>1. /\ Single(recent) /\ recent \in Seq(Conns)
      /\ trim.hand \in Seq(Conns) /\ trim.hand # <<>>
      /\ Range(recent) \cap Range(trim.hand) = {}
      /\ \A b \in Range(recent) : Recent(b) \in store
  BY DEF DequeInv, Deque, Inv, Sorts, Trims, AnyTrims
<1>2. Len(recent) = MinRecent
  BY NoHand, <1>1 DEF BoundInv
<1>3. Range(recent) \subseteq Conns
  BY <1>1 DEF Range
<1>4. \A b \in Range(recent) : Recent(b) \in store'
  <2>1. CASE \E c \in Conns : commit(c)
    <3>1. PICK c \in Conns : store' = (store \ removed[c]) \cup added[c]
      BY <2>1 DEF commit
    <3>2. \A b : Recent(b) \notin removed[c]
      BY FlagParts DEF TrailInv, HeldInv, Removable, Data, Recent
    <3> QED
      BY <1>1, <3>1, <3>2
  <2>2. CASE commitTrim
    <3>1. store' = (store \ trim.dels) \cup trim.adds
      BY <2>2 DEF commitTrim
    <3>2. Head(trim.hand) \notin Range(recent)
      BY <1>1, RangeHead
    <3>3. \A q \in trim.dels : q = Recent(Head(trim.hand))
      BY DEF KeptInv
    <3>4. \A b : Recent(b) \in trim.dels => b = Head(trim.hand)
      BY <3>3, FlagParts DEF Recent
    <3> QED
      BY <1>1, <3>1, <3>2, <3>4
  <2>3. CASE commitPurge
    BY <1>1, <1>3, <2>3 DEF commitPurge, KeptInv
  <2>4. \/ \E c \in Conns : commit(c)
        \/ commitTrim \/ commitPurge \/ store \subseteq store'
    BY DEF Next, vars, memory, Use, Commit, Trim, Purge, add, remove, rollback,
           close, finalizeBundles, addRecentBundles, activityEnded,
           endRefused, age, trimRecentBundle, endTrim, failTrim,
           Leave, purgeObsolete, failPurge, stall, resume, shutDown, initialize
  <2> QED
    BY <1>1, <2>1, <2>2, <2>3, <2>4
<1>5. Range(recent) \subseteq Flagged(store', "recent")
  BY <1>3, <1>4 DEF Flagged, Recent
<1>6. IsFiniteSet(Flagged(store', "recent"))
  BY FlaggedFinite
<1>7. Cardinality(Range(recent)) <= Cardinality(Flagged(store', "recent"))
  BY <1>5, <1>6, FS_Subset
<1>8. Cardinality(Range(recent)) = MinRecent
  BY <1>1, <1>2, SingleCardinality
<1>9. Cardinality(Flagged(store', "recent")) \in Nat /\ MinRecent \in Nat
  BY <1>6, FS_CardinalityType, SizeAssumption DEF SizeAssumption
<1> QED
  BY <1>7, <1>8, <1>9

\* Trimming leaves at least MinRecent bundles flagged, whatever is committed,
\* purged, or crashes while it goes on (trim of AuditingRepository).
THEOREM TrimmingKeepsMinimum == Spec => MinimumKept
<1>1. Init => BoundInv /\ KeptInv /\ DequeInv
  <2>1. MaxRecent \in Nat /\ 0 < MaxRecent /\ Len(<<>>) = 0
    BY SizeAssumption DEF SizeAssumption
  <2>2. NoTrim.dels = {}
    BY DEF NoTrim
  <2>3. Init => BoundInv
    BY <2>1 DEF Init, BoundInv, RecentBounded
  <2>4. Init => KeptInv /\ DequeInv
    BY <2>2, NoHand DEF Init, KeptInv, DequeInv, Deque
  <2> QED
    BY <2>3, <2>4
<1>2. Inv /\ TrailInv => Sorts /\ HeldInv
  BY DEF Inv, TrailInv
<1>3. Inv /\ BoundInv /\ TrailInv /\ KeptInv /\ DequeInv /\ [Next]_vars =>
        BoundInv' /\ KeptInv' /\ DequeInv'
  BY <1>2, BoundStep, KeptStep, DequeStep
<1>4. Inv /\ BoundInv /\ TrailInv /\ KeptInv /\ DequeInv /\ [Next]_vars =>
        [trim.picked /\ (\A c \in Conns : txns[c] <= 1)
           => \/ Flagged(store', "recent") = Flagged(store, "recent")
              \/ Cardinality(Flagged(store', "recent")) >= MinRecent]_vars
  BY EnoughKept DEF Once
<1> QED
  BY <1>1, <1>3, <1>4, InvInit, InvStep, TrailInit, TrailStep, PTL
  DEF Spec, MinimumKept
=============================================================================
