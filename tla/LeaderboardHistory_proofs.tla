---------------------- MODULE LeaderboardHistory_proofs ----------------------
(***************************************************************************)
(* Safety of the leaderboard history: which revisions there are and which  *)
(* week a reader is shown, for any number of workers, lanes, boards,       *)
(* subjects, lists and faults; in which direction revisions go, for one    *)
(* worker.                                                                 *)
(***************************************************************************)
EXTENDS LeaderboardHistory, FiniteSetTheorems, TLAPS

-----------------------------------------------------------------------------
(* Types. *)

Pcs == {"idle", "period", "snapshot", "read", "upsert", "commit"}
Row == [who : People, score : Nat, profile : Nat]
EntryRevision ==
  [key : Keys, who : People, field : {"rank", "score"}, old : Nat, new : Nat, by : Nat]
PersonRevision == [who : People, old : Int, new : Int, by : Nat]
TxType ==
  [pc : Pcs, item : Items \cup {<<>>}, key : Keys \cup {<<>>}, label : Labels, rows : Seq(Row),
   at : Nat, fresh : BOOLEAN, prior : Seq(Row), next : Nat \ {0},
   entryRevs : SUBSET EntryRevision, personRevs : SUBSET PersonRevision]
SnapType == [key : Keys, label : Labels, rows : Seq(Row), at : Nat]
SeenType == [label : Labels, rows : Seq(Row), at : Nat]

TypeInv ==
  /\ week \in Weeks /\ week >= Periods - 1
  /\ content \in [Keys -> Listings] /\ profile \in [People -> Nat]
  /\ period \in [PeriodKeys -> Labels \cup {NoRow}]
  /\ seen \in [Keys -> SeenType]
  /\ snaps \subseteq SnapType /\ IsFiniteSet(snaps)
  /\ person \in [People -> Int]
  /\ todo \in [Workers -> SUBSET Items]
  /\ tx \in [Slots -> TxType]
  /\ polls \in Nat

-----------------------------------------------------------------------------
(* What a transaction has in hand. *)

Open(s) == tx[s].pc # "idle"

\* The program counter and the locals agree; the answer is of the item asked for.
TxOk(t) ==
  /\ t.pc # "idle" => /\ t.item \in Items /\ t.key \in Keys /\ t.at >= 1
                      /\ t.key[1] = t.item[1] /\ t.label = t.item[2]
  /\ t.pc = "period" => t.key \in ListKeys
  /\ t.pc \in {"idle", "period", "snapshot"} => ~t.fresh
  /\ t.pc \in {"read", "upsert"} => t.fresh /\ t.next <= Len(t.rows)
  /\ t.pc = "commit" /\ t.fresh => t.next = Len(t.rows) + 1
  /\ ~t.fresh => t.next = 1

TxInv == \A s \in Slots : TxOk(tx[s])

\* A fresh snapshot of a board's week is compared with the newest one there is, still:
\* the lock on the week's row lets nobody add another one meanwhile.  The revisions in
\* hand are those of the entries so far.
PriorIn(t, S) == IF Fixed(t) /\ S # {} THEN Newest(S).rows ELSE <<>>
RevOk(t, S) ==
  /\ t.prior = IF t.fresh /\ t.key \in ListKeys THEN PriorIn(t, S) ELSE <<>>
  /\ t.entryRevs = UNION {EntryRevisions(t, i) : i \in 1..(t.next - 1)}

RevInv == \A s \in Slots : RevOk(tx[s], SnapshotsOf(tx[s].key))

\* One transaction at a time is past the lock on a board's week, of whatever subject.
LockInv ==
  \A s, r \in Slots :
    /\ tx[s].pc \notin {"idle", "period"} /\ tx[r].pc \notin {"idle", "period"}
    /\ tx[s].key \in ListKeys /\ tx[r].key \in ListKeys
    /\ PeriodOf(tx[s].key) = PeriodOf(tx[r].key)
    => s = r

\* Answers are told apart by when they were observed.
AtInv ==
  /\ \A x \in snaps : x.at \in 1..polls
  /\ \A x, y \in snaps : x.at = y.at => x = y
  /\ \A s \in Slots : Open(s) =>
       /\ tx[s].at \in 1..polls
       /\ \A x \in snaps : x.at # tx[s].at
       /\ \A r \in Slots : Open(r) /\ tx[r].at = tx[s].at => r = s

HistoryInv == TypeInv /\ TxInv /\ LockInv /\ AtInv /\ RevInv

-----------------------------------------------------------------------------
(* The order of a single worker's answers. *)

OneWorker == \A v, w \in Workers : v = w

\* The running week when an answer was observed.
Observed(x) == x.key[2] + x.label

\* A run asks for each item once.
RunInv ==
  \A s \in Slots : Open(s) =>
    /\ tx[s].item \notin todo[s[1]]
    /\ \A r \in Slots : Open(r) /\ r[1] = s[1] /\ tx[r].item = tx[s].item => r = s

\* Weeks only end.
WeekInv ==
  /\ \A x \in snaps : x.key \in ListKeys =>
       /\ Observed(x) <= week
       /\ \A y \in snaps : y.key \in ListKeys /\ y.at < x.at => Observed(y) <= Observed(x)
  /\ \A s \in Slots : Open(s) /\ tx[s].key \in ListKeys =>
       /\ Observed(tx[s]) <= week
       /\ \A x \in snaps : x.key \in ListKeys =>
            /\ x.at < tx[s].at => Observed(x) <= Observed(tx[s])
            /\ x.at > tx[s].at => Observed(tx[s]) <= Observed(x)
       /\ \A r \in Slots : Open(r) /\ tx[r].key \in ListKeys /\ tx[r].at < tx[s].at =>
            Observed(tx[r]) <= Observed(tx[s])

\* Whatever of a list was observed after an answer still in hand, and committed
\* before it, is of another label.
LateInv ==
  \A s \in Slots, x \in snaps :
    /\ Open(s) /\ tx[s].key \in ListKeys /\ x.key \in ListKeys
    /\ x.key[1] = tx[s].key[1] /\ x.at > tx[s].at
    => x.label # tx[s].label

\* What ends its work at once is stored.
StoredInv ==
  \A s \in Slots : tx[s].pc = "commit" /\ ~tx[s].fresh =>
    \E x \in snaps : x.key = tx[s].key /\ x.label = tx[s].label

\* So is the newest answer of each key, under its label; the row of a list's week is
\* there before the list's snapshots.
SeenInv ==
  /\ \A k \in ListKeys : seen[k].at > 0 =>
       \E x \in snaps : x.key = k /\ x.label = seen[k].label
  /\ \A x \in snaps : x.key \in ListKeys => period[PeriodOf(x.key)] # NoRow

ReaderInv == WeekInv /\ StoredInv /\ SeenInv
OrderInv == RunInv /\ LateInv

-----------------------------------------------------------------------------
(* Keys, items, rows and the newest snapshot. *)

LEMMA KeyFacts ==
  /\ ListKeys \subseteq Keys
  /\ \A k \in Keys : /\ k[1] \in Sources
                     /\ k \in ListKeys <=> k[1] \in Lists
                     /\ k \in ListKeys => /\ k[2] \in Nat /\ k = <<k[1], k[2]>>
                                         /\ PeriodOf(k) \in PeriodKeys
  /\ \A m \in Items : /\ m[2] \in Labels /\ m = <<m[1], m[2]>>
                      /\ m[2] # 0 => m[1] \in Lists
  /\ Labels \subseteq Nat /\ Weeks \subseteq Nat /\ 0 \in Labels
BY HistoryAssumption DEF ListKeys, PeriodKeys, PeriodOf, Keys, Items, Labels, Weeks, Lists, Sources

LEMMA ItemKey ==
  ASSUME TypeInv, NEW m \in Items
  PROVE  /\ Key(m) \in Keys /\ Key(m)[1] = m[1]
         /\ Key(m) \in ListKeys => Key(m)[2] + m[2] = week
<1>1. CASE m[1] \in Lists
  <2>1. m[2] \in Labels /\ m[2] \in Nat /\ m[2] <= Periods - 1
    BY <1>1, KeyFacts, HistoryAssumption DEF Labels
  <2>2. week - m[2] \in Weeks /\ week \in Nat
    BY <2>1, HistoryAssumption DEF TypeInv, Weeks
  <2>3. Key(m) = <<m[1], week - m[2]>>
    BY <1>1 DEF Key
  <2> QED BY <1>1, <2>1, <2>2, <2>3 DEF ListKeys, Keys
<1>2. CASE m[1] \notin Lists
  <2>1. Key(m) = m /\ m \in Registries \X {0}
    BY <1>2 DEF Key, Items
  <2> QED BY <1>2, <2>1, KeyFacts DEF Keys
<1> QED BY <1>1, <1>2

LEMMA RowsTyped ==
  ASSUME TypeInv, NEW k \in Keys PROVE Rows(k) \in Seq(Row)
<1>1. content[k] \in Seq([who : People, score : Nat])
  BY HistoryAssumption DEF TypeInv
<1>2. DOMAIN content[k] = 1..Len(content[k]) /\ Len(content[k]) \in Nat
  BY <1>1
<1>3. \A i \in 1..Len(content[k]) :
        /\ content[k][i].who \in People /\ content[k][i].score \in Nat
        /\ profile[content[k][i].who] \in Nat
  <2> DEFINE Listed == [who : People, score : Nat]
  <2>1. \A i \in 1..Len(content[k]) : content[k][i] \in Listed
    <3> HIDE DEF Listed
    <3>1. content[k] \in Seq(Listed)
      BY <1>1 DEF Listed
    <3> QED BY <3>1
  <2> QED BY <2>1 DEF TypeInv
<1>4. \A i \in 1..Len(content[k]) :
        [who |-> content[k][i].who, score |-> content[k][i].score,
         profile |-> IF k[1] \in Silent THEN 0 ELSE profile[content[k][i].who]] \in Row
  BY <1>3 DEF Row
<1> QED BY <1>2, <1>4 DEF Rows

\* A finite set of snapshots has a newest one.
LEMMA NewestExists ==
  ASSUME NEW S, IsFiniteSet(S), S # {}, \A x \in S : x.at \in Nat
  PROVE  Newest(S) \in S /\ \A y \in S : y.at <= Newest(S).at
<1> DEFINE Later(x) == {y \in S : y.at > x.at}
           T == {Later(x) : x \in S}
           R == StrictSubsetOrdering(S)
<1>1. T \subseteq SUBSET S /\ T # {}
  OBVIOUS
<1>2. IsWellFoundedOn(R, SUBSET S)
  BY FS_FiniteSubsetsOfFinite, FS_StrictSubsetOrderingWellFounded
<1>3. \E U \in T : \A V \in T : ~(<<V, U>> \in R)
  <2> HIDE DEF T, R
  <2> QED BY <1>1, <1>2, WFMin
<1>4. PICK x \in S : \A V \in T : ~(<<V, Later(x)>> \in R)
  BY <1>3
<1>5. ASSUME NEW y \in S, y.at > x.at PROVE FALSE
  <2>1. Later(y) \subseteq Later(x)
    BY <1>5
  <2>2. y \in Later(x) /\ y \notin Later(y)
    BY <1>5
  <2>3. <<Later(y), Later(x)>> \in R
    BY <2>1, <2>2 DEF StrictSubsetOrdering
  <2> QED BY <1>4, <2>3
<1>6. x \in S /\ \A y \in S : y.at <= x.at
  BY <1>5
<1> QED BY <1>6 DEF Newest

LEMMA NewestOfWeek ==
  ASSUME TypeInv, NEW k, SnapshotsOf(k) # {}
  PROVE  /\ Newest(SnapshotsOf(k)) \in SnapshotsOf(k)
         /\ \A y \in SnapshotsOf(k) : y.at <= Newest(SnapshotsOf(k)).at
<1>1. IsFiniteSet(SnapshotsOf(k)) /\ \A x \in SnapshotsOf(k) : x.at \in Nat
  BY FS_Subset DEF TypeInv, SnapshotsOf, SnapType
<1> QED BY <1>1, NewestExists

LEMMA PriorTyped ==
  ASSUME TypeInv, NEW t PROVE Prior(t) \in Seq(Row)
<1>1. CASE Fixed(t) /\ SnapshotsOf(t.key) # {}
  <2>1. Newest(SnapshotsOf(t.key)) \in SnapType
    BY <1>1, NewestOfWeek DEF SnapshotsOf, TypeInv
  <2> QED BY <1>1, <2>1 DEF Prior, SnapType
<1>2. CASE ~(Fixed(t) /\ SnapshotsOf(t.key) # {})
  BY <1>2 DEF Prior
<1> QED BY <1>1, <1>2

\* The revision of a field from one position to another, as recordRevision writes it.
EntryRevisionOf(t, i, x, f) ==
  [key |-> t.key, who |-> x.who, field |-> f, old |-> x[f],
   new |-> [rank |-> i, score |-> t.rows[i].score][f], by |-> t.at]

LEMMA IsEntryRevision ==
  ASSUME NEW t, NEW i, NEW r
  PROVE  r \in EntryRevisions(t, i) <=>
           \E x \in Positions(t.prior), f \in {"rank", "score"} :
             /\ r = EntryRevisionOf(t, i, x, f)
             /\ r.who = t.rows[i].who /\ r.old # r.new
<1> DEFINE P == Positions(t.prior)  F == {"rank", "score"}
           Of(x, f) == EntryRevisionOf(t, i, x, f)
           All == {Of(x, f) : x \in P, f \in F}
<1>1. EntryRevisions(t, i) = {q \in All : q.who = t.rows[i].who /\ q.old # q.new}
  BY DEF EntryRevisions, EntryRevisionOf
<1>2. r \in All <=> \E x \in P, f \in F : r = Of(x, f)
  <2> HIDE DEF P, F, Of
  <2> QED OBVIOUS
<1> QED BY <1>1, <1>2

LEMMA EntryRevisionsTyped ==
  ASSUME NEW t \in TxType, t.key \in Keys, NEW i \in 1..Len(t.rows)
  PROVE  EntryRevisions(t, i) \subseteq EntryRevision
<1>0. t.prior \in Seq(Row) /\ t.rows \in Seq(Row) /\ t.at \in Nat /\ i \in Nat
  BY DEF TxType
<1>1. t.rows[i].score \in Nat /\ DOMAIN t.prior = 1..Len(t.prior)
  <2>1. t.rows[i] \in Row /\ DOMAIN t.prior = 1..Len(t.prior)
    BY <1>0
  <2> QED BY <2>1 DEF Row
<1>2. ASSUME NEW x \in Positions(t.prior), NEW f \in {"rank", "score"}
      PROVE  EntryRevisionOf(t, i, x, f) \in EntryRevision
  <2>1. PICK j \in 1..Len(t.prior) : x = [who |-> t.prior[j].who, rank |-> j, score |-> t.prior[j].score]
    BY <1>1 DEF Positions
  <2>2. t.prior[j] \in Row /\ j \in Nat
    BY <1>0
  <2>3. x.who \in People /\ x["rank"] \in Nat /\ x["score"] \in Nat
    BY <2>1, <2>2 DEF Row
  <2>4. x[f] \in Nat /\ [rank |-> i, score |-> t.rows[i].score][f] \in Nat
    BY <1>0, <1>1, <2>3
  <2> QED BY <1>0, <2>3, <2>4 DEF EntryRevision, EntryRevisionOf
<1>3. ASSUME NEW r \in EntryRevisions(t, i) PROVE r \in EntryRevision
  <2>1. PICK x \in Positions(t.prior), f \in {"rank", "score"} : r = EntryRevisionOf(t, i, x, f)
    BY IsEntryRevision
  <2> QED BY <1>2, <2>1
<1> QED BY <1>3

LEMMA PersonRevisionsTyped ==
  ASSUME TypeInv, NEW t \in TxType, NEW i \in 1..Len(t.rows)
  PROVE  PersonRevisions(t, i) \subseteq PersonRevision
<1>1. t.rows[i] \in Row /\ t.at \in Nat
  BY DEF TxType
<1>2. t.rows[i].who \in People /\ t.rows[i].profile \in Int /\ person[t.rows[i].who] \in Int
  BY <1>1 DEF Row, TypeInv
<1>3. [who |-> t.rows[i].who, old |-> person[t.rows[i].who], new |-> t.rows[i].profile,
       by |-> t.at] \in PersonRevision
  BY <1>1, <1>2 DEF PersonRevision
<1> QED BY <1>3 DEF PersonRevisions

LEMMA IdleTyped == Idle \in TxType
<1>1. <<>> \in Seq(Row) /\ 0 \in Labels
  BY KeyFacts
<1> QED BY <1>1 DEF Idle, TxType, Pcs

-----------------------------------------------------------------------------
(* What a statement does to its own transaction. *)

Others(s) == \A r \in Slots : r # s => tx'[r] = tx[r]

\* A statement other than the commit keeps the answer.
Keeps(s) ==
  /\ tx'[s].item = tx[s].item /\ tx'[s].key = tx[s].key /\ tx'[s].label = tx[s].label
  /\ tx'[s].rows = tx[s].rows /\ tx'[s].at = tx[s].at

LEMMA ReceiveTx ==
  ASSUME TypeInv, NEW s \in Slots, NEW m \in Items, Receive(s, m)
  PROVE  /\ tx' \in [Slots -> TxType] /\ Others(s) /\ ~Open(s)
         /\ tx'[s].pc \in {"period", "snapshot"}
         /\ tx'[s].pc = "period" => m[1] \in Lists
         /\ tx'[s].item = m /\ tx'[s].key = Key(m) /\ tx'[s].label = m[2]
         /\ tx'[s].at = polls + 1 /\ ~tx'[s].fresh /\ tx'[s].next = 1
         /\ tx'[s].prior = <<>> /\ tx'[s].entryRevs = {}
<1> DEFINE t == [Idle EXCEPT !.pc = IF m[1] \in Lists THEN "period" ELSE "snapshot",
                             !.item = m, !.key = Key(m), !.label = m[2],
                             !.rows = Rows(Key(m)), !.at = polls + 1]
<1>1. tx \in [Slots -> TxType] /\ tx' = [tx EXCEPT ![s] = t] /\ tx[s].pc = "idle"
  BY DEF TypeInv, Receive
<1>2. /\ Key(m) \in Keys /\ Rows(Key(m)) \in Seq(Row) /\ m[2] \in Labels /\ polls + 1 \in Nat
      /\ <<>> \in Seq(Row)
  BY ItemKey, RowsTyped, KeyFacts DEF TypeInv
<1>3. t \in TxType
  <2> DEFINE pc == IF m[1] \in Lists THEN "period" ELSE "snapshot"
             u == [Idle EXCEPT !.pc = pc, !.item = m, !.key = Key(m)]
  <2>1. u \in TxType
    BY <1>2, IdleTyped DEF TxType, Pcs
  <2>2. t = [u EXCEPT !.label = m[2], !.rows = Rows(Key(m)), !.at = polls + 1]
    OBVIOUS
  <2> HIDE DEF u, t
  <2> QED BY <1>2, <2>1, <2>2 DEF TxType
<1>4. /\ t.pc \in {"period", "snapshot"} /\ (t.pc = "period" => m[1] \in Lists)
      /\ t.item = m /\ t.key = Key(m) /\ t.label = m[2] /\ t.at = polls + 1
      /\ ~t.fresh /\ t.next = 1 /\ t.prior = <<>> /\ t.entryRevs = {}
  BY DEF Idle
<1> HIDE DEF t
<1> QED BY <1>1, <1>3, <1>4 DEF Others, Open

LEMMA LockTx ==
  ASSUME TypeInv, NEW s \in Slots, LockPeriod(s)
  PROVE  /\ tx' \in [Slots -> TxType] /\ Others(s) /\ Keeps(s)
         /\ tx[s].pc = "period" /\ tx'[s].pc = "snapshot" /\ tx'[s].fresh = tx[s].fresh
         /\ tx'[s].next = tx[s].next /\ tx'[s].prior = tx[s].prior
         /\ tx'[s].entryRevs = tx[s].entryRevs
<1>1. tx \in [Slots -> TxType] /\ tx[s] \in TxType
  BY DEF TypeInv
<1>2. tx' = [tx EXCEPT ![s] = [tx[s] EXCEPT !.pc = "snapshot"]] /\ tx[s].pc = "period"
  BY <1>1 DEF LockPeriod
<1>3. [tx[s] EXCEPT !.pc = "snapshot"] \in TxType
  BY <1>1 DEF TxType, Pcs
<1> QED BY <1>1, <1>2, <1>3 DEF Others, Keeps, TxType

\* Either snapshot statement: a state that is stored ends the work.
LEMMA SnapshotTx ==
  ASSUME TypeInv, NEW s \in Slots, Snapshot(s) \/ RegistrySnapshot(s)
  PROVE  /\ tx' \in [Slots -> TxType] /\ Others(s) /\ Keeps(s)
         /\ tx[s].pc = "snapshot" /\ tx'[s].next = tx[s].next
         /\ tx'[s].entryRevs = tx[s].entryRevs
         /\ Stored(tx[s]) => /\ tx'[s].pc = "commit" /\ tx'[s].fresh = tx[s].fresh
                             /\ tx'[s].prior = tx[s].prior
         /\ ~Stored(tx[s]) => /\ tx'[s].pc = AfterEntry(tx[s], 0) /\ tx'[s].fresh
                              /\ tx'[s].prior = IF tx[s].key \in ListKeys THEN Prior(tx[s])
                                                ELSE tx[s].prior
<1> DEFINE t == tx[s]
<1>1. tx \in [Slots -> TxType] /\ t \in TxType
  BY DEF TypeInv
<1>2. AfterEntry(t, 0) \in {"commit", "read"} /\ Prior(t) \in Seq(Row)
  BY PriorTyped DEF AfterEntry
<1>3. CASE Stored(t)
  <2>1. tx' = [tx EXCEPT ![s] = [t EXCEPT !.pc = "commit"]] /\ t.pc = "snapshot"
    BY <1>3 DEF Snapshot, RegistrySnapshot
  <2>2. [t EXCEPT !.pc = "commit"] \in TxType
    BY <1>1 DEF TxType, Pcs
  <2> QED BY <1>1, <1>3, <2>1, <2>2 DEF Others, Keeps, TxType
<1>4. CASE ~Stored(t) /\ Snapshot(s)
  <2> DEFINE u == [t EXCEPT !.fresh = TRUE, !.prior = Prior(t), !.pc = AfterEntry(t, 0)]
  <2>1. tx' = [tx EXCEPT ![s] = u] /\ t.pc = "snapshot" /\ t.key \in ListKeys
    BY <1>4 DEF Snapshot
  <2>2. u \in TxType
    BY <1>1, <1>2 DEF TxType, Pcs
  <2>3. /\ u.item = t.item /\ u.key = t.key /\ u.label = t.label /\ u.rows = t.rows /\ u.at = t.at
        /\ u.next = t.next /\ u.entryRevs = t.entryRevs /\ u.fresh
        /\ u.prior = Prior(t) /\ u.pc = AfterEntry(t, 0)
    BY <1>1 DEF TxType
  <2> HIDE DEF u
  <2> QED BY <1>1, <1>4, <2>1, <2>2, <2>3 DEF Others, Keeps
<1>5. CASE ~Stored(t) /\ RegistrySnapshot(s)
  <2> DEFINE u == [t EXCEPT !.fresh = TRUE, !.pc = AfterEntry(t, 0)]
  <2>1. tx' = [tx EXCEPT ![s] = u] /\ t.pc = "snapshot" /\ t.key \notin ListKeys
    BY <1>5 DEF RegistrySnapshot
  <2>2. u \in TxType
    BY <1>1, <1>2 DEF TxType, Pcs
  <2>3. /\ u.item = t.item /\ u.key = t.key /\ u.label = t.label /\ u.rows = t.rows /\ u.at = t.at
        /\ u.next = t.next /\ u.entryRevs = t.entryRevs /\ u.fresh
        /\ u.prior = t.prior /\ u.pc = AfterEntry(t, 0)
    BY <1>1 DEF TxType
  <2> HIDE DEF u
  <2> QED BY <1>1, <1>5, <2>1, <2>2, <2>3 DEF Others, Keeps
<1> QED BY <1>3, <1>4, <1>5

LEMMA ReadTx ==
  ASSUME TypeInv, TxInv, NEW s \in Slots, ReadPerson(s)
  PROVE  /\ tx' \in [Slots -> TxType] /\ Others(s) /\ Keeps(s)
         /\ tx[s].pc = "read" /\ tx'[s].pc = "upsert" /\ tx'[s].fresh = tx[s].fresh
         /\ tx'[s].next = tx[s].next /\ tx'[s].prior = tx[s].prior
         /\ tx'[s].entryRevs = tx[s].entryRevs
<1> DEFINE t == tx[s]
           u == [t EXCEPT !.personRevs = @ \cup PersonRevisions(t, t.next), !.pc = "upsert"]
<1>1. tx \in [Slots -> TxType] /\ t \in TxType /\ t.pc = "read"
  BY DEF TypeInv, ReadPerson
<1>2. tx' = [tx EXCEPT ![s] = u]
  BY <1>1 DEF ReadPerson, TxType
<1>3. t.next \in 1..Len(t.rows)
  BY <1>1 DEF TxInv, TxOk, TxType
<1>4. u \in TxType
  BY <1>1, <1>3, PersonRevisionsTyped DEF TxType, Pcs
<1>5. /\ u.item = t.item /\ u.key = t.key /\ u.label = t.label /\ u.rows = t.rows /\ u.at = t.at
      /\ u.next = t.next /\ u.entryRevs = t.entryRevs /\ u.fresh = t.fresh
      /\ u.prior = t.prior /\ u.pc = "upsert"
  BY <1>1 DEF TxType
<1> HIDE DEF u
<1> QED BY <1>1, <1>2, <1>4, <1>5 DEF Others, Keeps

LEMMA UpsertTx ==
  ASSUME TypeInv, TxInv, NEW s \in Slots, Upsert(s)
  PROVE  /\ tx' \in [Slots -> TxType] /\ Others(s) /\ Keeps(s)
         /\ tx[s].pc = "upsert" /\ tx'[s].pc = AfterEntry(tx[s], 1) /\ tx'[s].fresh = tx[s].fresh
         /\ tx'[s].next = tx[s].next + 1 /\ tx'[s].prior = tx[s].prior
         /\ tx'[s].entryRevs = tx[s].entryRevs \cup EntryRevisions(tx[s], tx[s].next)
<1> DEFINE t == tx[s]
           u == [t EXCEPT !.next = @ + 1, !.entryRevs = @ \cup EntryRevisions(t, t.next),
                          !.pc = AfterEntry(t, 1)]
<1>1. tx \in [Slots -> TxType] /\ t \in TxType /\ t.pc = "upsert"
  BY DEF TypeInv, Upsert
<1>2. tx' = [tx EXCEPT ![s] = u]
  BY <1>1 DEF Upsert, TxType
<1>3. t.next \in 1..Len(t.rows) /\ t.key \in Keys
  BY <1>1 DEF TxInv, TxOk, TxType
<1>4. EntryRevisions(t, t.next) \subseteq EntryRevision /\ AfterEntry(t, 1) \in {"commit", "read"}
  BY <1>1, <1>3, EntryRevisionsTyped DEF AfterEntry
<1>5. u \in TxType
  <2> DEFINE n == t.next + 1
             v == [t EXCEPT !.next = n]
             E == t.entryRevs \cup EntryRevisions(t, t.next)
  <2>1. v \in TxType
    <3>1. n \in Nat \ {0}
      BY <1>1 DEF TxType
    <3> HIDE DEF n
    <3> QED BY <1>1, <3>1 DEF TxType
  <2>2. u = [v EXCEPT !.entryRevs = E, !.pc = AfterEntry(t, 1)]
    OBVIOUS
  <2>3. E \in SUBSET EntryRevision /\ AfterEntry(t, 1) \in Pcs
    BY <1>1, <1>4 DEF TxType, Pcs
  <2> HIDE DEF u, v, E
  <2> QED BY <2>1, <2>2, <2>3 DEF TxType
<1>6. /\ u.item = t.item /\ u.key = t.key /\ u.label = t.label /\ u.rows = t.rows /\ u.at = t.at
      /\ u.next = t.next + 1 /\ u.entryRevs = t.entryRevs \cup EntryRevisions(t, t.next)
      /\ u.fresh = t.fresh /\ u.prior = t.prior /\ u.pc = AfterEntry(t, 1)
  BY <1>1 DEF TxType
<1> HIDE DEF u
<1> QED BY <1>1, <1>2, <1>5, <1>6 DEF Others, Keeps

\* The row a commit makes visible.
NewSnap(t) == [key |-> t.key, label |-> t.label, rows |-> t.rows, at |-> t.at]

LEMMA CommitTx ==
  ASSUME TypeInv, TxInv, NEW s \in Slots, Commit(s)
  PROVE  /\ tx' \in [Slots -> TxType] /\ Others(s) /\ tx'[s] = Idle /\ tx[s].pc = "commit"
         /\ \A k \in PeriodKeys :
              period'[k] = IF tx[s].key \in ListKeys /\ k = PeriodOf(tx[s].key) THEN tx[s].label
                           ELSE period[k]
         /\ \A k \in Keys : \/ seen'[k] = seen[k]
                            \/ k = tx[s].key /\ seen'[k].label = tx[s].label
         /\ snaps' = snaps \cup (IF tx[s].fresh THEN {NewSnap(tx[s])} ELSE {})
         /\ NewSnap(tx[s]) \in SnapType
         /\ entryRevisions' = entryRevisions \cup tx[s].entryRevs
         /\ week' = week /\ todo' = todo /\ polls' = polls
<1> DEFINE t == tx[s]
<1>1. tx \in [Slots -> TxType] /\ t \in TxType /\ t.pc = "commit" /\ tx' = [tx EXCEPT ![s] = Idle]
  BY DEF TypeInv, Commit
<1>2. NewSnap(t) \in SnapType
  BY <1>1 DEF TxInv, TxOk, TxType, SnapType, NewSnap
<1>3. \A k \in PeriodKeys :
        period'[k] = IF t.key \in ListKeys /\ k = PeriodOf(t.key) THEN t.label ELSE period[k]
  BY DEF Commit
<1>7. \A k \in Keys : seen'[k] = seen[k] \/ (k = t.key /\ seen'[k].label = t.label)
  BY DEF Commit, TypeInv
<1>4. snaps' = snaps \cup (IF t.fresh THEN {NewSnap(t)} ELSE {})
  BY DEF Commit, NewSnap
<1>5. entryRevisions' = entryRevisions \cup t.entryRevs
      /\ week' = week /\ todo' = todo /\ polls' = polls
  BY DEF Commit, game
<1>6. tx' \in [Slots -> TxType] /\ Others(s) /\ tx'[s] = Idle
  BY <1>1, IdleTyped DEF Others
<1> QED BY <1>1, <1>2, <1>3, <1>4, <1>5, <1>6, <1>7

-----------------------------------------------------------------------------
(* The kinds of steps. *)

\* The game moves, a run starts, or transactions end without a trace.
Passes ==
  /\ UNCHANGED <<tables, polls>> /\ week' \in {week, week + 1}
  /\ \A s \in Slots : tx'[s] \in {tx[s], Idle}
  /\ \A w \in Workers :
       \/ todo'[w] \subseteq todo[w]
       \/ \A s \in Slots : s[1] = w => ~Open(s)

\* A statement before the commit.
Works(s) ==
  /\ UNCHANGED <<tables, polls, week, todo>>
  /\ Others(s) /\ Keeps(s) /\ Open(s)
  /\ tx'[s].pc \in {"snapshot", "read", "upsert", "commit"}
  /\ tx[s].pc = "period" => ~Blocked(s)

LEMMA KindsOfStatements ==
  ASSUME TypeInv, [Next]_vars
  PROVE  \/ Passes
         \/ \E s \in Slots : Statement(s) /\ ~Commit(s)
         \/ \E s \in Slots : Commit(s)
         \/ \E s \in Slots, m \in Items : Receive(s, m)
<1> USE DEF tables, game
<1>0. tx \in [Slots -> TxType] /\ todo \in [Workers -> SUBSET Items]
      /\ \A s \in Slots : s[1] \in Workers /\ s = <<s[1], s[2]>> /\ s[2] \in Lanes
  BY DEF TypeInv, Slots
<1>1. CASE UNCHANGED vars
  BY <1>0, <1>1 DEF vars, Passes
<1>2. CASE (\E m \in Items : Change(Key(m))) \/ (\E p \in People : ProfileChanges(p)) \/ WeekEnds
  BY <1>0, <1>2 DEF Change, ProfileChanges, WeekEnds, Passes
<1>3. ASSUME NEW w \in Workers, RunStarts(w) PROVE Passes
  BY <1>0, <1>3 DEF RunStarts, Passes, Open
<1>4. ASSUME NEW w \in Workers, Dies(w) PROVE Passes
  BY <1>0, <1>4 DEF Dies, Passes
<1>6. ASSUME NEW s \in Slots, Fails(s) \/ DeadlockAborts(s) PROVE Passes
  BY <1>0, <1>6 DEF Fails, DeadlockAborts, Passes
<1> QED BY <1>1, <1>2, <1>3, <1>4, <1>6 DEF Next, Statement

LEMMA Kinds ==
  ASSUME TypeInv, TxInv, [Next]_vars
  PROVE  \/ Passes
         \/ \E s \in Slots : Works(s)
         \/ \E s \in Slots : Commit(s)
         \/ \E s \in Slots, m \in Items : Receive(s, m)
<1> USE DEF tables, game
<1>1. ASSUME NEW s \in Slots, Statement(s), ~Commit(s) PROVE Works(s)
  <2>1. UNCHANGED <<tables, polls, week, todo>>
    BY <1>1 DEF Statement, LockPeriod, Snapshot, RegistrySnapshot, ReadPerson, Upsert
  <2>2. CASE LockPeriod(s)
    BY <2>1, <2>2, LockTx DEF Works, Open, LockPeriod
  <2>3. CASE Snapshot(s) \/ RegistrySnapshot(s)
    BY <2>1, <2>3, SnapshotTx DEF Works, Open, AfterEntry
  <2>4. CASE ReadPerson(s)
    BY <2>1, <2>4, ReadTx DEF Works, Open
  <2>5. CASE Upsert(s)
    BY <2>1, <2>5, UpsertTx DEF Works, Open, AfterEntry
  <2> QED BY <1>1, <2>2, <2>3, <2>4, <2>5 DEF Statement
<1> QED BY <1>1, KindsOfStatements

\* An answer about a board starts with its week's row.
LEMMA ReceivedBoards ==
  ASSUME TypeInv, NEW s \in Slots, NEW m \in Items, Receive(s, m)
  PROVE  /\ tx'[s].pc = "period" \/ tx'[s].key \notin ListKeys
         /\ tx'[s].key \in ListKeys => Observed(tx'[s]) = week
<1>1. tx' = [tx EXCEPT ![s] =
        [Idle EXCEPT !.pc = IF m[1] \in Lists THEN "period" ELSE "snapshot",
                     !.item = m, !.key = Key(m), !.label = m[2],
                     !.rows = Rows(Key(m)), !.at = polls + 1]] /\ tx \in [Slots -> TxType]
  BY DEF Receive, TypeInv
<1>2. tx'[s].pc = IF m[1] \in Lists THEN "period" ELSE "snapshot"
  BY <1>1 DEF Idle
<1> QED BY <1>2, ReceiveTx, ItemKey, KeyFacts DEF Observed

-----------------------------------------------------------------------------
(* Type correctness. *)

LEMMA TypeInit == Init => TypeInv
<1> SUFFICES ASSUME Init PROVE TypeInv
  OBVIOUS
<1>1. week \in Weeks /\ week >= Periods - 1
  BY HistoryAssumption DEF Init, Weeks
<1>2. IsFiniteSet(snaps) /\ snaps = {}
  BY FS_EmptySet DEF Init
<1>3. tx \in [Slots -> TxType]
  BY IdleTyped DEF Init
<1>4. seen \in [Keys -> SeenType]
  <2>1. <<>> \in Seq(Row) /\ 0 \in Labels
    BY KeyFacts
  <2> QED BY <2>1 DEF Init, Nothing, SeenType
<1>5. content \in [Keys -> Listings] /\ period \in [PeriodKeys -> Labels \cup {NoRow}]
  BY DEF Init
<1> QED BY <1>1, <1>2, <1>3, <1>4, <1>5 DEF Init, TypeInv, NoRow

LEMMA TypeStep ==
  ASSUME TypeInv, TxInv, [Next]_vars
  PROVE  TypeInv'
<1> USE DEF tables, game
<1>1. week' \in Weeks /\ week' >= Periods - 1
  <2>1. week' = week \/ WeekEnds
    BY DEF Next, vars, Change, ProfileChanges, RunStarts, Dies, Fails, DeadlockAborts,
           Receive, Statement, LockPeriod, Snapshot, RegistrySnapshot, ReadPerson, Upsert, Commit
  <2> QED BY <2>1, HistoryAssumption DEF WeekEnds, TypeInv, Weeks
<1>2. content' \in [Keys -> Listings] /\ profile' \in [People -> Nat]
  <2>1. CASE UNCHANGED <<content, profile>>
    BY <2>1 DEF TypeInv
  <2>2. ASSUME NEW m \in Items, Change(Key(m))
        PROVE  content' \in [Keys -> Listings] /\ profile' \in [People -> Nat]
    <3>1. Contents[Key(m)[1]] \subseteq Listings
      BY ItemKey, KeyFacts DEF Listings
    <3> QED BY <2>2, <3>1 DEF Change, TypeInv
  <2>3. CASE \E p \in People : ProfileChanges(p)
    BY <2>3 DEF ProfileChanges, TypeInv
  <2> QED BY <2>1, <2>2, <2>3
          DEF Next, vars, WeekEnds, RunStarts, Dies, Fails, DeadlockAborts,
              Receive, Statement, LockPeriod, Snapshot, RegistrySnapshot, ReadPerson, Upsert, Commit
<1>3. todo' \in [Workers -> SUBSET Items]
  <2>1. CASE todo' = todo
    BY <2>1 DEF TypeInv
  <2>2. ASSUME NEW w \in Workers, RunStarts(w) PROVE todo' \in [Workers -> SUBSET Items]
    BY <2>2 DEF RunStarts, TypeInv
  <2>3. ASSUME NEW w \in Workers, Dies(w) PROVE todo' \in [Workers -> SUBSET Items]
    BY <2>3 DEF Dies, TypeInv
  <2>5. ASSUME NEW s \in Slots, NEW m \in Items, Receive(s, m)
        PROVE  todo' \in [Workers -> SUBSET Items]
    BY <2>5 DEF Receive, TypeInv, Slots
  <2> QED BY <2>1, <2>2, <2>3, <2>5
          DEF Next, vars, WeekEnds, Change, ProfileChanges, Fails, DeadlockAborts,
              Statement, LockPeriod, Snapshot, RegistrySnapshot, ReadPerson, Upsert, Commit
<1> DEFINE StoredTyped ==
             /\ tx' \in [Slots -> TxType] /\ polls' \in Nat
             /\ period' \in [PeriodKeys -> Labels \cup {NoRow}] /\ seen' \in [Keys -> SeenType]
             /\ person' \in [People -> Int]
             /\ snaps' \subseteq SnapType /\ IsFiniteSet(snaps')
<1>4. StoredTyped
  <2>1. CASE UNCHANGED <<tables, polls, tx>>
    BY <2>1 DEF TypeInv
  <2>2. ASSUME NEW s \in Slots, Fails(s) \/ DeadlockAborts(s) PROVE StoredTyped
    BY <2>2, IdleTyped DEF Fails, DeadlockAborts, TypeInv
  <2>3. ASSUME NEW w \in Workers, Dies(w) PROVE StoredTyped
    BY <2>3, IdleTyped DEF Dies, TypeInv
  <2>4. ASSUME NEW s \in Slots, NEW m \in Items, Receive(s, m) PROVE StoredTyped
    <3>1. tx' \in [Slots -> TxType]
      BY <2>4, ReceiveTx
    <3>2. UNCHANGED tables /\ polls' = polls + 1
      BY <2>4 DEF Receive
    <3> QED BY <3>1, <3>2 DEF TypeInv
  <2>5. ASSUME NEW s \in Slots, Statement(s), ~Commit(s) PROVE StoredTyped
    <3>1. tx' \in [Slots -> TxType]
      BY <2>5, LockTx, SnapshotTx, ReadTx, UpsertTx DEF Statement
    <3>2. UNCHANGED <<tables, polls>>
      BY <2>5 DEF Statement, LockPeriod, Snapshot, RegistrySnapshot, ReadPerson, Upsert
    <3> QED BY <3>1, <3>2 DEF TypeInv
  <2>6. ASSUME NEW s \in Slots, Commit(s) PROVE StoredTyped
    <3> DEFINE t == tx[s]
    <3>1. tx' \in [Slots -> TxType] /\ polls' = polls /\ t \in TxType /\ t.pc = "commit"
      BY <2>6, CommitTx DEF TypeInv
    <3>2. snaps' \subseteq SnapType /\ IsFiniteSet(snaps')
      <4>1. snaps' = snaps \/ snaps' = snaps \cup {NewSnap(t)}
        BY <2>6, CommitTx
      <4> QED BY <2>6, <4>1, CommitTx, FS_AddElement DEF TypeInv
    <3>3. period' \in [PeriodKeys -> Labels \cup {NoRow}] /\ seen' \in [Keys -> SeenType]
      BY <2>6, <3>1 DEF Commit, TypeInv, TxType, SeenType
    <3>4. person' \in [People -> Int]
      <4> DEFINE written(p) == {row \in {t.rows[i] : i \in 1..(t.next - 1)} : row.who = p}
      <4>1. \A i \in 1..(t.next - 1) : i \in 1..Len(t.rows)
        <5>1. t.next = 1 \/ t.next = Len(t.rows) + 1
          BY <3>1 DEF TxInv, TxOk
        <5>2. t.next \in Nat /\ Len(t.rows) \in Nat
          BY <3>1 DEF TxType
        <5> QED BY <5>1, <5>2
      <4>2. \A i \in 1..(t.next - 1) : t.rows[i] \in Row
        BY <3>1, <4>1 DEF TxType
      <4>3. \A p \in People : written(p) # {} => (CHOOSE r \in written(p) : TRUE) \in Row
        BY <4>2
      <4>4. person' = [p \in People |->
              IF written(p) = {} THEN person[p] ELSE (CHOOSE r \in written(p) : TRUE).profile]
        BY <2>6 DEF Commit
      <4> HIDE DEF written
      <4>5. \A p \in People : written(p) # {} => (CHOOSE r \in written(p) : TRUE).profile \in Int
        BY <4>3 DEF Row
      <4> QED BY <4>4, <4>5 DEF TypeInv
    <3> QED BY <3>1, <3>2, <3>3, <3>4 DEF TypeInv
  <2>7. CASE UNCHANGED vars \/ (\E m \in Items : Change(Key(m)))
             \/ (\E p \in People : ProfileChanges(p)) \/ WeekEnds \/ \E w \in Workers : RunStarts(w)
    BY <2>1, <2>7 DEF vars, Change, ProfileChanges, WeekEnds, RunStarts
  <2> QED BY <2>2, <2>3, <2>4, <2>5, <2>6, <2>7 DEF Next
<1> QED BY <1>1, <1>2, <1>3, <1>4 DEF TypeInv

-----------------------------------------------------------------------------
(* What a transaction has in hand. *)

LEMMA TxStep ==
  ASSUME TypeInv, TxInv, [Next]_vars
  PROVE  TxInv'
<1>0. TxOk(Idle)
  BY DEF TxOk, Idle
<1>1. CASE Passes
  BY <1>0, <1>1 DEF Passes, TxInv
<1>2. ASSUME NEW s \in Slots, Commit(s) PROVE TxInv'
  BY <1>0, <1>2, CommitTx DEF TxInv, Others
<1>3. ASSUME NEW s \in Slots, NEW m \in Items, Receive(s, m) PROVE TxInv'
  <2>1. TxOk(tx'[s])
    BY <1>3, ReceiveTx, ItemKey, KeyFacts DEF TxOk, TypeInv
  <2> QED BY <1>3, <2>1, ReceiveTx DEF TxInv, Others
<1>4. ASSUME NEW s \in Slots, Statement(s), ~Commit(s) PROVE TxInv'
  <2> DEFINE t == tx[s]
  <2>0. TxOk(t) /\ t.next \in Nat /\ Len(t.rows) \in Nat
    BY DEF TxInv, TypeInv, TxType
  <2>1. CASE LockPeriod(s)
    <3>1. TxOk(tx'[s])
      BY <2>0, <2>1, LockTx DEF TxOk, Keeps
    <3> QED BY <2>1, <3>1, LockTx DEF TxInv, Others
  <2>2. CASE Snapshot(s) \/ RegistrySnapshot(s)
    <3>1. TxOk(tx'[s])
      BY <2>0, <2>2, SnapshotTx DEF TxOk, Keeps, AfterEntry
    <3> QED BY <2>2, <3>1, SnapshotTx DEF TxInv, Others
  <2>3. CASE ReadPerson(s)
    <3>1. TxOk(tx'[s])
      BY <2>0, <2>3, ReadTx DEF TxOk, Keeps
    <3> QED BY <2>3, <3>1, ReadTx DEF TxInv, Others
  <2>4. CASE Upsert(s)
    <3>1. TxOk(tx'[s])
      BY <2>0, <2>4, UpsertTx DEF TxOk, Keeps, AfterEntry
    <3> QED BY <2>4, <3>1, UpsertTx DEF TxInv, Others
  <2> QED BY <1>4, <2>1, <2>2, <2>3, <2>4 DEF Statement
<1> QED BY <1>1, <1>2, <1>3, <1>4, KindsOfStatements

LEMMA LockStep ==
  ASSUME TypeInv, TxInv, LockInv, [Next]_vars
  PROVE  LockInv'
<1>0. Idle.pc = "idle"
  BY DEF Idle
<1>1. CASE Passes
  BY <1>0, <1>1 DEF Passes, LockInv
<1>2. ASSUME NEW s \in Slots, Commit(s) PROVE LockInv'
  BY <1>0, <1>2, CommitTx DEF LockInv, Others
<1>3. ASSUME NEW s \in Slots, NEW m \in Items, Receive(s, m) PROVE LockInv'
  <2>1. tx'[s].pc = "period" \/ tx'[s].key \notin ListKeys
    BY <1>3, ReceivedBoards
  <2> QED BY <1>3, <2>1, ReceiveTx DEF LockInv, Others
<1>4. ASSUME NEW s \in Slots, Works(s) PROVE LockInv'
  <2>1. ASSUME NEW r \in Slots, r # s, tx[r].pc \notin {"idle", "period"},
               tx[r].key \in ListKeys, tx[s].key \in ListKeys,
               PeriodOf(tx[r].key) = PeriodOf(tx[s].key)
        PROVE  FALSE
    <3>1. CASE tx[s].pc = "period"
      BY <1>4, <2>1, <3>1 DEF Works, Blocked, WaitsFor
    <3>2. CASE tx[s].pc # "period"
      BY <1>4, <2>1, <3>2 DEF Works, Open, LockInv
    <3> QED BY <3>1, <3>2
  <2> QED BY <1>4, <2>1 DEF Works, Others, Keeps, LockInv
<1> QED BY <1>1, <1>2, <1>3, <1>4, Kinds

LEMMA AtStep ==
  ASSUME TypeInv, TxInv, AtInv, [Next]_vars
  PROVE  AtInv'
<1>0. Idle.pc = "idle" /\ polls \in Nat /\ \A x \in snaps : x.at \in Nat
  BY DEF Idle, TypeInv, SnapType
<1>1. CASE Passes
  BY <1>0, <1>1 DEF Passes, AtInv, Open, tables
<1>2. ASSUME NEW s \in Slots, Commit(s) PROVE AtInv'
  <2> DEFINE n == NewSnap(tx[s])
  <2>1. n.at = tx[s].at /\ Open(s)
    BY <1>2, CommitTx DEF NewSnap, Open
  <2>2. snaps' = snaps \/ snaps' = snaps \cup {n}
    BY <1>2, CommitTx
  <2>3. /\ polls' = polls /\ tx'[s].pc = "idle" /\ \A r \in Slots : r # s => tx'[r] = tx[r]
    BY <1>0, <1>2, CommitTx DEF Others
  <2> HIDE DEF n
  <2> QED BY <2>1, <2>2, <2>3 DEF AtInv, Open
<1>3. ASSUME NEW s \in Slots, NEW m \in Items, Receive(s, m) PROVE AtInv'
  <2>1. tx'[s].at = polls + 1 /\ Others(s)
    BY <1>3, ReceiveTx
  <2>2. polls' = polls + 1 /\ snaps' = snaps
    BY <1>3 DEF Receive, tables
  <2> QED BY <1>0, <2>1, <2>2 DEF AtInv, Open, Others
<1>4. ASSUME NEW s \in Slots, Works(s) PROVE AtInv'
  BY <1>4 DEF Works, Others, Keeps, AtInv, Open, tables
<1> QED BY <1>1, <1>2, <1>3, <1>4, Kinds

-----------------------------------------------------------------------------
(* The revisions a transaction has in hand. *)

LEMMA SameRevisions ==
  ASSUME NEW t, NEW u, t.key = u.key, t.rows = u.rows, t.at = u.at, t.prior = u.prior
  PROVE  \A i : EntryRevisions(t, i) = EntryRevisions(u, i)
BY DEF EntryRevisions

LEMMA NoRevisions ==
  ASSUME NEW t, t.entryRevs = {}, t.next = 1, ~t.fresh, t.prior = <<>>
  PROVE  \A S : RevOk(t, S)
<1>1. 1..(t.next - 1) = {}
  OBVIOUS
<1>2. UNION {EntryRevisions(t, i) : i \in 1..(t.next - 1)} = {}
  BY <1>1
<1> QED BY <1>2 DEF RevOk

\* Nobody else adds a snapshot to the week that a fresh one is compared with.
LEMMA RevStep ==
  ASSUME TypeInv, TxInv, LockInv, RevInv, [Next]_vars
  PROVE  RevInv'
<1>0. \A S : RevOk(Idle, S)
  BY NoRevisions DEF Idle
<1>a. ASSUME NEW r \in Slots, snaps' = snaps, tx'[r] = tx[r]
      PROVE  RevOk(tx[r], SnapshotsOf(tx[r].key))'
  <2>1. SnapshotsOf(tx[r].key)' = SnapshotsOf(tx[r].key)
    BY <1>a DEF SnapshotsOf
  <2> QED BY <1>a, <2>1 DEF RevInv
<1>1. CASE Passes
  <2>1. snaps' = snaps /\ \A r \in Slots : tx'[r] \in {tx[r], Idle}
    BY <1>1 DEF Passes, tables
  <2> QED BY <1>0, <1>a, <2>1 DEF RevInv
<1>2. ASSUME NEW s \in Slots, Commit(s) PROVE RevInv'
  <2>1. tx'[s] = Idle /\ \A r \in Slots : r # s => tx'[r] = tx[r]
    BY <1>2, CommitTx DEF Others
  <2>2. ASSUME NEW r \in Slots, r # s PROVE RevOk(tx[r], SnapshotsOf(tx[r].key))'
    <3>1. CASE tx[r].fresh /\ tx[r].key \in ListKeys
      <4>1. tx[r].pc \notin {"idle", "period"} /\ tx[s].pc = "commit"
        BY <1>2, <3>1, CommitTx DEF TxInv, TxOk
      <4>2. tx[r].key # tx[s].key
        BY <2>2, <3>1, <4>1 DEF LockInv
      <4>3. SnapshotsOf(tx[r].key)' = SnapshotsOf(tx[r].key)
        <5> DEFINE n == NewSnap(tx[s])
        <5>1. (snaps' = snaps \/ snaps' = snaps \cup {n}) /\ n.key = tx[s].key
          BY <1>2, CommitTx DEF NewSnap
        <5> HIDE DEF n
        <5> QED BY <2>1, <2>2, <4>2, <5>1 DEF SnapshotsOf
      <4> QED BY <2>1, <2>2, <4>3 DEF RevInv
    <3>2. CASE ~(tx[r].fresh /\ tx[r].key \in ListKeys)
      BY <2>1, <2>2, <3>2 DEF RevInv, RevOk
    <3> QED BY <3>1, <3>2
  <2> QED BY <1>0, <2>1, <2>2 DEF RevInv
<1>3. ASSUME NEW s \in Slots, NEW m \in Items, Receive(s, m) PROVE RevInv'
  <2>1. \A S : RevOk(tx'[s], S)
    BY <1>3, ReceiveTx, NoRevisions
  <2>2. snaps' = snaps /\ \A r \in Slots : r # s => tx'[r] = tx[r]
    BY <1>3, ReceiveTx DEF Receive, tables, Others
  <2> QED BY <1>a, <2>1, <2>2 DEF RevInv
<1>4. ASSUME NEW s \in Slots, Statement(s), ~Commit(s) PROVE RevInv'
  <2> DEFINE t == tx[s]
             u == tx'[s]
             K == SnapshotsOf(t.key)
  <2>0. RevOk(t, K) /\ TxOk(t) /\ t.next \in Nat \ {0}
    BY DEF RevInv, TxInv, TypeInv, TxType
  <2>1. snaps' = snaps
    BY <1>4 DEF Statement, LockPeriod, Snapshot, RegistrySnapshot, ReadPerson, Upsert, tables
  <2>2. \A r \in Slots : r # s => tx'[r] = tx[r]
    BY <1>4, LockTx, SnapshotTx, ReadTx, UpsertTx DEF Statement, Others
  <2>3. u.key = t.key /\ u.label = t.label /\ u.rows = t.rows /\ u.at = t.at
    BY <1>4, LockTx, SnapshotTx, ReadTx, UpsertTx DEF Statement, Keeps
  <2>4. PriorIn(u, K) = PriorIn(t, K)
    BY <2>3 DEF PriorIn, Fixed
  <2>5. RevOk(u, K)
    <3>1. CASE LockPeriod(s) \/ ReadPerson(s) \/ (Stored(t) /\ (Snapshot(s) \/ RegistrySnapshot(s)))
      <4>1. u.fresh = t.fresh /\ u.prior = t.prior /\ u.next = t.next /\ u.entryRevs = t.entryRevs
        BY <3>1, LockTx, SnapshotTx, ReadTx
      <4>2. \A i : EntryRevisions(u, i) = EntryRevisions(t, i)
        BY <2>3, <4>1, SameRevisions
      <4> HIDE DEF u, t
      <4> QED BY <2>0, <2>3, <2>4, <4>1, <4>2 DEF RevOk
    <3>2. CASE ~Stored(t) /\ (Snapshot(s) \/ RegistrySnapshot(s))
      <4>1. /\ u.fresh /\ u.next = t.next /\ u.entryRevs = t.entryRevs
            /\ u.prior = IF t.key \in ListKeys THEN Prior(t) ELSE t.prior
            /\ t.pc = "snapshot"
        BY <3>2, SnapshotTx
      <4>2. t.next = 1 /\ t.prior = <<>>
        BY <2>0, <4>1 DEF TxOk, RevOk
      <4>3. UNION {EntryRevisions(t, i) : i \in 1..(t.next - 1)} = {}
            /\ UNION {EntryRevisions(u, i) : i \in 1..(u.next - 1)} = {}
        BY <4>1, <4>2
      <4>4. Prior(t) = PriorIn(t, K)
        BY DEF Prior, PriorIn
      <4> HIDE DEF u, t
      <4> QED BY <2>0, <2>3, <2>4, <4>1, <4>2, <4>3, <4>4 DEF RevOk
    <3>3. CASE Upsert(s)
      <4>1. u.fresh = t.fresh /\ u.prior = t.prior /\ u.next = t.next + 1
            /\ u.entryRevs = t.entryRevs \cup EntryRevisions(t, t.next)
        BY <3>3, UpsertTx
      <4>2. \A i : EntryRevisions(u, i) = EntryRevisions(t, i)
        BY <2>3, <4>1, SameRevisions
      <4>3. 1..(u.next - 1) = (1..(t.next - 1)) \cup {t.next}
        BY <2>0, <4>1
      <4> HIDE DEF u, t
      <4>4. u.entryRevs = UNION {EntryRevisions(u, i) : i \in 1..(u.next - 1)}
        BY <2>0, <4>1, <4>2, <4>3 DEF RevOk
      <4> QED BY <2>0, <2>3, <2>4, <4>1, <4>4 DEF RevOk
    <3> QED BY <1>4, <3>1, <3>2, <3>3 DEF Statement
  <2>6. RevOk(tx[s], SnapshotsOf(tx[s].key))'
    BY <2>1, <2>3, <2>5 DEF SnapshotsOf
  <2> QED BY <1>a, <2>1, <2>2, <2>6 DEF RevInv
<1> QED BY <1>1, <1>2, <1>3, <1>4, KindsOfStatements

LEMMA HistoryInit == Init => HistoryInv
<1> SUFFICES ASSUME Init PROVE HistoryInv
  OBVIOUS
<1>1. tx = [s \in Slots |-> Idle] /\ snaps = {}
  BY DEF Init
<1>2. TxInv /\ LockInv /\ AtInv
  BY <1>1 DEF TxInv, TxOk, LockInv, AtInv, Open, Idle
<1>3. RevInv
  BY <1>1, NoRevisions DEF RevInv, Idle
<1> QED BY <1>2, <1>3, TypeInit DEF HistoryInv

LEMMA HistorySafety == Spec => []HistoryInv
<1>1. HistoryInv /\ [Next]_vars => HistoryInv'
  BY TypeStep, TxStep, LockStep, AtStep, RevStep DEF HistoryInv
<1> QED BY <1>1, HistoryInit, PTL DEF Spec

-----------------------------------------------------------------------------
(* Which revisions there are. *)

LEMMA Positioned ==
  ASSUME NEW rows \in Seq(Row), NEW i \in DOMAIN rows, NEW f \in {"rank", "score"}
  PROVE  [rank |-> i, score |-> rows[i].score][f] \in Value(rows, rows[i].who, f)
<1> DEFINE z == [who |-> rows[i].who, rank |-> i, score |-> rows[i].score]
<1>1. z \in Positions(rows) /\ z.who = rows[i].who
  BY DEF Positions
<1>2. z[f] = [rank |-> i, score |-> rows[i].score][f]
  OBVIOUS
<1> HIDE DEF z
<1> QED BY <1>1, <1>2 DEF Value

\* A revision in hand compares the answer with the newest snapshot of its fixed week.
LEMMA RevisionInHand ==
  ASSUME HistoryInv, NEW s \in Slots, NEW q \in tx[s].entryRevs
  PROVE  LET t == tx[s]
             x == Newest(SnapshotsOf(t.key))
         IN  /\ q.key = t.key /\ q.by = t.at /\ q.old # q.new
             /\ t.fresh /\ t.key \in ListKeys /\ t.label # 0
             /\ x \in SnapshotsOf(t.key)
             /\ q.old \in Value(x.rows, q.who, q.field) /\ q.new \in Value(t.rows, q.who, q.field)
<1> DEFINE t == tx[s]
           x == Newest(SnapshotsOf(t.key))
<1>0. t \in TxType /\ TxOk(t) /\ RevOk(t, SnapshotsOf(t.key))
  BY DEF HistoryInv, TypeInv, TxInv, RevInv
<1>1. PICK i \in 1..(t.next - 1) : q \in EntryRevisions(t, i)
  BY <1>0 DEF RevOk
<1>2. PICK y \in Positions(t.prior), f \in {"rank", "score"} :
        /\ q = EntryRevisionOf(t, i, y, f)
        /\ q.who = t.rows[i].who /\ q.old # q.new
  BY <1>1, IsEntryRevision
<1>3. t.prior # <<>>
  BY DEF Positions
<1>4. /\ t.fresh /\ t.key \in ListKeys /\ t.label # 0 /\ SnapshotsOf(t.key) # {}
      /\ t.prior = x.rows
  BY <1>0, <1>3 DEF RevOk, PriorIn, Fixed
<1>5. x \in SnapshotsOf(t.key)
  BY <1>4, NewestOfWeek DEF HistoryInv
<1>6. t.next \in Nat /\ t.rows \in Seq(Row) /\ t.pc \in Pcs
  BY <1>0 DEF TxType
<1>7. i \in DOMAIN t.rows
  <2>1. t.next <= Len(t.rows) + 1
    BY <1>0, <1>4, <1>6 DEF TxOk, Pcs
  <2> QED BY <1>6, <2>1
<1>8. /\ q.key = t.key /\ q.by = t.at /\ q.who = y.who /\ q.field = f /\ q.old = y[f]
      /\ q.new = [rank |-> i, score |-> t.rows[i].score][f]
  BY <1>2 DEF EntryRevisionOf
<1>9. q.old \in Value(t.prior, q.who, q.field)
  BY <1>8 DEF Value
<1>10. q.new \in Value(t.rows, q.who, q.field)
  BY <1>2, <1>6, <1>7, <1>8, Positioned
<1> QED BY <1>2, <1>4, <1>5, <1>8, <1>9, <1>10

\* What a committing transaction adds.
LEMMA Committed ==
  ASSUME HistoryInv, NEW s \in Slots, Commit(s)
  PROVE  /\ entryRevisions' = entryRevisions \cup tx[s].entryRevs
         /\ snaps \subseteq snaps'
         /\ tx[s].fresh => /\ NewSnap(tx[s]) \in snaps'
                           /\ NewSnap(tx[s]).key = tx[s].key
                           /\ NewSnap(tx[s]).at = tx[s].at
                           /\ NewSnap(tx[s]).label = tx[s].label
                           /\ NewSnap(tx[s]).rows = tx[s].rows
<1> DEFINE n == NewSnap(tx[s])
<1>1. /\ entryRevisions' = entryRevisions \cup tx[s].entryRevs
      /\ snaps' = snaps \cup (IF tx[s].fresh THEN {n} ELSE {})
  BY CommitTx DEF HistoryInv
<1>2. n.key = tx[s].key /\ n.at = tx[s].at /\ n.label = tx[s].label /\ n.rows = tx[s].rows
  BY DEF NewSnap
<1> HIDE DEF n
<1>3. tx[s].fresh => n \in snaps'
  BY <1>1
<1>4. snaps \subseteq snaps'
  BY <1>1
<1> QED BY <1>1, <1>2, <1>3, <1>4 DEF n

\* Nothing but a commit adds revisions or snapshots.
LEMMA OnlyCommits ==
  ASSUME HistoryInv, [Next]_vars
  PROVE  \/ entryRevisions' = entryRevisions /\ snaps' = snaps
         \/ \E s \in Slots : Commit(s)
BY Kinds DEF HistoryInv, Passes, Works, Receive, tables

\* Every revision of an entry joins two committed snapshots of its fixed week that differ
\* in the field, the new one of the revision's own ingestion: for any number of workers,
\* lanes and faults, no revision outlives its transaction.
THEOREM RevisionsHaveSnapshots == Spec => []RevisionsAreReal
<1>1. Init => RevisionsAreReal
  BY DEF Init, RevisionsAreReal
<1>2. HistoryInv /\ RevisionsAreReal /\ [Next]_vars => RevisionsAreReal'
  <2> SUFFICES ASSUME HistoryInv, RevisionsAreReal, [Next]_vars,
                      NEW q \in entryRevisions'
               PROVE  \E x, y \in SnapshotsOf(q.key)' :
                        /\ y.at = q.by /\ y.label # 0
                        /\ q.old \in Value(x.rows, q.who, q.field)
                        /\ q.new \in Value(y.rows, q.who, q.field)
                        /\ q.old # q.new
    BY DEF RevisionsAreReal
  <2>1. CASE q \in entryRevisions /\ snaps \subseteq snaps'
    <3>1. SnapshotsOf(q.key) \subseteq SnapshotsOf(q.key)'
      BY <2>1 DEF SnapshotsOf
    <3> QED BY <2>1, <3>1 DEF RevisionsAreReal
  <2>2. ASSUME NEW s \in Slots, Commit(s), q \in tx[s].entryRevs
        PROVE  \E x, y \in SnapshotsOf(q.key)' :
                 /\ y.at = q.by /\ y.label # 0
                 /\ q.old \in Value(x.rows, q.who, q.field)
                 /\ q.new \in Value(y.rows, q.who, q.field)
                 /\ q.old # q.new
    <3> DEFINE x == Newest(SnapshotsOf(tx[s].key))
    <3>1. /\ q.key = tx[s].key /\ q.by = tx[s].at /\ q.old # q.new /\ tx[s].fresh
          /\ tx[s].label # 0 /\ x \in SnapshotsOf(tx[s].key)
          /\ q.old \in Value(x.rows, q.who, q.field)
          /\ q.new \in Value(tx[s].rows, q.who, q.field)
      BY <2>2, RevisionInHand
    <3>2. x \in SnapshotsOf(q.key)'
      BY <2>2, <3>1, Committed DEF SnapshotsOf
    <3> DEFINE y == NewSnap(tx[s])
    <3>3. /\ y \in snaps' /\ y.key = tx[s].key /\ y.at = tx[s].at
          /\ y.label = tx[s].label /\ y.rows = tx[s].rows
      BY <2>2, <3>1, Committed
    <3> HIDE DEF x, y
    <3>4. y \in SnapshotsOf(q.key)'
      BY <3>1, <3>3 DEF SnapshotsOf
    <3> QED BY <3>1, <3>2, <3>3, <3>4
  <2> QED BY <2>1, <2>2, OnlyCommits, Committed
<1> QED BY <1>1, <1>2, HistorySafety, PTL DEF Spec

\* A fixed week's answer at its commit has a revision of whatever differs from the newest
\* snapshot there is.
LEMMA ChangeInHand ==
  ASSUME HistoryInv, NEW s \in Slots, tx[s].pc = "commit", tx[s].fresh, tx[s].label # 0,
         NEW x \in SnapshotsOf(tx[s].key), \A z \in SnapshotsOf(tx[s].key) : z.at <= x.at,
         NEW p, NEW f \in {"rank", "score"},
         NEW old \in Value(x.rows, p, f), NEW new \in Value(tx[s].rows, p, f), old # new
  PROVE  [key |-> tx[s].key, who |-> p, field |-> f, old |-> old, new |-> new, by |-> tx[s].at]
           \in tx[s].entryRevs
<1> DEFINE t == tx[s]
           S == SnapshotsOf(t.key)
<1>0. t \in TxType /\ TxOk(t) /\ RevOk(t, S) /\ TypeInv /\ AtInv
  BY DEF HistoryInv, TypeInv, TxInv, RevInv
<1>1. t.key \in ListKeys /\ t.key[1] \in Lists
  BY <1>0, KeyFacts DEF TxOk
<1>2. Newest(S) \in S /\ \A y \in S : y.at <= Newest(S).at
  BY <1>0, NewestOfWeek
<1>3. x = Newest(S)
  <2>1. x.at \in Nat /\ Newest(S).at \in Nat /\ x \in snaps /\ Newest(S) \in snaps
    BY <1>0, <1>2 DEF TypeInv, SnapType, SnapshotsOf
  <2>2. x.at = Newest(S).at
    BY <1>2, <2>1
  <2> QED BY <1>0, <2>1, <2>2 DEF AtInv
<1>4. t.prior = x.rows
  BY <1>0, <1>1, <1>3 DEF RevOk, PriorIn, Fixed
<1>5. PICK y \in Positions(t.prior) : y.who = p /\ y[f] = old
  BY <1>4 DEF Value
<1>6. PICK z \in Positions(t.rows) : z.who = p /\ z[f] = new
  BY DEF Value
<1>7. PICK i \in DOMAIN t.rows :
        z = [who |-> t.rows[i].who, rank |-> i, score |-> t.rows[i].score]
  BY DEF Positions
<1>8. i \in 1..(t.next - 1)
  <2>1. t.next = Len(t.rows) + 1 /\ t.rows \in Seq(Row)
    BY <1>0 DEF TxOk, TxType
  <2> QED BY <2>1
<1>9. new = [rank |-> i, score |-> t.rows[i].score][f] /\ t.rows[i].who = p
  BY <1>6, <1>7
<1> DEFINE q == [key |-> t.key, who |-> p, field |-> f, old |-> old, new |-> new, by |-> t.at]
<1>10. q = EntryRevisionOf(t, i, y, f)
  BY <1>5, <1>9 DEF EntryRevisionOf
<1>11. q.who = t.rows[i].who /\ q.old # q.new
  BY <1>9
<1>12. q \in EntryRevisions(t, i)
  BY <1>10, <1>11, IsEntryRevision
<1> HIDE DEF q
<1>13. q \in t.entryRevs
  BY <1>0, <1>8, <1>12 DEF RevOk
<1> QED BY <1>13 DEF q

\* A correction of a fixed week is never committed without its revisions: whichever lane
\* or worker committed the newest snapshot of the week, the one that changes it has
\* compared with it.
THEOREM CorrectionsAreRevised == Spec => FixedChangesAreRevised
<1> DEFINE Revised ==
             \A y \in snaps' \ snaps, x \in snaps :
               y.label # 0 /\ x.key = y.key /\ (\A z \in SnapshotsOf(x.key) : z.at <= x.at)
               => \A p \in People, f \in {"rank", "score"} :
                    \A old \in Value(x.rows, p, f), new \in Value(y.rows, p, f) :
                      old # new => [key |-> y.key, who |-> p, field |-> f, old |-> old,
                                    new |-> new, by |-> y.at] \in entryRevisions'
<1>1. HistoryInv /\ [Next]_vars => [Revised]_vars
  <2> SUFFICES ASSUME HistoryInv, [Next]_vars PROVE Revised
    OBVIOUS
  <2>1. CASE snaps' = snaps
    BY <2>1
  <2>2. ASSUME NEW s \in Slots, Commit(s) PROVE Revised
    <3> DEFINE t == tx[s]
               n == NewSnap(t)
    <3>1. /\ t.pc = "commit" /\ entryRevisions' = entryRevisions \cup t.entryRevs
          /\ snaps' = snaps \cup (IF t.fresh THEN {n} ELSE {})
      BY <2>2, CommitTx DEF HistoryInv
    <3>2. n.key = t.key /\ n.at = t.at /\ n.label = t.label /\ n.rows = t.rows
      BY DEF NewSnap
    <3>3. SUFFICES ASSUME NEW y \in snaps' \ snaps, NEW x \in snaps,
                          y.label # 0, x.key = y.key, \A z \in SnapshotsOf(x.key) : z.at <= x.at,
                          NEW p \in People, NEW f \in {"rank", "score"},
                          NEW old \in Value(x.rows, p, f), NEW new \in Value(y.rows, p, f), old # new
                   PROVE  [key |-> y.key, who |-> p, field |-> f, old |-> old,
                           new |-> new, by |-> y.at] \in entryRevisions'
      OBVIOUS
    <3>4. t.fresh /\ y = n
      BY <3>1
    <3> HIDE DEF n, t
    <3>5. x \in SnapshotsOf(t.key) /\ t.label # 0 /\ new \in Value(t.rows, p, f)
      BY <3>2, <3>3, <3>4 DEF SnapshotsOf
    <3>6. [key |-> t.key, who |-> p, field |-> f, old |-> old, new |-> new, by |-> t.at]
            \in t.entryRevs
      <4>1. t.key = x.key
        BY <3>2, <3>3, <3>4
      <4> QED BY <3>1, <3>3, <3>4, <3>5, <4>1, ChangeInHand DEF t
    <3> QED BY <3>1, <3>2, <3>4, <3>6
  <2> QED BY <2>1, <2>2, OnlyCommits
<1> QED BY <1>1, HistorySafety, PTL DEF Spec, FixedChangesAreRevised

-----------------------------------------------------------------------------
(* The order of answers. *)

\* An open transaction's answer about a board.
LEMMA OpenBoard ==
  ASSUME TypeInv, TxInv, NEW s \in Slots, Open(s)
  PROVE  /\ tx[s].key \in Keys /\ tx[s].item = <<tx[s].key[1], tx[s].label>>
         /\ tx[s].label \in Nat /\ tx[s].at \in Nat
         /\ tx[s].key \in ListKeys => tx[s].key[2] \in Nat /\ Observed(tx[s]) \in Nat
<1>1. tx[s] \in TxType /\ TxOk(tx[s])
  BY DEF TypeInv, TxInv
<1>2. tx[s].item \in Items /\ tx[s].key \in Keys /\ tx[s].key[1] = tx[s].item[1]
      /\ tx[s].label = tx[s].item[2]
  BY <1>1 DEF TxOk, Open
<1>3. tx[s].label \in Nat /\ tx[s].at \in Nat
  BY <1>1, KeyFacts DEF TxType
<1> QED BY <1>2, <1>3, KeyFacts DEF Observed

LEMMA SnapFacts ==
  ASSUME TypeInv, NEW x \in snaps
  PROVE  /\ x.key \in Keys /\ x.label \in Nat /\ x.at \in Nat
         /\ x.key \in ListKeys => x.key[2] \in Nat /\ Observed(x) \in Nat
BY KeyFacts DEF TypeInv, SnapType, Observed

LEMMA RunStep ==
  ASSUME TypeInv, TxInv, RunInv, [Next]_vars
  PROVE  RunInv'
<1>0. Idle.pc = "idle" /\ \A s \in Slots : s[1] \in Workers
  BY DEF Idle, Slots
<1>1. CASE Passes
  <2>1. ASSUME NEW s \in Slots, tx'[s].pc # "idle" PROVE tx'[s] = tx[s] /\ Open(s)
    BY <1>0, <1>1, <2>1 DEF Passes, Open
  <2>2. ASSUME NEW s \in Slots, tx'[s].pc # "idle" PROVE todo'[s[1]] \subseteq todo[s[1]]
    BY <1>0, <1>1, <2>1, <2>2 DEF Passes
  <2> QED BY <2>1, <2>2 DEF RunInv, Open
<1>2. ASSUME NEW s \in Slots, Commit(s) PROVE RunInv'
  <2>1. tx'[s].pc = "idle" /\ todo' = todo /\ \A r \in Slots : r # s => tx'[r] = tx[r]
    BY <1>0, <1>2, CommitTx DEF Others
  <2> QED BY <2>1 DEF RunInv, Open
<1>3. ASSUME NEW s \in Slots, NEW m \in Items, Receive(s, m) PROVE RunInv'
  <2>1. tx'[s].item = m /\ \A r \in Slots : r # s => tx'[r] = tx[r]
    BY <1>3, ReceiveTx DEF Others
  <2>2. m \in todo[s[1]] /\ todo' = [todo EXCEPT ![s[1]] = @ \ {m}]
    BY <1>3 DEF Receive
  <2>3. \A w \in Workers : todo'[w] \subseteq todo[w] /\ m \notin todo'[s[1]]
    BY <1>0, <2>2 DEF TypeInv
  <2> QED BY <1>0, <2>1, <2>2, <2>3 DEF RunInv, Open
<1>4. ASSUME NEW s \in Slots, Works(s) PROVE RunInv'
  BY <1>4 DEF Works, Others, Keeps, RunInv, Open
<1> QED BY <1>1, <1>2, <1>3, <1>4, Kinds

LEMMA WeekStep ==
  ASSUME TypeInv, TxInv, AtInv, WeekInv, [Next]_vars
  PROVE  WeekInv'
<1>0. /\ Idle.pc = "idle" /\ week \in Nat /\ polls \in Nat
      /\ \A x \in snaps : x.at \in Nat /\ x.at <= polls /\ (x.key \in ListKeys => Observed(x) \in Nat)
      /\ \A s \in Slots : Open(s) => /\ tx[s].at \in Nat /\ tx[s].at <= polls
                                     /\ tx[s].key \in ListKeys => Observed(tx[s]) \in Nat
  BY SnapFacts, OpenBoard, KeyFacts DEF Idle, TypeInv, AtInv
<1>1. CASE Passes
  <2>1. snaps' = snaps /\ week' \in Nat /\ week <= week'
    BY <1>0, <1>1 DEF Passes, tables
  <2>2. ASSUME NEW s \in Slots, tx'[s].pc # "idle" PROVE tx'[s] = tx[s] /\ Open(s)
    BY <1>0, <1>1, <2>2 DEF Passes, Open
  <2> QED BY <1>0, <2>1, <2>2 DEF WeekInv, Open, Observed
<1>2. ASSUME NEW s \in Slots, Commit(s) PROVE WeekInv'
  <2> DEFINE n == NewSnap(tx[s])
  <2>1. /\ Open(s) /\ n.key = tx[s].key /\ n.at = tx[s].at /\ n.label = tx[s].label
        /\ Observed(n) = Observed(tx[s])
    BY <1>2, CommitTx DEF NewSnap, Open, Observed
  <2>2. snaps' = snaps \/ snaps' = snaps \cup {n}
    BY <1>2, CommitTx
  <2>3. /\ week' = week /\ tx'[s].pc = "idle" /\ \A r \in Slots : r # s => tx'[r] = tx[r]
    BY <1>0, <1>2, CommitTx DEF Others
  <2> HIDE DEF n
  <2>4. \A x \in snaps' : x.key \in ListKeys =>
          /\ Observed(x) <= week
          /\ \A y \in snaps' : y.key \in ListKeys /\ y.at < x.at => Observed(y) <= Observed(x)
    BY <1>0, <2>1, <2>2 DEF WeekInv
  <2>5. ASSUME NEW r \in Slots, r # s, Open(r), tx[r].key \in ListKeys, NEW x \in snaps',
               x.key \in ListKeys
        PROVE  /\ x.at < tx[r].at => Observed(x) <= Observed(tx[r])
               /\ x.at > tx[r].at => Observed(tx[r]) <= Observed(x)
    <3>1. CASE x \in snaps
      BY <2>5, <3>1 DEF WeekInv
    <3>2. CASE x = n
      BY <1>0, <2>1, <2>5, <3>2 DEF WeekInv
    <3> QED BY <2>2, <3>1, <3>2
  <2> QED BY <2>3, <2>4, <2>5 DEF WeekInv, Open, Observed
<1>3. ASSUME NEW s \in Slots, NEW m \in Items, Receive(s, m) PROVE WeekInv'
  <2>1. tx'[s].at = polls + 1 /\ \A r \in Slots : r # s => tx'[r] = tx[r]
    BY <1>3, ReceiveTx DEF Others
  <2>2. tx'[s].key \in ListKeys => Observed(tx'[s]) = week
    BY <1>3, ReceivedBoards
  <2>3. snaps' = snaps /\ week' = week
    BY <1>3 DEF Receive, tables, game
  <2>4. ASSUME tx'[s].key \in ListKeys
        PROVE  /\ \A x \in snaps : x.key \in ListKeys =>
                    x.at < tx'[s].at /\ Observed(x) <= Observed(tx'[s])
               /\ \A r \in Slots : r # s /\ Open(r) =>
                    /\ tx[r].at < tx'[s].at
                    /\ tx[r].key \in ListKeys => Observed(tx[r]) <= Observed(tx'[s])
    BY <1>0, <2>1, <2>2, <2>4 DEF WeekInv
  <2>5. Observed(tx[s])' = Observed(tx'[s])
    BY DEF Observed
  <2>6. ASSUME NEW r \in Slots, Open(r)', tx'[r].key \in ListKeys
        PROVE  /\ Observed(tx'[r]) <= week
               /\ \A x \in snaps : x.key \in ListKeys =>
                    /\ x.at < tx'[r].at => Observed(x) <= Observed(tx'[r])
                    /\ x.at > tx'[r].at => Observed(tx'[r]) <= Observed(x)
               /\ \A q \in Slots : Open(q)' /\ tx'[q].key \in ListKeys /\ tx'[q].at < tx'[r].at =>
                    Observed(tx'[q]) <= Observed(tx'[r])
    <3>1. CASE r = s
      BY <1>0, <2>1, <2>2, <2>4, <2>6, <3>1 DEF Open
    <3>2. CASE r # s
      <4>1. tx'[r] = tx[r] /\ Open(r)
        BY <2>1, <2>6, <3>2 DEF Open
      <4>2. ASSUME NEW q \in Slots, Open(q)', tx'[q].key \in ListKeys, tx'[q].at < tx'[r].at
            PROVE  q # s
        BY <1>0, <2>1, <4>1, <4>2
      <4> QED BY <2>1, <2>6, <4>1, <4>2 DEF WeekInv, Open
    <3> QED BY <3>1, <3>2
  <2> QED BY <2>3, <2>6 DEF WeekInv, Open, Observed
<1>4. ASSUME NEW s \in Slots, Works(s) PROVE WeekInv'
  <2>1. snaps' = snaps /\ week' = week
    BY <1>4 DEF Works, tables
  <2>2. ASSUME NEW r \in Slots, Open(r)'
        PROVE  Open(r) /\ tx'[r].key = tx[r].key /\ tx'[r].at = tx[r].at
               /\ tx'[r].label = tx[r].label
    BY <1>4, <2>2 DEF Works, Others, Keeps, Open
  <2> QED BY <2>1, <2>2 DEF WeekInv, Open, Observed
<1> QED BY <1>1, <1>2, <1>3, <1>4, Kinds

LEMMA LateStep ==
  ASSUME OneWorker, TypeInv, TxInv, AtInv, RunInv, LateInv, [Next]_vars
  PROVE  LateInv'
<1>0. Idle.pc = "idle" /\ polls \in Nat /\ \A x \in snaps : x.at \in Nat /\ x.at <= polls
  BY SnapFacts DEF Idle, TypeInv, AtInv
<1>1. CASE Passes
  <2>1. snaps' = snaps /\ period' = period
    BY <1>1 DEF Passes, tables
  <2>2. ASSUME NEW s \in Slots, tx'[s].pc # "idle" PROVE tx'[s] = tx[s] /\ Open(s)
    BY <1>0, <1>1, <2>2 DEF Passes, Open
  <2> QED BY <2>1, <2>2 DEF LateInv, Open
<1>2. ASSUME NEW s \in Slots, Commit(s) PROVE LateInv'
  <2> DEFINE n == NewSnap(tx[s])
  <2>1. Open(s) /\ n.key = tx[s].key /\ n.at = tx[s].at /\ n.label = tx[s].label
    BY <1>2, CommitTx DEF NewSnap, Open
  <2>2. snaps' = snaps \/ snaps' = snaps \cup {n}
    BY <1>2, CommitTx
  <2>3. /\ tx'[s].pc = "idle" /\ \A r \in Slots : r # s => tx'[r] = tx[r]
    BY <1>0, <1>2, CommitTx DEF Others
  <2> HIDE DEF n
  <2>4. ASSUME NEW r \in Slots, r # s, Open(r), tx[r].key \in ListKeys,
               tx[r].key[1] = tx[s].key[1]
        PROVE  tx[r].label # tx[s].label
    <3>1. r[1] = s[1]
      BY DEF OneWorker, Slots
    <3>2. tx[r].item # tx[s].item
      BY <2>1, <2>4, <3>1 DEF RunInv
    <3> QED BY <2>1, <2>4, <3>2, OpenBoard
  <2>5. ASSUME NEW r \in Slots, r # s, Open(r), tx[r].key \in ListKeys, NEW x \in snaps',
               x.key \in ListKeys, x.key[1] = tx[r].key[1], x.at > tx[r].at
        PROVE  x.label # tx[r].label
    BY <2>1, <2>2, <2>3, <2>4, <2>5 DEF LateInv
  <2> QED BY <2>3, <2>5 DEF LateInv, Open
<1>3. ASSUME NEW s \in Slots, NEW m \in Items, Receive(s, m) PROVE LateInv'
  <2>1. tx'[s].at = polls + 1 /\ \A r \in Slots : r # s => tx'[r] = tx[r]
    BY <1>3, ReceiveTx DEF Others
  <2>2. snaps' = snaps /\ period' = period
    BY <1>3 DEF Receive, tables
  <2> QED BY <1>0, <2>1, <2>2 DEF LateInv, Open
<1>4. ASSUME NEW s \in Slots, Works(s) PROVE LateInv'
  BY <1>4 DEF Works, Others, Keeps, LateInv, Open, tables
<1> QED BY <1>1, <1>2, <1>3, <1>4, Kinds

LEMMA StoredStep ==
  ASSUME TypeInv, TxInv, StoredInv, [Next]_vars
  PROVE  StoredInv'
<1>0. Idle.pc = "idle"
  BY DEF Idle
<1>1. CASE Passes
  BY <1>0, <1>1 DEF Passes, StoredInv, tables
<1>2. ASSUME NEW s \in Slots, Commit(s) PROVE StoredInv'
  <2>1. snaps \subseteq snaps' /\ tx'[s].pc = "idle" /\ \A r \in Slots : r # s => tx'[r] = tx[r]
    BY <1>0, <1>2, CommitTx DEF Others
  <2> QED BY <2>1 DEF StoredInv
<1>3. ASSUME NEW s \in Slots, NEW m \in Items, Receive(s, m) PROVE StoredInv'
  <2>1. tx'[s].pc # "commit" /\ \A r \in Slots : r # s => tx'[r] = tx[r]
    BY <1>3, ReceiveTx DEF Others
  <2>2. snaps' = snaps
    BY <1>3 DEF Receive, tables
  <2> QED BY <2>1, <2>2 DEF StoredInv
<1>4. ASSUME NEW s \in Slots, Statement(s), ~Commit(s) PROVE StoredInv'
  <2>1. snaps' = snaps
    BY <1>4 DEF Statement, LockPeriod, Snapshot, RegistrySnapshot, ReadPerson, Upsert, tables
  <2>2. \A r \in Slots : r # s => tx'[r] = tx[r]
    BY <1>4, LockTx, SnapshotTx, ReadTx, UpsertTx DEF Statement, Others
  <2>3. tx'[s].key = tx[s].key /\ tx'[s].label = tx[s].label
    BY <1>4, LockTx, SnapshotTx, ReadTx, UpsertTx DEF Statement, Keeps
  <2>4. tx'[s].pc = "commit" /\ ~tx'[s].fresh =>
          \E x \in snaps : x.key = tx[s].key /\ x.label = tx[s].label
    <3>1. CASE LockPeriod(s) \/ ReadPerson(s)
      BY <3>1, LockTx, ReadTx
    <3>2. CASE Snapshot(s) \/ RegistrySnapshot(s)
      BY <3>2, SnapshotTx DEF Stored, SnapshotsOf
    <3>3. CASE Upsert(s)
      BY <3>3, UpsertTx DEF TxInv, TxOk
    <3> QED BY <1>4, <3>1, <3>2, <3>3 DEF Statement
  <2> QED BY <2>1, <2>2, <2>3, <2>4 DEF StoredInv
<1> QED BY <1>1, <1>2, <1>3, <1>4, KindsOfStatements

LEMMA SeenStep ==
  ASSUME TypeInv, TxInv, StoredInv, SeenInv, [Next]_vars
  PROVE  SeenInv'
<1>1. CASE snaps' = snaps /\ period' = period /\ seen' = seen
  BY <1>1 DEF SeenInv
<1>2. ASSUME NEW s \in Slots, Commit(s) PROVE SeenInv'
  <2> DEFINE t == tx[s]
             n == NewSnap(t)
  <2>1. /\ Open(s) /\ t.pc = "commit" /\ n.key = t.key /\ n.label = t.label
    BY <1>2, CommitTx DEF NewSnap, Open
  <2>2. snaps' = snaps \cup (IF t.fresh THEN {n} ELSE {})
    BY <1>2, CommitTx
  <2>3. \A k \in PeriodKeys :
          period'[k] = IF t.key \in ListKeys /\ k = PeriodOf(t.key) THEN t.label ELSE period[k]
    BY <1>2, CommitTx
  <2>4. \A k \in Keys : seen'[k] = seen[k] \/ (k = t.key /\ seen'[k].label = t.label)
    BY <1>2, CommitTx
  <2>5. t.label \in Nat /\ \A x \in snaps' : x.key \in Keys
    BY <1>2, <2>1, OpenBoard, CommitTx DEF TypeInv, SnapType
  <2> HIDE DEF n, t
  <2>6. \E x \in snaps' : x.key = t.key /\ x.label = t.label
    <3>1. CASE t.fresh
      BY <2>1, <2>2, <3>1
    <3>2. CASE ~t.fresh
      BY <2>1, <2>2, <3>2 DEF StoredInv, t
    <3> QED BY <3>1, <3>2
  <2>7. ASSUME NEW k \in ListKeys, seen'[k].at > 0
        PROVE  \E x \in snaps' : x.key = k /\ x.label = seen'[k].label
    <3>1. CASE seen'[k] = seen[k]
      BY <2>2, <2>7, <3>1 DEF SeenInv
    <3>2. CASE k = t.key /\ seen'[k].label = t.label
      BY <2>6, <3>2
    <3> QED BY <2>4, <3>1, <3>2, KeyFacts
  <2>8. ASSUME NEW x \in snaps', x.key \in ListKeys PROVE period'[PeriodOf(x.key)] # NoRow
    <3>1. PeriodOf(x.key) \in PeriodKeys
      BY <2>5, <2>8, KeyFacts
    <3>2. x \in snaps \/ x.key = t.key
      BY <2>1, <2>2
    <3>3. CASE t.key \in ListKeys /\ PeriodOf(x.key) = PeriodOf(t.key)
      BY <2>3, <2>5, <3>1, <3>3 DEF NoRow
    <3>4. CASE ~(t.key \in ListKeys /\ PeriodOf(x.key) = PeriodOf(t.key))
      BY <2>3, <2>8, <3>1, <3>2, <3>4 DEF SeenInv
    <3> QED BY <3>3, <3>4
  <2> QED BY <2>7, <2>8 DEF SeenInv
<1>3. (snaps' = snaps /\ period' = period /\ seen' = seen) \/ \E s \in Slots : Commit(s)
  BY Kinds DEF Passes, Works, Receive, tables
<1> QED BY <1>1, <1>2, <1>3

LEMMA OrderInit == Init => ReaderInv /\ OrderInv
<1> SUFFICES ASSUME Init PROVE ReaderInv /\ OrderInv
  OBVIOUS
<1>1. snaps = {} /\ (\A s \in Slots : ~Open(s)) /\ \A k \in ListKeys : seen[k].at = 0
  BY KeyFacts DEF Init, Open, Idle, Nothing
<1>2. StoredInv
  BY <1>1 DEF StoredInv, Open
<1> QED BY <1>1, <1>2 DEF OrderInv, ReaderInv, RunInv, WeekInv, LateInv, SeenInv

LEMMA ReaderSafety == Spec => [](HistoryInv /\ ReaderInv)
<1>1. HistoryInv /\ ReaderInv /\ [Next]_vars => ReaderInv'
  BY WeekStep, StoredStep, SeenStep DEF HistoryInv, ReaderInv
<1> QED BY <1>1, HistorySafety, OrderInit, PTL DEF Spec

LEMMA OrderSafety ==
  ASSUME OneWorker
  PROVE  Spec => []OrderInv
<1>1. HistoryInv /\ OrderInv /\ [Next]_vars => OrderInv'
  BY RunStep, LateStep DEF HistoryInv, OrderInv
<1> QED BY <1>1, HistorySafety, OrderInit, PTL DEF Spec

-----------------------------------------------------------------------------
(* What revisions and readers see. *)

\* With one worker, a revision's old value was observed before the new one, or under a
\* later label: the answer that was overtaken tells of the week before its week moved on.
THEOREM RevisionsAreOrdered ==
  ASSUME OneWorker
  PROVE  Spec => []RevisionsGoForward
<1>1. Init => RevisionsGoForward
  BY DEF Init, RevisionsGoForward
<1>2. HistoryInv /\ ReaderInv /\ OrderInv /\ RevisionsGoForward /\ [Next]_vars
        => RevisionsGoForward'
  <2> SUFFICES ASSUME HistoryInv, ReaderInv, OrderInv, RevisionsGoForward, [Next]_vars,
                      NEW q \in entryRevisions'
               PROVE  \E x, y \in SnapshotsOf(q.key)' :
                        /\ y.at = q.by /\ q.old \in Value(x.rows, q.who, q.field)
                        /\ x.at < y.at \/ x.label > y.label
    BY DEF RevisionsGoForward
  <2>1. CASE q \in entryRevisions /\ snaps \subseteq snaps'
    <3>1. SnapshotsOf(q.key) \subseteq SnapshotsOf(q.key)'
      BY <2>1 DEF SnapshotsOf
    <3> QED BY <2>1, <3>1 DEF RevisionsGoForward
  <2>2. ASSUME NEW s \in Slots, Commit(s), q \in tx[s].entryRevs
        PROVE  \E x, y \in SnapshotsOf(q.key)' :
                 /\ y.at = q.by /\ q.old \in Value(x.rows, q.who, q.field)
                 /\ x.at < y.at \/ x.label > y.label
    <3> DEFINE t == tx[s]
               x == Newest(SnapshotsOf(t.key))
               y == NewSnap(t)
    <3>1. /\ q.key = t.key /\ q.by = t.at /\ t.fresh /\ t.key \in ListKeys
          /\ x \in SnapshotsOf(t.key) /\ q.old \in Value(x.rows, q.who, q.field)
      BY <2>2, RevisionInHand
    <3>2. /\ y \in snaps' /\ y.key = t.key /\ y.at = t.at /\ y.label = t.label
          /\ snaps \subseteq snaps'
      BY <2>2, <3>1, Committed
    <3>3. Open(s) /\ TypeInv /\ TxInv /\ AtInv /\ WeekInv /\ LateInv
      BY <2>2 DEF Commit, Open, HistoryInv, ReaderInv, OrderInv
    <3> HIDE DEF y, x
    <3>4. x \in snaps /\ x.key = t.key
      BY <3>1 DEF SnapshotsOf
    <3>5. /\ x.at \in Nat /\ x.label \in Nat /\ t.at \in Nat /\ t.label \in Nat
          /\ t.key[2] \in Nat /\ x.at # t.at
      BY <3>1, <3>3, <3>4, SnapFacts, OpenBoard DEF AtInv
    <3>6. x.at > t.at => x.label > t.label
      <4>1. ASSUME x.at > t.at PROVE x.label # t.label /\ Observed(t) <= Observed(x)
        BY <3>1, <3>3, <3>4, <4>1 DEF LateInv, WeekInv
      <4> HIDE DEF t
      <4> QED BY <3>4, <3>5, <4>1 DEF Observed
    <3>7. x \in SnapshotsOf(q.key)' /\ y \in SnapshotsOf(q.key)'
      BY <3>1, <3>2, <3>4 DEF SnapshotsOf
    <3> HIDE DEF t
    <3> QED BY <3>1, <3>2, <3>5, <3>6, <3>7
  <2> QED BY <2>1, <2>2, OnlyCommits, Committed
<1> QED BY <1>1, <1>2, ReaderSafety, OrderSafety, PTL DEF Spec

\* Once the served weeks of a board bear their labels, whichever subject's answers
\* relabelled them, the reader of a list is shown the week asked for if the list's own
\* answer under that label is archived: for any number of workers, whatever the others
\* of the board's lists have or lack, and whatever old weeks keep the label.
THEOREM ReadersAreShownTheirWeek == Spec => []ReadersGetTheirWeek
<1>1. HistoryInv /\ ReaderInv => ReadersGetTheirWeek
  <2> SUFFICES ASSUME HistoryInv, ReaderInv, NEW f \in Lists, NEW l \in Labels,
                      LabelsAreCurrent(f[1]),
                      seen[<<f, week - l>>].at > 0, seen[<<f, week - l>>].label = l
               PROVE  Labelled(f, l) # {} /\ Shown(f, l).key = <<f, week - l>>
    BY DEF ReadersGetTheirWeek
  <2> DEFINE k == <<f, week - l>>
             L == Labelled(f, l)
             y == Shown(f, l)
  <2>0. TypeInv /\ AtInv /\ WeekInv /\ SeenInv /\ week \in Nat /\ l \in Nat /\ l <= Periods - 1
    BY KeyFacts, HistoryAssumption DEF HistoryInv, ReaderInv, TypeInv, Labels
  <2>1. k \in ListKeys /\ k \in Keys /\ k[1] = f /\ k[2] = week - l
    BY <2>0, HistoryAssumption DEF TypeInv, ListKeys, Keys, Weeks
  <2>2. PICK x \in snaps : x.key = k /\ x.label = l
    BY <2>0, <2>1 DEF SeenInv
  <2>3. period[PeriodOf(k)] = l
    <3>1. PeriodOf(k) = <<f[1], week - l>>
      BY DEF PeriodOf
    <3>2. period[PeriodOf(k)] # NoRow
      BY <2>0, <2>1, <2>2 DEF SeenInv
    <3> QED BY <3>1, <3>2 DEF LabelsAreCurrent
  <2>4. x \in L
    BY <2>1, <2>2, <2>3 DEF Labelled
  <2>5. \A z \in L : z \in snaps /\ z.key \in ListKeys /\ z.key[1] = f /\ period[PeriodOf(z.key)] = l
    BY DEF Labelled
  <2>6. y \in L /\ \A z \in L : z.at <= y.at
    <3>1. IsFiniteSet(L) /\ \A z \in L : z.at \in Nat
      BY <2>0, <2>5, FS_Subset, SnapFacts DEF TypeInv
    <3> QED BY <2>4, <3>1, NewestExists DEF Shown
  <2> HIDE DEF L, y, k
  <2>7. /\ x.at \in Nat /\ y.at \in Nat /\ y \in snaps /\ y.key \in ListKeys /\ y.key[1] = f
        /\ y.key = <<f, y.key[2]>> /\ y.key[2] \in Nat /\ y.label \in Labels /\ x.at <= y.at
        /\ k = <<f, week - l>>
    BY <2>0, <2>2, <2>4, <2>5, <2>6, SnapFacts, KeyFacts DEF TypeInv, SnapType, k
  <2>8. Observed(x) = week /\ Observed(y) <= week /\ Observed(y) = y.key[2] + y.label
    BY <2>0, <2>1, <2>2, <2>7 DEF Observed, WeekInv
  <2>9. ASSUME y.key # k PROVE FALSE
    <3> DEFINE l2 == week - y.key[2]
    <3>1. l2 \in Nat /\ y.label \in Nat /\ y.label <= l2
      BY <2>0, <2>7, <2>8 DEF Labels
    <3>2. CASE l2 \in Labels
      <4>1. PeriodOf(y.key) = <<f[1], week - l2>>
        BY <2>0, <2>7 DEF PeriodOf
      <4>2. period[PeriodOf(y.key)] \in {NoRow, l2}
        BY <3>2, <4>1 DEF LabelsAreCurrent
      <4>3. l2 = l
        BY <2>0, <2>5, <2>6, <4>2 DEF NoRow
      <4> QED BY <2>0, <2>7, <2>9, <4>3
    <3>3. CASE l2 \notin Labels
      <4>1. y.label < l2
        BY <2>7, <3>1, <3>3, HistoryAssumption DEF Labels
      <4>2. Observed(y) < week
        BY <2>0, <2>7, <2>8, <3>1, <4>1
      <4>3. x.at = y.at
        <5>1. y.at > x.at => Observed(x) <= Observed(y)
          BY <2>0, <2>1, <2>2, <2>7 DEF WeekInv
        <5> QED BY <2>0, <2>7, <2>8, <4>2, <5>1, SnapFacts
      <4>4. x = y
        BY <2>0, <2>2, <2>7, <4>3 DEF AtInv
      <4> QED BY <2>0, <2>8, <4>2, <4>4
    <3> QED BY <3>2, <3>3
  <2> QED BY <2>4, <2>9 DEF L, y, k
<1> QED BY <1>1, ReaderSafety, PTL
=============================================================================
