------------------------- MODULE LeaderboardHistory -------------------------
(***************************************************************************)
(* How a polled leaderboard or officer registry becomes snapshots, entries *)
(* and revisions (lib/ingestion/pipeline.ts: processLeaderboard,           *)
(* processOfficers, upsertParticipant, recordRevision, and the transaction *)
(* of archiveAndProcess around them).                                      *)
(*                                                                         *)
(* The game serves each board's running week as CURRENT and the weeks      *)
(* before it as PREVIOUS_1, PREVIOUS_2, in one list for each subject: the  *)
(* players, the guilds, the cities.  The lists of a week share the row of  *)
(* its period, and any of them relabels it.  A worker's run asks for every *)
(* board, label and subject once; its lanes process the answers side by    *)
(* side, each in one READ COMMITTED transaction.  An action is one         *)
(* statement that can meet another transaction: it sees what is committed  *)
(* when it runs, and an upsert waits for the transaction that wrote its    *)
(* row before.                                                             *)
(***************************************************************************)
EXTENDS Integers, Sequences, FiniteSets

CONSTANTS
  Workers, Lanes,  \* processes, and the concurrent lanes of each one's run
  Boards,          \* tracked leaderboards
  Subjects,        \* what they rank: a list for each
  Registries,      \* officer registries
  Silent,          \* the sources whose rows leave the profile field null
  People,          \* participants: players, guilds and cities
  Contents,        \* what each source can list: a set of sequences of [who, score]
  Periods,         \* how many labels are served: CURRENT is 0, PREVIOUS_1 is 1...
  Rollovers,       \* bound: week ends
  MaxPolls,        \* bound: answers of the game
  MaxChanges,      \* bound: changes of the game's data
  MaxFaults        \* bound: failing statements and dying processes

Lists == Boards \X Subjects
Sources == Lists \cup Registries
Slots == Workers \X Lanes
Labels == 0..(Periods - 1)
Weeks == 0..(Periods - 1 + Rollovers)
PeriodKeys == Boards \X Weeks            \* leaderboard_periods: no subject
ListKeys == Lists \X Weeks
Keys == ListKeys \cup (Registries \X {0})
Items == (Lists \X Labels) \cup (Registries \X {0})
Polls == 1..MaxPolls
Listings == UNION {Contents[x] : x \in Sources}
Named(x) == UNION {{c[i].who : i \in DOMAIN c} : c \in Contents[x]}

ASSUME HistoryAssumption ==
  /\ Lists \cap Registries = {} /\ Silent \subseteq Sources
  /\ DOMAIN Contents = Sources
  /\ \A c \in Listings :
       /\ c \in Seq([who : People, score : Nat])
       /\ \A i, j \in DOMAIN c : c[i].who = c[j].who => i = j
  /\ \A x, y \in Lists : x[2] # y[2] => Named(x) \cap Named(y) = {}
  /\ Periods \in Nat \ {0} /\ Rollovers \in Nat
  /\ MaxPolls \in Nat /\ MaxChanges \in Nat /\ MaxFaults \in Nat

VARIABLES
  \* the game
  week,       \* the running week
  content,    \* what each week of a list, and each registry, lists now
  profile,    \* the version of each participant's profile
  \* the database, as committed
  period,     \* leaderboard_periods.source_period_key; NoRow before the first
  snaps,      \* leaderboard_snapshots and gcw_officer_snapshots
  person,     \* participants; NoRow before the first, 0 for a null field
  entryRevisions, personRevisions,   \* data_revisions, by entity_type
  \* the workers
  todo,       \* what each worker's run has still to ask for
  tx,         \* each lane's transaction
  polls, changes, faults,            \* the budgets used
  seen        \* history: the newest answer committed for each key

game == <<week, content, profile, changes>>
tables == <<period, snaps, person, entryRevisions, personRevisions, seen>>
vars == <<game, tables, todo, tx, polls, faults>>

-----------------------------------------------------------------------------
NoRow == -1
Nothing == [label |-> 0, rows |-> <<>>, at |-> 0]

Key(item) == IF item[1] \in Lists THEN <<item[1], week - item[2]>> ELSE item

\* The row of a list's week.
PeriodOf(k) == <<k[1][1], k[2]>>

\* The rows of an answer.  A source in Silent has no value for the field.
Rows(k) ==
  [i \in DOMAIN content[k] |->
     [who |-> content[k][i].who, score |-> content[k][i].score,
      profile |-> IF k[1] \in Silent THEN 0 ELSE profile[content[k][i].who]]]

\* A lane's transaction: the answer (whose label and rows the state hash covers),
\* the rows of the snapshot it is compared with, the next entry, and what it has
\* written and nobody else sees: the snapshot if it is fresh, the participants of
\* the entries before the next one, the revisions.
Idle == [pc |-> "idle", item |-> <<>>, key |-> <<>>, label |-> 0, rows |-> <<>>, at |-> 0,
         fresh |-> FALSE, prior |-> <<>>, next |-> 1, entryRevs |-> {}, personRevs |-> {}]

Positions(rows) == {[who |-> rows[i].who, rank |-> i, score |-> rows[i].score] :
                      i \in DOMAIN rows}

SnapshotsOf(k) == {x \in snaps : x.key = k}
Newest(S) == CHOOSE x \in S : \A y \in S : y.at <= x.at

\* Mutants of Stored: a state hash without the label; of Prior: looked up after
\* the new snapshot is inserted, and without regard to the week.
StoredUnderAnyLabel(t) == \E x \in SnapshotsOf(t.key) : x.rows = t.rows

Fixed(t) == t.key[1] \in Lists /\ t.label # 0
Stored(t) == \E x \in SnapshotsOf(t.key) : x.label = t.label /\ x.rows = t.rows

PriorAfterInsert(t) == IF Fixed(t) THEN t.rows ELSE <<>>

PriorOfAnyWeek(t) ==
  LET S == {x \in snaps : x.key[1] = t.key[1]}
  IN  IF Fixed(t) /\ S # {} THEN Newest(S).rows ELSE <<>>

\* The rows a fixed week is compared with: those of its newest snapshot.
Prior(t) ==
  IF Fixed(t) /\ SnapshotsOf(t.key) # {} THEN Newest(SnapshotsOf(t.key)).rows ELSE <<>>

\* recordRevision for rank and score_raw, and for a profile field.
EntryRevisions(t, i) ==
  {r \in {[key |-> t.key, who |-> x.who, field |-> f, old |-> x[f],
           new |-> [rank |-> i, score |-> t.rows[i].score][f], by |-> t.at] :
             x \in Positions(t.prior), f \in {"rank", "score"}} :
     r.who = t.rows[i].who /\ r.old # r.new}

PersonRevisions(t, i) ==
  {r \in {[who |-> t.rows[i].who, old |-> person[t.rows[i].who],
           new |-> t.rows[i].profile, by |-> t.at]} :
     r.old # NoRow /\ r.old # r.new}

-----------------------------------------------------------------------------
\* Locks.  A transaction holds its period's row, its fresh snapshot's unique key
\* and the participants it has upserted until it ends.
Holds(t, who) == \E i \in 1..(t.next - 1) : t.rows[i].who = who

WaitsFor(s, r) ==
  LET t == tx[s]  u == tx[r]
  IN  /\ r # s
      /\ \/ t.pc = "period" /\ u.pc \notin {"idle", "period"} /\ u.key \in ListKeys
              /\ PeriodOf(t.key) = PeriodOf(u.key)
         \/ t.pc = "snapshot" /\ t.key = u.key /\ u.fresh
              /\ t.label = u.label /\ t.rows = u.rows
         \/ t.pc = "upsert" /\ Holds(u, t.rows[t.next].who)

Blocked(s) == \E r \in Slots : WaitsFor(s, r)

\* s waits in a cycle of transactions, each waiting for the next.
Deadlocked(s) ==
  \E S \in SUBSET Slots :
    /\ s \in S
    /\ \A r \in S : (\E q \in S : WaitsFor(r, q)) /\ (\E q \in S : WaitsFor(q, r))

-----------------------------------------------------------------------------
Init ==
  /\ week = Periods - 1
  /\ content \in {c \in [Keys -> Listings] : \A k \in Keys : c[k] \in Contents[k[1]]}
  /\ profile = [p \in People |-> 1]
  /\ changes = 0
  /\ period = [k \in PeriodKeys |-> NoRow]
  /\ snaps = {} /\ entryRevisions = {} /\ personRevisions = {}
  /\ person = [p \in People |-> NoRow]
  /\ todo = [w \in Workers |-> {}]
  /\ tx = [s \in Slots |-> Idle]
  /\ polls = 0 /\ faults = 0
  /\ seen = [k \in Keys |-> Nothing]

\* The game changes a list or a profile, or a week ends.
Change(k) ==
  /\ changes < MaxChanges
  /\ changes' = changes + 1
  /\ \E c \in Contents[k[1]] \ {content[k]} : content' = [content EXCEPT ![k] = c]
  /\ UNCHANGED <<week, profile, tables, todo, tx, polls, faults>>

ProfileChanges(p) ==
  /\ changes < MaxChanges
  /\ changes' = changes + 1
  /\ profile' = [profile EXCEPT ![p] = @ + 1]
  /\ UNCHANGED <<week, content, tables, todo, tx, polls, faults>>

WeekEnds ==
  /\ week + 1 \in Weeks
  /\ week' = week + 1
  /\ UNCHANGED <<content, profile, changes, tables, todo, tx, polls, faults>>

\* runIngestion starts when the worker's run before it has ended: what that run has
\* not received by then had no usable answer.
RunStarts(w) ==
  /\ \A l \in Lanes : tx[<<w, l>>].pc = "idle"
  /\ todo' = [todo EXCEPT ![w] = Items]
  /\ UNCHANGED <<game, tables, tx, polls, faults>>

\* The game answers a lane's request: the content counts as observed now.
Receive(s, item) ==
  /\ tx[s].pc = "idle" /\ item \in todo[s[1]]
  /\ polls < MaxPolls
  /\ polls' = polls + 1
  /\ todo' = [todo EXCEPT ![s[1]] = @ \ {item}]
  /\ tx' = [tx EXCEPT ![s] =
       [Idle EXCEPT !.pc = IF item[1] \in Lists THEN "period" ELSE "snapshot",
                    !.item = item, !.key = Key(item), !.label = item[2],
                    !.rows = Rows(Key(item)), !.at = polls + 1]]
  /\ UNCHANGED <<game, tables, faults>>

\* The upsert of the period: locks its row, relabels it at the commit.
LockPeriod(s) ==
  /\ tx[s].pc = "period" /\ ~Blocked(s)
  /\ tx' = [tx EXCEPT ![s].pc = "snapshot"]
  /\ UNCHANGED <<game, tables, todo, polls, faults>>

AfterEntry(t, n) == IF t.next + n > Len(t.rows) THEN "commit" ELSE "read"

\* processLeaderboard looks up the newest snapshot and inserts the new one; a
\* state that is stored already ends the work.
Snapshot(s) ==
  LET t == tx[s]
  IN  /\ t.pc = "snapshot" /\ t.key \in ListKeys /\ ~Blocked(s)
      /\ tx' = [tx EXCEPT ![s] =
           IF Stored(t) THEN [t EXCEPT !.pc = "commit"]
           ELSE [t EXCEPT !.fresh = TRUE, !.prior = Prior(t), !.pc = AfterEntry(t, 0)]]
      /\ UNCHANGED <<game, tables, todo, polls, faults>>

\* processOfficers compares with nothing: a registry has no revisions of entries.
RegistrySnapshot(s) ==
  LET t == tx[s]
  IN  /\ t.pc = "snapshot" /\ t.key \notin ListKeys /\ ~Blocked(s)
      /\ tx' = [tx EXCEPT ![s] =
           IF Stored(t) THEN [t EXCEPT !.pc = "commit"]
           ELSE [t EXCEPT !.fresh = TRUE, !.pc = AfterEntry(t, 0)]]
      /\ UNCHANGED <<game, tables, todo, polls, faults>>

\* upsertParticipant reads the participant, without a lock, and records what
\* differs...
ReadPerson(s) ==
  /\ tx[s].pc = "read"
  /\ tx' = [tx EXCEPT ![s].personRevs = @ \cup PersonRevisions(tx[s], tx[s].next),
                      ![s].pc = "upsert"]
  /\ UNCHANGED <<game, tables, todo, polls, faults>>

\* A mutant of Upsert: revisions go through the pool, outside the transaction.
UpsertThroughPool(s) ==
  /\ tx[s].pc = "upsert" /\ ~Blocked(s)
  /\ tx' = [tx EXCEPT ![s].next = @ + 1,
                      ![s].pc = AfterEntry(tx[s], 1)]
  /\ entryRevisions' = entryRevisions \cup EntryRevisions(tx[s], tx[s].next)
  /\ UNCHANGED <<game, period, snaps, person, personRevisions, seen, todo, polls, faults>>

\* A mutant of Upsert: it does not wait for a lock but tries the entry again.
UpsertRetrying(s) ==
  /\ tx[s].pc = "upsert"
  /\ tx' = [tx EXCEPT ![s] =
       IF Blocked(s) THEN [tx[s] EXCEPT !.pc = "read"]
       ELSE [tx[s] EXCEPT !.next = @ + 1, !.pc = AfterEntry(tx[s], 1)]]
  /\ UNCHANGED <<game, tables, todo, polls, faults>>

\* ...and then writes it, and the entry with its revisions.
Upsert(s) ==
  /\ tx[s].pc = "upsert" /\ ~Blocked(s)
  /\ tx' = [tx EXCEPT ![s].next = @ + 1,
                      ![s].entryRevs = @ \cup EntryRevisions(tx[s], tx[s].next),
                      ![s].pc = AfterEntry(tx[s], 1)]
  /\ UNCHANGED <<game, tables, todo, polls, faults>>

Commit(s) ==
  LET t == tx[s]
      written(p) == {row \in {t.rows[i] : i \in 1..(t.next - 1)} : row.who = p}
  IN  /\ t.pc = "commit"
      /\ period' = [k \in PeriodKeys |->
           IF t.key \in ListKeys /\ k = PeriodOf(t.key) THEN t.label ELSE period[k]]
      /\ snaps' = snaps \cup
           (IF t.fresh THEN {[key |-> t.key, label |-> t.label, rows |-> t.rows, at |-> t.at]}
            ELSE {})
      /\ person' = [p \in People |->
           IF written(p) = {} THEN person[p] ELSE (CHOOSE r \in written(p) : TRUE).profile]
      /\ entryRevisions' = entryRevisions \cup t.entryRevs
      /\ personRevisions' = personRevisions \cup t.personRevs
      /\ seen' = [seen EXCEPT ![t.key] =
           IF @.at < t.at THEN [label |-> t.label, rows |-> t.rows, at |-> t.at] ELSE @]
      /\ tx' = [tx EXCEPT ![s] = Idle]
      /\ UNCHANGED <<game, todo, polls, faults>>

\* A statement fails: ROLLBACK, and the lane goes on.
Fails(s) ==
  /\ tx[s].pc # "idle" /\ faults < MaxFaults
  /\ faults' = faults + 1
  /\ tx' = [tx EXCEPT ![s] = Idle]
  /\ UNCHANGED <<game, tables, todo, polls>>

\* PostgreSQL ends a deadlock by failing one of its statements.
DeadlockAborts(s) ==
  /\ Deadlocked(s)
  /\ tx' = [tx EXCEPT ![s] = Idle]
  /\ UNCHANGED <<game, tables, todo, polls, faults>>

\* The process dies with its run and its open transactions.
Dies(w) ==
  /\ faults < MaxFaults
  /\ todo[w] # {} \/ \E l \in Lanes : tx[<<w, l>>].pc # "idle"
  /\ faults' = faults + 1
  /\ todo' = [todo EXCEPT ![w] = {}]
  /\ tx' = [s \in Slots |-> IF s[1] = w THEN Idle ELSE tx[s]]
  /\ UNCHANGED <<game, tables, polls>>

Statement(s) ==
  LockPeriod(s) \/ Snapshot(s) \/ RegistrySnapshot(s) \/ ReadPerson(s) \/ Upsert(s) \/ Commit(s)

Next ==
  \/ \E item \in Items : Change(Key(item))
  \/ \E p \in People : ProfileChanges(p)
  \/ WeekEnds
  \/ \E w \in Workers : RunStarts(w) \/ Dies(w)
  \/ \E s \in Slots :
       Statement(s) \/ Fails(s) \/ DeadlockAborts(s) \/ \E item \in Items : Receive(s, item)

\* getLeaderboard: the newest snapshot of a list's weeks whose row bears the label.
Labelled(list, l) ==
  {x \in snaps : x.key \in ListKeys /\ x.key[1] = list /\ period[PeriodOf(x.key)] = l}
Shown(list, l) == Newest(Labelled(list, l))

Spec == Init /\ [][Next]_vars

\* A lane runs the statement it has reached, PostgreSQL serves the waiters of a
\* row in their order, and its deadlock detector runs.
FairSpec ==
  /\ Spec
  /\ \A s \in Slots : SF_vars(Statement(s))
  /\ \A s \in Slots : WF_vars(DeadlockAborts(s))

-----------------------------------------------------------------------------
\* What rows say of a participant's rank or score: a set of at most one value.
Value(rows, who, field) == {x[field] : x \in {y \in Positions(rows) : y.who = who}}

\* Every revision of an entry joins two committed snapshots of its week that
\* differ in the field; the new one is of a fixed week and of the revision's own
\* ingestion (pipeline.ts:161-184): whatever overlaps or fails, no revision
\* outlives its transaction.
RevisionsAreReal ==
  \A r \in entryRevisions :
    \E x, y \in SnapshotsOf(r.key) :
      /\ y.at = r.by /\ y.label # 0
      /\ r.old \in Value(x.rows, r.who, r.field) /\ r.new \in Value(y.rows, r.who, r.field)
      /\ r.old # r.new

\* The old value of a revision was observed before the new one (pipeline.ts:154),
\* unless the week moved on between two requests of the run: then a lane may commit
\* the later answer first, under a later label.  Of one label, a revision tells in
\* which direction history was corrected.
RevisionsGoForward ==
  \A r \in entryRevisions :
    \E x, y \in SnapshotsOf(r.key) :
      /\ y.at = r.by /\ r.old \in Value(x.rows, r.who, r.field)
      /\ x.at < y.at \/ x.label > y.label

\* A snapshot of a fixed week is committed with a revision of whatever differs from
\* the newest one there is at its commit (pipeline.ts:161-184), whoever committed
\* that one: a lane that looked before another lane's commit would miss it.
FixedChangesAreRevised ==
  [][\A y \in snaps' \ snaps, x \in snaps :
       y.label # 0 /\ x.key = y.key /\ (\A z \in SnapshotsOf(x.key) : z.at <= x.at)
       => \A p \in People, f \in {"rank", "score"} :
            \A old \in Value(x.rows, p, f), new \in Value(y.rows, p, f) :
              old # new => [key |-> y.key, who |-> p, field |-> f, old |-> old, new |-> new,
                            by |-> y.at] \in entryRevisions']_vars

\* The weeks of a board that the game serves bear the labels they have there now,
\* whichever subject's answers gave them.
LabelsAreCurrent(b) == \A l \in Labels : period[<<b, week - l>>] \in {NoRow, l}

\* Once a board's labels are current, a reader of a list is shown the week that he
\* asks for as soon as that list's own answer of the week under that label is
\* archived (data.ts:771-775), though weeks that are no longer served keep their last
\* label for ever, and may have been observed under it often: the state hash covers
\* the label, so a week that moves on is observed anew.
ReadersGetTheirWeek ==
  \A list \in Lists, l \in Labels :
    LET k == <<list, week - l>>
    IN  LabelsAreCurrent(list[1]) /\ seen[k].at > 0 /\ seen[k].label = l
        => Labelled(list, l) # {} /\ Shown(list, l).key = k

\* Every transaction ends: a lane is never stuck behind a lock.
TransactionsEnd == \A s \in Slots : tx[s].pc # "idle" ~> tx[s].pc = "idle"
=============================================================================
