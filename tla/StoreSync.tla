----------------------------- MODULE StoreSync ------------------------------
(***************************************************************************)
(* Devices of one user that push to the store behind /api/sync: the        *)
(* handler PUT of src/src/app/api/sync/route.ts over the table sync_items, *)
(* a transaction of one upsert per item.  Every upsert locks the row it    *)
(* meets, also when that row is the newer one and stays.                   *)
(*                                                                         *)
(* The devices are outside the repository: they push any versions, also    *)
(* with times before those of versions the store has (edits made offline). *)
(* A version stands for its payload and its tombstone flag, which the      *)
(* server only stores.                                                     *)
(***************************************************************************)
EXTENDS Naturals, Sequences, FiniteSets

CONSTANTS
  Devices,
  Items,     \* the (store, item_id) pairs of the user
  Orders,    \* the orders of items in a batch: sequences without repetition
  None,
  MaxTime    \* bound of the instance: updatedAt is one of 1 .. MaxTime

ASSUME StoreSyncAssumption ==
  /\ Orders \subseteq Seq(Items) \ {<<>>}
  /\ \A o \in Orders : \A m, n \in 1 .. Len(o) : o[m] = o[n] => m = n
  /\ MaxTime \in Nat \ {0}
  /\ None \notin Nat /\ None \notin [at : Nat, by : Devices]

VARIABLES
  rows,       \* sync_items: committed version of each item, or None
  state,      \* of the device's PUT: none ("idle"), its transaction, its answer
  todo,       \* items of the batch still to upsert, in order
  stamp,      \* updatedAt of each item of the batch, None outside it
  done,       \* items upserted: their rows are locked until the transaction ends
  applies,    \* those of them whose upsert took effect
  answered    \* history: per item, the latest time a PUT's answer vouched for

pushVars == <<state, todo, stamp, done, applies>>
vars == <<rows, pushVars, answered>>

Times == 1 .. MaxTime
Version == [at : Times, by : Devices]

TypeOK ==
  /\ rows \in [Items -> Version \union {None}]
  /\ state \in [Devices -> {"idle", "open", "committed"}]
  /\ todo \in [Devices -> Seq(Items)]
  /\ stamp \in [Devices -> [Items -> Times \union {None}]]
  /\ done \in [Devices -> SUBSET Items]
  /\ applies \in [Devices -> SUBSET Items]
  /\ answered \in [Items -> Times \union {None}]

Init ==
  /\ rows = [i \in Items |-> None]
  /\ state = [d \in Devices |-> "idle"]
  /\ todo = [d \in Devices |-> <<>>]
  /\ stamp = [d \in Devices |-> [i \in Items |-> None]]
  /\ done = [d \in Devices |-> {}]
  /\ applies = [d \in Devices |-> {}]
  /\ answered = [i \in Items |-> None]

----------------------------------------------------------------------------
(* PUT: the batch is parsed, a transaction opens *)

InBatch(d) == {i \in Items : stamp[d][i] # None}
Wins(at, old) == old = None \/ old.at < at

Push(d) ==
  /\ state[d] = "idle"
  /\ \E order \in Orders, times \in [Items -> Times] :
       /\ todo' = [todo EXCEPT ![d] = order]
       /\ stamp' = [stamp EXCEPT ![d] =
            [i \in Items |-> IF \E n \in 1 .. Len(order) : order[n] = i THEN times[i] ELSE None]]
  /\ state' = [state EXCEPT ![d] = "open"]
  /\ UNCHANGED <<rows, done, applies, answered>>

\* A mutant of Upsert: what is committed is compared without a lock.
UpsertUnlocked(d) ==
  /\ state[d] = "open" /\ todo[d] # <<>>
  /\ LET i == Head(todo[d])
     IN /\ done' = [done EXCEPT ![d] = @ \union {i}]
        /\ applies' = [applies EXCEPT ![d] =
             IF Wins(stamp[d][i], rows[i]) THEN @ \union {i} ELSE @]
  /\ todo' = [todo EXCEPT ![d] = Tail(todo[d])]
  /\ UNCHANGED <<rows, state, stamp, answered>>

\* INSERT ... ON CONFLICT DO UPDATE: waits for whoever has the row, then
\* compares with what is committed.
Upsert(d) ==
  /\ state[d] = "open" /\ todo[d] # <<>>
  /\ LET i == Head(todo[d])
     IN /\ \A e \in Devices : e # d => i \notin done[e]
        /\ done' = [done EXCEPT ![d] = @ \union {i}]
        /\ applies' = [applies EXCEPT ![d] =
             IF Wins(stamp[d][i], rows[i]) THEN @ \union {i} ELSE @]
  /\ todo' = [todo EXCEPT ![d] = Tail(todo[d])]
  /\ UNCHANGED <<rows, state, stamp, answered>>

Finish(d) ==
  /\ todo' = [todo EXCEPT ![d] = <<>>]
  /\ done' = [done EXCEPT ![d] = {}]
  /\ applies' = [applies EXCEPT ![d] = {}]

\* A mutant of Commit: items that the batch left out are written too.
CommitEveryItem(d) ==
  /\ state[d] = "open" /\ todo[d] = <<>>
  /\ rows' = [i \in Items |-> IF i \in applies[d] \/ i \notin done[d]
                              THEN [at |-> stamp[d][i], by |-> d] ELSE rows[i]]
  /\ state' = [state EXCEPT ![d] = "committed"]
  /\ Finish(d)
  /\ UNCHANGED <<stamp, answered>>

Commit(d) ==
  /\ state[d] = "open" /\ todo[d] = <<>>
  /\ rows' = [i \in Items |-> IF i \in applies[d] THEN [at |-> stamp[d][i], by |-> d] ELSE rows[i]]
  /\ state' = [state EXCEPT ![d] = "committed"]
  /\ Finish(d)
  /\ UNCHANGED <<stamp, answered>>

Rollback(d) ==
  /\ Finish(d)
  /\ state' = [state EXCEPT ![d] = "idle"]
  /\ stamp' = [stamp EXCEPT ![d] = [i \in Items |-> None]]
  /\ UNCHANGED <<rows, answered>>

\* A mutant of PushFails: between two statements the handler throws and sends no ROLLBACK,
\* so that its client goes back to the pool with the transaction and its locks.
PushFailsOpen(d) ==
  /\ state[d] = "open"
  /\ todo' = [todo EXCEPT ![d] = <<>>]
  /\ state' = [state EXCEPT ![d] = "idle"]
  /\ stamp' = [stamp EXCEPT ![d] = [i \in Items |-> None]]
  /\ applies' = [applies EXCEPT ![d] = {}]
  /\ UNCHANGED <<rows, done, answered>>

\* A statement fails, the server dies, the connection breaks.
PushFails(d) == state[d] = "open" /\ Rollback(d)

\* Each of a ring of transactions waits for the next one's row; PostgreSQL
\* ends one of them, and the PUT answers 500.
WaitsFor(d, e) ==
  /\ e # d /\ state[d] = "open" /\ todo[d] # <<>>
  /\ Head(todo[d]) \in done[e]

Deadlocked(d) ==
  \E ring \in SUBSET Devices :
    /\ d \in ring
    /\ \A x \in ring : (\E y \in ring : WaitsFor(x, y)) /\ (\E y \in ring : WaitsFor(y, x))

EndDeadlock(d) == Deadlocked(d) /\ Rollback(d)

\* A mutant of Answer: the answer is sent, and the COMMIT fails after it.
AnswerBeforeCommit(d) ==
  /\ state[d] = "open" /\ todo[d] = <<>>
  /\ answered' = [i \in Items |->
       IF i \in InBatch(d) /\ (answered[i] = None \/ answered[i] < stamp[d][i])
       THEN stamp[d][i] ELSE answered[i]]
  /\ state' = [state EXCEPT ![d] = "idle"]
  /\ stamp' = [stamp EXCEPT ![d] = [i \in Items |-> None]]
  /\ Finish(d)
  /\ UNCHANGED rows

\* The answer that counts the items applied, or its loss.
Answer(d) ==
  /\ state[d] = "committed"
  /\ state' = [state EXCEPT ![d] = "idle"]
  /\ stamp' = [stamp EXCEPT ![d] = [i \in Items |-> None]]
  /\ \/ answered' = [i \in Items |->
          IF i \in InBatch(d) /\ (answered[i] = None \/ answered[i] < stamp[d][i])
          THEN stamp[d][i] ELSE answered[i]]
     \/ answered' = answered
  /\ UNCHANGED <<rows, todo, done, applies>>

----------------------------------------------------------------------------

Next ==
  \E d \in Devices :
    Push(d) \/ Upsert(d) \/ Commit(d) \/ PushFails(d) \/ EndDeadlock(d) \/ Answer(d)

Spec == Init /\ [][Next]_vars

\* A request that has begun is served: Node runs its next statement, and
\* PostgreSQL hands a row's lock to those who wait in the order they came, so
\* that an upsert which can go on again and again does so.
FairSpec ==
  /\ Spec
  /\ \A d \in Devices :
       SF_vars(Upsert(d)) /\ WF_vars(Commit(d)) /\ WF_vars(EndDeadlock(d)) /\ WF_vars(Answer(d))

----------------------------------------------------------------------------
(* Properties *)

\* However the transactions of two devices interleave, fail or deadlock, the
\* store merges whole batches one at a time: a row written under a lock still
\* follows from what was compared with it, and nobody sees half a batch.
Store == INSTANCE LwwStore WITH Versions <- Version
ImplementsStore == Store!Spec

\* A version that a PUT's answer vouched for is in its row, or a later one is.
AnsweredIsKept ==
  \A i \in Items : answered[i] # None => rows[i] # None /\ rows[i].at >= answered[i]

\* Every PUT ends, those that wait for each other's rows too.
PushesEnd == \A d \in Devices : state[d] = "open" ~> state[d] # "open"

=============================================================================
