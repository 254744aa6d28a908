-------------------------- MODULE StoreSync_proofs --------------------------
(***************************************************************************)
(* What holds of StoreSync for any number of devices and items: types, the *)
(* locks, the promise to who was answered, and that the store implements   *)
(* LwwStore.                                                               *)
(***************************************************************************)
EXTENDS StoreSync, TLAPS

\* The items that a batch has still to upsert.
Left(d) == {todo[d][n] : n \in 1 .. Len(todo[d])}

\* No row is locked twice.
LocksApart == \A d, e \in Devices : d # e => done[d] \cap done[e] = {}

\* A transaction's items are those it has upserted and those left to it, and an
\* upsert that took effect would do so still: its row is locked.
OpenInv ==
  \A d \in Devices : state[d] = "open" =>
    /\ InBatch(d) = done[d] \cup Left(d)
    /\ applies[d] = {i \in done[d] : Wins(stamp[d][i], rows[i])}

\* Without a transaction nothing is locked.
ClosedInv ==
  \A d \in Devices : state[d] # "open" => done[d] = {} /\ applies[d] = {}

\* What was committed is in the rows, or something later is.
CommittedInv ==
  \A d \in Devices : state[d] = "committed" =>
    \A i \in InBatch(d) : rows[i] # None /\ rows[i].at >= stamp[d][i]

IInv == TypeOK /\ LocksApart /\ OpenInv /\ ClosedInv /\ CommittedInv /\ AnsweredIsKept

\* None is neither a time nor a version.
LEMMA NoneApart == None \notin Times /\ None \notin Version /\ Times \subseteq Nat
BY StoreSyncAssumption, SMT DEF Times, Version

LEMMA VersionRecord == ASSUME NEW t \in Times, NEW d \in Devices
                       PROVE  [at |-> t, by |-> d] \in Version /\ [at |-> t, by |-> d].at = t
BY SMT DEF Version

LEMMA VersionAt == ASSUME NEW v \in Version PROVE v.at \in Nat /\ v.at \in Times
BY StoreSyncAssumption, SMT DEF Version, Times

-----------------------------------------------------------------------------
\* Types.
LEMMA TypeInit == Init => TypeOK
BY NoneApart DEF Init, TypeOK

LEMMA TypePush ==
  ASSUME TypeOK, NEW d \in Devices, Push(d) PROVE TypeOK'
BY StoreSyncAssumption DEF TypeOK, Push

LEMMA TypeUpsert ==
  ASSUME TypeOK, NEW d \in Devices, Upsert(d) PROVE TypeOK'
<1> DEFINE i == Head(todo[d])
<1>1. i \in Items /\ Tail(todo[d]) \in Seq(Items)
  BY DEF TypeOK, Upsert
<1>2. done' \in [Devices -> SUBSET Items] /\ applies' \in [Devices -> SUBSET Items]
  BY <1>1 DEF TypeOK, Upsert
<1>3. todo' \in [Devices -> Seq(Items)]
  BY <1>1 DEF TypeOK, Upsert
<1> QED BY <1>2, <1>3 DEF TypeOK, Upsert

LEMMA TypeFinish ==
  ASSUME TypeOK, NEW d \in Devices, Finish(d)
  PROVE  /\ todo' \in [Devices -> Seq(Items)]
         /\ done' \in [Devices -> SUBSET Items]
         /\ applies' \in [Devices -> SUBSET Items]
BY DEF TypeOK, Finish

\* A transaction applies only what it has a time for.
LEMMA AppliesHasTime ==
  ASSUME TypeOK, OpenInv, NEW d \in Devices, state[d] = "open", NEW i \in applies[d]
  PROVE  i \in Items /\ i \in done[d] /\ i \in InBatch(d) /\ stamp[d][i] \in Times
         /\ Wins(stamp[d][i], rows[i])
BY DEF TypeOK, OpenInv, InBatch

LEMMA TypeCommit ==
  ASSUME TypeOK, OpenInv, NEW d \in Devices, Commit(d) PROVE TypeOK'
<1>1. \A i \in Items : rows'[i] \in Version \union {None}
  <2> SUFFICES ASSUME NEW i \in Items PROVE rows'[i] \in Version \union {None}
    OBVIOUS
  <2>1. CASE i \in applies[d]
    <3>1. stamp[d][i] \in Times
      BY <2>1, AppliesHasTime DEF Commit
    <3>2. rows'[i] = [at |-> stamp[d][i], by |-> d]
      BY <2>1 DEF Commit
    <3> QED BY <3>1, <3>2, VersionRecord
  <2>2. CASE i \notin applies[d]
    BY <2>2 DEF Commit, TypeOK
  <2> QED BY <2>1, <2>2
<1>2. rows' \in [Items -> Version \union {None}]
  BY <1>1 DEF Commit
<1>3. state' \in [Devices -> {"idle", "open", "committed"}]
  BY DEF Commit, TypeOK
<1> QED BY <1>2, <1>3, TypeFinish DEF Commit, TypeOK

LEMMA TypeRollback ==
  ASSUME TypeOK, NEW d \in Devices, Rollback(d) PROVE TypeOK'
<1>1. state' \in [Devices -> {"idle", "open", "committed"}]
  BY DEF Rollback, TypeOK
<1>2. stamp' \in [Devices -> [Items -> Times \union {None}]]
  BY DEF Rollback, TypeOK
<1> QED BY <1>1, <1>2, TypeFinish DEF Rollback, TypeOK

LEMMA TypeAnswer ==
  ASSUME TypeOK, NEW d \in Devices, Answer(d) PROVE TypeOK'
<1>1. state' \in [Devices -> {"idle", "open", "committed"}]
  BY DEF Answer, TypeOK
<1>2. stamp' \in [Devices -> [Items -> Times \union {None}]]
  BY DEF Answer, TypeOK
<1>3. answered' \in [Items -> Times \union {None}]
  BY DEF Answer, TypeOK
<1> QED BY <1>1, <1>2, <1>3 DEF Answer, TypeOK

-----------------------------------------------------------------------------
\* One lemma for each step of the handler.
LEMMA IInvInit == Init => IInv
<1> SUFFICES ASSUME Init PROVE IInv
  OBVIOUS
<1>1. TypeOK
  BY TypeInit
<1>2. LocksApart /\ OpenInv /\ ClosedInv /\ CommittedInv /\ AnsweredIsKept
  BY NoneApart DEF Init, LocksApart, OpenInv, ClosedInv, CommittedInv, AnsweredIsKept
<1> QED BY <1>1, <1>2 DEF IInv

LEMMA IInvPush ==
  ASSUME IInv, NEW d \in Devices, Push(d) PROVE IInv'
<1>1. PICK order \in Orders, times \in [Items -> Times] :
        /\ todo' = [todo EXCEPT ![d] = order]
        /\ stamp' = [stamp EXCEPT ![d] =
             [i \in Items |-> IF \E n \in 1 .. Len(order) : order[n] = i
                              THEN times[i] ELSE None]]
  BY DEF Push
<1>2. order \in Seq(Items)
  BY StoreSyncAssumption
<1>3. \A e \in Devices : e # d =>
        /\ todo'[e] = todo[e] /\ stamp'[e] = stamp[e] /\ state'[e] = state[e]
        /\ InBatch(e)' = InBatch(e) /\ Left(e)' = Left(e)
  BY <1>1 DEF IInv, TypeOK, Push, InBatch, Left
<1>4. done' = done /\ applies' = applies /\ rows' = rows /\ answered' = answered
  BY DEF Push
<1>5. done[d] = {} /\ applies[d] = {} /\ state'[d] = "open"
  BY DEF Push, IInv, ClosedInv, TypeOK
<1>6. InBatch(d)' = Left(d)'
  <2>1. todo'[d] = order
    BY <1>1 DEF IInv, TypeOK
  <2>2. stamp'[d] = [i \in Items |-> IF \E n \in 1 .. Len(order) : order[n] = i
                                     THEN times[i] ELSE None]
    BY <1>1 DEF IInv, TypeOK
  <2>3. \A n \in 1 .. Len(order) : order[n] \in Items
    BY <1>2
  <2>4. \A i \in Items : i \in InBatch(d)' <=> \E n \in 1 .. Len(order) : order[n] = i
    BY <2>2, NoneApart DEF InBatch
  <2> QED BY <2>1, <2>3, <2>4 DEF InBatch, Left
<1>7. TypeOK'
  BY TypePush DEF IInv
<1>8. LocksApart' /\ ClosedInv' /\ AnsweredIsKept'
  BY <1>3, <1>4, <1>5 DEF IInv, LocksApart, ClosedInv, AnsweredIsKept
<1>9. OpenInv'
  BY <1>3, <1>4, <1>5, <1>6 DEF IInv, OpenInv
<1>10. CommittedInv'
  BY <1>3, <1>4, <1>5 DEF IInv, CommittedInv
<1> QED BY <1>7, <1>8, <1>9, <1>10 DEF IInv

LEMMA IInvUpsert ==
  ASSUME IInv, NEW d \in Devices, Upsert(d) PROVE IInv'
<1> DEFINE i == Head(todo[d])
<1>1. /\ state[d] = "open" /\ todo[d] \in Seq(Items) /\ todo[d] # <<>> /\ i \in Items
      /\ \A e \in Devices : e # d => i \notin done[e]
  BY DEF IInv, TypeOK, Upsert
<1>2. /\ done' = [done EXCEPT ![d] = @ \union {i}]
      /\ applies' = [applies EXCEPT ![d] =
           IF Wins(stamp[d][i], rows[i]) THEN @ \union {i} ELSE @]
      /\ todo' = [todo EXCEPT ![d] = Tail(todo[d])]
      /\ UNCHANGED <<rows, state, stamp, answered>>
  BY DEF Upsert
<1>3. /\ done'[d] = done[d] \cup {i}
      /\ applies'[d] = IF Wins(stamp[d][i], rows[i]) THEN applies[d] \cup {i} ELSE applies[d]
      /\ todo'[d] = Tail(todo[d])
  BY <1>2 DEF IInv, TypeOK
<1>4. \A e \in Devices : e # d =>
        done'[e] = done[e] /\ applies'[e] = applies[e] /\ todo'[e] = todo[e]
        /\ Left(e)' = Left(e)
  BY <1>2 DEF IInv, TypeOK, Left
<1>5. \A e \in Devices : InBatch(e)' = InBatch(e)
  BY <1>2 DEF InBatch
<1>6. Left(d) = Left(d)' \cup {i}
  <2>1. /\ Len(todo[d]) \in Nat \ {0} /\ Len(Tail(todo[d])) = Len(todo[d]) - 1
        /\ \A n \in 1 .. Len(Tail(todo[d])) : Tail(todo[d])[n] = todo[d][n + 1]
        /\ i = todo[d][1]
    BY <1>1
  <2>2. Left(d)' = {Tail(todo[d])[n] : n \in 1 .. Len(Tail(todo[d]))}
    BY <1>3 DEF Left
  <2>3. \A x : x \in Left(d) => x = i \/ x \in Left(d)'
    <3> SUFFICES ASSUME NEW n \in 1 .. Len(todo[d]), n # 1
                 PROVE  todo[d][n] \in Left(d)'
      BY <2>1 DEF Left
    <3>1. n - 1 \in 1 .. Len(Tail(todo[d])) /\ Tail(todo[d])[n - 1] = todo[d][n]
      BY <2>1
    <3> QED BY <3>1, <2>2
  <2>4. \A n \in 1 .. Len(Tail(todo[d])) : Tail(todo[d])[n] \in Left(d)
    BY <2>1 DEF Left
  <2>5. i \in Left(d)
    BY <2>1 DEF Left
  <2> QED BY <2>2, <2>3, <2>4, <2>5
<1>7. TypeOK'
  BY TypeUpsert DEF IInv
<1>8. LocksApart'
  BY <1>1, <1>3, <1>4 DEF IInv, LocksApart
<1>9. OpenInv'
  <2> SUFFICES ASSUME NEW e \in Devices, state'[e] = "open"
               PROVE  /\ InBatch(e)' = done'[e] \cup Left(e)'
                      /\ applies'[e] = {j \in done'[e] : Wins(stamp'[e][j], rows'[j])}
    BY DEF OpenInv
  <2>1. state[e] = "open" /\ InBatch(e) = done[e] \cup Left(e)
        /\ applies[e] = {j \in done[e] : Wins(stamp[e][j], rows[j])}
    BY <1>2 DEF IInv, OpenInv
  <2>2. CASE e # d
    BY <1>2, <1>4, <1>5, <2>1, <2>2
  <2>3. CASE e = d
    <3>1. InBatch(d)' = done'[d] \cup Left(d)'
      BY <1>3, <1>5, <1>6, <2>1, <2>3
    <3>2. applies'[d] = {j \in done'[d] : Wins(stamp[d][j], rows[j])}
      BY <1>3, <2>1, <2>3
    <3> QED BY <1>2, <2>3, <3>1, <3>2
  <2> QED BY <2>2, <2>3
<1>10. ClosedInv'
  BY <1>1, <1>2, <1>4 DEF IInv, ClosedInv
<1>11. CommittedInv' /\ AnsweredIsKept'
  BY <1>2, <1>5 DEF IInv, CommittedInv, AnsweredIsKept
<1> QED BY <1>7, <1>8, <1>9, <1>10, <1>11 DEF IInv

\* A commit moves rows forward, and only those it holds.
LEMMA CommitAdvances ==
  ASSUME IInv, NEW d \in Devices, Commit(d), NEW i \in Items
  PROVE  /\ rows[i] # None => rows'[i] # None /\ rows'[i].at >= rows[i].at
         /\ i \notin done[d] => rows'[i] = rows[i]
         /\ i \in done[d] => rows'[i] # None /\ rows'[i].at >= stamp[d][i]
<1>1. rows'[i] = IF i \in applies[d] THEN [at |-> stamp[d][i], by |-> d] ELSE rows[i]
  BY DEF Commit
<1>2. state[d] = "open" /\ applies[d] = {j \in done[d] : Wins(stamp[d][j], rows[j])}
      /\ rows[i] \in Version \cup {None}
  BY DEF Commit, IInv, OpenInv, TypeOK
<1>3. CASE i \in applies[d]
  <2>1. stamp[d][i] \in Times /\ i \in done[d] /\ Wins(stamp[d][i], rows[i])
    BY <1>2, <1>3, AppliesHasTime DEF IInv
  <2>2. rows'[i] \in Version /\ rows'[i].at = stamp[d][i]
    BY <1>1, <1>3, <2>1, VersionRecord
  <2>3. rows'[i] # None /\ stamp[d][i] \in Nat
    BY <2>1, <2>2, NoneApart
  <2>4. rows[i] # None => rows[i].at \in Nat /\ rows[i].at < stamp[d][i]
    BY <1>2, <2>1, VersionAt DEF Wins
  <2> QED BY <2>1, <2>2, <2>3, <2>4
<1>4. CASE i \notin applies[d]
  <2>1. rows'[i] = rows[i]
    BY <1>1, <1>4
  <2>2. rows[i] # None => rows[i].at \in Nat
    BY <1>2, VersionAt
  <2>3. i \in done[d] => rows[i] # None /\ ~(rows[i].at < stamp[d][i])
    BY <1>2, <1>4 DEF Wins
  <2>4. i \in done[d] => stamp[d][i] \in Times
    <3>1. i \in done[d] => i \in InBatch(d)
      BY <1>2 DEF IInv, OpenInv
    <3> QED BY <3>1 DEF InBatch, IInv, TypeOK
  <2>5. rows[i] # None => rows'[i] # None /\ rows'[i].at >= rows[i].at
    BY <2>1, <2>2
  <2>6. i \in done[d] => rows[i].at >= stamp[d][i]
    <3> SUFFICES ASSUME i \in done[d] PROVE rows[i].at >= stamp[d][i]
      OBVIOUS
    <3>1. rows[i].at \in Nat /\ stamp[d][i] \in Nat /\ ~(rows[i].at < stamp[d][i])
      BY <2>2, <2>3, <2>4, NoneApart
    <3> QED BY <3>1
  <2> QED BY <2>1, <2>3, <2>5, <2>6
<1> QED BY <1>3, <1>4

LEMMA NothingLeft ==
  ASSUME NEW d \in Devices, todo[d] = <<>> PROVE Left(d) = {}
<1>1. Len(todo[d]) = 0 /\ 1 .. 0 = {}
  OBVIOUS
<1> QED BY <1>1 DEF Left

LEMMA CommitKeeps ==
  ASSUME NEW d \in Devices, Commit(d), NEW i \in Items, i \notin applies[d]
  PROVE  rows'[i] = rows[i]
BY DEF Commit

LEMMA IInvCommit ==
  ASSUME IInv, NEW d \in Devices, Commit(d) PROVE IInv'
<1>1. /\ state[d] = "open" /\ todo[d] = <<>> /\ state'[d] = "committed"
      /\ done'[d] = {} /\ applies'[d] = {}
      /\ UNCHANGED <<stamp, answered>>
  BY DEF Commit, Finish, IInv, TypeOK
<1>2. \A e \in Devices : e # d =>
        /\ state'[e] = state[e] /\ todo'[e] = todo[e] /\ done'[e] = done[e]
        /\ applies'[e] = applies[e] /\ Left(e)' = Left(e)
  BY DEF Commit, Finish, IInv, TypeOK, Left
<1>3. \A e \in Devices : InBatch(e)' = InBatch(e) /\ InBatch(e) \subseteq Items
  BY <1>1 DEF InBatch
<1>4. \A e \in Devices : e # d => \A i \in done[e] : i \in Items /\ rows'[i] = rows[i]
  <2> SUFFICES ASSUME NEW e \in Devices, e # d, NEW i \in done[e]
               PROVE  i \in Items /\ rows'[i] = rows[i]
    OBVIOUS
  <2>1. i \in Items /\ i \notin done[d]
    BY DEF IInv, TypeOK, LocksApart
  <2>2. i \notin applies[d]
    BY <1>1, <2>1 DEF IInv, OpenInv
  <2> QED BY <2>1, <2>2, CommitKeeps
<1>5. InBatch(d) = done[d]
  BY <1>1, NothingLeft DEF IInv, OpenInv
<1>6. TypeOK'
  BY TypeCommit DEF IInv
<1>7. LocksApart' /\ ClosedInv'
  BY <1>1, <1>2 DEF IInv, LocksApart, ClosedInv
<1>8. OpenInv'
  <2> SUFFICES ASSUME NEW e \in Devices, state'[e] = "open"
               PROVE  /\ InBatch(e)' = done'[e] \cup Left(e)'
                      /\ applies'[e] = {j \in done'[e] : Wins(stamp'[e][j], rows'[j])}
    BY DEF OpenInv
  <2>1. e # d /\ state[e] = "open"
    BY <1>1, <1>2
  <2>2. InBatch(e) = done[e] \cup Left(e)
        /\ applies[e] = {j \in done[e] : Wins(stamp[e][j], rows[j])}
    BY <2>1 DEF IInv, OpenInv
  <2>3. \A j \in done[e] : Wins(stamp[e][j], rows[j]) <=> Wins(stamp'[e][j], rows'[j])
    BY <1>1, <1>4, <2>1
  <2> QED BY <1>2, <1>3, <2>1, <2>2, <2>3
<1>9. CommittedInv'
  <2> SUFFICES ASSUME NEW e \in Devices, state'[e] = "committed", NEW i \in InBatch(e)
               PROVE  rows'[i] # None /\ rows'[i].at >= stamp[e][i]
    BY <1>1, <1>3 DEF CommittedInv
  <2>1. i \in Items /\ stamp[e][i] \in Times
    BY <1>3 DEF InBatch, IInv, TypeOK
  <2>2. CASE e = d
    BY <1>5, <2>1, <2>2, CommitAdvances
  <2>3. CASE e # d
    <3>1. rows[i] # None /\ rows[i].at >= stamp[e][i]
      BY <1>2, <2>3 DEF IInv, CommittedInv
    <3>2. rows'[i] # None /\ rows'[i].at >= rows[i].at
      BY <2>1, <3>1, CommitAdvances
    <3>3. rows[i] \in Version /\ rows'[i] \in Version
      BY <1>6, <2>1, <3>1, <3>2 DEF IInv, TypeOK
    <3>4. rows[i].at \in Nat /\ rows'[i].at \in Nat /\ stamp[e][i] \in Nat
      BY <2>1, <3>3, VersionAt, NoneApart
    <3> QED BY <3>1, <3>2, <3>4
  <2> QED BY <2>2, <2>3
<1>10. AnsweredIsKept'
  <2> SUFFICES ASSUME NEW i \in Items, answered[i] # None
               PROVE  rows'[i] # None /\ rows'[i].at >= answered[i]
    BY <1>1 DEF AnsweredIsKept
  <2>1. rows[i] # None /\ rows[i].at >= answered[i]
    BY DEF IInv, AnsweredIsKept
  <2>2. rows'[i] # None /\ rows'[i].at >= rows[i].at
    BY <2>1, CommitAdvances
  <2>3. rows[i] \in Version /\ rows'[i] \in Version /\ answered[i] \in Times
    BY <1>6, <2>1, <2>2 DEF IInv, TypeOK
  <2>4. rows[i].at \in Nat /\ rows'[i].at \in Nat /\ answered[i] \in Nat
    BY <2>3, VersionAt, NoneApart
  <2>5. \A a, b, c \in Nat : a >= b /\ b >= c => a >= c
    OBVIOUS
  <2> QED BY <2>1, <2>2, <2>4, <2>5
<1> QED BY <1>6, <1>7, <1>8, <1>9, <1>10 DEF IInv

LEMMA IInvRollback ==
  ASSUME IInv, NEW d \in Devices, Rollback(d) PROVE IInv'
<1>1. /\ state'[d] = "idle" /\ done'[d] = {} /\ applies'[d] = {}
      /\ UNCHANGED <<rows, answered>>
  BY DEF Rollback, Finish, IInv, TypeOK
<1>2. \A e \in Devices : e # d =>
        /\ state'[e] = state[e] /\ done'[e] = done[e] /\ stamp'[e] = stamp[e]
        /\ applies'[e] = applies[e] /\ Left(e)' = Left(e) /\ InBatch(e)' = InBatch(e)
  BY DEF Rollback, Finish, IInv, TypeOK, Left, InBatch
<1>3. TypeOK'
  BY TypeRollback DEF IInv
<1>4. LocksApart' /\ ClosedInv'
  BY <1>1, <1>2 DEF IInv, LocksApart, ClosedInv
<1>5. OpenInv'
  BY <1>1, <1>2 DEF IInv, OpenInv
<1>6. CommittedInv' /\ AnsweredIsKept'
  BY <1>1, <1>2 DEF IInv, CommittedInv, AnsweredIsKept
<1> QED BY <1>3, <1>4, <1>5, <1>6 DEF IInv

LEMMA IInvAnswer ==
  ASSUME IInv, NEW d \in Devices, Answer(d) PROVE IInv'
<1>1. /\ state[d] = "committed" /\ state'[d] = "idle"
      /\ UNCHANGED <<rows, todo, done, applies>>
  BY DEF Answer, IInv, TypeOK
<1>2. \A e \in Devices : e # d =>
        state'[e] = state[e] /\ stamp'[e] = stamp[e] /\ InBatch(e)' = InBatch(e)
  BY DEF Answer, IInv, TypeOK, InBatch
<1>3. \A e \in Devices : Left(e)' = Left(e)
  BY <1>1 DEF Left
<1>4. TypeOK'
  BY TypeAnswer DEF IInv
<1>5. LocksApart' /\ ClosedInv'
  BY <1>1, <1>2 DEF IInv, LocksApart, ClosedInv
<1>6. OpenInv'
  BY <1>1, <1>2, <1>3 DEF IInv, OpenInv
<1>7. CommittedInv'
  BY <1>1, <1>2 DEF IInv, CommittedInv
<1>8. AnsweredIsKept'
  <2> SUFFICES ASSUME NEW i \in Items, answered'[i] # None
               PROVE  rows[i] # None /\ rows[i].at >= answered'[i]
    BY <1>1 DEF AnsweredIsKept
  <2>1. CASE answered'[i] = answered[i]
    BY <2>1 DEF IInv, AnsweredIsKept
  <2>2. CASE answered'[i] # answered[i]
    <3>1. i \in InBatch(d) /\ answered'[i] = stamp[d][i]
      BY <2>2 DEF Answer
    <3> QED BY <1>1, <3>1 DEF IInv, CommittedInv
  <2> QED BY <2>1, <2>2
<1> QED BY <1>4, <1>5, <1>6, <1>7, <1>8 DEF IInv

LEMMA IInvNext == IInv /\ [Next]_vars => IInv'
<1> SUFFICES ASSUME IInv, [Next]_vars PROVE IInv'
  OBVIOUS
<1>1. CASE Next
  <2>1. PICK d \in Devices : \/ Push(d) \/ Upsert(d) \/ Commit(d) \/ PushFails(d)
                             \/ EndDeadlock(d) \/ Answer(d)
    BY <1>1 DEF Next
  <2>2. CASE Push(d) \/ Upsert(d) \/ Commit(d)
    BY <2>2, IInvPush, IInvUpsert, IInvCommit
  <2>3. CASE PushFails(d) \/ EndDeadlock(d)
    BY <2>3, IInvRollback DEF PushFails, EndDeadlock
  <2>4. CASE Answer(d)
    BY <2>4, IInvAnswer
  <2> QED BY <2>1, <2>2, <2>3, <2>4
<1>2. CASE UNCHANGED vars
  BY <1>2 DEF vars, pushVars, IInv, TypeOK, LocksApart, OpenInv, ClosedInv, CommittedInv,
              AnsweredIsKept, InBatch, Left
<1> QED BY <1>1, <1>2

LEMMA InvariantHolds == Spec => []IInv
BY IInvInit, IInvNext, PTL DEF Spec

\* Every variable keeps its type.
THEOREM StoreTypeCorrect == Spec => []TypeOK
BY InvariantHolds, PTL DEF IInv

\* What a PUT's answer vouched for is in its row, or something later is: no
\* other device's transaction, failure or deadlock takes it back (the guard of
\* the upsert, route.ts:56-67, and its lock).
THEOREM AnsweredStays == Spec => []AnsweredIsKept
BY InvariantHolds, PTL DEF IInv

-----------------------------------------------------------------------------
\* A commit is one merge of its whole batch.
LEMMA CommitMerges ==
  ASSUME IInv, NEW d \in Devices, Commit(d) PROVE Store!Next
<1> DEFINE I == InBatch(d)
           batch == [i \in I |-> [at |-> stamp[d][i], by |-> d]]
<1>1. state[d] = "open" /\ I = done[d] /\ I \subseteq Items
      /\ applies[d] = {i \in done[d] : Wins(stamp[d][i], rows[i])}
  <2>1. state[d] = "open" /\ Left(d) = {}
    BY NothingLeft DEF Commit
  <2> QED BY <2>1 DEF IInv, OpenInv, InBatch
<1>2. \A i \in I : stamp[d][i] \in Times
  BY <1>1 DEF InBatch, IInv, TypeOK
<1>3. batch \in [I -> Version]
  BY <1>2, VersionRecord
<1>4. \A i \in I : Store!Wins(batch[i], rows[i]) <=> i \in applies[d]
  BY <1>1, <1>2, VersionRecord DEF Wins, Store!Wins
<1>5. rows' = [i \in Items |-> IF i \in DOMAIN batch /\ Store!Wins(batch[i], rows[i])
                               THEN batch[i] ELSE rows[i]]
  <2>1. DOMAIN batch = I
    OBVIOUS
  <2>2. \A i \in Items : i \in applies[d] <=> i \in I /\ Store!Wins(batch[i], rows[i])
    BY <1>1, <1>4
  <2>3. \A i \in applies[d] : batch[i] = [at |-> stamp[d][i], by |-> d]
    BY <1>1
  <2>4. rows' = [i \in Items |-> IF i \in applies[d] THEN [at |-> stamp[d][i], by |-> d]
                                 ELSE rows[i]]
    BY DEF Commit
  <2> HIDE DEF I, batch
  <2> QED BY <2>1, <2>2, <2>3, <2>4
<1>6. Store!Merge(batch)
  BY <1>5 DEF Store!Merge
<1> HIDE DEF I, batch
<1> QED BY <1>1, <1>3, <1>6 DEF Store!Next

LEMMA StoreStep == IInv /\ [Next]_vars => [Store!Next]_rows
<1> SUFFICES ASSUME IInv, [Next]_vars PROVE Store!Next \/ UNCHANGED rows
  OBVIOUS
<1>1. CASE Next
  <2>1. PICK d \in Devices : \/ Push(d) \/ Upsert(d) \/ Commit(d) \/ PushFails(d)
                             \/ EndDeadlock(d) \/ Answer(d)
    BY <1>1 DEF Next
  <2>2. CASE Commit(d)
    BY <2>2, CommitMerges
  <2>3. CASE ~Commit(d)
    BY <2>1, <2>3 DEF Push, Upsert, PushFails, EndDeadlock, Rollback, Answer
  <2> QED BY <2>2, <2>3
<1>2. CASE UNCHANGED vars
  BY <1>2 DEF vars
<1> QED BY <1>1, <1>2

\* The store's table implements the last-writer-wins store of docs/accounts.md:
\* every step of the transactions is a merge of one whole batch, or none.
THEOREM StoreImplements == Spec => ImplementsStore
<1>1. Init => Store!Init
  BY DEF Init, Store!Init
<1> QED BY <1>1, StoreStep, InvariantHolds, PTL DEF Spec, ImplementsStore, Store!Spec
=============================================================================
