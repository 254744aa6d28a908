------------------------ MODULE EncounterFeed_proofs ------------------------
(***************************************************************************)
(* The encounter feed repeats no message it could record, keeps each       *)
(* channel oldest first, never announces history, and implements its       *)
(* ledger, for any number of workers, webhooks, encounters, replays and    *)
(* faults.                                                                 *)
(***************************************************************************)
EXTENDS EncounterFeed, FiniteSetTheorems, SequenceTheorems, WellFoundedInduction, TLAPS

-----------------------------------------------------------------------------
(* The batch as a set of numbers. *)

\* A non-empty set of natural numbers has a least element.
LEMMA LeastExists ==
  ASSUME NEW S \in SUBSET Nat, S # {}
  PROVE  \E m \in S : \A n \in S : m <= n
<1> DEFINE R == {ss \in Nat \X Nat : ss[1] < ss[2]}
<1>1. IsWellFoundedOn(R, Nat)
  BY NatLessThanWellFounded DEF OpToRel
<1>2. \E m \in S : \A n \in S : ~(<<n, m>> \in R)
  <2> HIDE DEF R
  <2> QED BY <1>1, WFMin
<1>3. PICK m \in S : \A n \in S : ~(<<n, m>> \in R)
  BY <1>2
<1>4. \A n \in S : ~(n < m)
  BY <1>3
<1> QED BY <1>4

\* What the loop over a batch works on is the oldest encounter left in it.
LEMMA OldestProperty ==
  ASSUME NEW S \in SUBSET Encounters, S # {}
  PROVE  Oldest(S) \in S /\ \A d \in S : Oldest(S) <= d
<1>1. S \in SUBSET Nat
  BY FeedAssumption DEF Encounters
<1>2. \E e \in S : \A d \in S : e <= d
  BY <1>1, LeastExists
<1> QED BY <1>2 DEF Oldest

\* The LIMIT takes the oldest: what it leaves out is newer than what it takes.
LEMMA OldestOfProperty ==
  ASSUME NEW S \in SUBSET Encounters
  PROVE  /\ OldestOf(S) \subseteq S
         /\ \A e \in S \ OldestOf(S), b \in OldestOf(S) : b < e
<1>1. OldestOf(S) \subseteq S
  BY DEF OldestOf
<1>2. ASSUME NEW e \in S \ OldestOf(S), NEW b \in OldestOf(S)
      PROVE  b < e
  <2> DEFINE Older(x) == {d \in S : d < x}
  <2>1. e \in Nat /\ b \in Nat /\ b \in S
    BY FeedAssumption DEF Encounters, OldestOf
  <2>2. SUFFICES ASSUME e <= b PROVE FALSE
    BY <2>1
  <2>3. IsFiniteSet(Older(b)) /\ Older(b) \subseteq Encounters
    <3>1. IsFiniteSet(Encounters)
      BY FeedAssumption, FS_Interval DEF Encounters
    <3> QED BY <3>1, FS_Subset
  <2>4. Older(e) \subseteq Older(b)
    <3>1. S \subseteq Int
      BY FeedAssumption DEF Encounters
    <3>2. ASSUME NEW d \in Older(e)
          PROVE  d \in Older(b)
      <4>1. d \in S /\ d < e /\ d \in Int
        BY <3>1, <3>2
      <4>2. d < b
        BY <2>1, <2>2, <4>1
      <4> QED BY <4>1, <4>2
    <3> QED BY <3>2
  <2>5. Cardinality(Older(e)) <= Cardinality(Older(b))
    BY <2>3, <2>4, FS_Subset
  <2>6. Cardinality(Older(e)) \in Nat /\ Cardinality(Older(b)) \in Nat
    BY <2>3, <2>4, FS_Subset, FS_CardinalityType
  <2>7. Cardinality(Older(b)) < BatchSize
    BY DEF OldestOf
  <2>8. ~(Cardinality(Older(e)) < BatchSize)
    BY DEF OldestOf
  <2> QED BY <2>5, <2>6, <2>7, <2>8, FeedAssumption
<1> QED BY <1>1, <1>2

-----------------------------------------------------------------------------
(* Type correctness. *)

LEMMA TypeInit == Init => TypeOK
BY FeedAssumption
   DEF Init, TypeOK, NoResponse, Encounters, Pairs, Publishing
\* The pair a sending publisher is at.
LEMMA CurrentTyped ==
  ASSUME TypeOK, NEW w \in Workers, batch[w] # {}, queue[w] # <<>>
  PROVE  /\ Current(w) \in batch[w]
         /\ \A d \in batch[w] : Current(w) <= d
         /\ Current(w) \in Encounters
         /\ Hook(w) \in Webhooks
         /\ CurrentPair(w) \in Pairs
<1>1. batch[w] \in SUBSET Encounters /\ queue[w] \in Seq(Webhooks)
  BY DEF TypeOK
<1> QED BY <1>1, OldestProperty DEF Current, CurrentPair, Hook, Pairs

\* What the shared updates leave behind.
LEMMA UpdatesTyped ==
  ASSUME TypeOK, NEW w \in Workers
  PROVE  /\ EndCycle(w) => /\ pc' \in [Workers -> {"down", "waiting", "polling",
                                                "received", "polled"} \cup Publishing]
                           /\ cycleStart' \in [Workers -> 0..MaxTime]
                           /\ response' \in [Workers -> [at : 0..MaxTime, recent : SUBSET Encounters]]
         /\ EndBatch(w) => /\ batch' \in [Workers -> SUBSET Encounters]
                           /\ known' \in [Workers -> SUBSET Encounters]
         /\ Fault => faults' \in 0..MaxFaults
<1> USE FeedAssumption DEF TypeOK
<1>1. NoResponse \in [at : 0..MaxTime, recent : SUBSET Encounters]
  BY DEF NoResponse
<1>2. EndCycle(w) => response' \in [Workers -> [at : 0..MaxTime, recent : SUBSET Encounters]]
  BY <1>1 DEF EndCycle
<1>3. EndCycle(w) => /\ pc' \in [Workers -> {"down", "waiting", "polling",
                                           "received", "polled"} \cup Publishing]
                    /\ cycleStart' \in [Workers -> 0..MaxTime]
  BY DEF EndCycle, Goto
<1>4. EndBatch(w) => /\ batch' \in [Workers -> SUBSET Encounters]
                     /\ known' \in [Workers -> SUBSET Encounters]
  BY DEF EndBatch
<1>5. Fault => faults' \in 0..MaxFaults
  BY DEF Fault
<1> QED BY <1>2, <1>3, <1>4, <1>5

\* An insert only ever adds rows.
LEMMA InsertRowsTyped ==
  ASSUME TypeOK, NEW S \in SUBSET Pairs, NEW reason \in {"seeded", "muted", "sent"},
         InsertRows(S, reason)
  PROVE  /\ rows' \in [Pairs -> {"none", "seeded", "muted", "sent"}]
         /\ \A p \in Pairs : rows'[p] = "none" <=> (rows[p] = "none" /\ p \notin S)
BY DEF TypeOK, InsertRows

\* A sequence of neither no nor one element has more.
LEMMA TailNotEmpty ==
  ASSUME NEW S, NEW q \in Seq(S), q # <<>>, Len(q) # 1
  PROVE  Tail(q) # <<>>
<1>1. Len(q) # 0 /\ Len(Tail(q)) = Len(q) - 1 /\ Len(q) \in Nat
  BY EmptySeq, HeadTailProperties, LenProperties
<1>2. Len(Tail(q)) # 0
  BY <1>1
<1>3. Len(<<>>) = 0
  BY EmptySeq
<1> QED BY <1>2, <1>3

\* Where a publisher is in its loops.  Its webhook list, its batch and its
\* session go together with its program counter.
InLoop == {"bootstrap", "select", "send", "mark", "report"}

LoopInv ==
  \A w \in Workers :
       /\ lock = w => pc[w] \in Publishing
       /\ pc[w] \in InLoop => queue[w] # <<>>
       /\ pc[w] \in {"send", "mark"} <=> batch[w] # {}
       /\ pc[w] = "received" => response[w].at # 0

LEMMA LoopInit == Init => LoopInv
BY FeedAssumption DEF Init, LoopInv, InLoop, Publishing, NoResponse

LEMMA TypeStep == TypeOK /\ LoopInv /\ [Next]_vars => (TypeOK /\ LoopInv)'
<1> SUFFICES ASSUME TypeOK, LoopInv, [Next]_vars
             PROVE  (TypeOK /\ LoopInv)'
  OBVIOUS
<1> USE FeedAssumption DEF TypeOK, LoopInv, InLoop, Publishing, db, worker, replay, history, Goto
<1>1. ASSUME NEW w \in Workers, Start(w)
      PROVE  (TypeOK /\ LoopInv)'
  <2>1. TypeOK'
    BY <1>1 DEF Start
  <2>2. LoopInv'
    BY <1>1 DEF Start
  <2> QED BY <2>1, <2>2
<1>2. ASSUME NEW w \in Workers, Stop(w)
      PROVE  (TypeOK /\ LoopInv)'
  <2>1. TypeOK'
    BY <1>2 DEF Stop
  <2>2. LoopInv'
    BY <1>2 DEF Stop
  <2> QED BY <2>1, <2>2
<1>3. ASSUME NEW w \in Workers, StartCycle(w)
      PROVE  (TypeOK /\ LoopInv)'
  <2>1. TypeOK'
    BY <1>3 DEF StartCycle
  <2>2. LoopInv'
    BY <1>3 DEF StartCycle
  <2> QED BY <2>1, <2>2
<1>4. ASSUME NEW w \in Workers, Receive(w)
      PROVE  (TypeOK /\ LoopInv)'
  <2>1. TypeOK'
    BY <1>4 DEF Receive, NoResponse
  <2>2. LoopInv'
    <3>1. response'[w].at # 0 /\ \A v \in Workers \ {w} : response'[v] = response[v]
      BY <1>4 DEF Receive
    <3> QED BY <1>4, <3>1 DEF Receive
  <2> QED BY <2>1, <2>2
<1>5. ASSUME NEW w \in Workers, Archive(w)
      PROVE  (TypeOK /\ LoopInv)'
  <2>1. TypeOK'
    BY <1>5 DEF Archive, ArchivePayload, NoResponse
  <2>2. LoopInv'
    BY <1>5 DEF Archive, ArchivePayload, NoResponse
  <2> QED BY <2>1, <2>2
<1>6. ASSUME NEW w \in Workers, BountyFails(w)
      PROVE  (TypeOK /\ LoopInv)'
  <2>1. TypeOK'
    BY <1>6 DEF BountyFails, NoResponse
  <2>2. LoopInv'
    BY <1>6 DEF BountyFails, NoResponse
  <2> QED BY <2>1, <2>2
<1>7. ASSUME NEW w \in Workers, CycleAborts(w)
      PROVE  (TypeOK /\ LoopInv)'
  <2>1. TypeOK'
    BY <1>7 DEF CycleAborts, EndCycle, NoResponse
  <2>2. LoopInv'
    BY <1>7 DEF CycleAborts, EndCycle, NoResponse
  <2> QED BY <2>1, <2>2
<1>8. ASSUME NEW w \in Workers, SkipPublish(w)
      PROVE  (TypeOK /\ LoopInv)'
  <2>1. TypeOK'
    BY <1>8, UpdatesTyped DEF SkipPublish
  <2>2. LoopInv'
    BY <1>8 DEF SkipPublish, EndCycle, NoResponse
  <2> QED BY <2>1, <2>2
<1>9. ASSUME NEW w \in Workers, TryLock(w)
      PROVE  (TypeOK /\ LoopInv)'
  <2>1. TypeOK'
    BY <1>9 DEF TryLock
  <2>2. LoopInv'
    BY <1>9 DEF TryLock
  <2> QED BY <2>1, <2>2
<1>10. ASSUME NEW w \in Workers, Bootstrap(w)
      PROVE  (TypeOK /\ LoopInv)'
  <2>1. TypeOK'
    <3>1. Hook(w) \in Webhooks
      BY <1>10 DEF Bootstrap, Hook
    <3>2. OlderThan(cycleStart[w]) \in SUBSET Encounters
      BY DEF OlderThan, Archived
    <3>3. OlderThan(cycleStart[w]) \X {Hook(w)} \in SUBSET Pairs
      BY <3>1, <3>2 DEF Pairs
    <3>4. rows' \in [Pairs -> {"none", "seeded", "muted", "sent"}]
      BY <1>10, <3>3, InsertRowsTyped DEF Bootstrap
    <3>5. past' \in [Webhooks -> SUBSET Encounters]
      <4>1. past' = past \/ past' = [past EXCEPT ![Hook(w)] = OlderThan(cycleStart[w])]
        BY <1>10 DEF Bootstrap
      <4> QED BY <3>1, <3>2, <4>1
    <3>6. registered' \in SUBSET Webhooks
      BY <1>10, <3>1 DEF Bootstrap
    <3> QED BY <1>10, <3>4, <3>5, <3>6 DEF Bootstrap
  <2>2. LoopInv'
    BY <1>10 DEF Bootstrap, InsertRows, OlderThan, Archived, Hook, HasSession
  <2> QED BY <2>1, <2>2
<1>11. ASSUME NEW w \in Workers, Select(w)
      PROVE  (TypeOK /\ LoopInv)'
  <2>1. TypeOK'
    BY <1>11, OldestOfProperty DEF Select, Archived, HasSession, Hook, Pending
  <2>2. LoopInv'
    BY <1>11, OldestOfProperty DEF Select, Archived, HasSession, Hook, Pending
  <2> QED BY <2>1, <2>2
<1>12. ASSUME NEW w \in Workers, Accept(w)
      PROVE  (TypeOK /\ LoopInv)'
  <2>1. TypeOK'
    <3>1. CurrentPair(w) \in Pairs
      BY <1>12, CurrentTyped DEF Accept
    <3>2. delivered' \in [Pairs -> Nat]
      <4>1. delivered' = [delivered EXCEPT ![CurrentPair(w)] = delivered[CurrentPair(w)] + 1]
        BY <1>12 DEF Accept
      <4> QED BY <3>1, <4>1
    <3>3. doubtful' \in SUBSET Pairs
      BY <1>12, <3>1 DEF Accept
    <3> QED BY <1>12, <3>2, <3>3 DEF Accept
  <2>2. LoopInv'
    BY <1>12, CurrentTyped DEF Accept, Hook, HasSession
  <2> QED BY <2>1, <2>2
<1>13. ASSUME NEW w \in Workers, Reject(w)
      PROVE  (TypeOK /\ LoopInv)'
  <2>1. TypeOK'
    BY <1>13 DEF Reject, EndBatch
  <2>2. LoopInv'
    BY <1>13 DEF Reject, EndBatch
  <2> QED BY <2>1, <2>2
<1>14. ASSUME NEW w \in Workers, AnswerLost(w)
      PROVE  (TypeOK /\ LoopInv)'
  <2>1. TypeOK'
    <3>1. CurrentPair(w) \in Pairs
      BY <1>14, CurrentTyped DEF AnswerLost
    <3>2. delivered' \in [Pairs -> Nat]
      <4>1. delivered' = [delivered EXCEPT ![CurrentPair(w)] = delivered[CurrentPair(w)] + 1]
        BY <1>14 DEF AnswerLost
      <4> QED BY <3>1, <4>1
    <3>3. doubtful' \in SUBSET Pairs
      BY <1>14, <3>1 DEF AnswerLost
    <3> QED BY <1>14, <3>2, <3>3, UpdatesTyped DEF AnswerLost
  <2>2. LoopInv'
    BY <1>14, CurrentTyped DEF AnswerLost, EndBatch, Fault
  <2> QED BY <2>1, <2>2
<1>15. ASSUME NEW w \in Workers, Mark(w)
      PROVE  (TypeOK /\ LoopInv)'
  <2>1. TypeOK'
    <3>1. CurrentPair(w) \in Pairs
      BY <1>15, CurrentTyped DEF Mark
    <3>2. rows' \in [Pairs -> {"none", "seeded", "muted", "sent"}]
      BY <1>15, <3>1, InsertRowsTyped DEF Mark
    <3>3. batch' \in [Workers -> SUBSET Encounters] /\ known' \in [Workers -> SUBSET Encounters]
      <4>1. CASE batch[w] = {Current(w)}
        BY <1>15, <4>1, UpdatesTyped DEF Mark
      <4>2. CASE batch[w] # {Current(w)}
        <5>1. UNCHANGED known /\ batch' = [batch EXCEPT ![w] = batch[w] \ {Current(w)}]
          BY <1>15, <4>2 DEF Mark
        <5> QED BY <5>1
      <4> QED BY <4>1, <4>2
    <3> QED BY <1>15, <3>2, <3>3 DEF Mark
  <2>2. LoopInv'
    <3>1. CASE batch[w] = {Current(w)}
      BY <1>15, <3>1, ZenonT(30) DEF Mark, EndBatch
    <3>2. CASE batch[w] # {Current(w)}
      <4>1. Current(w) \in batch[w]
        BY <1>15, CurrentTyped DEF Mark
      <4>2. batch[w] \ {Current(w)} # {}
        BY <4>1, <3>2
      <4> QED BY <1>15, <3>2, <4>2 DEF Mark
    <3> QED BY <3>1, <3>2
  <2> QED BY <2>1, <2>2
<1>16. ASSUME NEW w \in Workers, Report(w)
      PROVE  (TypeOK /\ LoopInv)'
  <2>1. TypeOK'
    <3>1. /\ queue[w] # <<>> /\ queue[w] \in Seq(Webhooks)
          /\ Tail(queue[w]) \in Seq(Webhooks)
      BY <1>16 DEF Report
    <3>2. queue' \in [Workers -> Seq(Webhooks)]
      BY <1>16, <3>1 DEF Report
    <3>3. /\ alerts' \in [Workers -> [Webhooks -> 0..MaxTime]]
          /\ lastWarn' \in [Workers -> [Webhooks -> 0..MaxTime]]
      <4>1. /\ now \in 0..MaxTime /\ Hook(w) \in Webhooks
            /\ alerts \in [Workers -> [Webhooks -> 0..MaxTime]]
            /\ lastWarn \in [Workers -> [Webhooks -> 0..MaxTime]]
        BY <3>1 DEF Hook
      <4>2. /\ alerts' = [alerts EXCEPT ![w][Hook(w)] =
                             IF ~Stale(Hook(w)) THEN 0
                             ELSE IF WarningDue(w, Hook(w)) THEN now ELSE alerts[w][Hook(w)]]
            /\ lastWarn' = [lastWarn EXCEPT ![w][Hook(w)] =
                             IF Stale(Hook(w)) /\ WarningDue(w, Hook(w))
                             THEN now ELSE lastWarn[w][Hook(w)]]
        BY <1>16 DEF Report
      <4> HIDE DEF TypeOK, LoopInv
      <4> QED BY <4>1, <4>2
    <3> QED BY <1>16, <3>2, <3>3 DEF Report
  <2>2. LoopInv'
    <3>1. Len(queue[w]) # 1 => Tail(queue[w]) # <<>>
      <4>1. queue[w] \in Seq(Webhooks) /\ queue[w] # <<>>
        BY <1>16 DEF Report
      <4> QED BY <4>1, TailNotEmpty
    <3>2. queue'[w] = Tail(queue[w]) /\ \A v \in Workers \ {w} : queue'[v] = queue[v]
      BY <1>16 DEF Report
    <3>3. pc'[w] = (IF Len(queue[w]) = 1 THEN "unlock" ELSE "bootstrap")
          /\ \A v \in Workers \ {w} : pc'[v] = pc[v]
      BY <1>16 DEF Report
    <3>4. UNCHANGED <<batch, response, lock>> /\ pc[w] = "report"
      BY <1>16 DEF Report
    <3> HIDE DEF TypeOK
    <3> QED BY <3>1, <3>2, <3>3, <3>4
  <2> QED BY <2>1, <2>2
<1>17. ASSUME NEW w \in Workers, PublisherError(w)
      PROVE  (TypeOK /\ LoopInv)'
  <2>1. TypeOK'
    <3>1. doubtful' \in SUBSET Pairs
      BY <1>17, CurrentTyped, ZenonT(30) DEF PublisherError
    <3>2. faults' \in 0..MaxFaults
      BY <1>17, UpdatesTyped DEF PublisherError
    <3> QED BY <1>17, <3>1, <3>2, UpdatesTyped DEF PublisherError
  <2>2. LoopInv'
    BY <1>17, CurrentTyped DEF PublisherError, EndBatch, Fault, HasSession
  <2> QED BY <2>1, <2>2
<1>18. ASSUME NEW w \in Workers, Unlock(w)
      PROVE  (TypeOK /\ LoopInv)'
  <2>1. TypeOK'
    BY <1>18 DEF Unlock, EndCycle, NoResponse, HasSession
  <2>2. LoopInv'
    <3>1. /\ pc[w] = "unlock" /\ pc'[w] = "waiting" /\ lock' # w
          /\ UNCHANGED batch
      BY <1>18 DEF Unlock, EndCycle, HasSession
    <3>2. \A v \in Workers \ {w} : /\ pc'[v] = pc[v] /\ queue'[v] = queue[v]
                                   /\ response'[v] = response[v]
                                   /\ lock' = v => lock = v
      BY <1>18 DEF Unlock, EndCycle
    <3> QED BY <3>1, <3>2
  <2> QED BY <2>1, <2>2
<1>19. ASSUME NEW w \in Workers, SessionLost(w)
      PROVE  (TypeOK /\ LoopInv)'
  <2>1. TypeOK'
    <3>1. doubtful' \in SUBSET Pairs
      BY <1>19, CurrentTyped, SMTT(30) DEF SessionLost
    <3> QED BY <1>19, <3>1, UpdatesTyped DEF SessionLost
  <2>2. LoopInv'
    BY <1>19, CurrentTyped DEF SessionLost, Fault, HasSession
  <2> QED BY <2>1, <2>2
<1>20. ASSUME NEW w \in Workers, Crash(w)
      PROVE  (TypeOK /\ LoopInv)'
  <2>1. TypeOK'
    <3>1. doubtful' \in SUBSET Pairs
      BY <1>20, CurrentTyped DEF Crash
    <3>2. response' \in [Workers -> [at : 0..MaxTime, recent : SUBSET Encounters]]
      BY <1>20 DEF Crash, NoResponse
    <3>3. alerts' \in [Workers -> [Webhooks -> 0..MaxTime]] /\ lastWarn' \in [Workers -> [Webhooks -> 0..MaxTime]]
      BY <1>20, SMTT(30) DEF Crash
    <3>4. /\ batch' \in [Workers -> SUBSET Encounters]
          /\ known' \in [Workers -> SUBSET Encounters]
          /\ faults' \in 0..MaxFaults
      BY <1>20, UpdatesTyped DEF Crash
    <3>5. /\ pc' = [pc EXCEPT ![w] = "down"]
          /\ lock' \in {lock, None}
          /\ queue' = [queue EXCEPT ![w] = <<>>]
          /\ cycleStart' = [cycleStart EXCEPT ![w] = 0]
          /\ UNCHANGED <<seenAt, source, registered, rows, delivered, config,
                         rpc, left, now, past>>
      BY <1>20 DEF Crash
    <3>6. queue' \in [Workers -> Seq(Webhooks)] /\ lock' \in Workers \cup {None}
      BY <3>5
    <3>7. /\ pc' \in [Workers -> {"down", "waiting", "polling", "received", "polled"}
                                 \cup Publishing]
          /\ cycleStart' \in [Workers -> 0..MaxTime]
      BY <3>5
    <3> QED BY <3>1, <3>2, <3>3, <3>4, <3>5, <3>6, <3>7
  <2>2. LoopInv'
    BY <1>20, CurrentTyped DEF Crash, Fault, EndBatch, NoResponse, HasSession
  <2> QED BY <2>1, <2>2
<1>21. ASSUME NEW r \in Replays, ReplayStart(r)
      PROVE  (TypeOK /\ LoopInv)'
  <2>1. TypeOK'
    BY <1>21 DEF ReplayStart
  <2>2. LoopInv'
    BY <1>21 DEF ReplayStart
  <2> QED BY <2>1, <2>2
<1>22. ASSUME NEW r \in Replays, ReplayIngest(r)
      PROVE  (TypeOK /\ LoopInv)'
  <2>1. TypeOK'
    BY <1>22 DEF ReplayIngest, ArchivePayload
  <2>2. LoopInv'
    BY <1>22 DEF ReplayIngest, ArchivePayload
  <2> QED BY <2>1, <2>2
<1>23. ASSUME NEW r \in Replays, ReplaySkips(r)
      PROVE  (TypeOK /\ LoopInv)'
  <2>1. TypeOK'
    BY <1>23 DEF ReplaySkips
  <2>2. LoopInv'
    BY <1>23 DEF ReplaySkips
  <2> QED BY <2>1, <2>2
<1>24. ASSUME NEW r \in Replays, Mute(r)
      PROVE  (TypeOK /\ LoopInv)'
  <2>1. TypeOK'
    BY <1>24 DEF Mute, InsertRows
  <2>2. LoopInv'
    BY <1>24 DEF Mute, InsertRows
  <2> QED BY <2>1, <2>2
<1>25. ASSUME NEW r \in Replays, Announce(r)
      PROVE  (TypeOK /\ LoopInv)'
  <2>1. TypeOK'
    BY <1>25 DEF Announce
  <2>2. LoopInv'
    BY <1>25 DEF Announce
  <2> QED BY <2>1, <2>2
<1>26. ASSUME NEW r \in Replays, ReplayCrash(r)
      PROVE  (TypeOK /\ LoopInv)'
  <2>1. TypeOK'
    BY <1>26 DEF ReplayCrash, Fault
  <2>2. LoopInv'
    BY <1>26 DEF ReplayCrash, Fault
  <2> QED BY <2>1, <2>2
<1>27. CASE Tick
  <2>1. TypeOK'
    BY <1>27 DEF Tick
  <2>2. LoopInv'
    BY <1>27 DEF Tick
  <2> QED BY <2>1, <2>2
<1>28. CASE UNCHANGED vars
  <2>1. TypeOK'
    BY <1>28 DEF vars
  <2>2. LoopInv'
    BY <1>28 DEF vars
  <2> QED BY <2>1, <2>2
<1> QED
  BY <1>1, <1>2, <1>3, <1>4, <1>5, <1>6, <1>7, <1>8, <1>9, <1>10, <1>11, <1>12, <1>13, <1>14, <1>15, <1>16, <1>17, <1>18, <1>19, <1>20, <1>21, <1>22, <1>23, <1>24, <1>25, <1>26, <1>27, <1>28
     DEF Next, Worker, Replay

\* Every behaviour keeps every variable within its type, and every publisher's
\* list and batch in step with its program counter.
THEOREM TypeCorrect == Spec => [](TypeOK /\ LoopInv)
<1>1. Init => TypeOK /\ LoopInv
  BY TypeInit, LoopInit
<1> QED BY <1>1, TypeStep, PTL DEF Spec

-----------------------------------------------------------------------------
(* Which steps touch the feed at all. *)

\* A step that leaves the posts, the lock and every publisher alone, and
\* takes nothing out of the archive.
QuietStep ==
  /\ UNCHANGED <<registered, rows, lock, delivered, queue, batch, known, past,
                 doubtful>>
  /\ \A v \in Workers : \/ pc'[v] = pc[v]
                        \/ pc[v] \notin Publishing /\ pc'[v] \notin Publishing

FeedStep(w) ==
  \/ TryLock(w) \/ Bootstrap(w) \/ Select(w) \/ Accept(w) \/ Reject(w)
  \/ AnswerLost(w) \/ Mark(w) \/ Report(w) \/ PublisherError(w) \/ Unlock(w)
  \/ SessionLost(w) \/ Crash(w)

\* Polling, replaying and the clock are quiet.
LEMMA QuietOrFeed ==
  ASSUME TypeOK, [Next]_vars
  PROVE  \/ QuietStep
         \/ \E w \in Workers : FeedStep(w)
         \/ \E r \in Replays : Mute(r)
<1> USE DEF QuietStep, TypeOK, Publishing, Goto, db, worker, replay, history
<1>1. ASSUME NEW w \in Workers,
             \/ Start(w) \/ Stop(w) \/ StartCycle(w) \/ Receive(w) \/ Archive(w)
             \/ BountyFails(w) \/ CycleAborts(w) \/ SkipPublish(w)
      PROVE  QuietStep
  <2>1. CASE Start(w)
    BY <2>1 DEF Start
  <2>2. CASE Stop(w)
    BY <2>2 DEF Stop
  <2>3. CASE StartCycle(w)
    BY <2>3 DEF StartCycle
  <2>4. CASE Receive(w)
    BY <2>4 DEF Receive
  <2>5. CASE Archive(w)
    BY <2>5 DEF Archive
  <2>6. CASE BountyFails(w)
    BY <2>6 DEF BountyFails
  <2>7. CASE CycleAborts(w)
    BY <2>7 DEF CycleAborts, EndCycle
  <2>8. CASE SkipPublish(w)
    BY <2>8 DEF SkipPublish, EndCycle
  <2> QED
    BY <1>1, <2>1, <2>2, <2>3, <2>4, <2>5, <2>6, <2>7, <2>8
<1>2. ASSUME NEW r \in Replays,
             \/ ReplayStart(r) \/ ReplayIngest(r) \/ ReplaySkips(r)
             \/ Announce(r) \/ ReplayCrash(r)
      PROVE  QuietStep
  BY <1>2 DEF ReplayStart, ReplayIngest, ReplaySkips, Announce, ReplayCrash
<1>3. Tick \/ UNCHANGED vars => QuietStep
  BY DEF Tick, vars
<1> QED
  BY <1>1, <1>2, <1>3 DEF Next, Worker, Replay, FeedStep

\* What a publisher is at does not change while its list and batch do not.
LEMMA SamePair ==
  ASSUME NEW v \in Workers, batch'[v] = batch[v], queue'[v] = queue[v]
  PROVE  Hook(v)' = Hook(v) /\ Current(v)' = Current(v) /\ CurrentPair(v)' = CurrentPair(v)
BY DEF CurrentPair, Current, Hook, Oldest

-----------------------------------------------------------------------------
(* No message is repeated while its publisher can record it. *)

\* w's message is out and w can still write its row.
InHand(w, p) == lock = w /\ pc[w] = "mark" /\ CurrentPair(w) = p

\* A delivery outside doubt has its row, or is in a publisher's hand.
Accounted ==
  \A p \in Pairs : p \notin doubtful =>
    /\ delivered[p] <= 1
    /\ delivered[p] = 1 /\ rows[p] = "none" => \E w \in Workers : InHand(w, p)

\* What the lock's holder has still to send has not been delivered.
HolderFresh ==
  \A w \in Workers : lock = w =>
    \A e \in batch[w] :
      \/ <<e, Hook(w)>> \in doubtful
      \/ delivered[<<e, Hook(w)>>] = 0
      \/ pc[w] = "mark" /\ e = Current(w)

\* A publisher that has sent without its session cannot record it.
LateSendDoubtful ==
  \A w \in Workers : pc[w] = "mark" /\ lock # w => CurrentPair(w) \in doubtful

DoubtInv == Accounted /\ HolderFresh /\ LateSendDoubtful

LEMMA DoubtInit == Init => DoubtInv
BY FeedAssumption
   DEF Init, DoubtInv, Accounted, HolderFresh, LateSendDoubtful

\* A step that changes no publisher's message in flight and forgets no doubt
\* keeps the accounts, whatever rows it inserts.
LEMMA DoubtFrame ==
  ASSUME TypeOK, LoopInv, DoubtInv,
         UNCHANGED <<lock, delivered, queue, batch, doubtful>>,
         \A p \in Pairs : rows'[p] = "none" => rows[p] = "none",
         \A v \in Workers : pc'[v] = "mark" <=> pc[v] = "mark"
  PROVE  DoubtInv'
<1>1. \A v \in Workers : /\ Hook(v)' = Hook(v) /\ Current(v)' = Current(v)
                         /\ CurrentPair(v)' = CurrentPair(v)
  BY SamePair
<1>2. Accounted'
  <2> SUFFICES ASSUME NEW p \in Pairs, p \notin doubtful
               PROVE  /\ delivered[p] <= 1
                      /\ delivered[p] = 1 /\ rows'[p] = "none" => \E w \in Workers : InHand(w, p)'
    BY DEF Accounted
  <2>1. /\ delivered[p] <= 1
        /\ delivered[p] = 1 /\ rows'[p] = "none" => \E w \in Workers : InHand(w, p)
    BY DEF DoubtInv, Accounted
  <2>2. \A w \in Workers : InHand(w, p) => InHand(w, p)'
    BY <1>1 DEF InHand
  <2> QED BY <2>1, <2>2
<1>3. HolderFresh'
  BY <1>1 DEF DoubtInv, HolderFresh
<1>4. LateSendDoubtful'
  BY <1>1 DEF DoubtInv, LateSendDoubtful
<1> QED BY <1>2, <1>3, <1>4 DEF DoubtInv

\* So does a step that leaves w with no batch, if it puts the message w had in
\* hand, if any, in doubt.
LEMMA DoubtLeave ==
  ASSUME TypeOK, LoopInv, DoubtInv, NEW w \in Workers,
         UNCHANGED <<delivered, rows>>,
         \A v \in Workers \ {w} : /\ queue'[v] = queue[v] /\ batch'[v] = batch[v]
                                  /\ pc'[v] = pc[v]
                                  /\ lock' = v <=> lock = v,
         pc'[w] # "mark", batch'[w] = {},
         doubtful \subseteq doubtful',
         \A p \in Pairs : InHand(w, p) => p \in doubtful'
  PROVE  DoubtInv'
<1>1. \A v \in Workers \ {w} : /\ Hook(v)' = Hook(v) /\ Current(v)' = Current(v)
                               /\ CurrentPair(v)' = CurrentPair(v)
  BY SamePair
<1>2. Accounted'
  <2> SUFFICES ASSUME NEW p \in Pairs, p \notin doubtful'
               PROVE  /\ delivered[p] <= 1
                      /\ delivered[p] = 1 /\ rows[p] = "none" => \E v \in Workers : InHand(v, p)'
    BY DEF Accounted
  <2>1. /\ delivered[p] <= 1
        /\ delivered[p] = 1 /\ rows[p] = "none" => \E v \in Workers : InHand(v, p)
    BY DEF DoubtInv, Accounted
  <2>2. \A v \in Workers : InHand(v, p) => v # w /\ InHand(v, p)'
    BY <1>1 DEF InHand
  <2> QED BY <2>1, <2>2
<1>3. HolderFresh'
  BY <1>1 DEF DoubtInv, HolderFresh
<1>4. LateSendDoubtful'
  BY <1>1 DEF DoubtInv, LateSendDoubtful
<1> QED BY <1>2, <1>3, <1>4 DEF DoubtInv

\* Only the lock's holder has a message in hand.
LEMMA OneInHand ==
  ASSUME NEW v \in Workers, NEW w \in Workers, NEW p, lock = w, InHand(v, p)
  PROVE  v = w /\ pc[w] = "mark" /\ CurrentPair(w) = p
BY DEF InHand

LEMMA DoubtAccept ==
  ASSUME TypeOK, LoopInv, DoubtInv, NEW w \in Workers, Accept(w)
  PROVE  DoubtInv'
<1> DEFINE q == CurrentPair(w)
<1>1. /\ pc[w] = "send" /\ Current(w) \in batch[w] /\ q \in Pairs
      /\ q = <<Current(w), Hook(w)>>
  BY CurrentTyped DEF Accept, LoopInv, InLoop, CurrentPair
<1>2. /\ delivered' = [delivered EXCEPT ![q] = delivered[q] + 1]
      /\ doubtful' = IF lock = w THEN doubtful ELSE doubtful \cup {q}
      /\ pc' = [pc EXCEPT ![w] = "mark"]
      /\ UNCHANGED <<lock, queue, batch, rows>>
  BY DEF Accept, HasSession, Goto, db
<1>3. \A v \in Workers : /\ Hook(v)' = Hook(v) /\ Current(v)' = Current(v)
                         /\ CurrentPair(v)' = CurrentPair(v)
  BY <1>2, SamePair
<1>4. \A v \in Workers : pc'[v] = IF v = w THEN "mark" ELSE pc[v]
  BY <1>2 DEF TypeOK
<1>5. \A p \in Pairs : delivered'[p] = IF p = q THEN delivered[p] + 1 ELSE delivered[p]
  BY <1>2 DEF TypeOK
<1>6. lock = w /\ q \notin doubtful => delivered[q] = 0
  BY <1>1 DEF DoubtInv, HolderFresh
<1> HIDE DEF q
<1>7. Accounted'
  <2> SUFFICES ASSUME NEW p \in Pairs, p \notin doubtful'
               PROVE  /\ delivered'[p] <= 1
                      /\ delivered'[p] = 1 /\ rows'[p] = "none" => \E v \in Workers : InHand(v, p)'
    BY DEF Accounted
  <2>1. p \notin doubtful /\ (p = q => lock = w)
    BY <1>2
  <2>2. CASE p = q
    <3>1. delivered'[p] = 1
      BY <1>5, <1>6, <2>1, <2>2
    <3>2. InHand(w, p)'
      BY <1>2, <1>3, <1>4, <2>1, <2>2 DEF InHand, q
    <3> QED BY <3>1, <3>2
  <2>3. CASE p # q
    <3>1. /\ delivered[p] <= 1
          /\ delivered[p] = 1 /\ rows[p] = "none" => \E v \in Workers : InHand(v, p)
      BY <2>1 DEF DoubtInv, Accounted
    <3>2. \A v \in Workers : InHand(v, p) => InHand(v, p)'
      BY <1>2, <1>3, <1>4, <1>1 DEF InHand
    <3> QED BY <1>2, <1>5, <2>3, <3>1, <3>2
  <2> QED BY <2>2, <2>3
<1>8. HolderFresh'
  <2> SUFFICES ASSUME NEW v \in Workers, lock = v, NEW e \in batch[v],
                      <<e, Hook(v)>> \notin doubtful',
                      ~(pc'[v] = "mark" /\ e = Current(v))
               PROVE  delivered'[<<e, Hook(v)>>] = 0
    BY <1>2, <1>3, <1>4 DEF HolderFresh
  <2>1. <<e, Hook(v)>> \in Pairs
    <3>1. Hook(v) \in Webhooks
      BY CurrentTyped DEF LoopInv, InLoop
    <3> QED BY <3>1 DEF TypeOK, Pairs
  <2>2. <<e, Hook(v)>> # q
    <3>1. CASE v = w
      BY <1>1, <1>4, <3>1
    <3>2. CASE v # w
      BY <1>2, <3>2
    <3> QED BY <3>1, <3>2
  <2>3. <<e, Hook(v)>> \notin doubtful /\ ~(pc[v] = "mark" /\ e = Current(v))
    BY <1>1, <1>2, <1>4
  <2>4. delivered[<<e, Hook(v)>>] = 0
    BY <2>3 DEF DoubtInv, HolderFresh
  <2> QED BY <1>5, <2>1, <2>2, <2>4
<1>9. LateSendDoubtful'
  BY <1>2, <1>3, <1>4 DEF DoubtInv, LateSendDoubtful, q
<1> QED BY <1>7, <1>8, <1>9 DEF DoubtInv

LEMMA DoubtAnswerLost ==
  ASSUME TypeOK, LoopInv, DoubtInv, NEW w \in Workers, AnswerLost(w)
  PROVE  DoubtInv'
<1> DEFINE q == CurrentPair(w)
<1>1. pc[w] = "send" /\ q \in Pairs
  BY CurrentTyped DEF AnswerLost, LoopInv, InLoop
<1>2. /\ delivered' = [delivered EXCEPT ![q] = delivered[q] + 1]
      /\ doubtful' = doubtful \cup {q}
      /\ pc' = [pc EXCEPT ![w] = "report"]
      /\ batch' = [batch EXCEPT ![w] = {}]
      /\ UNCHANGED <<lock, queue, rows>>
  BY DEF AnswerLost, EndBatch, Goto, db
<1>3. \A v \in Workers \ {w} : /\ batch'[v] = batch[v] /\ pc'[v] = pc[v]
                               /\ Hook(v)' = Hook(v) /\ Current(v)' = Current(v)
                               /\ CurrentPair(v)' = CurrentPair(v)
  BY <1>2, SamePair DEF TypeOK
<1>4. pc'[w] = "report" /\ batch'[w] = {}
  BY <1>2 DEF TypeOK
<1>5. \A p \in Pairs : p \notin doubtful' => p \notin doubtful /\ delivered'[p] = delivered[p]
  BY <1>2 DEF TypeOK
<1> HIDE DEF q
<1>6. Accounted'
  <2> SUFFICES ASSUME NEW p \in Pairs, p \notin doubtful'
               PROVE  /\ delivered'[p] <= 1
                      /\ delivered'[p] = 1 /\ rows'[p] = "none" => \E v \in Workers : InHand(v, p)'
    BY DEF Accounted
  <2>1. \A v \in Workers : InHand(v, p) => InHand(v, p)'
    BY <1>1, <1>2, <1>3 DEF InHand
  <2> QED BY <1>2, <1>5, <2>1 DEF DoubtInv, Accounted
<1>7. HolderFresh'
  <2> SUFFICES ASSUME NEW v \in Workers \ {w}, lock = v, NEW e \in batch[v],
                      <<e, Hook(v)>> \notin doubtful',
                      ~(pc[v] = "mark" /\ e = Current(v))
               PROVE  delivered'[<<e, Hook(v)>>] = 0
    BY <1>2, <1>3, <1>4 DEF HolderFresh
  <2>1. <<e, Hook(v)>> \in Pairs
    <3>1. Hook(v) \in Webhooks
      BY CurrentTyped DEF LoopInv, InLoop
    <3> QED BY <3>1 DEF TypeOK, Pairs
  <2>2. <<e, Hook(v)>> \notin doubtful
    BY <1>2
  <2> QED BY <1>5, <2>1, <2>2 DEF DoubtInv, HolderFresh
<1>8. LateSendDoubtful'
  BY <1>2, <1>3, <1>4 DEF DoubtInv, LateSendDoubtful
<1> QED BY <1>6, <1>7, <1>8 DEF DoubtInv

LEMMA DoubtMark ==
  ASSUME TypeOK, LoopInv, DoubtInv, NEW w \in Workers, Mark(w)
  PROVE  DoubtInv'
<1> DEFINE q == CurrentPair(w)
<1>1. pc[w] = "mark" /\ lock = w /\ q \in Pairs /\ Current(w) \in batch[w]
  BY CurrentTyped DEF Mark, LoopInv, InLoop, HasSession
<1>2. UNCHANGED <<lock, queue, delivered, doubtful>> /\ InsertRows({q}, "sent")
  BY DEF Mark
<1>3. /\ \A v \in Workers \ {w} : batch'[v] = batch[v] /\ pc'[v] = pc[v]
      /\ pc'[w] # "mark"
      /\ batch'[w] \subseteq batch[w] \ {Current(w)}
  <2>1. CASE batch[w] = {Current(w)}
    BY <2>1 DEF Mark, EndBatch, Goto, TypeOK
  <2>2. CASE batch[w] # {Current(w)}
    BY <2>2 DEF Mark, Goto, TypeOK
  <2> QED BY <2>1, <2>2
<1>4. \A p \in Pairs : rows'[p] = "none" => rows[p] = "none" /\ p # q
  BY <1>1, <1>2, InsertRowsTyped
<1>5. Accounted'
  <2> SUFFICES ASSUME NEW p \in Pairs, p \notin doubtful
               PROVE  delivered[p] <= 1 /\ ~(delivered[p] = 1 /\ rows'[p] = "none")
    BY <1>2 DEF Accounted
  <2>1. \A v \in Workers : InHand(v, p) => p = q
    BY <1>1, OneInHand
  <2> QED BY <1>4, <2>1 DEF DoubtInv, Accounted
<1>6. HolderFresh'
  <2>1. Hook(w)' = Hook(w)
    BY <1>2 DEF Hook
  <2> QED BY <1>1, <1>2, <1>3, <2>1 DEF DoubtInv, HolderFresh
<1>7. LateSendDoubtful'
  <2>1. \A v \in Workers \ {w} : CurrentPair(v)' = CurrentPair(v)
    BY <1>2, <1>3, SamePair
  <2> QED BY <1>2, <1>3, <2>1 DEF DoubtInv, LateSendDoubtful
<1> QED BY <1>5, <1>6, <1>7 DEF DoubtInv

LEMMA DoubtSelect ==
  ASSUME TypeOK, LoopInv, DoubtInv, NEW w \in Workers, Select(w)
  PROVE  DoubtInv'
<1>1. /\ pc[w] = "select" /\ lock = w /\ Hook(w) \in Webhooks
      /\ UNCHANGED <<rows, lock, queue, delivered, doubtful>>
      /\ \A v \in Workers \ {w} : batch'[v] = batch[v] /\ pc'[v] = pc[v]
      /\ pc'[w] # "mark"
      /\ batch'[w] = OldestOf(Pending(Hook(w)))
  BY DEF Select, HasSession, Hook, Goto, TypeOK, LoopInv, InLoop, db
<1>2. \A v \in Workers, p \in Pairs : ~InHand(v, p)
  BY <1>1 DEF InHand
<1>3. Accounted'
  BY <1>1, <1>2 DEF DoubtInv, Accounted
<1>4. HolderFresh'
  <2>1. \A e \in batch'[w] : <<e, Hook(w)>> \in Pairs /\ rows[<<e, Hook(w)>>] = "none"
    BY <1>1, OldestOfProperty DEF Pending, Archived, Pairs
  <2>2. \A p \in Pairs : p \notin doubtful /\ rows[p] = "none" => delivered[p] = 0
    BY <1>2 DEF DoubtInv, Accounted, TypeOK
  <2>3. Hook(w)' = Hook(w)
    BY <1>1 DEF Hook
  <2> QED BY <1>1, <2>1, <2>2, <2>3 DEF HolderFresh
<1>5. LateSendDoubtful'
  <2>1. \A v \in Workers \ {w} : CurrentPair(v)' = CurrentPair(v)
    BY <1>1, SamePair
  <2> QED BY <1>1, <2>1 DEF DoubtInv, LateSendDoubtful
<1> QED BY <1>3, <1>4, <1>5 DEF DoubtInv

LEMMA DoubtSessionLost ==
  ASSUME TypeOK, LoopInv, DoubtInv, NEW w \in Workers, SessionLost(w)
  PROVE  DoubtInv'
<1>1. /\ lock = w /\ lock' = None
      /\ UNCHANGED <<pc, batch, queue, rows, delivered>>
      /\ doubtful' = IF pc[w] = "mark" THEN doubtful \cup {CurrentPair(w)} ELSE doubtful
  BY DEF SessionLost, HasSession, worker
<1>2. \A v \in Workers : CurrentPair(v)' = CurrentPair(v)
  BY <1>1, SamePair
<1>3. \A v \in Workers, p \in Pairs : InHand(v, p) => p \in doubtful'
  BY <1>1 DEF InHand
<1>4. Accounted'
  BY <1>1, <1>3 DEF DoubtInv, Accounted
<1>5. HolderFresh'
  BY <1>1, FeedAssumption DEF HolderFresh
<1>6. LateSendDoubtful'
  BY <1>1, <1>2 DEF DoubtInv, LateSendDoubtful
<1> QED BY <1>4, <1>5, <1>6 DEF DoubtInv

LEMMA DoubtStep ==
  ASSUME TypeOK, LoopInv, DoubtInv, [Next]_vars
  PROVE  DoubtInv'
<1>1. CASE QuietStep
  BY <1>1, DoubtFrame DEF QuietStep, Publishing
<1>2. ASSUME NEW r \in Replays, Mute(r)
      PROVE  DoubtInv'
  <2>1. {e \in Encounters : source[e] = r} \X registered \in SUBSET Pairs
    BY DEF TypeOK, Pairs
  <2>2. \A p \in Pairs : rows'[p] = "none" => rows[p] = "none"
    BY <1>2, <2>1, InsertRowsTyped DEF Mute
  <2> QED BY <1>2, <2>2, DoubtFrame DEF Mute, worker, history
<1>3. ASSUME NEW w \in Workers, FeedStep(w)
      PROVE  DoubtInv'
  <2> USE DEF HasSession, Goto
  <2>1. CASE TryLock(w)
    <3>1. /\ \A v \in Workers \ {w} : queue'[v] = queue[v] /\ pc'[v] = pc[v]
          /\ pc[w] # "mark" /\ pc'[w] # "mark" /\ batch'[w] = {}
      BY <2>1 DEF TryLock, TypeOK, LoopInv, InLoop
    <3>2. \A p \in Pairs : ~InHand(w, p)
      BY <3>1 DEF InHand
    <3> QED BY <2>1, <3>1, <3>2, FeedAssumption, DoubtLeave DEF TryLock, history
  <2>2. CASE Bootstrap(w)
    <3>1. \A p \in Pairs : rows'[p] = "none" => rows[p] = "none"
      <4>1. OlderThan(cycleStart[w]) \X {Hook(w)} \in SUBSET Pairs
        BY <2>2 DEF Bootstrap, OlderThan, Archived, Hook, Pairs, TypeOK, LoopInv, InLoop
      <4> QED BY <2>2, <4>1, InsertRowsTyped DEF Bootstrap
    <3>2. \A v \in Workers : pc'[v] = "mark" <=> pc[v] = "mark"
      BY <2>2 DEF Bootstrap, TypeOK
    <3> QED BY <2>2, <3>1, <3>2, DoubtFrame DEF Bootstrap
  <2>3. CASE Select(w)
    BY <2>3, DoubtSelect
  <2>4. CASE Accept(w)
    BY <2>4, DoubtAccept
  <2>5. CASE Reject(w)
    <3>1. /\ \A v \in Workers \ {w} : batch'[v] = batch[v] /\ pc'[v] = pc[v]
          /\ pc[w] # "mark" /\ pc'[w] # "mark" /\ batch'[w] = {}
      BY <2>5 DEF Reject, EndBatch, TypeOK
    <3>2. \A p \in Pairs : ~InHand(w, p)
      BY <3>1 DEF InHand
    <3> QED BY <2>5, <3>1, <3>2, DoubtLeave DEF Reject, db
  <2>6. CASE AnswerLost(w)
    BY <2>6, DoubtAnswerLost
  <2>7. CASE Mark(w)
    BY <2>7, DoubtMark
  <2>8. CASE Report(w)
    <3>1. /\ \A v \in Workers \ {w} : queue'[v] = queue[v] /\ pc'[v] = pc[v]
          /\ pc[w] # "mark" /\ pc'[w] # "mark" /\ batch'[w] = {}
      BY <2>8 DEF Report, TypeOK, LoopInv, InLoop
    <3>2. \A p \in Pairs : ~InHand(w, p)
      BY <3>1 DEF InHand
    <3> QED BY <2>8, <3>1, <3>2, DoubtLeave DEF Report, db
  <2>9. CASE PublisherError(w)
    <3>1. /\ \A v \in Workers \ {w} : batch'[v] = batch[v] /\ pc'[v] = pc[v]
          /\ pc'[w] # "mark" /\ batch'[w] = {}
      BY <2>9 DEF PublisherError, EndBatch, TypeOK
    <3>2. \A p \in Pairs : InHand(w, p) => p \in doubtful'
      BY <2>9 DEF PublisherError, InHand
    <3> QED BY <2>9, <3>1, <3>2, DoubtLeave DEF PublisherError, db
  <2>10. CASE Unlock(w)
    <3>1. /\ \A v \in Workers \ {w} : queue'[v] = queue[v] /\ pc'[v] = pc[v]
          /\ pc[w] # "mark" /\ pc'[w] # "mark" /\ batch'[w] = {}
      BY <2>10 DEF Unlock, EndCycle, TypeOK, LoopInv, InLoop
    <3>2. \A p \in Pairs : ~InHand(w, p)
      BY <3>1 DEF InHand
    <3> QED BY <2>10, <3>1, <3>2, FeedAssumption, DoubtLeave DEF Unlock, history
  <2>11. CASE SessionLost(w)
    BY <2>11, DoubtSessionLost
  <2>12. CASE Crash(w)
    <3>1. /\ \A v \in Workers \ {w} : /\ queue'[v] = queue[v] /\ pc'[v] = pc[v]
                                      /\ batch'[v] = batch[v]
          /\ pc'[w] # "mark" /\ batch'[w] = {}
      BY <2>12 DEF Crash, EndBatch, TypeOK
    <3>2. \A p \in Pairs : InHand(w, p) => p \in doubtful'
      BY <2>12 DEF Crash, InHand
    <3> QED BY <2>12, <3>1, <3>2, FeedAssumption, DoubtLeave DEF Crash
  <2> QED
    BY <1>3, <2>1, <2>2, <2>3, <2>4, <2>5, <2>6, <2>7, <2>8, <2>9, <2>10, <2>11, <2>12
       DEF FeedStep
<1> QED BY <1>1, <1>2, <1>3, QuietOrFeed

\* A webhook is shown an encounter twice only when some publisher could not
\* record having sent it.
THEOREM DuplicatesAreDoubtful == Spec => []DuplicateOnlyInDoubt
<1>1. Init => DoubtInv
  BY DoubtInit
<1>2. (TypeOK /\ LoopInv) /\ DoubtInv /\ [Next]_vars => DoubtInv'
  BY DoubtStep
<1>3. TypeOK /\ DoubtInv => DuplicateOnlyInDoubt
  BY DEF TypeOK, DoubtInv, Accounted, DuplicateOnlyInDoubt
<1> QED BY <1>1, <1>2, <1>3, TypeCorrect, PTL DEF Spec

-----------------------------------------------------------------------------
(* Each webhook's feed is oldest first. *)

\* Of what was archived when the batch was selected, what has no row yet is
\* still in the batch or newer than all of it.
OrderInv ==
  \A w \in Workers : pc[w] \in {"send", "mark"} =>
    \A e \in known[w] : \/ e \in batch[w]
                        \/ \A b \in batch[w] : b < e
                        \/ rows[<<e, Hook(w)>>] # "none"

LEMMA OrderInit == Init => OrderInv
BY DEF Init, OrderInv

\* What a step does to the posts and to a publisher that is neither starting
\* nor at work on a batch.
LEMMA OrderFrame ==
  ASSUME TypeOK, OrderInv, NEW w \in Workers,
         \A p \in Pairs : rows'[p] = "none" => rows[p] = "none",
         \A v \in Workers \ {w} : /\ queue'[v] = queue[v] /\ batch'[v] = batch[v]
                                  /\ known'[v] = known[v]
                                  /\ pc'[v] \in {"send", "mark"} => pc[v] \in {"send", "mark"},
         \/ pc'[w] \notin {"send", "mark"}
         \/ /\ pc[w] \in {"send", "mark"}
            /\ queue'[w] = queue[w] /\ batch'[w] = batch[w] /\ known'[w] = known[w],
         \A v \in Workers : pc[v] \in {"send", "mark"} => Hook(v) \in Webhooks
  PROVE  OrderInv'
<1> SUFFICES ASSUME NEW v \in Workers, pc'[v] \in {"send", "mark"}, NEW e \in known'[v]
             PROVE  \/ e \in batch'[v]
                    \/ \A b \in batch'[v] : b < e
                    \/ rows'[<<e, Hook(v)'>>] # "none"
  BY DEF OrderInv
<1>1. /\ pc[v] \in {"send", "mark"} /\ Hook(v) \in Webhooks
      /\ queue'[v] = queue[v] /\ batch'[v] = batch[v] /\ known'[v] = known[v]
  OBVIOUS
<1>2. Hook(v)' = Hook(v) /\ <<e, Hook(v)>> \in Pairs
  BY <1>1 DEF Hook, Pairs, TypeOK
<1> QED BY <1>1, <1>2 DEF OrderInv

LEMMA OrderStep ==
  ASSUME TypeOK, LoopInv, OrderInv, [Next]_vars
  PROVE  OrderInv'
<1>0. \A v \in Workers : pc[v] \in {"send", "mark"} => Hook(v) \in Webhooks
  BY CurrentTyped DEF LoopInv, InLoop
<1>1. CASE QuietStep
  <2>1. SUFFICES ASSUME NEW w \in Workers PROVE OrderInv'
    BY DEF OrderInv
  <2> QED BY <1>0, <1>1, OrderFrame DEF QuietStep, Publishing
<1>2. ASSUME NEW r \in Replays, Mute(r)
      PROVE  OrderInv'
  <2>1. {e \in Encounters : source[e] = r} \X registered \in SUBSET Pairs
    BY DEF TypeOK, Pairs
  <2>2. \A p \in Pairs : rows'[p] = "none" => rows[p] = "none"
    BY <1>2, <2>1, InsertRowsTyped DEF Mute
  <2>3. SUFFICES ASSUME NEW w \in Workers PROVE OrderInv'
    BY DEF OrderInv
  <2> QED BY <1>0, <1>2, <2>2, OrderFrame DEF Mute, worker, history
<1>3. ASSUME NEW w \in Workers, FeedStep(w)
      PROVE  OrderInv'
  <2> USE DEF HasSession, Goto, db
  <2>1. CASE \/ TryLock(w) \/ Accept(w) \/ Reject(w) \/ AnswerLost(w) \/ Report(w)
             \/ PublisherError(w) \/ Unlock(w) \/ SessionLost(w) \/ Crash(w)
    <3>1. UNCHANGED rows
      BY <2>1 DEF TryLock, Accept, Reject, AnswerLost, Report, PublisherError,
                  Unlock, SessionLost, Crash
    <3>2. \A v \in Workers \ {w} : /\ queue'[v] = queue[v] /\ batch'[v] = batch[v]
                                   /\ known'[v] = known[v] /\ pc'[v] = pc[v]
      BY <2>1 DEF TypeOK, TryLock, Accept, Reject, AnswerLost, Report, PublisherError,
                  Unlock, SessionLost, Crash, EndBatch, EndCycle, worker, history
    <3>3. \/ pc'[w] \notin {"send", "mark"}
          \/ /\ pc[w] \in {"send", "mark"}
             /\ queue'[w] = queue[w] /\ batch'[w] = batch[w] /\ known'[w] = known[w]
      BY <2>1 DEF TypeOK, TryLock, Accept, Reject, AnswerLost, Report, PublisherError,
                  Unlock, SessionLost, Crash, EndCycle, worker, history
    <3> QED BY <1>0, <3>1, <3>2, <3>3, OrderFrame
  <2>2. CASE Bootstrap(w)
    <3>1. \A p \in Pairs : rows'[p] = "none" => rows[p] = "none"
      <4>1. OlderThan(cycleStart[w]) \X {Hook(w)} \in SUBSET Pairs
        BY <2>2 DEF Bootstrap, OlderThan, Archived, Hook, Pairs, TypeOK, LoopInv, InLoop
      <4> QED BY <2>2, <4>1, InsertRowsTyped DEF Bootstrap
    <3> QED BY <1>0, <2>2, <3>1, OrderFrame DEF Bootstrap, TypeOK
  <2>3. CASE Select(w)
    <3>1. /\ UNCHANGED <<rows, queue>> /\ Hook(w) \in Webhooks /\ Hook(w)' = Hook(w)
          /\ \A v \in Workers \ {w} : /\ queue'[v] = queue[v] /\ batch'[v] = batch[v]
                                      /\ known'[v] = known[v] /\ pc'[v] = pc[v]
          /\ batch'[w] = OldestOf(Pending(Hook(w)))
          /\ known'[w] \subseteq Archived
      BY <2>3 DEF Select, Hook, TypeOK, LoopInv, InLoop
    <3>2. ASSUME NEW e \in known'[w], rows[<<e, Hook(w)>>] = "none", e \notin batch'[w],
                 NEW b \in batch'[w]
          PROVE  b < e
      <4>1. Pending(Hook(w)) \in SUBSET Encounters /\ e \in Pending(Hook(w))
        BY <3>1, <3>2 DEF Pending, Archived
      <4> QED BY <3>1, <3>2, <4>1, OldestOfProperty
    <3>3. \A v \in Workers \ {w} : Hook(v)' = Hook(v)
      BY <3>1 DEF Hook
    <3> QED BY <3>1, <3>2, <3>3 DEF OrderInv
  <2>4. CASE Mark(w)
    <3>1. /\ pc[w] = "mark" /\ UNCHANGED queue
          /\ InsertRows({CurrentPair(w)}, "sent") /\ CurrentPair(w) \in Pairs
      BY <2>4, CurrentTyped DEF Mark, LoopInv, InLoop
    <3>2. \A p \in Pairs : rows'[p] = "none" => rows[p] = "none" /\ p # CurrentPair(w)
      BY <3>1, InsertRowsTyped
    <3>3. CASE batch[w] = {Current(w)}
      <4>1. /\ pc'[w] = "report"
            /\ \A v \in Workers \ {w} : /\ batch'[v] = batch[v] /\ known'[v] = known[v]
                                        /\ pc'[v] = pc[v]
        BY <2>4, <3>3 DEF Mark, EndBatch, TypeOK
      <4> QED BY <1>0, <3>1, <3>2, <4>1, OrderFrame
    <3>4. CASE batch[w] # {Current(w)}
      <4>1. /\ batch'[w] = batch[w] \ {Current(w)} /\ UNCHANGED known
            /\ \A v \in Workers \ {w} : batch'[v] = batch[v] /\ pc'[v] = pc[v]
        BY <2>4, <3>4 DEF Mark, TypeOK
      <4>2. \A v \in Workers : Hook(v)' = Hook(v)
        BY <3>1 DEF Hook
      <4>3. ASSUME NEW v \in Workers, pc[v] \in {"send", "mark"}, NEW e \in known[v],
                   rows'[<<e, Hook(v)>>] = "none"
            PROVE  /\ rows[<<e, Hook(v)>>] = "none"
                   /\ v = w => e # Current(w)
        BY <1>0, <3>2, <4>3 DEF Pairs, CurrentPair, TypeOK
      <4> QED BY <3>1, <4>1, <4>2, <4>3 DEF OrderInv
    <3> QED BY <3>3, <3>4
  <2> QED BY <1>3, <2>1, <2>2, <2>3, <2>4 DEF FeedStep
<1> QED BY <1>1, <1>2, <1>3, QuietOrFeed

\* When a publisher sends an encounter, every older one its batch could have
\* held has its row.
THEOREM FeedIsOldestFirst == Spec => []FeedOldestFirst
<1>1. Init => OrderInv
  BY OrderInit
<1>2. (TypeOK /\ LoopInv) /\ OrderInv /\ [Next]_vars => OrderInv'
  BY OrderStep
<1>3. TypeOK /\ LoopInv /\ OrderInv => FeedOldestFirst
  <2> SUFFICES ASSUME TypeOK, LoopInv, OrderInv, NEW w \in Workers, pc[w] = "send",
                      NEW e \in known[w], e < Current(w)
               PROVE  rows[<<e, Hook(w)>>] # "none"
    BY DEF FeedOldestFirst
  <2>0. batch[w] # {} /\ queue[w] # <<>>
    BY DEF LoopInv, InLoop
  <2>1. /\ Current(w) \in batch[w] /\ \A d \in batch[w] : Current(w) <= d
        /\ Current(w) \in Int /\ e \in Int
    <3>1. e \in Encounters
      BY DEF TypeOK
    <3> QED BY <2>0, <3>1, CurrentTyped, FeedAssumption DEF Encounters
  <2>2. e \notin batch[w] /\ ~(\A b \in batch[w] : b < e)
    BY <2>1
  <2>3. \/ e \in batch[w]
        \/ \A b \in batch[w] : b < e
        \/ rows[<<e, Hook(w)>>] # "none"
    BY DEF OrderInv
  <2> QED BY <2>2, <2>3
<1> QED BY <1>1, <1>2, <1>3, TypeCorrect, PTL DEF Spec

-----------------------------------------------------------------------------
(* History is never announced. *)

AtWebhook == {"select", "send", "mark"}

\* A publisher works on the batch of a registered webhook, and on none of its
\* history; history has its row, was never sent, and an unregistered webhook
\* has no history and was sent nothing.
HistoryInv ==
  /\ \A w \in Workers : pc[w] \in AtWebhook => Hook(w) \in registered
  /\ \A w \in Workers : pc[w] \in AtWebhook => batch[w] \cap past[Hook(w)] = {}
  /\ \A h \in Webhooks : \A e \in past[h] :
       rows[<<e, h>>] # "none" /\ delivered[<<e, h>>] = 0
  /\ \A h \in Webhooks \ registered : \A e \in Encounters : delivered[<<e, h>>] = 0

LEMMA HistoryInit == Init => HistoryInv
BY DEF Init, HistoryInv, AtWebhook, Pairs

\* A step that sends nothing and takes up no webhook keeps the history.
LEMMA HistoryFrame ==
  ASSUME TypeOK, HistoryInv, UNCHANGED <<registered, delivered, past>>,
         \A p \in Pairs : rows'[p] = "none" => rows[p] = "none",
         \A v \in Workers : pc'[v] \in AtWebhook =>
           /\ pc[v] \in AtWebhook
           /\ queue'[v] = queue[v] /\ batch'[v] \subseteq batch[v]
  PROVE  HistoryInv'
<1>1. ASSUME NEW v \in Workers, pc'[v] \in AtWebhook
      PROVE  Hook(v)' \in registered' /\ batch'[v] \cap past'[Hook(v)'] = {}
  <2>1. Hook(v)' = Hook(v)
    BY <1>1 DEF Hook
  <2> QED BY <1>1, <2>1 DEF HistoryInv
<1>2. ASSUME NEW h \in Webhooks, NEW e \in past[h]
      PROVE  rows'[<<e, h>>] # "none" /\ delivered[<<e, h>>] = 0
  BY <1>2 DEF HistoryInv, TypeOK, Pairs
<1> QED BY <1>1, <1>2 DEF HistoryInv

LEMMA HistoryBootstrap ==
  ASSUME TypeOK, LoopInv, HistoryInv, NEW w \in Workers, Bootstrap(w)
  PROVE  HistoryInv'
<1> DEFINE h == Hook(w)
<1> DEFINE old == OlderThan(cycleStart[w])
<1>1. /\ pc[w] = "bootstrap" /\ h \in Webhooks /\ old \in SUBSET Encounters
      /\ UNCHANGED <<delivered, batch, queue>>
      /\ \A v \in Workers \ {w} : pc'[v] = pc[v]
      /\ batch[w] = {}
  <2>1. /\ pc[w] = "bootstrap" /\ UNCHANGED <<delivered, batch, queue>>
        /\ \A v \in Workers \ {w} : pc'[v] = pc[v]
    BY DEF Bootstrap, Goto, TypeOK
  <2>2. h \in Webhooks /\ batch[w] = {}
    <3>1. queue[w] # <<>> /\ batch[w] = {}
      BY <2>1 DEF LoopInv, InLoop
    <3>2. queue[w] \in Seq(Webhooks)
      BY DEF TypeOK
    <3> QED BY <3>1, <3>2 DEF Hook
  <2>3. old \in SUBSET Encounters
    BY DEF OlderThan, Archived
  <2> QED BY <2>1, <2>2, <2>3
<1>2. \A v \in Workers : Hook(v)' = Hook(v)
  BY <1>1 DEF Hook
<1>3. CASE h \in registered
  <2>1. UNCHANGED <<registered, rows, past>>
    BY <1>3 DEF Bootstrap
  <2> QED BY <1>1, <1>2, <1>3, <2>1 DEF HistoryInv
<1>4. CASE h \notin registered
  <2>1. /\ registered' = registered \cup {h}
        /\ InsertRows(old \X {h}, "seeded")
        /\ past' = [past EXCEPT ![h] = old]
    BY <1>4 DEF Bootstrap
  <2>2. \A p \in Pairs : rows'[p] = "none" <=> (rows[p] = "none" /\ p \notin old \X {h})
    <3>1. old \X {h} \in SUBSET Pairs
      BY <1>1 DEF Pairs
    <3> QED BY <2>1, <3>1, InsertRowsTyped
  <2>3. \A g \in Webhooks : past'[g] = IF g = h THEN old ELSE past[g]
    BY <1>1, <2>1 DEF TypeOK
  <2>4. ASSUME NEW v \in Workers, pc'[v] \in AtWebhook
        PROVE  Hook(v) \in registered' /\ batch[v] \cap past'[Hook(v)] = {}
    <3>1. CASE v = w
      BY <1>1, <2>1, <3>1
    <3>2. CASE v # w
      <4>1. Hook(v) \in registered /\ batch[v] \cap past[Hook(v)] = {}
        BY <1>1, <2>4, <3>2 DEF HistoryInv
      <4>2. Hook(v) # h /\ Hook(v) \in Webhooks
        BY <1>4, <4>1 DEF TypeOK
      <4> QED BY <2>1, <2>3, <4>1, <4>2
    <3> QED BY <3>1, <3>2
  <2>5. ASSUME NEW g \in Webhooks, NEW e \in past'[g]
        PROVE  rows'[<<e, g>>] # "none" /\ delivered[<<e, g>>] = 0
    <3>1. e \in Encounters /\ <<e, g>> \in Pairs
      BY <1>1, <2>3 DEF TypeOK, Pairs
    <3>2. CASE g = h
      BY <1>1, <1>4, <2>2, <2>3, <3>1, <3>2 DEF HistoryInv
    <3>3. CASE g # h
      BY <2>2, <2>3, <3>1, <3>3 DEF HistoryInv
    <3> QED BY <3>2, <3>3
  <2> HIDE DEF h, old
  <2> QED BY <1>1, <1>2, <2>1, <2>4, <2>5 DEF HistoryInv
<1> QED BY <1>3, <1>4

\* Sending touches one pair, of a registered webhook and outside its history.
LEMMA HistorySend ==
  ASSUME TypeOK, LoopInv, HistoryInv, NEW w \in Workers, pc[w] = "send",
         UNCHANGED <<registered, rows, past, queue>>,
         delivered' = [delivered EXCEPT ![CurrentPair(w)] = delivered[CurrentPair(w)] + 1],
         \A v \in Workers : pc'[v] \in AtWebhook =>
           pc[v] \in AtWebhook /\ batch'[v] \subseteq batch[v]
  PROVE  HistoryInv'
<1>1. /\ Hook(w) \in registered /\ Current(w) \in batch[w] /\ Current(w) \notin past[Hook(w)]
      /\ CurrentPair(w) = <<Current(w), Hook(w)>>
  BY CurrentTyped DEF LoopInv, InLoop, HistoryInv, AtWebhook, CurrentPair
<1>2. \A p \in Pairs : p # CurrentPair(w) => delivered'[p] = delivered[p]
  BY DEF TypeOK
<1>3. \A v \in Workers : Hook(v)' = Hook(v)
  BY DEF Hook
<1>4. ASSUME NEW h \in Webhooks, NEW e \in past[h]
      PROVE  delivered'[<<e, h>>] = 0
  <2>1. <<e, h>> \in Pairs
    BY <1>4 DEF TypeOK, Pairs
  <2>2. <<e, h>> # CurrentPair(w)
    BY <1>1, <1>4
  <2> QED BY <1>2, <1>4, <2>1, <2>2 DEF HistoryInv
<1>5. ASSUME NEW h \in Webhooks \ registered, NEW e \in Encounters
      PROVE  delivered'[<<e, h>>] = 0
  <2>1. <<e, h>> \in Pairs /\ <<e, h>> # CurrentPair(w)
    BY <1>1, <1>5 DEF Pairs
  <2> QED BY <1>2, <1>5, <2>1 DEF HistoryInv
<1> QED BY <1>3, <1>4, <1>5 DEF HistoryInv

LEMMA HistorySelect ==
  ASSUME TypeOK, LoopInv, HistoryInv, NEW w \in Workers, Select(w)
  PROVE  HistoryInv'
<1>1. /\ pc[w] = "select" /\ Hook(w) \in Webhooks
      /\ UNCHANGED <<registered, rows, past, queue, delivered>>
      /\ \A v \in Workers \ {w} : batch'[v] = batch[v] /\ pc'[v] = pc[v]
      /\ batch'[w] = OldestOf(Pending(Hook(w)))
  BY DEF Select, Hook, Goto, TypeOK, LoopInv, InLoop, db
<1>2. batch'[w] \cap past[Hook(w)] = {}
  <2>1. Pending(Hook(w)) \in SUBSET Encounters
    BY DEF Pending, Archived
  <2>2. \A e \in batch'[w] : rows[<<e, Hook(w)>>] = "none"
    BY <1>1, <2>1, OldestOfProperty DEF Pending
  <2> QED BY <1>1, <2>2 DEF HistoryInv
<1>3. \A v \in Workers : Hook(v)' = Hook(v)
  BY <1>1 DEF Hook
<1> QED BY <1>1, <1>2, <1>3 DEF HistoryInv, AtWebhook

LEMMA HistoryStep ==
  ASSUME TypeOK, LoopInv, HistoryInv, [Next]_vars
  PROVE  HistoryInv'
<1> USE DEF AtWebhook
<1>1. CASE QuietStep
  BY <1>1, HistoryFrame DEF QuietStep, Publishing
<1>2. ASSUME NEW r \in Replays, Mute(r)
      PROVE  HistoryInv'
  <2>1. {e \in Encounters : source[e] = r} \X registered \in SUBSET Pairs
    BY DEF TypeOK, Pairs
  <2>2. \A p \in Pairs : rows'[p] = "none" => rows[p] = "none"
    BY <1>2, <2>1, InsertRowsTyped DEF Mute
  <2> QED BY <1>2, <2>2, HistoryFrame DEF Mute, worker, history
<1>3. ASSUME NEW w \in Workers, FeedStep(w)
      PROVE  HistoryInv'
  <2> USE DEF Goto
  <2>1. CASE \/ TryLock(w) \/ Reject(w) \/ Report(w) \/ PublisherError(w)
             \/ Unlock(w) \/ SessionLost(w) \/ Crash(w)
    <3>1. UNCHANGED <<registered, delivered, past, rows>>
      BY <2>1 DEF TryLock, Reject, Report, PublisherError, Unlock, SessionLost,
                  Crash, db, history
    <3>2. \A v \in Workers : pc'[v] \in AtWebhook =>
            pc[v] \in AtWebhook /\ queue'[v] = queue[v] /\ batch'[v] = batch[v]
      BY <2>1 DEF TryLock, Reject, Report, PublisherError, Unlock, SessionLost,
                  Crash, EndBatch, EndCycle, worker, TypeOK
    <3> QED BY <3>1, <3>2, HistoryFrame
  <2>2. CASE Bootstrap(w)
    BY <2>2, HistoryBootstrap
  <2>3. CASE Select(w)
    BY <2>3, HistorySelect
  <2>4. CASE Accept(w)
    <3>1. \A v \in Workers : pc'[v] \in AtWebhook => pc[v] \in AtWebhook
      BY <2>4 DEF Accept, TypeOK
    <3> QED BY <2>4, <3>1, HistorySend DEF Accept, db
  <2>5. CASE AnswerLost(w)
    <3>1. \A v \in Workers : pc'[v] \in AtWebhook =>
            pc[v] \in AtWebhook /\ batch'[v] = batch[v]
      BY <2>5 DEF AnswerLost, EndBatch, TypeOK
    <3> QED BY <2>5, <3>1, HistorySend DEF AnswerLost, db
  <2>6. CASE Mark(w)
    <3>1. CurrentPair(w) \in Pairs
      BY <2>6, CurrentTyped DEF Mark, LoopInv, InLoop
    <3>2. \A p \in Pairs : rows'[p] = "none" => rows[p] = "none"
      BY <2>6, <3>1, InsertRowsTyped DEF Mark
    <3>3. \A v \in Workers : pc'[v] \in AtWebhook =>
            pc[v] \in AtWebhook /\ batch'[v] \subseteq batch[v]
      BY <2>6 DEF Mark, EndBatch, TypeOK
    <3> QED BY <2>6, <3>2, <3>3, HistoryFrame DEF Mark
  <2> QED BY <1>3, <2>1, <2>2, <2>3, <2>4, <2>5, <2>6 DEF FeedStep
<1> QED BY <1>1, <1>2, <1>3, QuietOrFeed

\* What was archived before the cycle that took up a webhook never appears in
\* its channel.
THEOREM HistoryIsSilent == Spec => []HistoryNeverAnnounced
<1>1. Init => HistoryInv
  BY HistoryInit
<1>2. (TypeOK /\ LoopInv) /\ HistoryInv /\ [Next]_vars => HistoryInv'
  BY HistoryStep
<1>3. HistoryInv => HistoryNeverAnnounced
  BY DEF HistoryInv, HistoryNeverAnnounced
<1> QED BY <1>1, <1>2, <1>3, TypeCorrect, PTL DEF Spec

-----------------------------------------------------------------------------
(* A stale backlog is reported. *)

\* backlogAlertTimes remembers the last warning, or nothing.
AlertInv == \A w \in Workers, h \in Webhooks :
              alerts[w][h] # 0 => lastWarn[w][h] = alerts[w][h]

LEMMA AlertStep ==
  ASSUME TypeOK, LoopInv, AlertInv, [Next]_vars
  PROVE  AlertInv'
<1>1. ASSUME NEW w \in Workers, Stop(w) \/ Crash(w)
      PROVE  AlertInv'
  <2>1. /\ alerts' = [alerts EXCEPT ![w] = [h \in Webhooks |-> 0]]
        /\ lastWarn' = [lastWarn EXCEPT ![w] = [h \in Webhooks |-> 0]]
    BY <1>1 DEF Stop, Crash
  <2> QED BY <2>1 DEF TypeOK, AlertInv
<1>2. ASSUME NEW w \in Workers, Report(w)
      PROVE  AlertInv'
  <2> DEFINE g == Hook(w)
  <2> DEFINE due == Stale(g) /\ WarningDue(w, g)
  <2>1. /\ alerts' = [alerts EXCEPT ![w][g] = IF ~Stale(g) THEN 0
                                              ELSE IF WarningDue(w, g) THEN now ELSE alerts[w][g]]
        /\ lastWarn' = [lastWarn EXCEPT ![w][g] = IF due THEN now ELSE lastWarn[w][g]]
    BY <1>2 DEF Report
  <2> HIDE DEF g
  <2>2. ASSUME NEW v \in Workers, NEW h \in Webhooks, ~(v = w /\ h = g)
        PROVE  alerts'[v][h] = alerts[v][h] /\ lastWarn'[v][h] = lastWarn[v][h]
    BY <2>1, <2>2 DEF TypeOK
  <2>3. ASSUME g \in Webhooks
        PROVE  /\ alerts'[w][g] = IF ~Stale(g) THEN 0
                                  ELSE IF WarningDue(w, g) THEN now ELSE alerts[w][g]
               /\ lastWarn'[w][g] = IF due THEN now ELSE lastWarn[w][g]
    BY <2>1, <2>3 DEF TypeOK
  <2> QED BY <2>2, <2>3 DEF AlertInv
<1>3. ASSUME NEW w \in Workers, Worker(w), ~Stop(w), ~Crash(w), ~Report(w)
      PROVE  UNCHANGED <<alerts, lastWarn>>
  BY <1>3 DEF Worker, Start, StartCycle, Receive, Archive, BountyFails, CycleAborts,
     SkipPublish, TryLock, Bootstrap, Select, Accept, Reject, AnswerLost, Mark,
     PublisherError, Unlock, SessionLost, worker, history
<1>4. (\E r \in Replays : Replay(r)) \/ Tick \/ UNCHANGED vars => UNCHANGED <<alerts, lastWarn>>
  BY DEF Replay, ReplayStart, ReplayIngest, ReplaySkips, Mute, Announce, ReplayCrash,
     Tick, vars, worker, history
<1>5. UNCHANGED <<alerts, lastWarn>> => AlertInv'
  BY DEF AlertInv
<1> QED BY <1>1, <1>2, <1>3, <1>4, <1>5 DEF Next

\* Whenever a publisher leaves a webhook with a stale backlog, its last warning
\* is younger than the alert interval.
THEOREM BacklogAlwaysReported == Spec => BacklogIsReported
<1>1. Init => AlertInv
  BY DEF Init, AlertInv
<1>2. (TypeOK /\ LoopInv) /\ AlertInv /\ [Next]_vars => AlertInv'
  BY AlertStep
<1>3. TypeOK /\ LoopInv /\ AlertInv /\ [Next]_vars =>
        [\A w \in Workers : Report(w) /\ Stale(Hook(w)) =>
            now - lastWarn'[w][Hook(w)] < AlertInterval]_vars
  <2> SUFFICES ASSUME TypeOK, LoopInv, AlertInv, NEW w \in Workers, Report(w), Stale(Hook(w))
               PROVE  now - lastWarn'[w][Hook(w)] < AlertInterval
    OBVIOUS
  <2> DEFINE g == Hook(w)
  <2>1. g \in Webhooks
    <3>1. queue[w] # <<>> /\ queue[w] \in Seq(Webhooks)
      BY DEF Report, LoopInv, InLoop, TypeOK
    <3> QED BY <3>1 DEF Hook
  <2>2. lastWarn'[w][g] = IF WarningDue(w, g) THEN now ELSE lastWarn[w][g]
    <3>1. lastWarn' = [lastWarn EXCEPT ![w][g] =
                         IF Stale(g) /\ WarningDue(w, g) THEN now ELSE lastWarn[w][g]]
      BY DEF Report
    <3>2. Stale(g)
      OBVIOUS
    <3> HIDE DEF g
    <3> QED BY <2>1, <3>1, <3>2 DEF TypeOK
  <2>3. now \in Int /\ alerts[w][g] \in Int
    BY <2>1, FeedAssumption DEF TypeOK
  <2>4. CASE WarningDue(w, g)
    BY <2>2, <2>3, <2>4, FeedAssumption
  <2>5. CASE ~WarningDue(w, g)
    BY <2>1, <2>2, <2>3, <2>5, FeedAssumption DEF WarningDue, AlertInv
  <2> QED BY <2>4, <2>5
<1> QED BY <1>1, <1>2, <1>3, TypeCorrect, PTL DEF Spec, BacklogIsReported

-----------------------------------------------------------------------------
(* Every step of the code is one of the ledger's or leaves the ledger alone. *)

\* An archived encounter has a source; a batch holds archived encounters; a
\* publisher records only what was delivered.
SourceInv == \A e \in Encounters : source[e] = None <=> seenAt[e] = 0
SentInv ==
  \A w \in Workers : /\ batch[w] \subseteq Archived
                     /\ pc[w] = "mark" => delivered[CurrentPair(w)] > 0

LEMMA SourceInit == Init => SourceInv /\ SentInv
BY DEF Init, SourceInv, SentInv

\* What ArchivePayload does to the archive.
LEMMA ArchivePayloadEffect ==
  ASSUME TypeOK, SourceInv, NEW payload \in [at : 0..MaxTime, recent : SUBSET Encounters],
         payload.at # 0, NEW run \in Replays \cup {"poll"}, ArchivePayload(payload, run)
  PROVE  /\ SourceInv'
         /\ Archived' = Archived \cup payload.recent
         /\ \A e \in Encounters :
              source'[e] = IF e \in payload.recent \ Archived THEN run ELSE source[e]
<1>1. \A e \in Encounters :
        /\ seenAt'[e] = IF e \in payload.recent /\ seenAt[e] = 0 THEN payload.at ELSE seenAt[e]
        /\ source'[e] = IF e \in payload.recent /\ seenAt[e] = 0 THEN run ELSE source[e]
  BY DEF ArchivePayload
<1>2. run # None
  BY FeedAssumption
<1>3. payload.recent \subseteq Encounters
  OBVIOUS
<1>4. SourceInv'
  BY <1>1, <1>2 DEF SourceInv
<1>5. \A e \in Encounters : e \in Archived' <=> e \in Archived \/ e \in payload.recent
  BY <1>1 DEF Archived
<1>6. Archived' \subseteq Encounters /\ Archived \subseteq Encounters
  BY DEF Archived
<1>7. Archived' = Archived \cup payload.recent
  BY <1>3, <1>5, <1>6
<1> QED BY <1>1, <1>4, <1>7 DEF Archived

\* Every other step leaves the archive alone.
LEMMA ArchiveSteps ==
  ASSUME [Next]_vars
  PROVE  \/ \E w \in Workers : Archive(w)
         \/ \E r \in Replays : ReplayIngest(r)
         \/ UNCHANGED <<seenAt, source>>
<1>1. ASSUME NEW w \in Workers, Worker(w)
      PROVE  Archive(w) \/ UNCHANGED <<seenAt, source>>
  BY <1>1 DEF Worker, Start, Stop, StartCycle, Receive, BountyFails, CycleAborts,
     SkipPublish, TryLock, Bootstrap, Select, Accept, Reject, AnswerLost, Mark, Report,
     PublisherError, Unlock, SessionLost, Crash, db
<1>2. ASSUME NEW r \in Replays, Replay(r)
      PROVE  ReplayIngest(r) \/ UNCHANGED <<seenAt, source>>
  BY <1>2 DEF Replay, ReplayStart, ReplaySkips, Mute, Announce, ReplayCrash, db
<1>3. Tick \/ UNCHANGED vars => UNCHANGED <<seenAt, source>>
  BY DEF Tick, vars, db
<1> QED BY <1>1, <1>2, <1>3 DEF Next

\* The archive only grows, and every archived encounter keeps its source.
LEMMA ArchiveGrows ==
  ASSUME TypeOK, LoopInv, SourceInv, [Next]_vars
  PROVE  SourceInv' /\ Archived \subseteq Archived'
<1>1. ASSUME NEW w \in Workers, Archive(w)
      PROVE  SourceInv' /\ Archived \subseteq Archived'
  <2>1. response[w] \in [at : 0..MaxTime, recent : SUBSET Encounters] /\ response[w].at # 0
    BY <1>1 DEF Archive, TypeOK, LoopInv
  <2> QED BY <1>1, <2>1, ArchivePayloadEffect DEF Archive
<1>2. ASSUME NEW r \in Replays, ReplayIngest(r)
      PROVE  SourceInv' /\ Archived \subseteq Archived'
  <2>1. PICK recent \in SUBSET Encounters, at \in 1..now :
          ArchivePayload([at |-> at, recent |-> recent], r)
    BY <1>2 DEF ReplayIngest
  <2>2. /\ [at |-> at, recent |-> recent] \in [at : 0..MaxTime, recent : SUBSET Encounters]
        /\ [at |-> at, recent |-> recent].at # 0
    BY FeedAssumption DEF TypeOK
  <2> QED BY <2>1, <2>2, ArchivePayloadEffect
<1>3. CASE UNCHANGED <<seenAt, source>>
  BY <1>3 DEF SourceInv, Archived
<1> QED BY <1>1, <1>2, <1>3, ArchiveSteps

LEMMA SentStep ==
  ASSUME TypeOK, LoopInv, SourceInv, SentInv, [Next]_vars
  PROVE  SentInv'
<1>1. SUFFICES ASSUME NEW v \in Workers
               PROVE  /\ batch'[v] \subseteq Archived'
                      /\ pc'[v] = "mark" => delivered'[CurrentPair(v)'] > 0
  BY DEF SentInv
<1>2. Archived \subseteq Archived' /\ batch[v] \subseteq Archived
  BY ArchiveGrows DEF SentInv
<1>3. \A p \in Pairs : delivered[p] > 0 => delivered'[p] > 0
  <2>1. ASSUME NEW w \in Workers, Accept(w) \/ AnswerLost(w)
        PROVE  \A p \in Pairs : delivered[p] > 0 => delivered'[p] > 0
    <3>1. delivered' = [delivered EXCEPT ![CurrentPair(w)] = delivered[CurrentPair(w)] + 1]
      BY <2>1 DEF Accept, AnswerLost
    <3> QED BY <3>1 DEF TypeOK
  <2>2. ASSUME NEW w \in Workers, FeedStep(w), ~Accept(w), ~AnswerLost(w)
        PROVE  UNCHANGED delivered
    BY <2>2 DEF FeedStep, TryLock, Bootstrap, Select, Reject, Mark, Report,
                PublisherError, Unlock, SessionLost, Crash
  <2>3. ASSUME NEW r \in Replays, Mute(r)
        PROVE  UNCHANGED delivered
    BY <2>3 DEF Mute
  <2> QED BY <2>1, <2>2, <2>3, QuietOrFeed DEF QuietStep
<1>4. CASE /\ batch'[v] = batch[v] /\ queue'[v] = queue[v]
           /\ pc'[v] = "mark" => pc[v] = "mark"
  <2>1. CurrentPair(v)' = CurrentPair(v)
    BY <1>4, SamePair
  <2>2. pc[v] = "mark" => CurrentPair(v) \in Pairs /\ delivered[CurrentPair(v)] > 0
    BY CurrentTyped DEF LoopInv, InLoop, SentInv
  <2> QED BY <1>2, <1>3, <1>4, <2>1, <2>2
<1>5. CASE batch'[v] \subseteq batch[v] /\ pc'[v] # "mark"
  BY <1>2, <1>5
<1>6. CASE Accept(v)
  <2>1. /\ CurrentPair(v)' = CurrentPair(v) /\ UNCHANGED batch
        /\ CurrentPair(v) \in Pairs
    BY <1>6, SamePair, CurrentTyped DEF Accept, LoopInv, InLoop
  <2>2. delivered'[CurrentPair(v)] = delivered[CurrentPair(v)] + 1
        /\ delivered[CurrentPair(v)] \in Nat
    BY <1>6, <2>1 DEF Accept, TypeOK
  <2> QED BY <1>2, <2>1, <2>2
<1>7. CASE Select(v)
  <2>1. /\ batch'[v] = OldestOf(Pending(Hook(v))) /\ pc'[v] # "mark"
        /\ Pending(Hook(v)) \in SUBSET Encounters
        /\ Pending(Hook(v)) \subseteq Archived
    BY <1>7 DEF Select, Goto, TypeOK, Pending, Archived
  <2> QED BY <1>2, <2>1, OldestOfProperty
<1>8. ASSUME NEW w \in Workers, FeedStep(w)
      PROVE  \/ /\ batch'[v] = batch[v] /\ queue'[v] = queue[v]
                /\ pc'[v] = "mark" => pc[v] = "mark"
             \/ batch'[v] \subseteq batch[v] /\ pc'[v] # "mark"
             \/ Accept(v) \/ Select(v)
  BY <1>8, SMTT(30) DEF FeedStep, TryLock, Bootstrap, Select, Accept, Reject, AnswerLost, Mark,
     Report, PublisherError, Unlock, SessionLost, Crash, EndBatch, EndCycle, Goto,
     worker, TypeOK
<1>9. (\E r \in Replays : Mute(r)) \/ QuietStep =>
        /\ batch'[v] = batch[v] /\ queue'[v] = queue[v]
        /\ pc'[v] = "mark" => pc[v] = "mark"
  BY DEF QuietStep, Mute, worker, Publishing
<1> QED BY <1>4, <1>5, <1>6, <1>7, <1>8, <1>9, QuietOrFeed

-----------------------------------------------------------------------------
(* The refinement mapping, step by step. *)

LiveArchive == {e \in Encounters : source[e] = "poll"}
StageOf == [p \in Pairs |-> Stage(p)]

\* A poll or a replay archives: the ledger's Archive.
LEMMA ArchiveRefines ==
  ASSUME TypeOK, SourceInv, NEW payload \in [at : 0..MaxTime, recent : SUBSET Encounters],
         payload.at # 0, NEW run \in Replays \cup {"poll"}, ArchivePayload(payload, run),
         UNCHANGED <<registered, rows, delivered>>
  PROVE  Ledger!Archive
<1> DEFINE found == payload.recent \ Archived
<1>1. /\ Archived' = Archived \cup payload.recent
      /\ \A e \in Encounters : source'[e] = IF e \in found THEN run ELSE source[e]
  BY ArchivePayloadEffect
<1>2. found \in SUBSET (Encounters \ Archived) /\ Archived' = Archived \cup found
  BY <1>1
<1>3. LiveArchive' = IF run = "poll" THEN LiveArchive \cup found ELSE LiveArchive
  <2>1. CASE run = "poll"
    BY <1>1, <1>2, <2>1 DEF LiveArchive
  <2>2. CASE run # "poll"
    <3>1. \A e \in found : source[e] # "poll"
      BY <1>2, FeedAssumption DEF SourceInv, Archived, TypeOK
    <3> QED BY <1>1, <2>2, <3>1 DEF LiveArchive
  <2> QED BY <2>1, <2>2
<1>4. StageOf' = StageOf
  BY DEF StageOf, Stage
<1> HIDE DEF found
<1> QED BY <1>2, <1>3, <1>4 DEF Ledger!Archive, LiveArchive, StageOf

\* How inserted rows and deliveries show in the ledger.
LEMMA StageAfter ==
  ASSUME TypeOK, NEW S \in SUBSET Pairs, NEW reason \in {"seeded", "muted", "sent"},
         InsertRows(S, reason), UNCHANGED delivered
  PROVE  \A p \in Pairs : Stage(p)' = IF p \in S THEN "settled" ELSE Stage(p)
BY InsertRowsTyped DEF Stage, InsertRows

\* A webhook is taken up: the ledger's Join, or nothing.
LEMMA BootstrapRefines ==
  ASSUME TypeOK, LoopInv, NEW w \in Workers, Bootstrap(w)
  PROVE  [Ledger!Next]_(Ledger!ledgerVars)
<1> DEFINE h == Hook(w)
<1> DEFINE old == OlderThan(cycleStart[w])
<1>1. h \in Webhooks
  <2>1. queue[w] # <<>> /\ queue[w] \in Seq(Webhooks)
    BY DEF Bootstrap, LoopInv, InLoop, TypeOK
  <2> QED BY <2>1 DEF Hook
<1>2. UNCHANGED <<Archived, LiveArchive, delivered>>
  BY DEF Bootstrap, Archived, LiveArchive
<1>3. CASE h \in registered
  <2>1. UNCHANGED <<registered, rows>>
    BY <1>3 DEF Bootstrap
  <2>2. StageOf' = StageOf
    BY <1>2, <2>1 DEF StageOf, Stage
  <2> QED BY <1>2, <2>1, <2>2 DEF Ledger!ledgerVars, LiveArchive, StageOf
<1>4. CASE h \notin registered
  <2>1. registered' = registered \cup {h} /\ InsertRows(old \X {h}, "seeded")
    BY <1>4 DEF Bootstrap
  <2>2. old \in SUBSET Archived /\ old \X {h} \in SUBSET Pairs
    BY <1>1 DEF OlderThan, Archived, Pairs
  <2>3. \A p \in Pairs : Stage(p)' = IF p \in old \X {h} THEN "settled" ELSE Stage(p)
    BY <1>2, <2>1, <2>2, StageAfter
  <2>4. StageOf' = [p \in Pairs |-> IF p \in old \X {h} THEN "settled" ELSE StageOf[p]]
    BY <2>3 DEF StageOf
  <2> HIDE DEF h, old
  <2>5. Ledger!Join(h)
    BY <1>2, <1>4, <2>1, <2>2, <2>4
       DEF Ledger!Join, Ledger!Settles, LiveArchive, StageOf, Pairs
  <2> QED BY <1>1, <2>5 DEF Ledger!Next
<1> QED BY <1>3, <1>4

\* Discord shows a message: the ledger's Announce, or a repetition.
LEMMA SendRefines ==
  ASSUME TypeOK, LoopInv, HistoryInv, SentInv, NEW w \in Workers, pc[w] = "send",
         UNCHANGED <<seenAt, source, registered, rows>>,
         delivered' = [delivered EXCEPT ![CurrentPair(w)] = delivered[CurrentPair(w)] + 1]
  PROVE  [Ledger!Next]_(Ledger!ledgerVars)
<1> DEFINE q == CurrentPair(w)
<1>1. /\ Current(w) \in Archived /\ Hook(w) \in registered /\ q \in Pairs
      /\ q = <<Current(w), Hook(w)>> /\ Hook(w) \in Webhooks /\ Current(w) \in Encounters
  BY CurrentTyped DEF LoopInv, InLoop, HistoryInv, AtWebhook, SentInv, CurrentPair
<1>2. UNCHANGED <<Archived, LiveArchive>>
  BY DEF Archived, LiveArchive
<1>3. \A p \in Pairs : delivered'[p] = IF p = q THEN delivered[p] + 1 ELSE delivered[p]
  BY DEF TypeOK
<1>4. delivered[q] \in Nat
  BY <1>1 DEF TypeOK
<1> HIDE DEF q
<1>5. CASE Stage(q) = "open"
  <2>1. \A p \in Pairs : Stage(p)' = IF p = q THEN "announced" ELSE Stage(p)
    BY <1>3, <1>4, <1>5 DEF Stage
  <2>2. StageOf' = [StageOf EXCEPT ![q] = "announced"] /\ StageOf[q] = "open"
    BY <1>1, <1>5, <2>1 DEF StageOf
  <2>3. Ledger!Announce(Current(w), Hook(w))
    BY <1>1, <1>2, <2>2 DEF Ledger!Announce, LiveArchive, StageOf
  <2> QED BY <1>1, <2>3 DEF Ledger!Next
<1>6. CASE Stage(q) # "open"
  <2>1. \A p \in Pairs : Stage(p)' = Stage(p)
    <3>1. rows[q] # "none" \/ delivered[q] > 0
      BY <1>6 DEF Stage
    <3>2. delivered[q] > 0 => delivered'[q] > 0
      BY <1>1, <1>3, <1>4
    <3> QED BY <1>3, <3>1, <3>2 DEF Stage
  <2>2. StageOf' = StageOf
    BY <2>1 DEF StageOf
  <2> QED BY <1>2, <2>2 DEF Ledger!ledgerVars, LiveArchive, StageOf
<1> QED BY <1>5, <1>6

\* The row of a delivered message: the ledger's Settle, or nothing.
LEMMA MarkRefines ==
  ASSUME TypeOK, LoopInv, HistoryInv, SentInv, NEW w \in Workers, Mark(w)
  PROVE  [Ledger!Next]_(Ledger!ledgerVars)
<1> DEFINE q == CurrentPair(w)
<1>1. /\ q = <<Current(w), Hook(w)>> /\ Hook(w) \in Webhooks /\ Current(w) \in Encounters
      /\ q \in Pairs /\ delivered[q] > 0
  BY CurrentTyped DEF Mark, LoopInv, InLoop, SentInv, CurrentPair
<1>2. UNCHANGED <<Archived, LiveArchive, registered, delivered>> /\ InsertRows({q}, "sent")
  BY DEF Mark, Archived, LiveArchive
<1>3. Stage(q) \in {"announced", "settled"}
  BY <1>1 DEF Stage, TypeOK
<1> HIDE DEF q
<1>4. \A p \in Pairs : Stage(p)' = IF p = q THEN "settled" ELSE Stage(p)
  BY <1>1, <1>2, StageAfter
<1>5. CASE Stage(q) = "announced"
  <2>1. StageOf' = [p \in Pairs |-> IF p \in {q} THEN "settled" ELSE StageOf[p]]
    BY <1>4 DEF StageOf
  <2>2. StageOf[q] = "announced"
    BY <1>1, <1>5 DEF StageOf
  <2>3. Ledger!Settle(Current(w), Hook(w))
    BY <1>1, <1>2, <2>1, <2>2 DEF Ledger!Settle, Ledger!Settles, LiveArchive, StageOf, Pairs
  <2> QED BY <1>1, <2>3 DEF Ledger!Next
<1>6. CASE Stage(q) = "settled"
  <2>1. StageOf' = StageOf
    BY <1>4, <1>6 DEF StageOf
  <2> QED BY <1>2, <2>1 DEF Ledger!ledgerVars, LiveArchive, StageOf
<1> QED BY <1>3, <1>5, <1>6

\* A replay mutes what it archived: the ledger's Withdraw.
LEMMA MuteRefines ==
  ASSUME TypeOK, SourceInv, NEW r \in Replays, Mute(r)
  PROVE  Ledger!Withdraw
<1> DEFINE muted == {e \in Encounters : source[e] = r}
<1>1. UNCHANGED <<Archived, LiveArchive, registered, delivered>>
  BY DEF Mute, Archived, LiveArchive
<1>2. muted \in SUBSET (Archived \ LiveArchive)
  BY FeedAssumption DEF SourceInv, Archived, LiveArchive, TypeOK
<1>3. InsertRows(muted \X registered, "muted") /\ muted \X registered \in SUBSET Pairs
  BY DEF Mute, TypeOK, Pairs
<1> HIDE DEF muted
<1>4. \A p \in Pairs : Stage(p)' = IF p \in muted \X registered THEN "settled" ELSE Stage(p)
  BY <1>1, <1>3, StageAfter
<1>5. StageOf' = [p \in Pairs |-> IF p \in muted \X registered THEN "settled" ELSE StageOf[p]]
  BY <1>4 DEF StageOf
<1> QED BY <1>1, <1>2, <1>5 DEF Ledger!Withdraw, Ledger!Settles, LiveArchive, StageOf, Pairs

LEMMA StepRefines ==
  ASSUME TypeOK, LoopInv, HistoryInv, SourceInv, SentInv, [Next]_vars
  PROVE  [Ledger!Next]_(Ledger!ledgerVars)
<1>1. ASSUME NEW w \in Workers, Archive(w)
      PROVE  Ledger!Archive
  <2>1. response[w] \in [at : 0..MaxTime, recent : SUBSET Encounters] /\ response[w].at # 0
    BY <1>1 DEF Archive, TypeOK, LoopInv
  <2> QED BY <1>1, <2>1, ArchiveRefines DEF Archive
<1>2. ASSUME NEW r \in Replays, ReplayIngest(r)
      PROVE  Ledger!Archive
  <2>1. PICK recent \in SUBSET Encounters, at \in 1..now :
          ArchivePayload([at |-> at, recent |-> recent], r)
    BY <1>2 DEF ReplayIngest
  <2>2. /\ [at |-> at, recent |-> recent] \in [at : 0..MaxTime, recent : SUBSET Encounters]
        /\ [at |-> at, recent |-> recent].at # 0
    BY FeedAssumption DEF TypeOK
  <2> QED BY <1>2, <2>1, <2>2, ArchiveRefines DEF ReplayIngest
<1>3. CASE /\ UNCHANGED <<seenAt, source>>
           /\ UNCHANGED <<registered, rows, delivered>>
  <2>1. UNCHANGED <<Archived, LiveArchive, StageOf, registered>>
    BY <1>3 DEF Archived, LiveArchive, StageOf, Stage
  <2> QED BY <2>1 DEF Ledger!ledgerVars, LiveArchive, StageOf
<1>4. ASSUME NEW w \in Workers, FeedStep(w), UNCHANGED <<seenAt, source>>
      PROVE  [Ledger!Next]_(Ledger!ledgerVars)
  <2>1. CASE Bootstrap(w)
    BY <2>1, BootstrapRefines
  <2>2. CASE Accept(w) \/ AnswerLost(w)
    BY <1>4, <2>2, SendRefines DEF Accept, AnswerLost, db
  <2>3. CASE Mark(w)
    BY <2>3, MarkRefines
  <2>4. CASE ~(Bootstrap(w) \/ Accept(w) \/ AnswerLost(w) \/ Mark(w))
    <3>1. UNCHANGED <<registered, rows, delivered>>
      BY <1>4, <2>4 DEF FeedStep, TryLock, Select, Reject, Report, PublisherError,
                        Unlock, SessionLost, Crash, db
    <3> QED BY <1>3, <1>4, <3>1
  <2> QED BY <2>1, <2>2, <2>3, <2>4
<1>5. ASSUME NEW r \in Replays, Mute(r)
      PROVE  Ledger!Next
  BY <1>5, MuteRefines DEF Ledger!Next
<1>6. CASE QuietStep /\ UNCHANGED <<seenAt, source>>
  BY <1>3, <1>6 DEF QuietStep
<1>7. Ledger!Archive => Ledger!Next
  BY DEF Ledger!Next
<1>8. CASE UNCHANGED <<seenAt, source>>
  BY <1>4, <1>5, <1>6, <1>8, QuietOrFeed
<1> QED BY <1>1, <1>2, <1>7, <1>8, ArchiveSteps

\* Every behaviour of the feed is one of its ledger: a row means that Discord
\* showed the message, or that it was history, or that a replay withdrew it;
\* what a live poll archived is never withdrawn.
THEOREM FeedImplementsLedger == Spec => ImplementsLedger
<1>1. Init => SourceInv /\ SentInv /\ HistoryInv
  BY SourceInit, HistoryInit
<1>2. /\ TypeOK /\ LoopInv
      /\ SourceInv /\ SentInv /\ HistoryInv
      /\ [Next]_vars
      => (SourceInv /\ SentInv /\ HistoryInv)'
  BY ArchiveGrows, SentStep, HistoryStep
<1>3. Init => Ledger!Init
  BY FeedAssumption DEF Init, Ledger!Init, Archived, Stage, Pairs
<1>4. /\ TypeOK /\ LoopInv
      /\ SourceInv /\ SentInv /\ HistoryInv
      /\ [Next]_vars
      => [Ledger!Next]_(Ledger!ledgerVars)
  BY StepRefines
<1> QED
  BY <1>1, <1>2, <1>3, <1>4, TypeCorrect, PTL DEF Spec, ImplementsLedger, Ledger!Spec
=============================================================================
