------------------------ MODULE CaptureStandby_proofs -------------------------
(***************************************************************************)
(* Safety of the standby: how long the feed can go unwatched for any       *)
(* number of overlapping invocations, manual captures, deaths and lost     *)
(* heartbeats, and what the recovery message says when invocations do not  *)
(* overlap.                                                                *)
(***************************************************************************)
EXTENDS CaptureStandby, FiniteSetTheorems, TLAPS

-----------------------------------------------------------------------------
(* Types, and the order of the times. *)

Pcs == {"idle", "begin", "fetch", "store", "unchanged", "latest", "alert"}
LatestType == [checked : Nat, payload : Nat]
AlertType == [takeover : Nat, failure : Nat, stored : Nat]
InvType ==
  [pc : Pcs, at : Nat, decision : {"healthy", "recent", "capture"}, alert : AlertType,
   latest : LatestType, got : Nat, outcome : {"none", "failed", "unchanged", "stored"}]

TypeInv ==
  /\ now \in Nat \ {0} /\ lastTry \in 1..now /\ cronDue \in BOOLEAN
  /\ served \in Nat /\ heartbeat \in Nat /\ beat \in 0..now /\ since \in Nat
  /\ latest \in LatestType /\ alert \in AlertType
  /\ inv \in [Slots -> InvType]
  /\ deaths \in Nat /\ manuals \in Nat
  /\ captures \subseteq [at : Nat \ {0}, cron : BOOLEAN, upto : Nat] /\ IsFiniteSet(captures)

\* The feed was fetched when the bucket says that it was checked, and at most a
\* heartbeat's delay before a heartbeat.
TimesInv ==
  /\ beat # 0 => beat <= lastTry /\ now - beat <= HeartbeatDelay
  /\ heartbeat <= lastTry + HeartbeatDelay
  /\ latest.checked <= lastTry
  /\ \A s \in Slots :
       /\ inv[s].at <= now
       /\ inv[s].pc # "idle" => inv[s].at # 0
       /\ inv[s].pc \in {"store", "unchanged", "latest"} => inv[s].at <= lastTry

\* The cron invocations that have yet to go to the feed.
OnTheWay == {s \in Crons : inv[s].pc \in {"begin", "fetch"}}

\* The feed's silence grows by a minute for each of them only, and for this
\* minute's while it is due.
WatchInv ==
  /\ IsFiniteSet(OnTheWay)
  /\ now - lastTry <= StaleAfter + HeartbeatDelay + deaths + Cardinality(OnTheWay)
                        + (IF cronDue THEN 1 ELSE 0)

-----------------------------------------------------------------------------
LEMMA ValuesTyped ==
  /\ EmptyAlert \in AlertType /\ NoLatest \in LatestType /\ Idle \in InvType
  /\ Decision \in {"healthy", "recent", "capture"}
  /\ Crons \subseteq Slots /\ Manuals \subseteq Slots
  /\ \A s \in Manuals : s \notin Crons
BY StandbyAssumption
DEF EmptyAlert, NoLatest, Idle, AlertType, LatestType, InvType, Pcs, Decision, Slots

LEMMA NextAlertTyped == \A i \in InvType : NextAlert(i) \in AlertType
<1> SUFFICES ASSUME NEW i \in InvType PROVE NextAlert(i) \in AlertType
  OBVIOUS
<1>1. i.at \in Nat /\ i.alert \in AlertType
  BY DEF InvType
<1>2. i.alert.takeover \in Nat /\ i.alert.failure \in Nat /\ i.alert.stored \in Nat
  BY <1>1 DEF AlertType
<1>3. CASE i.decision = "healthy"
  BY <1>3, ValuesTyped DEF NextAlert
<1>4. CASE i.decision # "healthy"
  BY <1>1, <1>2, <1>4 DEF NextAlert, AlertType
<1> QED BY <1>3, <1>4

\* A step of an invocation changes what it has in hand and nobody else's.
LEMMA StepTyped ==
  ASSUME TypeInv, NEW s \in Slots, NEW i \in InvType, Step(s, i)
  PROVE  /\ inv' \in [Slots -> InvType] /\ inv'[s] = i
         /\ \A x \in Slots : x # s => inv'[x] = inv[x]
BY DEF TypeInv, Step

LEMMA AfterCaptureTyped ==
  ASSUME TypeInv, NEW s \in Slots, NEW outcome \in {"failed", "unchanged", "stored"},
         AfterCapture(s, outcome)
  PROVE  /\ inv' \in [Slots -> InvType]
         /\ inv'[s] = IF s \in Crons THEN [inv[s] EXCEPT !.pc = "alert", !.outcome = outcome]
                      ELSE Idle
         /\ s \in Crons => /\ inv'[s].pc = "alert" /\ inv'[s].outcome = outcome
                            /\ inv'[s].at = inv[s].at /\ inv'[s].alert = inv[s].alert
                            /\ inv'[s].decision = inv[s].decision
         /\ s \notin Crons => inv'[s].pc = "idle" /\ inv'[s].at = 0
         /\ \A x \in Slots : x # s => inv'[x] = inv[x]
<1> DEFINE i == IF s \in Crons THEN [inv[s] EXCEPT !.pc = "alert", !.outcome = outcome] ELSE Idle
<1>1. inv[s] \in InvType
  BY DEF TypeInv
<1>2. i \in InvType
  BY <1>1, ValuesTyped, ZenonT(30) DEF InvType, Pcs
<1>3. Step(s, i)
  BY DEF AfterCapture
<1> HIDE DEF i
<1>4. /\ inv' \in [Slots -> InvType] /\ inv'[s] = i
      /\ \A x \in Slots : x # s => inv'[x] = inv[x]
  BY <1>2, <1>3, StepTyped
<1>5. /\ s \in Crons => /\ i.pc = "alert" /\ i.outcome = outcome
                         /\ i.at = inv[s].at /\ i.alert = inv[s].alert
                         /\ i.decision = inv[s].decision
      /\ s \notin Crons => i.pc = "idle" /\ i.at = 0
  BY <1>1 DEF i, InvType, Idle
<1> QED BY <1>4, <1>5 DEF i

\* Where a step takes an invocation.
LEMMA InvTyped ==
  ASSUME TypeInv, NEW s \in Slots,
         (s \in Crons /\ CronFires(s)) \/ (s \in Manuals /\ ManualStarts(s)) \/ Invocation(s)
  PROVE  /\ inv' \in [Slots -> InvType]
         /\ \A x \in Slots : x # s => inv'[x] = inv[x]
<1>0. inv[s] \in InvType /\ served \in Nat /\ now \in Nat /\ latest \in LatestType
      /\ alert \in AlertType
  BY DEF TypeInv
<1>1. CASE s \in Crons /\ CronFires(s)
  <2> DEFINE i == [Idle EXCEPT !.pc = IF Decision = "capture" THEN "begin" ELSE "alert",
                               !.at = now, !.decision = Decision, !.alert = alert]
  <2>1. i \in InvType
    BY <1>0, ValuesTyped DEF InvType, Pcs, Idle
  <2>2. Step(s, i)
    BY <1>1 DEF CronFires
  <2> QED BY <2>1, <2>2, StepTyped
<1>2. CASE s \in Manuals /\ ManualStarts(s)
  <2> DEFINE i == [Idle EXCEPT !.pc = "begin", !.at = now]
  <2>1. i \in InvType
    BY <1>0, ValuesTyped DEF InvType, Pcs, Idle
  <2>2. Step(s, i)
    BY <1>2 DEF ManualStarts
  <2> QED BY <2>1, <2>2, StepTyped
<1>3. CASE ReadLatest(s)
  <2>1. [inv[s] EXCEPT !.pc = "fetch", !.latest = latest] \in InvType
    BY <1>0 DEF InvType, Pcs
  <2> QED BY <1>3, <2>1, StepTyped DEF ReadLatest
<1>4. CASE Fetch(s)
  <2>1. \A same \in BOOLEAN :
          [inv[s] EXCEPT !.pc = IF same THEN "unchanged" ELSE "store", !.got = served] \in InvType
    BY <1>0 DEF InvType, Pcs
  <2> QED BY <1>4, <2>1, StepTyped DEF Fetch
<1>5. CASE FetchRefused(s)
  BY <1>5, AfterCaptureTyped DEF FetchRefused
<1>6. CASE FetchThrows(s)
  BY <1>6, ValuesTyped, StepTyped DEF FetchThrows
<1>7. CASE PutUnchanged(s)
  BY <1>7, AfterCaptureTyped DEF PutUnchanged
<1>8. CASE PutCapture(s)
  <2>1. [inv[s] EXCEPT !.pc = "latest"] \in InvType
    BY <1>0 DEF InvType, Pcs
  <2> QED BY <1>8, <2>1, StepTyped DEF PutCapture
<1>9. CASE PutLatest(s)
  BY <1>9, AfterCaptureTyped DEF PutLatest
<1>10. CASE PutAlert(s)
  BY <1>10, ValuesTyped, StepTyped DEF PutAlert
<1>11. CASE Dies(s)
  BY <1>11, ValuesTyped, StepTyped DEF Dies
<1> QED BY <1>1, <1>2, <1>3, <1>4, <1>5, <1>6, <1>7, <1>8, <1>9, <1>10, <1>11 DEF Invocation

LEMMA TypeInit == Init => TypeInv
<1> SUFFICES ASSUME Init PROVE TypeInv
  OBVIOUS
<1>1. inv \in [Slots -> InvType]
  BY ValuesTyped DEF Init
<1>2. /\ captures \subseteq [at : Nat \ {0}, cron : BOOLEAN, upto : Nat] /\ IsFiniteSet(captures)
  BY FS_EmptySet DEF Init
<1> QED BY <1>1, <1>2, ValuesTyped DEF Init, TypeInv

LEMMA TypeStep == TypeInv /\ TimesInv /\ [Next]_vars => TypeInv'
<1> SUFFICES ASSUME TypeInv, TimesInv, [Next]_vars PROVE TypeInv'
  OBVIOUS
<1> USE DEF bucket, budgets
<1>1. CASE UNCHANGED vars
  BY <1>1 DEF vars, TypeInv
<1>2. CASE NewEncounter
  BY <1>2 DEF NewEncounter, TypeInv
<1>3. CASE Tick
  BY <1>3 DEF Tick, TypeInv
<1>4. CASE PrimaryArchives
  BY <1>4 DEF PrimaryArchives, TypeInv
<1>5. CASE HeartbeatArrives
  BY <1>5 DEF HeartbeatArrives, TypeInv
<1>6. CASE HeartbeatLost
  BY <1>6 DEF HeartbeatLost, TypeInv
<1>7. CASE \E s \in Crons : CronFires(s)
  <2> PICK s \in Crons : CronFires(s)
    BY <1>7
  <2>1. inv' \in [Slots -> InvType]
    BY InvTyped, ValuesTyped
  <2> QED BY <2>1 DEF CronFires, TypeInv
<1>8. CASE \E s \in Manuals : ManualStarts(s)
  <2> PICK s \in Manuals : ManualStarts(s)
    BY <1>8
  <2>1. inv' \in [Slots -> InvType]
    BY InvTyped, ValuesTyped
  <2> QED BY <2>1 DEF ManualStarts, TypeInv
<1>9. CASE \E s \in Slots : Invocation(s)
  <2> PICK s \in Slots : Invocation(s)
    BY <1>9
  <2>1. inv' \in [Slots -> InvType] /\ inv[s] \in InvType
    BY InvTyped DEF TypeInv
  <2>2. CASE ReadLatest(s) \/ Fetch(s) \/ FetchRefused(s) \/ FetchThrows(s) \/ Dies(s)
    <3>1. /\ UNCHANGED <<now, cronDue, served, heartbeat, beat, since, latest, alert, manuals,
                          captures>>
          /\ lastTry' \in {lastTry, now} /\ deaths' \in {deaths, deaths + 1}
      BY <2>2 DEF ReadLatest, Fetch, FetchRefused, FetchThrows, Dies
    <3> QED BY <2>1, <3>1 DEF TypeInv
  <2>3. CASE PutUnchanged(s)
    <3>1. latest' \in LatestType
      BY <2>1, <2>3 DEF PutUnchanged, InvType, LatestType
    <3> QED BY <2>1, <2>3, <3>1 DEF PutUnchanged, TypeInv
  <2>4. CASE PutCapture(s)
    <3> DEFINE c == [at |-> inv[s].at, cron |-> s \in Crons, upto |-> inv[s].got]
    <3>1. inv[s].at \in Nat \ {0}
      BY <2>1, <2>4 DEF PutCapture, TimesInv, InvType
    <3>2. (s \in Crons) \in BOOLEAN
      OBVIOUS
    <3>3. c \in [at : Nat \ {0}, cron : BOOLEAN, upto : Nat]
      BY <2>1, <3>1, <3>2 DEF InvType
    <3>4. captures' = captures \cup {c}
      BY <2>4 DEF PutCapture
    <3> HIDE DEF c
    <3>5. IsFiniteSet(captures')
      BY <3>4, FS_AddElement DEF TypeInv
    <3> QED BY <2>1, <2>4, <3>3, <3>4, <3>5 DEF PutCapture, TypeInv
  <2>5. CASE PutLatest(s)
    <3>1. latest' \in LatestType
      BY <2>1, <2>5 DEF PutLatest, InvType, LatestType
    <3> QED BY <2>1, <2>5, <3>1 DEF PutLatest, TypeInv
  <2>6. CASE PutAlert(s)
    <3>1. alert' \in AlertType
      BY <2>1, <2>6, NextAlertTyped DEF PutAlert, TypeInv
    <3>2. since' \in Nat
      BY <2>1, <2>6 DEF PutAlert, TypeInv, InvType, AlertType
    <3> QED BY <2>1, <2>6, <3>1, <3>2 DEF PutAlert, TypeInv
  <2> QED BY <2>2, <2>3, <2>4, <2>5, <2>6 DEF Invocation
<1> QED BY <1>1, <1>2, <1>3, <1>4, <1>5, <1>6, <1>7, <1>8, <1>9 DEF Next

-----------------------------------------------------------------------------
(* How long the feed goes unwatched. *)

LEMMA TimesInit == Init => TimesInv
BY StandbyAssumption DEF Init, TimesInv, Idle, NoLatest

LEMMA TimesStep == TypeInv /\ TimesInv /\ [Next]_vars => TimesInv'
<1> SUFFICES ASSUME TypeInv, TimesInv, [Next]_vars PROVE TimesInv'
  OBVIOUS
<1> USE DEF bucket, budgets
<1>0. /\ now \in Nat \ {0} /\ lastTry \in Nat /\ lastTry <= now /\ HeartbeatDelay \in Nat
      /\ heartbeat \in Nat /\ beat \in Nat /\ beat <= now /\ latest.checked \in Nat
      /\ \A x \in Slots : inv[x].at \in Nat
  BY StandbyAssumption DEF TypeInv, LatestType, InvType
<1>1. CASE UNCHANGED vars
  BY <1>1 DEF vars, TimesInv
<1>2. CASE NewEncounter
  BY <1>2 DEF NewEncounter, TimesInv
<1>3. CASE Tick
  BY <1>0, <1>3 DEF Tick, TimesInv
<1>4. CASE PrimaryArchives
  BY <1>0, <1>4 DEF PrimaryArchives, TimesInv
<1>5. CASE HeartbeatArrives
  BY <1>0, <1>5 DEF HeartbeatArrives, TimesInv
<1>6. CASE HeartbeatLost
  BY <1>0, <1>6 DEF HeartbeatLost, TimesInv
<1>7. ASSUME NEW s \in Slots,
             (s \in Crons /\ CronFires(s)) \/ (s \in Manuals /\ ManualStarts(s))
      PROVE  TimesInv'
  <2>1. \A x \in Slots : x # s => inv'[x] = inv[x]
    BY <1>7, InvTyped
  <2>2. inv'[s].at = now /\ inv'[s].pc \in {"begin", "alert"}
    BY <1>7, ZenonT(30) DEF CronFires, ManualStarts, Step, TypeInv, Idle
  <2>3. now' = now /\ lastTry' = lastTry /\ heartbeat' = heartbeat /\ beat' = beat
        /\ latest' = latest
    BY <1>7 DEF CronFires, ManualStarts
  <2> QED BY <1>0, <2>1, <2>2, <2>3 DEF TimesInv
<1>8. ASSUME NEW s \in Slots, Invocation(s) PROVE TimesInv'
  <2>1. (\A x \in Slots : x # s => inv'[x] = inv[x]) /\ inv[s] \in InvType
        /\ inv \in [Slots -> InvType]
    BY <1>8, InvTyped DEF TypeInv
  <2>2. now' = now /\ heartbeat' = heartbeat /\ beat' = beat /\ lastTry' \in {lastTry, now}
    BY <1>8 DEF Invocation, ReadLatest, Fetch, FetchRefused, FetchThrows, PutUnchanged,
                PutCapture, PutLatest, PutAlert, Dies
  <2>3. /\ inv'[s].at \in {0, inv[s].at}
        /\ inv'[s].pc # "idle" => inv'[s].at = inv[s].at /\ inv[s].pc # "idle"
        /\ inv'[s].pc \in {"store", "unchanged", "latest"} =>
             lastTry' = now \/ inv[s].pc \in {"store", "unchanged", "latest"}
    <3>1. CASE ReadLatest(s) \/ Fetch(s) \/ PutCapture(s)
      BY <2>1, <3>1, ZenonT(30) DEF ReadLatest, Fetch, PutCapture, Step, InvType
    <3>2. CASE FetchRefused(s) \/ PutUnchanged(s) \/ PutLatest(s)
      <4>1. inv[s].pc # "idle" /\ \E o \in {"failed", "unchanged", "stored"} : AfterCapture(s, o)
        BY <3>2 DEF FetchRefused, PutUnchanged, PutLatest
      <4> QED BY <4>1, AfterCaptureTyped
    <3>3. CASE FetchThrows(s) \/ PutAlert(s) \/ Dies(s)
      BY <2>1, <3>3 DEF FetchThrows, PutAlert, Dies, Step, Idle
    <3> QED BY <1>8, <3>1, <3>2, <3>3 DEF Invocation
  <2>4. latest'.checked <= lastTry'
    <3>1. CASE latest' = latest
      BY <1>0, <2>2, <3>1 DEF TimesInv
    <3>2. CASE PutUnchanged(s)
      BY <1>0, <2>1, <2>2, <3>2 DEF PutUnchanged, TimesInv, InvType, LatestType
    <3>3. CASE PutLatest(s)
      BY <1>0, <2>1, <2>2, <3>3 DEF PutLatest, TimesInv
    <3> QED BY <1>8, <3>1, <3>2, <3>3
         DEF Invocation, ReadLatest, Fetch, FetchRefused, FetchThrows, PutCapture, PutAlert, Dies
  <2>5. /\ beat # 0 => beat <= lastTry' /\ now - beat <= HeartbeatDelay
        /\ heartbeat <= lastTry' + HeartbeatDelay
    BY <1>0, <2>2 DEF TimesInv
  <2>6. \A x \in Slots :
          /\ inv'[x].at <= now
          /\ inv'[x].pc # "idle" => inv'[x].at # 0
          /\ inv'[x].pc \in {"store", "unchanged", "latest"} => inv'[x].at <= lastTry'
    BY <1>0, <2>1, <2>2, <2>3 DEF TimesInv
  <2> QED BY <2>2, <2>4, <2>5, <2>6 DEF TimesInv
<1> QED BY <1>1, <1>2, <1>3, <1>4, <1>5, <1>6, <1>7, <1>8, ValuesTyped DEF Next

LEMMA WatchInit == Init => WatchInv
<1> SUFFICES ASSUME Init PROVE WatchInv
  OBVIOUS
<1>1. OnTheWay = {}
  BY ValuesTyped DEF Init, OnTheWay, Idle
<1> QED BY <1>1, FS_EmptySet, StandbyAssumption DEF Init, WatchInv

LEMMA WatchStep == TypeInv /\ TimesInv /\ WatchInv /\ [Next]_vars => WatchInv'
<1> SUFFICES ASSUME TypeInv, TimesInv, WatchInv, [Next]_vars PROVE WatchInv'
  OBVIOUS
<1> USE DEF bucket, budgets
<1>0. /\ now \in Nat /\ lastTry \in Nat /\ lastTry <= now /\ deaths \in Nat /\ heartbeat \in Nat
      /\ latest.checked \in Nat /\ cronDue \in BOOLEAN
      /\ HeartbeatDelay \in Nat /\ StaleAfter \in Nat /\ CaptureGap \in Nat /\ CaptureGap <= StaleAfter
      /\ IsFiniteSet(OnTheWay) /\ Cardinality(OnTheWay) \in Nat
      /\ Crons \subseteq Slots /\ inv \in [Slots -> InvType]
  BY StandbyAssumption, ValuesTyped, FS_CardinalityType DEF TypeInv, LatestType, WatchInv
<1>a. ASSUME inv' = inv PROVE OnTheWay' = OnTheWay
  BY <1>a DEF OnTheWay
<1>b. ASSUME OnTheWay' = OnTheWay, now' = now, lastTry' = lastTry, deaths' = deaths,
             cronDue' = cronDue
      PROVE  WatchInv'
  BY <1>b DEF WatchInv
<1>c. ASSUME OnTheWay' \subseteq OnTheWay, now' = now, lastTry' = now, deaths' \in Nat,
             cronDue' \in BOOLEAN
      PROVE  WatchInv'
  <2>1. IsFiniteSet(OnTheWay') /\ Cardinality(OnTheWay') \in Nat
    BY <1>0, <1>c, FS_Subset, FS_CardinalityType
  <2> QED BY <1>0, <1>c, <2>1 DEF WatchInv
<1>1. CASE UNCHANGED vars
  BY <1>1, <1>a, <1>b DEF vars
<1>2. CASE NewEncounter \/ HeartbeatArrives \/ HeartbeatLost
  BY <1>2, <1>a, <1>b DEF NewEncounter, HeartbeatArrives, HeartbeatLost
<1>3. CASE Tick
  <2>1. OnTheWay' = OnTheWay /\ now' = now + 1 /\ lastTry' = lastTry /\ deaths' = deaths
        /\ ~cronDue /\ cronDue'
    BY <1>3, <1>a DEF Tick
  <2> QED BY <1>0, <2>1 DEF WatchInv
<1>4. CASE PrimaryArchives
  BY <1>0, <1>4, <1>a, <1>c DEF PrimaryArchives
<1>5. CASE \E s \in Crons : CronFires(s)
  <2> PICK s \in Crons : CronFires(s)
    BY <1>5
  <2>1. now' = now /\ lastTry' = lastTry /\ deaths' = deaths /\ cronDue /\ ~cronDue'
    BY DEF CronFires
  <2>2. s \in Slots /\ s \notin OnTheWay
        /\ inv'[s].pc = (IF Decision = "capture" THEN "begin" ELSE "alert")
        /\ \A x \in Slots : x # s => inv'[x] = inv[x]
    BY <1>0 DEF CronFires, OnTheWay, Step, Idle
  <2>3. CASE Decision = "capture"
    <3>1. OnTheWay' = OnTheWay \cup {s}
      BY <1>0, <2>2, <2>3 DEF OnTheWay
    <3>2. IsFiniteSet(OnTheWay') /\ Cardinality(OnTheWay') = Cardinality(OnTheWay) + 1
      BY <1>0, <2>2, <3>1, FS_AddElement
    <3> QED BY <1>0, <2>1, <3>2 DEF WatchInv
  <2>4. CASE Decision # "capture"
    <3>1. OnTheWay' = OnTheWay
      BY <1>0, <2>2, <2>4 DEF OnTheWay
    <3>2. Healthy \/ Recent
      BY <2>4 DEF Decision
    <3>3. now - lastTry <= StaleAfter + HeartbeatDelay
      BY <1>0, <3>2 DEF Healthy, Recent, TimesInv
    <3> QED BY <1>0, <2>1, <3>1, <3>3 DEF WatchInv
  <2> QED BY <2>3, <2>4
<1>6. CASE \E s \in Manuals : ManualStarts(s)
  <2> PICK s \in Manuals : ManualStarts(s)
    BY <1>6
  <2>1. \A x \in Crons : inv'[x] = inv[x]
    BY <1>0, ValuesTyped DEF ManualStarts, Step
  <2>2. OnTheWay' = OnTheWay
    BY <2>1 DEF OnTheWay
  <2> QED BY <1>b, <2>2 DEF ManualStarts
<1>7. ASSUME NEW s \in Slots, Invocation(s) PROVE WatchInv'
  <2>0. (\A x \in Slots : x # s => inv'[x] = inv[x]) /\ inv[s] \in InvType
    BY <1>0, <1>7, InvTyped
  <2>1. CASE ReadLatest(s)
    <3>1. inv'[s].pc = "fetch" /\ inv[s].pc = "begin"
      BY <1>0, <2>0, <2>1 DEF ReadLatest, Step, InvType
    <3>2. OnTheWay' = OnTheWay
      BY <1>0, <2>0, <3>1 DEF OnTheWay
    <3> QED BY <1>b, <2>1, <3>2 DEF ReadLatest
  <2>2. CASE Fetch(s) \/ FetchRefused(s) \/ FetchThrows(s)
    <3>1. inv[s].pc = "fetch" /\ inv'[s].pc \notin {"begin", "fetch"}
      <4>1. CASE Fetch(s)
        BY <1>0, <2>0, <4>1 DEF Fetch, Step, InvType
      <4>2. CASE FetchRefused(s)
        BY <4>2, AfterCaptureTyped DEF FetchRefused
      <4>3. CASE FetchThrows(s)
        BY <1>0, <2>0, <4>3 DEF FetchThrows, Step, Idle
      <4> QED BY <2>2, <4>1, <4>2, <4>3
    <3>2. OnTheWay' \subseteq OnTheWay
      BY <1>0, <2>0, <3>1 DEF OnTheWay
    <3> QED BY <1>0, <1>c, <2>2, <3>2 DEF Fetch, FetchRefused, FetchThrows
  <2>3. CASE PutUnchanged(s) \/ PutCapture(s) \/ PutLatest(s) \/ PutAlert(s)
    <3>1. inv[s].pc \notin {"begin", "fetch"} /\ inv'[s].pc \notin {"begin", "fetch"}
      <4>1. CASE PutUnchanged(s) \/ PutLatest(s)
        BY <4>1, AfterCaptureTyped DEF PutUnchanged, PutLatest
      <4>2. CASE PutCapture(s)
        BY <1>0, <2>0, <4>2 DEF PutCapture, Step, InvType
      <4>3. CASE PutAlert(s)
        BY <1>0, <2>0, <4>3 DEF PutAlert, Step, Idle
      <4> QED BY <2>3, <4>1, <4>2, <4>3
    <3>2. OnTheWay' = OnTheWay
      BY <1>0, <2>0, <3>1 DEF OnTheWay
    <3> QED BY <1>b, <2>3, <3>2 DEF PutUnchanged, PutCapture, PutLatest, PutAlert
  <2>4. CASE Dies(s)
    <3>1. inv'[s].pc = "idle"
      BY <1>0, <2>0, <2>4 DEF Dies, Step, Idle
    <3>2. OnTheWay' = OnTheWay \ {s}
      BY <1>0, <2>0, <3>1 DEF OnTheWay
    <3>3. IsFiniteSet(OnTheWay') /\ Cardinality(OnTheWay') \in Nat
          /\ Cardinality(OnTheWay) <= Cardinality(OnTheWay') + 1
      BY <1>0, <3>2, FS_RemoveElement, FS_CardinalityType
    <3>4. now' = now /\ lastTry' = lastTry /\ deaths' = deaths + 1 /\ cronDue' = cronDue
      BY <2>4 DEF Dies
    <3> QED BY <1>0, <3>3, <3>4 DEF WatchInv
  <2> QED BY <1>7, <2>1, <2>2, <2>3, <2>4 DEF Invocation
<1> QED BY <1>1, <1>2, <1>3, <1>4, <1>5, <1>6, <1>7 DEF Next

LEMMA WatchSafety == Spec => [](TypeInv /\ TimesInv /\ WatchInv)
<1>1. Init => TypeInv /\ TimesInv /\ WatchInv
  BY TypeInit, TimesInit, WatchInit
<1>2. TypeInv /\ TimesInv /\ WatchInv /\ [Next]_vars => (TypeInv /\ TimesInv /\ WatchInv)'
  BY TypeStep, TimesStep, WatchStep
<1> QED BY <1>1, <1>2, PTL DEF Spec

\* Nobody forgets the feed: between two cron minutes with no invocation at work,
\* somebody has gone to it within STALE_AFTER_SECONDS, but for a heartbeat's delay
\* behind its poll and a minute for each invocation that died.  This for any number
\* of overlapping invocations, whatever is lost, refused or captured by hand.
THEOREM FeedWatched == Spec => []FeedNeverUnwatched
<1>1. TypeInv /\ WatchInv => FeedNeverUnwatched
  <2> SUFFICES ASSUME TypeInv, WatchInv, AllIdle, ~cronDue
               PROVE  now - lastTry <= StaleAfter + HeartbeatDelay + deaths
    BY DEF FeedNeverUnwatched
  <2>1. OnTheWay = {}
    BY ValuesTyped DEF OnTheWay, AllIdle
  <2> QED BY <2>1, FS_EmptySet, StandbyAssumption DEF WatchInv, TypeInv
<1> QED BY <1>1, WatchSafety, PTL

-----------------------------------------------------------------------------
(* What the operator is told, when invocations do not overlap. *)

OneAtATime == \A s, t \in Crons : s = t

\* An invocation of the cron has the minute to itself, and so the alert state, which
\* a request never touches.
AloneInv ==
  /\ \A s \in Crons : inv[s].pc # "idle" =>
       /\ ~cronDue /\ inv[s].at = now /\ inv[s].alert = alert
       /\ inv[s].pc # "alert" \/ inv[s].outcome # "none" => inv[s].decision = "capture"
       /\ inv[s].outcome # "none" => inv[s].pc = "alert"
  /\ \A s \in Manuals : inv[s].pc # "alert"

\* What an invocation has stored and not counted yet.
Uncounted ==
  \E s \in Crons : inv[s].pc = "latest" \/ (inv[s].pc = "alert" /\ inv[s].outcome = "stored")

CronsOwn(t) == {c \in captures : c.cron /\ c.at >= t}
CountInv ==
  /\ alert.takeover <= now
  /\ \A c \in captures : c.at <= now
  /\ cronDue \/ (\E s \in Crons : inv[s].pc # "idle") =>
       Cardinality(CronsOwn(now)) = IF Uncounted THEN 1 ELSE 0
  /\ alert.takeover # 0 /\ deaths = 0 =>
       Cardinality(CronsOwn(alert.takeover)) = alert.stored + (IF Uncounted THEN 1 ELSE 0)

\* Every capture is named for replay, or its invocation's, which will name it.
Replayed(c) == ReplaySince # 0 /\ c.at >= ReplaySince
NamedInv ==
  \A c \in captures :
    Replayed(c) \/ \E s \in Crons : /\ inv[s].pc \in {"latest", "alert"} /\ c.at >= inv[s].at
                                    /\ inv[s].decision = "capture"

\* What the cron saw is archived, captured or about to be.
SeenInv ==
  \A e \in witnessed :
    \/ e \in archive \/ \E c \in captures : e \in Shown(c.upto)
    \/ \E s \in Crons : inv[s].pc = "store" /\ e \in Shown(inv[s].got)

\* A payload that counts as stored was.
Stored(payload) == \E c \in captures : c.upto = payload
KnownInv ==
  /\ latest.checked # 0 => Stored(latest.payload)
  /\ \A s \in Crons :
       /\ inv[s].pc = "unchanged" => inv[s].latest.checked # 0
       /\ inv[s].pc \in {"fetch", "unchanged"} /\ inv[s].latest.checked # 0 =>
            Stored(inv[s].latest.payload)
       /\ inv[s].pc = "latest" => Stored(inv[s].got)

CoverInv ==
  /\ manuals = 0 => \A s \in Manuals : inv[s].pc = "idle"
  /\ manuals = 0 /\ deaths = 0 => NamedInv /\ SeenInv /\ KnownInv

SoloInv == AloneInv /\ CountInv /\ CoverInv

-----------------------------------------------------------------------------
\* What an invocation keeps from its first read to its end.
Keeps(s) ==
  inv'[s].at = inv[s].at /\ inv'[s].decision = inv[s].decision /\ inv'[s].alert = inv[s].alert

LEMMA Effects ==
  ASSUME TypeInv, NEW s \in Slots
  PROVE
    /\ ReadLatest(s) => /\ Keeps(s) /\ inv'[s].pc = "fetch" /\ inv'[s].outcome = inv[s].outcome
                        /\ inv'[s].latest = latest
    /\ Fetch(s) =>
         /\ Keeps(s) /\ inv'[s].outcome = inv[s].outcome /\ inv'[s].got = served
         /\ inv'[s].latest = inv[s].latest /\ inv'[s].pc \in {"unchanged", "store"}
         /\ inv'[s].pc = "unchanged" =>
              inv[s].latest.checked # 0 /\ inv[s].latest.payload = served
    /\ PutCapture(s) => /\ Keeps(s) /\ inv'[s].pc = "latest" /\ inv'[s].outcome = inv[s].outcome
                        /\ inv'[s].got = inv[s].got
    /\ FetchThrows(s) \/ PutAlert(s) \/ Dies(s) => inv'[s].pc = "idle"
    /\ s \notin Crons /\ (FetchRefused(s) \/ PutUnchanged(s) \/ PutLatest(s)) =>
         inv'[s].pc = "idle"
    /\ s \in Crons /\ (FetchRefused(s) \/ PutUnchanged(s) \/ PutLatest(s)) =>
         /\ Keeps(s) /\ inv'[s].pc = "alert"
         /\ inv'[s].outcome = IF FetchRefused(s) THEN "failed"
                              ELSE IF PutUnchanged(s) THEN "unchanged" ELSE "stored"
<1>0. inv \in [Slots -> InvType] /\ inv[s] \in InvType
  BY DEF TypeInv
<1>1. ReadLatest(s) => /\ Keeps(s) /\ inv'[s].pc = "fetch" /\ inv'[s].outcome = inv[s].outcome
                       /\ inv'[s].latest = latest
  BY <1>0 DEF ReadLatest, Step, InvType, Keeps
<1>2. Fetch(s) =>
        /\ Keeps(s) /\ inv'[s].outcome = inv[s].outcome /\ inv'[s].got = served
        /\ inv'[s].latest = inv[s].latest /\ inv'[s].pc \in {"unchanged", "store"}
        /\ inv'[s].pc = "unchanged" =>
             inv[s].latest.checked # 0 /\ inv[s].latest.payload = served
  BY <1>0 DEF Fetch, Step, InvType, Keeps
<1>3. PutCapture(s) => /\ Keeps(s) /\ inv'[s].pc = "latest" /\ inv'[s].outcome = inv[s].outcome
                       /\ inv'[s].got = inv[s].got
  BY <1>0 DEF PutCapture, Step, InvType, Keeps
<1>4. FetchThrows(s) \/ PutAlert(s) \/ Dies(s) => inv'[s].pc = "idle"
  BY <1>0 DEF FetchThrows, PutAlert, Dies, Step, Idle
<1>5. FetchRefused(s) => AfterCapture(s, "failed") /\ inv[s].pc = "fetch"
  BY DEF FetchRefused
<1>6. PutUnchanged(s) => AfterCapture(s, "unchanged") /\ inv[s].pc = "unchanged"
  BY DEF PutUnchanged
<1>7. PutLatest(s) => AfterCapture(s, "stored") /\ inv[s].pc = "latest"
  BY DEF PutLatest
<1>8. \A o \in {"failed", "unchanged", "stored"} : AfterCapture(s, o) =>
        /\ s \in Crons => Keeps(s) /\ inv'[s].pc = "alert" /\ inv'[s].outcome = o
        /\ s \notin Crons => inv'[s].pc = "idle"
  BY AfterCaptureTyped DEF Keeps
<1>9. s \notin Crons /\ (FetchRefused(s) \/ PutUnchanged(s) \/ PutLatest(s)) =>
        inv'[s].pc = "idle"
  BY <1>5, <1>6, <1>7, <1>8
<1>10. s \in Crons /\ (FetchRefused(s) \/ PutUnchanged(s) \/ PutLatest(s)) =>
         /\ Keeps(s) /\ inv'[s].pc = "alert"
         /\ inv'[s].outcome = IF FetchRefused(s) THEN "failed"
                              ELSE IF PutUnchanged(s) THEN "unchanged" ELSE "stored"
  BY <1>5, <1>6, <1>7, <1>8
<1> QED BY <1>1, <1>2, <1>3, <1>4, <1>9, <1>10

\* What a step of an invocation reads of its own program counter.
LEMMA Begins ==
  ASSUME NEW s \in Slots
  PROVE  /\ ReadLatest(s) => inv[s].pc = "begin"
         /\ Fetch(s) \/ FetchRefused(s) \/ FetchThrows(s) => inv[s].pc = "fetch"
         /\ PutUnchanged(s) => inv[s].pc = "unchanged"
         /\ PutCapture(s) => inv[s].pc = "store"
         /\ PutLatest(s) => inv[s].pc = "latest"
         /\ PutAlert(s) => inv[s].pc = "alert"
         /\ Dies(s) => inv[s].pc # "idle" /\ deaths' = deaths + 1
         /\ Invocation(s) => inv[s].pc # "idle" /\ now' = now /\ cronDue' = cronDue
                             /\ manuals' = manuals
BY DEF ReadLatest, Fetch, FetchRefused, FetchThrows, PutUnchanged, PutCapture, PutLatest,
       PutAlert, Dies, Invocation, budgets

\* A minute passes when no invocation is at work.
LEMMA TickIsQuiet ==
  ASSUME OneAtATime, Tick
  PROVE  /\ \A s \in Slots : inv[s].pc = "idle" /\ inv'[s] = inv[s]
         /\ now' = now + 1 /\ cronDue' = TRUE /\ ~cronDue
         /\ UNCHANGED <<served, archive, latest, captures, alert, inv, deaths, manuals,
                        witnessed, since>>
BY DEF OneAtATime, Tick, Slots, bucket, budgets

\* A cron invocation that fires reads the alert state.
LEMMA Fired ==
  ASSUME TypeInv, NEW s \in Crons, CronFires(s)
  PROVE  /\ inv'[s].pc \in {"begin", "alert"} /\ inv'[s].at = now /\ inv'[s].alert = alert
         /\ inv'[s].pc = "begin" => inv'[s].decision = "capture"
         /\ inv'[s].outcome = "none" /\ inv[s].pc = "idle" /\ cronDue /\ ~cronDue'
         /\ \A x \in Slots : x # s => inv'[x] = inv[x]
         /\ UNCHANGED <<now, served, archive, latest, captures, alert, deaths, manuals,
                        witnessed, since>>
<1>1. s \in Slots /\ inv \in [Slots -> InvType]
  BY ValuesTyped DEF TypeInv
<1> QED BY <1>1 DEF CronFires, Step, Idle, bucket, budgets

LEMMA Asked ==
  ASSUME TypeInv, NEW s \in Manuals, ManualStarts(s)
  PROVE  /\ inv'[s].pc = "begin" /\ manuals' = manuals + 1
         /\ \A x \in Slots : x # s => inv'[x] = inv[x]
         /\ \A x \in Crons : inv'[x] = inv[x]
         /\ UNCHANGED <<now, cronDue, served, archive, latest, captures, alert, deaths,
                        witnessed, since>>
<1>1. s \in Slots /\ inv \in [Slots -> InvType] /\ Crons \subseteq Slots /\ s \notin Crons
  BY ValuesTyped DEF TypeInv
<1> QED BY <1>1 DEF ManualStarts, Step, Idle, bucket

LEMMA AloneStep ==
  ASSUME OneAtATime, TypeInv, TimesInv, AloneInv, [Next]_vars
  PROVE  AloneInv'
<1> USE DEF bucket, budgets
<1>1. CASE UNCHANGED vars
  BY <1>1 DEF vars, AloneInv
<1>2. CASE NewEncounter \/ PrimaryArchives \/ HeartbeatArrives \/ HeartbeatLost
  BY <1>2 DEF NewEncounter, PrimaryArchives, HeartbeatArrives, HeartbeatLost, AloneInv
<1>3. CASE Tick
  BY <1>3, TickIsQuiet, ValuesTyped DEF AloneInv
<1>4. ASSUME NEW s \in Crons, CronFires(s) PROVE AloneInv'
  BY <1>4, Fired, ValuesTyped DEF AloneInv, OneAtATime
<1>5. ASSUME NEW s \in Manuals, ManualStarts(s) PROVE AloneInv'
  BY <1>5, Asked, ValuesTyped DEF AloneInv
<1>6. ASSUME NEW s \in Slots, Invocation(s) PROVE AloneInv'
  <2>1. /\ \A x \in Slots : x # s => inv'[x] = inv[x]
        /\ now' = now /\ cronDue' = cronDue /\ inv[s].pc # "idle"
    BY <1>6, InvTyped, Begins
  <2>2. CASE s \in Manuals
    <3>1. alert' = alert
      BY <1>6, <2>2 DEF Invocation, ReadLatest, Fetch, FetchRefused, FetchThrows, PutUnchanged,
                        PutCapture, PutLatest, PutAlert, Dies, AloneInv
    <3>2. inv'[s].pc # "alert"
      BY <1>6, <2>2, Effects, ValuesTyped, Begins DEF Invocation
    <3> QED BY <2>1, <2>2, <3>1, <3>2, ValuesTyped DEF AloneInv
  <2>3. CASE s \in Crons
    <3>1. alert' = alert \/ PutAlert(s)
      BY <1>6 DEF Invocation, ReadLatest, Fetch, FetchRefused, FetchThrows, PutUnchanged,
                  PutCapture, PutLatest, Dies
    <3>2. \/ inv'[s].pc = "idle"
          \/ Keeps(s) /\ inv'[s].pc # "alert" /\ inv'[s].outcome = inv[s].outcome
               /\ inv[s].pc # "alert"
          \/ Keeps(s) /\ inv'[s].pc = "alert" /\ inv[s].pc # "alert"
      BY <1>6, <2>3, Effects, Begins DEF Invocation
    <3>3. PutAlert(s) => inv'[s].pc = "idle"
      BY Effects
    <3> QED BY <2>1, <2>3, <3>1, <3>2, <3>3, ValuesTyped DEF AloneInv, Keeps, OneAtATime
  <2> QED BY <2>2, <2>3 DEF Slots
<1> QED BY <1>1, <1>2, <1>3, <1>4, <1>5, <1>6 DEF Next

-----------------------------------------------------------------------------
(* The count. *)

\* What the invariant says of an invocation at work.
LEMMA Solo ==
  ASSUME OneAtATime, AloneInv, NEW s \in Crons, inv[s].pc # "idle"
  PROVE  /\ ~cronDue /\ inv[s].at = now /\ inv[s].alert = alert
         /\ \A x \in Crons : x = s
         /\ Uncounted <=> (inv[s].pc = "latest" \/ (inv[s].pc = "alert" /\ inv[s].outcome = "stored"))
         /\ inv[s].pc \notin {"latest", "alert"} => ~Uncounted
BY DEF OneAtATime, AloneInv, Uncounted

LEMMA CronsOwnFinite ==
  ASSUME TypeInv, NEW t
  PROVE  IsFiniteSet(CronsOwn(t)) /\ Cardinality(CronsOwn(t)) \in Nat
BY FS_Subset, FS_CardinalityType DEF TypeInv, CronsOwn

\* alerts.json holds what the invocation worked out, whether or not it was put.
LEMMA PutAlertPuts ==
  ASSUME AloneInv, NEW s \in Crons, PutAlert(s)
  PROVE  alert' = NextAlert(inv[s]) /\ inv[s].alert = alert
BY Begins DEF PutAlert, AloneInv

LEMMA CountStep ==
  ASSUME OneAtATime, TypeInv, TimesInv, AloneInv, CountInv, [Next]_vars
  PROVE  CountInv'
<1> USE DEF bucket, budgets
<1>0. /\ now \in Nat \ {0} /\ alert.takeover \in Nat /\ alert.stored \in Nat /\ deaths \in Nat
      /\ \A c \in captures : c.at \in Nat
      /\ Crons \subseteq Slots /\ \A s \in Manuals : s \notin Crons
  BY ValuesTyped DEF TypeInv, AlertType
<1>a. ASSUME UNCHANGED <<now, captures, alert, deaths, cronDue>>,
             \A x \in Crons : inv'[x] = inv[x]
      PROVE  CountInv'
  <2>1. Uncounted' <=> Uncounted
    BY <1>a DEF Uncounted
  <2>2. \A t : CronsOwn(t)' = CronsOwn(t)
    BY <1>a DEF CronsOwn
  <2> QED BY <1>a, <2>1, <2>2 DEF CountInv, CronsOwn
<1>1. CASE UNCHANGED vars
  BY <1>1, <1>a DEF vars
<1>2. CASE NewEncounter \/ PrimaryArchives \/ HeartbeatArrives \/ HeartbeatLost
  BY <1>2, <1>a DEF NewEncounter, PrimaryArchives, HeartbeatArrives, HeartbeatLost
<1>3. CASE Tick
  <2>1. /\ \A s \in Crons : inv[s].pc = "idle" /\ inv'[s] = inv[s]
        /\ now' = now + 1 /\ UNCHANGED <<captures, alert, deaths>>
    BY <1>0, <1>3, TickIsQuiet
  <2>2. ~Uncounted /\ ~Uncounted'
    BY <2>1 DEF Uncounted
  <2>3. CronsOwn(now)' = {}
    BY <1>0, <2>1 DEF CronsOwn, CountInv
  <2>4. CronsOwn(alert.takeover)' = CronsOwn(alert.takeover)
    BY <2>1 DEF CronsOwn
  <2>5. Cardinality(CronsOwn(now)') = 0
    BY <2>3, FS_EmptySet
  <2>6. alert'.takeover <= now' /\ \A c \in captures' : c.at <= now'
    BY <1>0, <2>1 DEF CountInv
  <2> QED BY <2>1, <2>2, <2>4, <2>5, <2>6 DEF CountInv
<1>4. ASSUME NEW s \in Crons, CronFires(s) PROVE CountInv'
  <2>1. /\ inv'[s].outcome = "none" /\ inv'[s].pc \in {"begin", "alert"} /\ cronDue /\ ~cronDue'
        /\ UNCHANGED <<now, captures, alert, deaths>>
    BY <1>4, Fired
  <2>2. ~Uncounted /\ ~Uncounted'
    BY <2>1 DEF Uncounted, AloneInv, OneAtATime
  <2>3. CronsOwn(now)' = CronsOwn(now) /\ CronsOwn(alert.takeover)' = CronsOwn(alert.takeover)
    BY <2>1 DEF CronsOwn
  <2> QED BY <2>1, <2>2, <2>3 DEF CountInv
<1>5. ASSUME NEW s \in Manuals, ManualStarts(s) PROVE CountInv'
  BY <1>5, Asked, <1>a
<1>6. ASSUME NEW s \in Slots, Invocation(s), s \notin Crons PROVE CountInv'
  <2>1. \A x \in Crons : inv'[x] = inv[x]
    BY <1>0, <1>6, InvTyped
  <2>2. s \in Manuals
    BY <1>6 DEF Slots
  <2>3. CASE ReadLatest(s) \/ Fetch(s) \/ FetchRefused(s) \/ FetchThrows(s) \/ PutUnchanged(s)
               \/ PutLatest(s)
    BY <1>a, <2>1, <2>3
    DEF ReadLatest, Fetch, FetchRefused, FetchThrows, PutUnchanged, PutLatest
  <2>4. CASE PutAlert(s)
    BY <2>2, <2>4, Begins DEF AloneInv, Slots
  <2>5. CASE PutCapture(s)
    <3>1. UNCHANGED <<now, alert, deaths, cronDue>>
      BY <2>5 DEF PutCapture
    <3> DEFINE c == [at |-> inv[s].at, cron |-> s \in Crons, upto |-> inv[s].got]
    <3>2. captures' = captures \cup {c} /\ ~c.cron /\ c.at = inv[s].at
      BY <1>6, <2>5 DEF PutCapture
    <3> HIDE DEF c
    <3>3. inv[s].at <= now
      BY DEF TimesInv
    <3>4. Uncounted' <=> Uncounted
      BY <2>1 DEF Uncounted
    <3>5. CronsOwn(now)' = CronsOwn(now) /\ CronsOwn(alert.takeover)' = CronsOwn(alert.takeover)
      BY <3>1, <3>2 DEF CronsOwn
    <3>6. \A d \in captures' : d.at <= now
      BY <3>2, <3>3 DEF CountInv
    <3> QED BY <2>1, <3>1, <3>4, <3>5, <3>6 DEF CountInv
  <2>6. CASE Dies(s)
    <3>1. UNCHANGED <<now, captures, alert, cronDue>> /\ deaths' = deaths + 1
      BY <2>6 DEF Dies
    <3>2. Uncounted' <=> Uncounted
      BY <2>1 DEF Uncounted
    <3>3. CronsOwn(now)' = CronsOwn(now)
      BY <3>1 DEF CronsOwn
    <3> QED BY <1>0, <2>1, <3>1, <3>2, <3>3 DEF CountInv
  <2> QED BY <1>6, <2>3, <2>4, <2>5, <2>6 DEF Invocation
<1>7. ASSUME NEW s \in Slots, Invocation(s), s \in Crons PROVE CountInv'
  <2>1. /\ inv[s].pc # "idle" /\ now' = now /\ cronDue' = cronDue
        /\ ~cronDue /\ inv[s].at = now /\ inv[s].alert = alert
        /\ \A x \in Crons : x = s
    BY <1>7, Begins, Solo
  <2>2. Uncounted <=> (inv[s].pc = "latest" \/ (inv[s].pc = "alert" /\ inv[s].outcome = "stored"))
    BY <1>7, <2>1, Solo
  <2>3. Uncounted' <=>
          (inv'[s].pc = "latest" \/ (inv'[s].pc = "alert" /\ inv'[s].outcome = "stored"))
    BY <1>7, <2>1 DEF Uncounted
  <2>4. Cardinality(CronsOwn(now)) = IF Uncounted THEN 1 ELSE 0
    BY <1>7, <2>1 DEF CountInv
  <2>5. CASE ReadLatest(s) \/ Fetch(s) \/ FetchRefused(s) \/ FetchThrows(s) \/ PutUnchanged(s)
               \/ PutLatest(s)
    <3>1. UNCHANGED <<now, captures, alert, deaths, cronDue>>
      BY <2>5 DEF ReadLatest, Fetch, FetchRefused, FetchThrows, PutUnchanged, PutLatest
    <3>2. inv[s].pc = (IF ReadLatest(s) THEN "begin" ELSE IF PutUnchanged(s) THEN "unchanged"
                       ELSE IF PutLatest(s) THEN "latest" ELSE "fetch")
      BY <2>5, Begins
    <3>3. Uncounted' <=> Uncounted
      BY <1>7, <2>2, <2>3, <2>5, <3>2, Effects, Begins
    <3>4. CronsOwn(now)' = CronsOwn(now) /\ CronsOwn(alert.takeover)' = CronsOwn(alert.takeover)
      BY <3>1 DEF CronsOwn
    <3> QED BY <2>1, <2>4, <3>1, <3>3, <3>4 DEF CountInv
  <2>6. CASE PutCapture(s)
    <3> DEFINE c == [at |-> inv[s].at, cron |-> s \in Crons, upto |-> inv[s].got]
    <3>1. UNCHANGED <<alert, deaths>> /\ captures' = captures \cup {c}
      BY <2>6 DEF PutCapture
    <3>2. c.at = now /\ c.cron
      BY <1>7, <2>1
    <3>3. ~Uncounted /\ Uncounted'
      BY <2>2, <2>3, <2>6, Effects, Begins
    <3>4. CronsOwn(now) = {}
      BY <2>4, <3>3, CronsOwnFinite, FS_EmptySet
    <3>5. c \notin captures
      BY <1>0, <3>2, <3>4 DEF CronsOwn
    <3> HIDE DEF c
    <3>6. \A t \in {now, alert.takeover} :
            CronsOwn(t)' = CronsOwn(t) \cup {c} /\ c \notin CronsOwn(t)
      BY <1>0, <2>1, <3>1, <3>2, <3>5 DEF CronsOwn, CountInv
    <3>7. \A t \in {now, alert.takeover} :
            Cardinality(CronsOwn(t)') = Cardinality(CronsOwn(t)) + 1
      BY <3>6, CronsOwnFinite, FS_AddElement
    <3>9. Cardinality(CronsOwn(now)') = Cardinality(CronsOwn(now)) + 1
          /\ Cardinality(CronsOwn(alert.takeover)') = Cardinality(CronsOwn(alert.takeover)) + 1
      BY <2>1, <3>1, <3>7 DEF CronsOwn
    <3>10. alert'.takeover <= now' /\ \A d \in captures' : d.at <= now'
      BY <1>0, <2>1, <3>1, <3>2 DEF CountInv
    <3>11. Cardinality(CronsOwn(now)') = 1
      BY <2>4, <3>3, <3>9
    <3>12. alert'.takeover # 0 /\ deaths' = 0 =>
             Cardinality(CronsOwn(alert.takeover)') = alert'.stored + 1
      BY <1>0, <3>1, <3>3, <3>9 DEF CountInv
    <3> QED BY <3>3, <3>10, <3>11, <3>12 DEF CountInv
  <2>7. CASE PutAlert(s)
    <3>1. UNCHANGED <<captures, deaths>> /\ alert' = NextAlert(inv[s])
      BY <1>7, <2>7, PutAlertPuts DEF PutAlert
    <3>2. ~Uncounted' /\ inv'[s].pc = "idle"
      BY <2>3, <2>7, Effects
    <3>3. Uncounted <=> inv[s].outcome = "stored"
      BY <2>2, <2>7, Begins
    <3>4. inv[s].outcome = "stored" => inv[s].decision = "capture"
      BY <1>7, <2>1 DEF AloneInv
    <3>5. CASE inv[s].decision = "healthy"
      <4>1. alert' = EmptyAlert
        BY <3>1, <3>5 DEF NextAlert
      <4> QED BY <1>0, <2>1, <3>1, <3>2, <4>1 DEF CountInv, EmptyAlert
    <3>6. CASE inv[s].decision # "healthy"
      <4>1. /\ alert'.takeover = (IF alert.takeover = 0 THEN now ELSE alert.takeover)
            /\ alert'.stored = (IF alert.takeover = 0 THEN 0 ELSE alert.stored)
                                 + (IF inv[s].outcome = "stored" THEN 1 ELSE 0)
        BY <2>1, <3>1, <3>6 DEF NextAlert
      <4>2. CronsOwn(alert.takeover)' =
              IF alert.takeover = 0 THEN CronsOwn(now) ELSE CronsOwn(alert.takeover)
        BY <3>1, <4>1 DEF CronsOwn
      <4>3. alert'.takeover # 0 /\ deaths' = 0 => Cardinality(CronsOwn(alert.takeover)') = alert'.stored
        <5>1. CASE alert.takeover = 0
          BY <1>0, <2>4, <3>3, <4>1, <4>2, <5>1
        <5>2. CASE alert.takeover # 0
          BY <1>0, <3>1, <3>3, <4>1, <4>2, <5>2 DEF CountInv
        <5> QED BY <5>1, <5>2
      <4>4. alert'.stored \in Nat /\ alert'.takeover <= now'
        BY <1>0, <2>1, <4>1 DEF CountInv
      <4>5. ~(cronDue' \/ \E x \in Crons : inv'[x].pc # "idle") /\ \A c \in captures' : c.at <= now'
        BY <2>1, <3>1, <3>2 DEF CountInv
      <4> QED BY <3>2, <4>3, <4>4, <4>5 DEF CountInv
    <3> QED BY <3>5, <3>6
  <2>8. CASE Dies(s)
    <3>1. UNCHANGED <<captures, alert>> /\ deaths' = deaths + 1 /\ inv'[s].pc = "idle"
      BY <2>8, Effects DEF Dies
    <3> QED BY <1>0, <2>1, <3>1 DEF CountInv
  <2> QED BY <1>7, <2>5, <2>6, <2>7, <2>8 DEF Invocation
<1> QED BY <1>0, <1>1, <1>2, <1>3, <1>4, <1>5, <1>6, <1>7 DEF Next

-----------------------------------------------------------------------------
(* What to replay. *)

\* The end of a takeover keeps its start, and a start is kept or earlier.
LEMMA SinceMoves ==
  ASSUME TypeInv, AloneInv, CountInv, NEW s \in Crons, PutAlert(s)
  PROVE  /\ ReplaySince # 0 => ReplaySince' # 0 /\ ReplaySince' <= ReplaySince
         /\ inv[s].decision = "capture" => ReplaySince' # 0 /\ ReplaySince' <= now
<1>1. alert' = NextAlert(inv[s]) /\ inv[s].alert = alert /\ inv[s].at = now
  BY PutAlertPuts DEF AloneInv, PutAlert
<1>2. since' = IF alert.takeover # 0 /\ inv[s].decision = "healthy"
                 /\ (since = 0 \/ alert.takeover < since)
               THEN alert.takeover ELSE since
  BY <1>1 DEF PutAlert
<1>3. alert.takeover \in Nat /\ since \in Nat /\ now \in Nat \ {0} /\ alert.takeover <= now
  BY DEF TypeInv, AlertType, CountInv
<1>4. CASE inv[s].decision = "healthy"
  <2>1. alert'.takeover = 0
    BY <1>1, <1>4 DEF NextAlert, EmptyAlert
  <2> QED BY <1>2, <1>3, <1>4, <2>1 DEF ReplaySince
<1>5. CASE inv[s].decision # "healthy"
  <2>1. alert'.takeover = (IF alert.takeover = 0 THEN now ELSE alert.takeover) /\ since' = since
    BY <1>1, <1>2, <1>5 DEF NextAlert
  <2> QED BY <1>3, <2>1 DEF ReplaySince
<1> QED BY <1>4, <1>5

\* While nobody captures by hand, only the cron is at work.
LEMMA CoverSolo ==
  ASSUME OneAtATime, AloneInv, CoverInv, NEW s \in Slots, Invocation(s), manuals = 0
  PROVE  /\ s \in Crons /\ \A x \in Crons : x = s
         /\ inv[s].at = now
         /\ inv[s].pc # "alert" => inv[s].decision = "capture"
BY Begins DEF CoverInv, AloneInv, OneAtATime, Slots

LEMMA NamedStep ==
  ASSUME OneAtATime, TypeInv, TimesInv, AloneInv, CountInv, CoverInv, NamedInv, [Next]_vars,
         manuals = 0, deaths' = 0, manuals' = 0
  PROVE  NamedInv'
<1> USE DEF bucket, budgets
<1>a. ASSUME UNCHANGED <<captures, alert, since>>, \A x \in Crons : inv'[x] = inv[x]
      PROVE  NamedInv'
  BY <1>a DEF NamedInv, Replayed, ReplaySince
<1>1. CASE UNCHANGED vars
  BY <1>1, <1>a DEF vars
<1>2. CASE NewEncounter \/ PrimaryArchives \/ HeartbeatArrives \/ HeartbeatLost \/ Tick
  BY <1>2, <1>a DEF NewEncounter, PrimaryArchives, HeartbeatArrives, HeartbeatLost, Tick
<1>3. ASSUME NEW s \in Crons, CronFires(s) PROVE NamedInv'
  <2>1. UNCHANGED <<captures, alert, since>> /\ inv[s].pc = "idle"
    BY <1>3, Fired
  <2>2. \A c \in captures : Replayed(c)
    BY <2>1 DEF NamedInv, OneAtATime
  <2> QED BY <2>1, <2>2 DEF NamedInv, Replayed, ReplaySince
<1>4. ASSUME NEW s \in Manuals, ManualStarts(s) PROVE NamedInv'
  BY <1>4, <1>a, Asked
<1>5. ASSUME NEW s \in Slots, Invocation(s) PROVE NamedInv'
  <2>0. /\ s \in Crons /\ (\A x \in Crons : x = s) /\ inv[s].at = now
        /\ (inv[s].pc # "alert" => inv[s].decision = "capture")
        /\ now \in Nat /\ ReplaySince \in Nat /\ ReplaySince' \in Nat
        /\ \A c \in captures : c.at \in Nat
    <3>1. TypeInv'
      BY TypeStep
    <3>2. ReplaySince \in Nat /\ ReplaySince' \in Nat
      BY <3>1 DEF TypeInv, AlertType, ReplaySince
    <3>3. now \in Nat /\ \A c \in captures : c.at \in Nat
      BY DEF TypeInv
    <3>4. /\ s \in Crons /\ (\A x \in Crons : x = s) /\ inv[s].at = now
          /\ (inv[s].pc # "alert" => inv[s].decision = "capture")
      BY <1>5, CoverSolo
    <3> QED BY <3>2, <3>3, <3>4
  <2>1. CASE ReadLatest(s) \/ Fetch(s) \/ FetchRefused(s) \/ FetchThrows(s) \/ PutUnchanged(s)
    <3>1. UNCHANGED <<captures, alert, since>>
      BY <2>1 DEF ReadLatest, Fetch, FetchRefused, FetchThrows, PutUnchanged
    <3>2. inv[s].pc \notin {"latest", "alert"}
      BY <2>1, Begins
    <3>3. \A c \in captures : Replayed(c)
      BY <2>0, <3>2 DEF NamedInv
    <3> QED BY <3>1, <3>3 DEF NamedInv, Replayed, ReplaySince
  <2>2. CASE PutCapture(s)
    <3> DEFINE c == [at |-> inv[s].at, cron |-> s \in Crons, upto |-> inv[s].got]
    <3>1. UNCHANGED <<alert, since>> /\ captures' = captures \cup {c} /\ c.at = now
      BY <2>0, <2>2 DEF PutCapture
    <3>2. inv[s].pc = "store" /\ Keeps(s) /\ inv'[s].pc = "latest"
      BY <2>2, Begins, Effects
    <3>3. \A d \in captures : Replayed(d)
      BY <2>0, <3>2 DEF NamedInv
    <3> HIDE DEF c
    <3>4. \A d \in captures' : Replayed(d)' \/ (d.at >= inv'[s].at /\ inv'[s].decision = "capture")
      BY <2>0, <3>1, <3>2, <3>3 DEF Replayed, ReplaySince, Keeps
    <3> QED BY <2>0, <3>2, <3>4 DEF NamedInv
  <2>3. CASE PutLatest(s)
    <3>1. UNCHANGED <<captures, alert, since>>
      BY <2>3 DEF PutLatest
    <3>2. Keeps(s) /\ inv'[s].pc = "alert"
      BY <2>0, <2>3, Effects
    <3> QED BY <2>0, <3>1, <3>2 DEF NamedInv, Replayed, ReplaySince, Keeps
  <2>4. CASE PutAlert(s)
    <3>1. captures' = captures
      BY <2>4 DEF PutAlert
    <3>2. /\ ReplaySince # 0 => ReplaySince' # 0 /\ ReplaySince' <= ReplaySince
          /\ inv[s].decision = "capture" => ReplaySince' # 0 /\ ReplaySince' <= now
      BY <2>0, <2>4, SinceMoves
    <3>3. \A c \in captures : Replayed(c) \/ (c.at >= now /\ inv[s].decision = "capture")
      BY <2>0 DEF NamedInv
    <3>4. \A c \in captures : ReplaySince' # 0 /\ c.at >= ReplaySince'
      BY <2>0, <3>2, <3>3 DEF Replayed
    <3> QED BY <3>1, <3>4 DEF NamedInv, Replayed
  <2>5. CASE Dies(s)
    BY <2>5, Begins DEF TypeInv
  <2> QED BY <1>5, <2>1, <2>2, <2>3, <2>4, <2>5 DEF Invocation
<1> QED BY <1>1, <1>2, <1>3, <1>4, <1>5 DEF Next

LEMMA SeenStep ==
  ASSUME OneAtATime, TypeInv, AloneInv, CoverInv, SeenInv, KnownInv, [Next]_vars,
         manuals = 0, deaths' = 0, manuals' = 0
  PROVE  SeenInv'
<1> USE DEF bucket, budgets
<1>a. ASSUME UNCHANGED <<captures, witnessed>>, archive \subseteq archive',
             \A x \in Crons : inv[x].pc = "store" => inv'[x] = inv[x]
      PROVE  SeenInv'
  BY <1>a DEF SeenInv
<1>1. CASE UNCHANGED vars
  BY <1>1, <1>a DEF vars
<1>2. CASE NewEncounter \/ PrimaryArchives \/ HeartbeatArrives \/ HeartbeatLost \/ Tick
  BY <1>2, <1>a DEF NewEncounter, PrimaryArchives, HeartbeatArrives, HeartbeatLost, Tick
<1>3. ASSUME NEW s \in Crons, CronFires(s) PROVE SeenInv'
  BY <1>3, <1>a, Fired, ValuesTyped
<1>4. ASSUME NEW s \in Manuals, ManualStarts(s) PROVE SeenInv'
  BY <1>4, <1>a, Asked
<1>5. ASSUME NEW s \in Slots, Invocation(s) PROVE SeenInv'
  <2>0. s \in Crons /\ (\A x \in Crons : x = s)
    BY <1>5, CoverSolo
  <2>1. CASE ReadLatest(s) \/ FetchRefused(s) \/ FetchThrows(s) \/ PutUnchanged(s)
               \/ PutLatest(s) \/ PutAlert(s)
    <3>1. UNCHANGED <<captures, witnessed, archive>>
      BY <2>1 DEF ReadLatest, FetchRefused, FetchThrows, PutUnchanged, PutLatest, PutAlert
    <3>2. inv[s].pc # "store"
      BY <2>1, Begins
    <3> QED BY <1>a, <2>0, <3>1, <3>2
  <2>2. CASE Fetch(s)
    <3>1. UNCHANGED <<captures, archive>> /\ witnessed' = witnessed \cup Shown(served)
      BY <2>0, <2>2 DEF Fetch
    <3>2. /\ inv[s].pc = "fetch" /\ inv'[s].got = served /\ inv'[s].pc \in {"unchanged", "store"}
          /\ inv'[s].pc = "unchanged" =>
               inv[s].latest.checked # 0 /\ inv[s].latest.payload = served
      BY <2>2, Begins, Effects
    <3>3. \A e \in witnessed : e \in archive \/ \E c \in captures : e \in Shown(c.upto)
      BY <2>0, <3>2 DEF SeenInv
    <3>4. CASE inv'[s].pc = "unchanged"
      <4>1. \E c \in captures : c.upto = served
        BY <2>0, <3>2, <3>4 DEF KnownInv, Stored
      <4> QED BY <3>1, <3>3, <4>1 DEF SeenInv
    <3>5. CASE inv'[s].pc = "store"
      BY <2>0, <3>1, <3>2, <3>3, <3>5 DEF SeenInv
    <3> QED BY <3>2, <3>4, <3>5
  <2>3. CASE PutCapture(s)
    <3> DEFINE c == [at |-> inv[s].at, cron |-> s \in Crons, upto |-> inv[s].got]
    <3>1. UNCHANGED <<witnessed, archive>> /\ captures' = captures \cup {c} /\ c.upto = inv[s].got
      BY <2>3 DEF PutCapture
    <3> HIDE DEF c
    <3> QED BY <2>0, <3>1 DEF SeenInv
  <2>4. CASE Dies(s)
    BY <2>4, Begins DEF TypeInv
  <2> QED BY <1>5, <2>1, <2>2, <2>3, <2>4 DEF Invocation
<1> QED BY <1>1, <1>2, <1>3, <1>4, <1>5 DEF Next

LEMMA KnownStep ==
  ASSUME OneAtATime, TypeInv, AloneInv, CoverInv, KnownInv, [Next]_vars,
         manuals = 0, deaths' = 0, manuals' = 0
  PROVE  KnownInv'
<1> USE DEF bucket, budgets
<1>a. ASSUME UNCHANGED <<captures, latest>>, \A x \in Crons : inv'[x] = inv[x]
      PROVE  KnownInv'
  BY <1>a DEF KnownInv, Stored
<1>1. CASE UNCHANGED vars
  BY <1>1, <1>a DEF vars
<1>2. CASE NewEncounter \/ PrimaryArchives \/ HeartbeatArrives \/ HeartbeatLost \/ Tick
  BY <1>2, <1>a DEF NewEncounter, PrimaryArchives, HeartbeatArrives, HeartbeatLost, Tick
<1>3. ASSUME NEW s \in Crons, CronFires(s) PROVE KnownInv'
  BY <1>3, Fired DEF KnownInv, Stored, OneAtATime
<1>4. ASSUME NEW s \in Manuals, ManualStarts(s) PROVE KnownInv'
  BY <1>4, <1>a, Asked
<1>5. ASSUME NEW s \in Slots, Invocation(s) PROVE KnownInv'
  <2>0. s \in Crons /\ (\A x \in Crons : x = s) /\ inv[s] \in InvType
    BY <1>5, CoverSolo DEF TypeInv
  <2>1. CASE ReadLatest(s)
    BY <2>0, <2>1, Effects DEF ReadLatest, KnownInv, Stored
  <2>2. CASE Fetch(s)
    BY <2>0, <2>2, Effects, Begins, ZenonT(30) DEF Fetch, KnownInv, Stored
  <2>3. CASE FetchRefused(s) \/ FetchThrows(s) \/ PutAlert(s)
    <3>1. UNCHANGED <<captures, latest>> /\ inv'[s].pc \in {"idle", "alert"}
      BY <2>0, <2>3, Effects DEF FetchRefused, FetchThrows, PutAlert
    <3> QED BY <2>0, <3>1 DEF KnownInv, Stored
  <2>4. CASE PutUnchanged(s)
    <3>1. captures' = captures /\ latest' = [inv[s].latest EXCEPT !.checked = inv[s].at]
          /\ inv'[s].pc = "alert" /\ inv[s].pc = "unchanged"
      BY <2>0, <2>4, Effects, Begins DEF PutUnchanged
    <3>2. latest'.payload = inv[s].latest.payload
      BY <2>0, <3>1 DEF InvType, LatestType
    <3> QED BY <2>0, <3>1, <3>2 DEF KnownInv, Stored
  <2>5. CASE PutCapture(s)
    <3> DEFINE c == [at |-> inv[s].at, cron |-> s \in Crons, upto |-> inv[s].got]
    <3>1. latest' = latest /\ captures' = captures \cup {c} /\ c.upto = inv[s].got
      BY <2>5 DEF PutCapture
    <3> HIDE DEF c
    <3>2. inv'[s].pc = "latest" /\ inv'[s].got = inv[s].got
      BY <2>5, Effects
    <3> QED BY <2>0, <3>1, <3>2 DEF KnownInv, Stored
  <2>6. CASE PutLatest(s)
    <3>1. captures' = captures /\ latest' = [checked |-> inv[s].at, payload |-> inv[s].got]
          /\ inv'[s].pc = "alert" /\ inv[s].pc = "latest"
      BY <2>0, <2>6, Effects, Begins DEF PutLatest
    <3> QED BY <2>0, <3>1 DEF KnownInv, Stored
  <2>7. CASE Dies(s)
    BY <2>7, Begins DEF TypeInv
  <2> QED BY <1>5, <2>1, <2>2, <2>3, <2>4, <2>5, <2>6, <2>7 DEF Invocation
<1> QED BY <1>1, <1>2, <1>3, <1>4, <1>5 DEF Next

\* The budgets only grow.
LEMMA BudgetsGrow ==
  ASSUME TypeInv, [Next]_vars
  PROVE  (deaths' = 0 => deaths = 0) /\ (manuals' = 0 => manuals = 0)
<1>1. deaths' \in {deaths, deaths + 1} /\ manuals' \in {manuals, manuals + 1}
  BY DEF Next, vars, bucket, budgets, NewEncounter, Tick, PrimaryArchives, HeartbeatArrives,
         HeartbeatLost, CronFires, ManualStarts, Invocation, ReadLatest, Fetch, FetchRefused,
         FetchThrows, PutUnchanged, PutCapture, PutLatest, PutAlert, Dies
<1> QED BY <1>1 DEF TypeInv

LEMMA CoverStep ==
  ASSUME OneAtATime, TypeInv, TimesInv, SoloInv, [Next]_vars
  PROVE  CoverInv'
<1> USE DEF SoloInv
<1>1. ASSUME manuals' = 0, NEW s \in Manuals PROVE inv'[s].pc = "idle"
  <2>1. inv[s].pc = "idle" /\ s \in Slots /\ s \notin Crons
    BY <1>1, BudgetsGrow, ValuesTyped DEF CoverInv
  <2>2. ASSUME NEW x \in Slots, Invocation(x) PROVE inv'[s].pc = "idle"
    BY <2>1, <2>2, Begins, InvTyped
  <2>3. ASSUME NEW x \in Manuals, ManualStarts(x) PROVE inv'[s].pc = "idle"
    BY <1>1, <2>3, Asked DEF TypeInv
  <2>4. ASSUME NEW x \in Crons, CronFires(x) PROVE inv'[s].pc = "idle"
    BY <2>1, <2>4, Fired
  <2>5. CASE inv' = inv
    BY <2>1, <2>5
  <2> QED BY <2>2, <2>3, <2>4, <2>5
          DEF Next, vars, NewEncounter, Tick, PrimaryArchives, HeartbeatArrives, HeartbeatLost
<1>2. ASSUME manuals' = 0, deaths' = 0 PROVE (NamedInv /\ SeenInv /\ KnownInv)'
  <2>1. manuals = 0 /\ NamedInv /\ SeenInv /\ KnownInv
    BY <1>2, BudgetsGrow DEF CoverInv
  <2> QED BY <1>2, <2>1, NamedStep, SeenStep, KnownStep
<1> QED BY <1>1, <1>2 DEF CoverInv

LEMMA SoloInit == Init => SoloInv
<1> SUFFICES ASSUME Init PROVE SoloInv
  OBVIOUS
<1>1. /\ \A s \in Slots : inv[s].pc = "idle"
      /\ captures = {} /\ witnessed = {} /\ now = 1 /\ alert.takeover = 0 /\ latest.checked = 0
  BY DEF Init, Idle, EmptyAlert, NoLatest
<1>2. AloneInv /\ CoverInv
  BY <1>1, ValuesTyped DEF AloneInv, CoverInv, NamedInv, SeenInv, KnownInv
<1>3. ~Uncounted /\ CronsOwn(now) = {}
  BY <1>1, ValuesTyped DEF Uncounted, CronsOwn
<1>4. CountInv
  BY <1>1, <1>3, FS_EmptySet DEF CountInv
<1> QED BY <1>2, <1>4 DEF SoloInv

LEMMA SoloSafety == ASSUME OneAtATime PROVE Spec => [](TypeInv /\ TimesInv /\ SoloInv)
<1>1. Init => TypeInv /\ TimesInv /\ SoloInv
  BY TypeInit, TimesInit, SoloInit
<1>2. TypeInv /\ TimesInv /\ SoloInv /\ [Next]_vars => (TypeInv /\ TimesInv /\ SoloInv)'
  BY TypeStep, TimesStep, AloneStep, CountStep, CoverStep DEF SoloInv
<1> QED BY <1>1, <1>2, PTL DEF Spec

\* The recovery message counts what it tells to replay: while a takeover lasts and no
\* invocation has died, alerts.json has counted exactly the cron's captures since its
\* start.  This needs the invocations of the cron not to overlap: two that do each write
\* back the count they read.
THEOREM RecoveryCounts == ASSUME OneAtATime PROVE Spec => []CountsItsCaptures
<1>1. TypeInv /\ SoloInv => CountsItsCaptures
  <2> SUFFICES ASSUME TypeInv, SoloInv, AllIdle, deaths = 0, alert.takeover # 0
               PROVE  alert.stored = Cardinality(CronsOwn(alert.takeover))
    BY DEF CountsItsCaptures, CronsOwn
  <2>1. ~Uncounted
    BY ValuesTyped DEF Uncounted, AllIdle
  <2> QED BY <2>1 DEF SoloInv, CountInv, TypeInv, AlertType
<1> QED BY <1>1, SoloSafety, PTL

\* The recovery messages' replay commands reach back to everything the standby saw and
\* the archive lacks, while nobody captures by hand, no invocation dies and none overlap.
THEOREM RecoveryCovers == ASSUME OneAtATime PROVE Spec => []ReplayCoversOutage
<1>1. TypeInv /\ SoloInv => ReplayCoversOutage
  <2> SUFFICES ASSUME TypeInv, SoloInv, AllIdle, manuals = 0, deaths = 0, NEW e \in witnessed
               PROVE  e \in archive \/ \E c \in captures : Replayed(c) /\ e \in Shown(c.upto)
    BY DEF ReplayCoversOutage, Replayed
  <2>1. \A s \in Crons : inv[s].pc = "idle"
    BY ValuesTyped DEF AllIdle
  <2>2. \A c \in captures : Replayed(c)
    BY <2>1 DEF SoloInv, CoverInv, NamedInv
  <2>3. e \in archive \/ \E c \in captures : e \in Shown(c.upto)
    BY <2>1 DEF SoloInv, CoverInv, SeenInv
  <2> QED BY <2>2, <2>3
<1> QED BY <1>1, SoloSafety, PTL
=============================================================================
