--------------------------- MODULE CaptureStandby ---------------------------
(***************************************************************************)
(* The Cloudflare standby that captures the bounty feed while the primary  *)
(* collector is silent (cloudflare/bounty-capture), the heartbeats that    *)
(* keep it idle (lib/capture/heartbeat.ts), and what the operator is told  *)
(* to replay afterwards.                                                   *)
(*                                                                         *)
(* The game shows only its last Window encounters, so what nobody fetches  *)
(* in time is lost.  The primary archives what it fetched and then sends a *)
(* heartbeat, which may be late or lost.  A cron invocation of the standby *)
(* reads its bucket, may fetch the feed, writes the capture, the latest    *)
(* state and the alert state in separate puts, and may die between any two *)
(* of them.  A tick is the cron's minute.                                  *)
(***************************************************************************)
EXTENDS Integers, FiniteSets

CONSTANTS
  Crons,           \* slots for cron invocations; two let invocations overlap
  Manuals,         \* slots for POST /capture requests
  Window,          \* how many encounters the game shows
  StaleAfter,      \* STALE_AFTER_SECONDS, in ticks
  CaptureGap,      \* MIN_CAPTURE_GAP_SECONDS, in ticks, rounded up
  FailureInterval, \* FAILURE_ALERT_INTERVAL_SECONDS, in ticks
  HeartbeatDelay,  \* bound: ticks from the primary's fetch to its heartbeat
  NumEncounters,   \* bound: encounters of the game
  MaxTime,         \* bound: the last tick
  MaxRefusals,     \* bound: fetches the source does not answer with the feed
  MaxDeaths,       \* bound: invocations that die half-way
  MaxManuals       \* bound: manual captures

Slots == Crons \cup Manuals
Encounters == 1..NumEncounters

ASSUME StandbyAssumption ==
  /\ Crons \cap Manuals = {}
  /\ Window \in Nat \ {0}
  /\ CaptureGap \in Nat \ {0} /\ StaleAfter \in Nat /\ StaleAfter >= CaptureGap
  /\ FailureInterval \in Nat \ {0}
  /\ HeartbeatDelay \in Nat
  /\ NumEncounters \in Nat /\ MaxTime \in Nat \ {0}
  /\ MaxRefusals \in Nat /\ MaxDeaths \in Nat /\ MaxManuals \in Nat

VARIABLES
  now,        \* the clock, in ticks
  cronDue,    \* this tick's cron trigger has not fired yet
  served,     \* how many encounters the game has shown so far
  archive,    \* the encounters in the primary's archive
  beat,       \* when the primary fetched what it has still to report; 0 if none
  \* the R2 bucket
  heartbeat,  \* state/heartbeat.json; 0 while there is none
  latest,     \* state/latest.json: when last checked, and the payload stored last
  captures,   \* captures/: when, by what trigger, and how far the feed had come
  alert,      \* state/alerts.json
  inv,        \* what each running invocation has in hand
  \* the fault budgets and history
  refusals, deaths, manuals,
  lastTry,    \* when the feed was last observed, or an attempt refused
  witnessed,  \* the encounters the cron saw in payloads it fetched
  since       \* the earliest --since the recovery messages named; 0 if none

bucket == <<heartbeat, latest, captures, alert>>
budgets == <<refusals, deaths, manuals>>
vars == <<now, cronDue, served, archive, beat, bucket, inv, budgets,
          lastTry, witnessed, since>>

-----------------------------------------------------------------------------
\* The encounters the game shows when it has shown n so far.
Shown(n) == {e \in Encounters : n - Window < e /\ e <= n}

NoLatest == [checked |-> 0, payload |-> 0]
EmptyAlert == [takeover |-> 0, failure |-> 0, stored |-> 0]
Idle == [pc |-> "idle", at |-> 0, decision |-> "healthy", alert |-> EmptyAlert,
         latest |-> NoLatest, got |-> 0, outcome |-> "none"]

\* A mutant of Recent: the gap between captures outlasts the takeover latency.
RecentTooLong == latest.checked # 0 /\ now - latest.checked <= 2 * StaleAfter

\* decideStandbyCapture.
Healthy == heartbeat # 0 /\ now - heartbeat <= StaleAfter
Recent == latest.checked # 0 /\ now - latest.checked < CaptureGap
Decision == IF Healthy THEN "healthy" ELSE IF Recent THEN "recent" ELSE "capture"

\* nextAlertState: a takeover begins or ends, what was stored meanwhile is
\* counted, and a failed capture is reported once per FailureInterval.
FailureDue(i) ==
  /\ i.outcome = "failed"
  /\ i.alert.failure = 0 \/ i.at - i.alert.failure >= FailureInterval

\* Mutants of NextAlert: the takeover restarts with every capture, and a capture
\* that stored nothing is counted.
NextAlertRestarting(i) ==
  IF i.decision = "healthy" THEN EmptyAlert
  ELSE [takeover |-> i.at,
        failure  |-> IF FailureDue(i) THEN i.at ELSE i.alert.failure,
        stored   |-> (IF i.alert.takeover = 0 THEN 0 ELSE i.alert.stored)
                       + (IF i.outcome = "stored" THEN 1 ELSE 0)]

NextAlertCountsUnchanged(i) ==
  IF i.decision = "healthy" THEN EmptyAlert
  ELSE [takeover |-> IF i.alert.takeover = 0 THEN i.at ELSE i.alert.takeover,
        failure  |-> IF FailureDue(i) THEN i.at ELSE i.alert.failure,
        stored   |-> (IF i.alert.takeover = 0 THEN 0 ELSE i.alert.stored)
                       + (IF i.outcome # "none" THEN 1 ELSE 0)]

NextAlert(i) ==
  IF i.decision = "healthy" THEN EmptyAlert
  ELSE [takeover |-> IF i.alert.takeover = 0 THEN i.at ELSE i.alert.takeover,
        failure  |-> IF FailureDue(i) THEN i.at ELSE i.alert.failure,
        stored   |-> (IF i.alert.takeover = 0 THEN 0 ELSE i.alert.stored)
                       + (IF i.outcome = "stored" THEN 1 ELSE 0)]

Step(s, i) == inv' = [inv EXCEPT ![s] = i]

\* What comes after capture(): the cron's alerts, or the answer to the request.
AfterCapture(s, outcome) ==
  Step(s, IF s \in Crons THEN [inv[s] EXCEPT !.pc = "alert", !.outcome = outcome]
                         ELSE Idle)

-----------------------------------------------------------------------------
Init ==
  /\ now = 1
  /\ cronDue = TRUE
  /\ served = 0
  /\ archive = {}
  /\ beat = 0
  /\ heartbeat = 0
  /\ latest = NoLatest
  /\ captures = {}
  /\ alert = EmptyAlert
  /\ inv = [s \in Slots |-> Idle]
  /\ refusals = 0
  /\ deaths = 0
  /\ manuals = 0
  /\ lastTry = 1
  /\ witnessed = {}
  /\ since = 0

\* The game shows a new encounter; the oldest shown may scroll away.
NewEncounter ==
  /\ served < NumEncounters
  /\ served' = served + 1
  /\ UNCHANGED <<now, cronDue, archive, beat, bucket, inv, budgets, lastTry,
                 witnessed, since>>

\* A minute passes.  The cron fires every minute; unless Crons has room for an
\* overlap, an invocation ends within its minute.
Tick ==
  /\ now < MaxTime
  /\ ~cronDue
  /\ beat = 0 \/ now - beat < HeartbeatDelay
  /\ \A s \in Manuals : inv[s].pc = "idle"
  /\ \E s \in Crons : inv[s].pc = "idle"
  /\ now' = now + 1
  /\ cronDue' = TRUE
  /\ UNCHANGED <<served, archive, beat, bucket, inv, budgets, lastTry,
                 witnessed, since>>

-----------------------------------------------------------------------------
(* The primary collector. *)

\* A poll archives the bounty source; its run goes on.
PrimaryArchives ==
  /\ beat = 0
  /\ archive' = archive \cup Shown(served)
  /\ beat' = now
  /\ lastTry' = now
  /\ UNCHANGED <<now, cronDue, served, bucket, inv, budgets, witnessed, since>>

\* sendCaptureHeartbeat reaches the standby, which notes its own time.
HeartbeatArrives ==
  /\ beat # 0
  /\ heartbeat' = now
  /\ beat' = 0
  /\ UNCHANGED <<now, cronDue, served, archive, latest, captures, alert,
                 inv, budgets, lastTry, witnessed, since>>

\* The heartbeat fails, or the primary dies before it sends it.
HeartbeatLost ==
  /\ beat # 0
  /\ beat' = 0
  /\ UNCHANGED <<now, cronDue, served, archive, bucket, inv, budgets,
                 lastTry, witnessed, since>>

-----------------------------------------------------------------------------
(* An invocation of the standby. *)

\* scheduled(): reads the bucket and decides.
CronFires(s) ==
  /\ cronDue
  /\ inv[s].pc = "idle"
  /\ cronDue' = FALSE
  /\ Step(s, [Idle EXCEPT !.pc = IF Decision = "capture" THEN "begin" ELSE "alert",
                          !.at = now, !.decision = Decision, !.alert = alert])
  /\ UNCHANGED <<now, served, archive, beat, bucket, budgets, lastTry,
                 witnessed, since>>

\* POST /capture captures whatever the primary does.
ManualStarts(s) ==
  /\ inv[s].pc = "idle"
  /\ manuals < MaxManuals
  /\ manuals' = manuals + 1
  /\ Step(s, [Idle EXCEPT !.pc = "begin", !.at = now])
  /\ UNCHANGED <<now, cronDue, served, archive, beat, bucket, refusals,
                 deaths, lastTry, witnessed, since>>

\* capture() reads the latest state before it goes to the feed.
ReadLatest(s) ==
  /\ inv[s].pc = "begin"
  /\ Step(s, [inv[s] EXCEPT !.pc = "fetch", !.latest = latest])
  /\ UNCHANGED <<now, cronDue, served, archive, beat, bucket, budgets,
                 lastTry, witnessed, since>>

\* The feed is fetched.  It is stored unless it is, byte for byte, what was
\* stored last; the game may have rendered the same encounters anew.
Fetch(s) ==
  /\ inv[s].pc = "fetch"
  /\ \E same \in BOOLEAN :
       /\ same => inv[s].latest.checked # 0 /\ inv[s].latest.payload = served
       /\ Step(s, [inv[s] EXCEPT !.pc = IF same THEN "unchanged" ELSE "store",
                                 !.got = served])
  /\ lastTry' = now
  /\ witnessed' = IF s \in Crons THEN witnessed \cup Shown(served) ELSE witnessed
  /\ UNCHANGED <<now, cronDue, served, archive, beat, bucket, budgets, since>>

\* The source answers with an HTTP error, or with something else than the feed.
FetchRefused(s) ==
  /\ inv[s].pc = "fetch"
  /\ refusals < MaxRefusals
  /\ refusals' = refusals + 1
  /\ AfterCapture(s, "failed")
  /\ lastTry' = now
  /\ UNCHANGED <<now, cronDue, served, archive, beat, bucket, deaths,
                 manuals, witnessed, since>>

\* The source does not answer: fetch throws, and nobody catches it.
FetchThrows(s) ==
  /\ inv[s].pc = "fetch"
  /\ refusals < MaxRefusals
  /\ refusals' = refusals + 1
  /\ Step(s, Idle)
  /\ lastTry' = now
  /\ UNCHANGED <<now, cronDue, served, archive, beat, bucket, deaths,
                 manuals, witnessed, since>>

\* An unchanged payload only moves checkedAt.
PutUnchanged(s) ==
  /\ inv[s].pc = "unchanged"
  /\ latest' = [inv[s].latest EXCEPT !.checked = inv[s].at]
  /\ AfterCapture(s, "unchanged")
  /\ UNCHANGED <<now, cronDue, served, archive, beat, heartbeat, captures, alert,
                 budgets, lastTry, witnessed, since>>

\* A new payload: its own object first ...
PutCapture(s) ==
  /\ inv[s].pc = "store"
  /\ captures' = captures \cup {[at |-> inv[s].at, cron |-> s \in Crons, upto |-> inv[s].got]}
  /\ Step(s, [inv[s] EXCEPT !.pc = "latest"])
  /\ UNCHANGED <<now, cronDue, served, archive, beat, heartbeat, latest, alert,
                 budgets, lastTry, witnessed, since>>

\* ... and then the latest state.
PutLatest(s) ==
  /\ inv[s].pc = "latest"
  /\ latest' = [checked |-> inv[s].at, payload |-> inv[s].got]
  /\ AfterCapture(s, "stored")
  /\ UNCHANGED <<now, cronDue, served, archive, beat, heartbeat, captures, alert,
                 budgets, lastTry, witnessed, since>>

\* The alert state moves on.  When a takeover ends, the message names its start
\* as what to replay from.
PutAlert(s) ==
  /\ inv[s].pc = "alert"
  /\ alert' = IF NextAlert(inv[s]) = inv[s].alert THEN alert ELSE NextAlert(inv[s])
  /\ since' = IF inv[s].alert.takeover # 0 /\ inv[s].decision = "healthy"
                 /\ (since = 0 \/ inv[s].alert.takeover < since)
              THEN inv[s].alert.takeover ELSE since
  /\ Step(s, Idle)
  /\ UNCHANGED <<now, cronDue, served, archive, beat, heartbeat, latest, captures,
                 budgets, lastTry, witnessed>>

\* A put fails or the invocation is evicted: nothing of it goes on.
Dies(s) ==
  /\ inv[s].pc # "idle"
  /\ deaths < MaxDeaths
  /\ deaths' = deaths + 1
  /\ Step(s, Idle)
  /\ UNCHANGED <<now, cronDue, served, archive, beat, bucket, refusals,
                 manuals, lastTry, witnessed, since>>

-----------------------------------------------------------------------------
Invocation(s) ==
  \/ ReadLatest(s) \/ Fetch(s) \/ FetchRefused(s) \/ FetchThrows(s)
  \/ PutUnchanged(s) \/ PutCapture(s) \/ PutLatest(s) \/ PutAlert(s) \/ Dies(s)

Next ==
  \/ NewEncounter \/ Tick
  \/ PrimaryArchives \/ HeartbeatArrives \/ HeartbeatLost
  \/ \E s \in Crons : CronFires(s)
  \/ \E s \in Manuals : ManualStarts(s)
  \/ \E s \in Slots : Invocation(s)

Spec == Init /\ [][Next]_vars

-----------------------------------------------------------------------------
(* Properties. *)

AllIdle == \A s \in Slots : inv[s].pc = "idle"

\* docs/capture-standby.md: "Takeover latency: up to STALE_AFTER_SECONDS plus
\* one cron minute".  Whatever the primary does, somebody has gone to the feed
\* that recently, but for the delay of a heartbeat behind its poll and a minute
\* for each cron invocation that died.
FeedNeverUnwatched ==
  AllIdle /\ ~cronDue => now - lastTry <= StaleAfter + HeartbeatDelay + deaths

\* From when on the captures are, or will be, named for replay.
ReplaySince ==
  IF since = 0 THEN alert.takeover
  ELSE IF alert.takeover = 0 \/ since < alert.takeover THEN since ELSE alert.takeover

\* Every encounter the standby saw is in the archive, or in a capture that the
\* replay command of a recovery message lists, as long as nobody captures by hand
\* (a capture by hand before the takeover makes the cron's own one unchanged), no
\* invocation dies and the cron's own invocations do not overlap.
ReplayCoversOutage ==
  AllIdle /\ manuals = 0 /\ deaths = 0 =>
    witnessed \subseteq
      archive \cup UNION {Shown(c.upto) : c \in {d \in captures :
                            ReplaySince # 0 /\ d.at >= ReplaySince}}

\* The recovery message counts the cron's captures it tells to replay, as long as
\* no invocation dies between its puts or overlaps another one of the cron's.
CountsItsCaptures ==
  AllIdle /\ deaths = 0 /\ alert.takeover # 0 =>
    alert.stored = Cardinality({c \in captures : c.cron /\ c.at >= alert.takeover})

\* docs/capture-standby.md: "a red embed once when it takes over (the primary
\* has been silent for STALE_AFTER_SECONDS)".
SilenceIsReported ==
  AllIdle /\ ~cronDue /\ ~Healthy => alert.takeover # 0
=============================================================================
