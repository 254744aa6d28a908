--------------------------- MODULE EncounterFeed ---------------------------
(***************************************************************************)
(* The live Discord feed of newly archived bounty encounters, together     *)
(* with everything that shares its tables: the worker's poll cycle that    *)
(* archives encounters and then publishes them (scripts/worker.ts,         *)
(* processBounty, publishPendingDiscordEncounters), and the operator's     *)
(* replay of standby captures, which archives encounters beside the live   *)
(* worker and mutes them (scripts/replay-captures.ts).                     *)
(*                                                                         *)
(* Several worker processes may be alive at once (the old and the new one  *)
(* of a rolling restart).  They share PostgreSQL, where every statement or *)
(* transaction is one atomic step, and Discord, which may accept, reject,  *)
(* or accept a message whose answer is lost.  A process may crash at any   *)
(* step and a database session may be cut, which frees the advisory lock   *)
(* while its publisher is still running.                                   *)
(***************************************************************************)
EXTENDS Integers, FiniteSets, Sequences

CONSTANTS
  Workers,        \* worker processes
  Webhooks,       \* webhook keys
  Configs,        \* the values DISCORD_BOUNTY_WEBHOOK_URL may have, parsed
  NumEncounters,  \* bound: encounters of the game, numbered by (event_at, id)
  Replays,        \* bound: runs of the replay script, one id per run
  BatchSize,      \* ENCOUNTER_FEED_BATCH_SIZE
  BacklogAge,     \* ENCOUNTER_FEED_BACKLOG_AGE_MS, in clock ticks
  AlertInterval,  \* ENCOUNTER_FEED_BACKLOG_ALERT_INTERVAL_MS, in clock ticks
  MaxCaptures,    \* bound: captures one replay run lists
  MaxTime,        \* bound: the last clock tick
  MaxFaults,      \* bound: crashes, lost sessions, failed queries, lost answers
  Healthy,        \* the webhooks Discord accepts again and again (fairness)
  None            \* no lock holder, no source run

Encounters == 1..NumEncounters
Pairs == Encounters \X Webhooks

ASSUME FeedAssumption ==
  /\ NumEncounters \in Nat
  /\ BatchSize \in Nat \ {0}
  /\ MaxCaptures \in Nat \ {0}
  /\ MaxTime \in Nat \ {0}
  /\ MaxFaults \in Nat
  /\ BacklogAge \in Nat
  /\ AlertInterval \in Nat \ {0}
  /\ Configs \subseteq Seq(Webhooks)
  /\ Healthy \subseteq Webhooks
  /\ None \notin Workers \cup Replays \cup {"poll"}
  /\ "poll" \notin Replays

VARIABLES
  \* PostgreSQL
  seenAt,      \* bounty_encounters.first_observed_at; 0 while not archived
  source,      \* the run behind source_ingestion_id: "poll" or a replay
  registered,  \* discord_feed_webhooks
  rows,        \* discord_encounter_posts, with the statement that wrote the row
  lock,        \* the worker whose session holds the advisory lock, or None
  \* Discord
  delivered,   \* how often each webhook accepted each encounter
  \* the worker processes' memory
  config, pc, queue, cycleStart, response, batch, alerts,
  \* the replay processes' memory
  rpc, left,
  \* the clock, the fault budget and history
  now, faults,
  known,       \* what was archived when the worker selected its batch
  past,        \* what was archived, and older than the cycle, when a webhook joined
  doubtful,    \* pairs sent by a publisher that could not record the answer
  lastWarn     \* the clock at each process's last discord_feed_backlog warning

db == <<seenAt, source, registered, rows, lock>>
worker == <<config, pc, queue, cycleStart, response, batch, alerts>>
replay == <<rpc, left>>
history == <<known, past, doubtful, lastWarn>>
vars == <<db, delivered, worker, replay, now, faults, history>>

-----------------------------------------------------------------------------
(* Derived state. *)

Archived == {e \in Encounters : seenAt[e] # 0}
OlderThan(t) == {e \in Archived : seenAt[e] < t}

\* The webhook the publisher is working on: the head of what is left of its
\* list.  A webhook is taken off the list when its turn ends.
Hook(w) == Head(queue[w])

\* findPendingEncounters without its LIMIT: archived, and no row for this hook.
Pending(h) == {e \in Archived : rows[<<e, h>>] = "none"}

\* ORDER BY event_at, id LIMIT BatchSize.
OldestOf(S) == {e \in S : Cardinality({d \in S : d < e}) < BatchSize}

\* The encounter the loop over the batch is at: the oldest that is left.
Oldest(S) == CHOOSE e \in S : \A d \in S : e <= d
Current(w) == Oldest(batch[w])
CurrentPair(w) == <<Current(w), Hook(w)>>

Publishing == {"bootstrap", "select", "send", "mark", "report", "unlock"}

\* The publisher's database session still exists.  An advisory lock belongs to
\* its session: it is lost exactly when the session is.
HasSession(w) == lock = w

NoResponse == [at |-> 0, recent |-> {}]

\* As a bug: ON CONFLICT (fingerprint) DO UPDATE SET source_ingestion_id.
ArchivePayloadOverwriting(payload, run) ==
  /\ seenAt' = [e \in Encounters |->
                  IF e \in payload.recent /\ seenAt[e] = 0
                  THEN payload.at ELSE seenAt[e]]
  /\ source' = [e \in Encounters |-> IF e \in payload.recent THEN run ELSE source[e]]

\* processBounty: INSERT ... ON CONFLICT (fingerprint) DO NOTHING for every
\* encounter of the payload, observed at the time the response was received.
ArchivePayload(payload, run) ==
  /\ seenAt' = [e \in Encounters |->
                  IF e \in payload.recent /\ seenAt[e] = 0
                  THEN payload.at ELSE seenAt[e]]
  /\ source' = [e \in Encounters |->
                  IF e \in payload.recent /\ seenAt[e] = 0
                  THEN run ELSE source[e]]

\* INSERT INTO discord_encounter_posts ... ON CONFLICT DO NOTHING.
InsertRows(S, reason) ==
  rows' = [p \in Pairs |-> IF p \in S /\ rows[p] = "none" THEN reason ELSE rows[p]]

Fault == faults < MaxFaults /\ faults' = faults + 1

Goto(w, label) == pc' = [pc EXCEPT ![w] = label]

\* The iteration's locals go out of scope.
EndCycle(w) ==
  /\ Goto(w, "waiting")
  /\ cycleStart' = [cycleStart EXCEPT ![w] = 0]
  /\ response' = [response EXCEPT ![w] = NoResponse]

EndBatch(w) ==
  /\ batch' = [batch EXCEPT ![w] = {}]
  /\ known' = [known EXCEPT ![w] = {}]

-----------------------------------------------------------------------------
Init ==
  /\ seenAt = [e \in Encounters |-> 0]
  /\ source = [e \in Encounters |-> None]
  /\ registered = {}
  /\ rows = [p \in Pairs |-> "none"]
  /\ lock = None
  /\ delivered = [p \in Pairs |-> 0]
  /\ config = [w \in Workers |-> <<>>]
  /\ pc = [w \in Workers |-> "down"]
  /\ queue = [w \in Workers |-> <<>>]
  /\ cycleStart = [w \in Workers |-> 0]
  /\ response = [w \in Workers |-> NoResponse]
  /\ batch = [w \in Workers |-> {}]
  /\ alerts = [w \in Workers |-> [h \in Webhooks |-> 0]]
  /\ rpc = [r \in Replays |-> "idle"]
  /\ left = [r \in Replays |-> 0]
  /\ now = 1
  /\ faults = 0
  /\ known = [w \in Workers |-> {}]
  /\ past = [h \in Webhooks |-> {}]
  /\ doubtful = {}
  /\ lastWarn = [w \in Workers |-> [h \in Webhooks |-> 0]]

-----------------------------------------------------------------------------
(* The worker process and its poll. *)

\* A worker process starts: its environment names the webhooks (a deploy may
\* change them).
Start(w) ==
  /\ pc[w] = "down"
  /\ Goto(w, "waiting")
  /\ \E urls \in Configs : config' = [config EXCEPT ![w] = urls]
  /\ UNCHANGED <<db, delivered, queue, cycleStart, response, batch, alerts,
                 replay, now, faults, history>>

\* SIGTERM sets `stopping`; the loop leaves only between cycles.  The process's
\* memory goes with it, backlogAlertTimes included.
Stop(w) ==
  /\ pc[w] = "waiting"
  /\ Goto(w, "down")
  /\ alerts' = [alerts EXCEPT ![w] = [h \in Webhooks |-> 0]]
  /\ lastWarn' = [lastWarn EXCEPT ![w] = [h \in Webhooks |-> 0]]
  /\ UNCHANGED <<db, delivered, config, queue, cycleStart, response, batch,
                 replay, now, faults, known, doubtful, past>>

\* As a bug: the cycle's start is rounded up.
StartCycleRoundedUp(w) ==
  /\ pc[w] = "waiting"
  /\ Goto(w, "polling")
  /\ cycleStart' = [cycleStart EXCEPT ![w] = now + 1]
  /\ UNCHANGED <<db, delivered, config, queue, response, batch, alerts,
                 replay, now, faults, history>>

\* cycleStartedAt = Date.now(); heartbeat("collecting"); runIngestion("POLL").
StartCycle(w) ==
  /\ pc[w] = "waiting"
  /\ Goto(w, "polling")
  /\ cycleStart' = [cycleStart EXCEPT ![w] = now]
  /\ UNCHANGED <<db, delivered, config, queue, response, batch, alerts,
                 replay, now, faults, history>>

\* fetchJson returns the bounty payload: some window of the game's encounters.
Receive(w) ==
  /\ pc[w] = "polling"
  /\ Goto(w, "received")
  /\ \E recent \in SUBSET Encounters :
       response' = [response EXCEPT ![w] = [at |-> now, recent |-> recent]]
  /\ UNCHANGED <<db, delivered, config, queue, cycleStart, batch, alerts,
                 replay, now, faults, history>>

\* The bounty transaction commits; the run's other sources touch nothing here.
Archive(w) ==
  /\ pc[w] = "received"
  /\ Goto(w, "polled")
  /\ ArchivePayload(response[w], "poll")
  /\ response' = [response EXCEPT ![w] = NoResponse]
  /\ UNCHANGED <<registered, rows, lock, delivered, config, queue, cycleStart,
                 batch, alerts, replay, now, faults, history>>

\* The bounty source failed at some point, but another source did not: the run
\* is PARTIAL and the cycle goes on to publish.
BountyFails(w) ==
  /\ pc[w] \in {"polling", "received"}
  /\ Goto(w, "polled")
  /\ response' = [response EXCEPT ![w] = NoResponse]
  /\ UNCHANGED <<db, delivered, config, queue, cycleStart, batch, alerts,
                 replay, now, faults, history>>

\* Something before the publish threw or failed: every source, a
\* heartbeat, run or bountyArchived statement, or the publisher's own connection
\* or lock query.  The cycle publishes nothing.
CycleAborts(w) ==
  /\ pc[w] \in {"polling", "received", "polled"}
  /\ EndCycle(w)
  /\ UNCHANGED <<db, delivered, config, queue, batch, alerts, replay, now,
                 faults, history>>

-----------------------------------------------------------------------------
(* publishPendingDiscordEncounters. *)

\* No webhook configured ("disabled"), or pg_try_advisory_lock found another
\* session's lock ("locked"): nothing is published this cycle.
SkipPublish(w) ==
  /\ pc[w] = "polled"
  /\ config[w] = <<>> \/ lock # None
  /\ EndCycle(w)
  /\ UNCHANGED <<db, delivered, config, queue, batch, alerts, replay, now,
                 faults, history>>

\* pg_try_advisory_lock succeeds and the loop over the webhooks begins.
TryLock(w) ==
  /\ pc[w] = "polled"
  /\ config[w] # <<>>
  /\ lock = None
  /\ lock' = w
  /\ queue' = [queue EXCEPT ![w] = config[w]]
  /\ Goto(w, "bootstrap")
  /\ UNCHANGED <<seenAt, source, registered, rows, delivered, config,
                 cycleStart, response, batch, alerts, replay, now, faults,
                 history>>

\* As a bug: the webhook is registered and its history is not recorded as posted.
BootstrapUnseeded(w) ==
  /\ pc[w] = "bootstrap"
  /\ HasSession(w)
  /\ registered' = registered \cup {Hook(w)}
  /\ past' = IF Hook(w) \in registered THEN past
             ELSE [past EXCEPT ![Hook(w)] = OlderThan(cycleStart[w])]
  /\ Goto(w, "select")
  /\ UNCHANGED <<seenAt, source, rows, lock, delivered, config, queue,
                 cycleStart, response, batch, alerts, replay, now, faults,
                 known, doubtful, lastWarn>>

\* bootstrapWebhook: one transaction registers a webhook seen for the first
\* time and records everything observed before this cycle began as posted.
Bootstrap(w) ==
  /\ pc[w] = "bootstrap"
  /\ HasSession(w)
  /\ \/ /\ Hook(w) \in registered
        /\ UNCHANGED <<registered, rows, past>>
     \/ /\ Hook(w) \notin registered
        /\ registered' = registered \cup {Hook(w)}
        /\ InsertRows(OlderThan(cycleStart[w]) \X {Hook(w)}, "seeded")
        /\ past' = [past EXCEPT ![Hook(w)] = OlderThan(cycleStart[w])]
  /\ Goto(w, "select")
  /\ UNCHANGED <<seenAt, source, lock, delivered, config, queue, cycleStart,
                 response, batch, alerts, replay, now, faults, known,
                 doubtful, lastWarn>>

\* findPendingEncounters.
Select(w) ==
  /\ pc[w] = "select"
  /\ HasSession(w)
  /\ batch' = [batch EXCEPT ![w] = OldestOf(Pending(Hook(w)))]
  /\ known' = [known EXCEPT ![w] = IF batch'[w] = {} THEN {} ELSE Archived]
  /\ Goto(w, IF batch'[w] = {} THEN "report" ELSE "send")
  /\ UNCHANGED <<db, delivered, config, queue, cycleStart, response, alerts,
                 replay, now, faults, doubtful, lastWarn, past>>

\* Discord answers 2xx.  Sending needs no database session: a publisher that
\* has lost its own can still send, and cannot record what it sent.
Accept(w) ==
  /\ pc[w] = "send"
  /\ delivered' = [delivered EXCEPT ![CurrentPair(w)] = @ + 1]
  /\ doubtful' = IF HasSession(w) THEN doubtful ELSE doubtful \cup {CurrentPair(w)}
  /\ Goto(w, "mark")
  /\ UNCHANGED <<db, config, queue, cycleStart, response, batch, alerts,
                 replay, now, faults, known, lastWarn, past>>

\* As a bug: a rejected encounter is passed over for the next of the batch.
RejectContinues(w) ==
  /\ pc[w] = "send"
  /\ \/ /\ batch[w] = {Current(w)}
        /\ EndBatch(w)
        /\ Goto(w, "report")
     \/ /\ batch[w] # {Current(w)}
        /\ batch' = [batch EXCEPT ![w] = @ \ {Current(w)}]
        /\ UNCHANGED <<pc, known>>
  /\ UNCHANGED <<db, delivered, config, queue, cycleStart, response, alerts,
                 replay, now, faults, doubtful, lastWarn, past>>

\* As a bug: a rejection leaves the loop over the webhooks.
RejectEndsPublish(w) ==
  /\ pc[w] = "send"
  /\ EndBatch(w)
  /\ Goto(w, "unlock")
  /\ UNCHANGED <<db, delivered, config, queue, cycleStart, response, alerts,
                 replay, now, faults, doubtful, lastWarn, past>>

\* A non-2xx answer, a timeout or a network error, and nothing was posted: the
\* webhook's turn ends so that its feed stays oldest first.
Reject(w) ==
  /\ pc[w] = "send"
  /\ EndBatch(w)
  /\ Goto(w, "report")
  /\ UNCHANGED <<db, delivered, config, queue, cycleStart, response, alerts,
                 replay, now, faults, doubtful, lastWarn, past>>

\* Discord posted the message, but the answer never arrived (the 10 s timeout,
\* a reset connection): the code sees a failed delivery.
AnswerLost(w) ==
  /\ pc[w] = "send"
  /\ Fault
  /\ delivered' = [delivered EXCEPT ![CurrentPair(w)] = @ + 1]
  /\ doubtful' = doubtful \cup {CurrentPair(w)}
  /\ EndBatch(w)
  /\ Goto(w, "report")
  /\ UNCHANGED <<db, config, queue, cycleStart, response, alerts, replay, now,
                 lastWarn, past>>

\* As a bug: the last encounter of a batch gets no row.
MarkAllButLast(w) ==
  /\ pc[w] = "mark"
  /\ HasSession(w)
  /\ \/ /\ batch[w] = {Current(w)}
        /\ EndBatch(w)
        /\ Goto(w, "report")
        /\ UNCHANGED rows
     \/ /\ batch[w] # {Current(w)}
        /\ InsertRows({CurrentPair(w)}, "sent")
        /\ batch' = [batch EXCEPT ![w] = @ \ {Current(w)}]
        /\ Goto(w, "send")
        /\ UNCHANGED known
  /\ UNCHANGED <<seenAt, source, registered, lock, delivered, config, queue,
                 cycleStart, response, alerts, replay, now, faults, doubtful,
                 lastWarn, past>>

\* markEncounterPosted, and on to the next encounter of the batch.
Mark(w) ==
  /\ pc[w] = "mark"
  /\ HasSession(w)
  /\ InsertRows({CurrentPair(w)}, "sent")
  /\ \/ /\ batch[w] = {Current(w)}
        /\ EndBatch(w)
        /\ Goto(w, "report")
     \/ /\ batch[w] # {Current(w)}
        /\ batch' = [batch EXCEPT ![w] = @ \ {Current(w)}]
        /\ Goto(w, "send")
        /\ UNCHANGED known
  /\ UNCHANGED <<seenAt, source, registered, lock, delivered, config, queue,
                 cycleStart, response, alerts, replay, now, faults, doubtful,
                 lastWarn, past>>

\* reportBacklog's verdict on a webhook: its oldest pending encounter was
\* first observed more than BacklogAge ago.
Stale(h) == \E e \in Pending(h) : now - seenAt[e] > BacklogAge

\* As a bug: strictly more than the interval.
WarningDueLate(w, h) == alerts[w][h] = 0 \/ now - alerts[w][h] > AlertInterval

WarningDue(w, h) == alerts[w][h] = 0 \/ now - alerts[w][h] >= AlertInterval

\* reportBacklog, and on to the next webhook or out of the loop.
Report(w) ==
  LET h == Hook(w) IN
  /\ pc[w] = "report"
  /\ HasSession(w)
  /\ alerts' = [alerts EXCEPT ![w][h] = IF ~Stale(h) THEN 0
                                        ELSE IF WarningDue(w, h) THEN now ELSE @]
  /\ lastWarn' = [lastWarn EXCEPT ![w][h] =
                    IF Stale(h) /\ WarningDue(w, h) THEN now ELSE @]
  /\ queue' = [queue EXCEPT ![w] = Tail(@)]
  /\ Goto(w, IF Len(queue[w]) = 1 THEN "unlock" ELSE "bootstrap")
  /\ UNCHANGED <<db, delivered, config, cycleStart, response, batch, replay,
                 now, faults, known, doubtful, past>>

\* A statement of the publisher fails, because its session is gone or by a
\* fault of its own: "publisher_error" ends the whole publish.
PublisherError(w) ==
  /\ pc[w] \in {"bootstrap", "select", "mark", "report"}
  /\ \/ ~HasSession(w) /\ UNCHANGED faults
     \/ HasSession(w) /\ Fault
  /\ doubtful' = IF pc[w] = "mark" THEN doubtful \cup {CurrentPair(w)} ELSE doubtful
  /\ EndBatch(w)
  /\ Goto(w, "unlock")
  /\ UNCHANGED <<db, delivered, config, queue, cycleStart, response, alerts,
                 replay, now, lastWarn, past>>

\* The finally block: unlock if the lock was taken, whatever comes of it, and
\* release the client.
Unlock(w) ==
  /\ pc[w] = "unlock"
  /\ lock' = IF HasSession(w) THEN None ELSE lock
  /\ queue' = [queue EXCEPT ![w] = <<>>]
  /\ EndCycle(w)
  /\ UNCHANGED <<seenAt, source, registered, rows, delivered, config, batch,
                 alerts, replay, now, faults, history>>

-----------------------------------------------------------------------------
(* What the environment does to a worker. *)

\* PostgreSQL ends the publisher's session (restart, failover, cut connection).
\* The process only learns of it from its next statement.
SessionLost(w) ==
  /\ pc[w] \in Publishing
  /\ HasSession(w)
  /\ Fault
  /\ lock' = None
  /\ doubtful' = IF pc[w] = "mark" THEN doubtful \cup {CurrentPair(w)} ELSE doubtful
  /\ UNCHANGED <<seenAt, source, registered, rows, delivered, worker, replay,
                 now, known, lastWarn, past>>

\* The process dies (SIGKILL after the grace period, OOM, host restart) and
\* PostgreSQL ends its session.
Crash(w) ==
  /\ pc[w] # "down"
  /\ Fault
  /\ Goto(w, "down")
  /\ lock' = IF HasSession(w) THEN None ELSE lock
  /\ doubtful' = IF pc[w] = "mark" THEN doubtful \cup {CurrentPair(w)} ELSE doubtful
  /\ queue' = [queue EXCEPT ![w] = <<>>]
  /\ cycleStart' = [cycleStart EXCEPT ![w] = 0]
  /\ response' = [response EXCEPT ![w] = NoResponse]
  /\ EndBatch(w)
  /\ alerts' = [alerts EXCEPT ![w] = [h \in Webhooks |-> 0]]
  /\ lastWarn' = [lastWarn EXCEPT ![w] = [h \in Webhooks |-> 0]]
  /\ UNCHANGED <<seenAt, source, registered, rows, delivered, config, replay,
                 now, past>>

-----------------------------------------------------------------------------
(* scripts/replay-captures.ts, run beside the live worker. *)

\* The standby lists the captures and the BACKFILL run is created.
ReplayStart(r) ==
  /\ rpc[r] = "idle"
  /\ \E n \in 1..MaxCaptures : left' = [left EXCEPT ![r] = n]
  /\ rpc' = [rpc EXCEPT ![r] = "running"]
  /\ UNCHANGED <<db, delivered, worker, now, faults, history>>

\* ingestCapture commits: observed when it was captured, not now.
ReplayIngest(r) ==
  /\ rpc[r] = "running" /\ left[r] > 0
  /\ \E recent \in SUBSET Encounters, at \in 1..now :
       ArchivePayload([at |-> at, recent |-> recent], r)
  /\ left' = [left EXCEPT ![r] = @ - 1]
  /\ UNCHANGED <<registered, rows, lock, delivered, worker, rpc, now, faults,
                 history>>

\* A capture that cannot be fetched or processed is counted and passed over.
ReplaySkips(r) ==
  /\ rpc[r] = "running" /\ left[r] > 0
  /\ left' = [left EXCEPT ![r] = @ - 1]
  /\ UNCHANGED <<db, delivered, worker, rpc, now, faults, history>>

\* Without --announce: one statement mutes what this run archived, for every
\* webhook registered by now.
Mute(r) ==
  /\ rpc[r] = "running" /\ left[r] = 0
  /\ rpc' = [rpc EXCEPT ![r] = "done"]
  /\ InsertRows({e \in Encounters : source[e] = r} \X registered, "muted")
  /\ UNCHANGED <<seenAt, source, registered, lock, delivered, worker, left, now,
                 faults, history>>

\* The script dies before its mute.
ReplayCrash(r) ==
  /\ rpc[r] = "running"
  /\ Fault
  /\ rpc' = [rpc EXCEPT ![r] = "dead"]
  /\ UNCHANGED <<db, delivered, worker, left, now, history>>

\* --announce: the run ends and its encounters stay pending.
Announce(r) ==
  /\ rpc[r] = "running" /\ left[r] = 0
  /\ rpc' = [rpc EXCEPT ![r] = "announced"]
  /\ UNCHANGED <<db, delivered, worker, left, now, faults, history>>

Tick ==
  /\ now < MaxTime
  /\ now' = now + 1
  /\ UNCHANGED <<db, delivered, worker, replay, faults, history>>

-----------------------------------------------------------------------------
Worker(w) ==
  \/ Start(w) \/ Stop(w) \/ StartCycle(w) \/ Receive(w) \/ Archive(w)
  \/ BountyFails(w) \/ CycleAborts(w)
  \/ SkipPublish(w) \/ TryLock(w) \/ Bootstrap(w) \/ Select(w)
  \/ Accept(w) \/ Reject(w) \/ AnswerLost(w) \/ Mark(w) \/ Report(w)
  \/ PublisherError(w) \/ Unlock(w) \/ SessionLost(w) \/ Crash(w)

Replay(r) ==
  \/ ReplayStart(r) \/ ReplayIngest(r) \/ ReplaySkips(r)
  \/ Mute(r) \/ Announce(r) \/ ReplayCrash(r)

Next ==
  \/ \E w \in Workers : Worker(w)
  \/ \E r \in Replays : Replay(r)
  \/ Tick

Spec == Init /\ [][Next]_vars

(***************************************************************************)
(* Fairness.  A process that is down is restarted (restart:                *)
(* unless-stopped), and a step its code has reached is taken.  The steps   *)
(* a fault or an abort may pre-empt in one cycle are strongly fair: a      *)
(* later cycle gets through.  Discord owes nothing except that a healthy   *)
(* webhook does not refuse for ever.                                       *)
(***************************************************************************)
Fairness ==
  \A w \in Workers :
    /\ WF_vars(Start(w)) /\ WF_vars(Receive(w))
    /\ SF_vars(StartCycle(w))
    /\ SF_vars(Archive(w) \/ BountyFails(w))
    /\ SF_vars(TryLock(w))
    /\ WF_vars(Bootstrap(w) \/ Select(w) \/ Mark(w) \/ Report(w))
    /\ WF_vars(Accept(w) \/ Reject(w))
    /\ WF_vars(PublisherError(w) /\ ~HasSession(w))
    /\ WF_vars(Unlock(w))
    /\ \A h \in Healthy : SF_vars(Accept(w) /\ Hook(w) = h)

FairSpec == Spec /\ Fairness

-----------------------------------------------------------------------------
(* Properties. *)

TypeOK ==
  /\ seenAt \in [Encounters -> 0..MaxTime]
  /\ source \in [Encounters -> Replays \cup {"poll", None}]
  /\ registered \in SUBSET Webhooks
  /\ rows \in [Pairs -> {"none", "seeded", "muted", "sent"}]
  /\ lock \in Workers \cup {None}
  /\ delivered \in [Pairs -> Nat]
  /\ config \in [Workers -> Seq(Webhooks)]
  /\ pc \in [Workers -> {"down", "waiting", "polling", "received", "polled"}
                         \cup Publishing]
  /\ queue \in [Workers -> Seq(Webhooks)]
  /\ cycleStart \in [Workers -> 0..MaxTime]
  /\ response \in [Workers -> [at : 0..MaxTime, recent : SUBSET Encounters]]
  /\ batch \in [Workers -> SUBSET Encounters]
  /\ alerts \in [Workers -> [Webhooks -> 0..MaxTime]]
  /\ rpc \in [Replays -> {"idle", "running", "done", "announced", "dead"}]
  /\ left \in [Replays -> 0..MaxCaptures]
  /\ now \in 1..MaxTime
  /\ faults \in 0..MaxFaults
  /\ known \in [Workers -> SUBSET Encounters]
  /\ past \in [Webhooks -> SUBSET Encounters]
  /\ doubtful \in SUBSET Pairs
  /\ lastWarn \in [Workers -> [Webhooks -> 0..MaxTime]]

\* A webhook is shown an encounter twice only if some publisher sent that very
\* encounter there and could not record it: it crashed, its session or its
\* statement failed, or the answer was lost.  Overlapping workers, replays and
\* retries of rejected messages never repeat a message.
DuplicateOnlyInDoubt ==
  \A p \in Pairs : delivered[p] > 1 => p \in doubtful

\* Each webhook's feed is oldest first: when a publisher sends an encounter,
\* every older one that was archived when the batch was selected already has
\* its row, whoever wrote it.
FeedOldestFirst ==
  \A w \in Workers : pc[w] = "send" =>
    \A e \in known[w] : e < Current(w) => rows[<<e, Hook(w)>>] # "none"

\* What was already archived before the cycle that took up a webhook is never
\* announced there, by any worker, replay or retry.
HistoryNeverAnnounced ==
  \A h \in Webhooks : \A e \in past[h] : delivered[<<e, h>>] = 0

\* The feed implements the ledger: a row means that Discord accepted the
\* message, or that it was history, or that a replay that archived it muted it.
Stage(p) ==
  IF rows[p] # "none" THEN "settled"
  ELSE IF delivered[p] > 0 THEN "announced" ELSE "open"

Ledger == INSTANCE FeedLedger WITH
  archived <- Archived,
  live <- {e \in Encounters : source[e] = "poll"},
  joined <- registered,
  ledger <- [p \in Pairs |-> Stage(p)]

ImplementsLedger == Ledger!Spec

\* A webhook that Discord serves, in every worker's list, is eventually sent
\* each encounter pending for it (or the encounter is muted), even when the
\* other webhooks never accept anything.
HealthyWebhookDelivers ==
  \A e \in Encounters, h \in Healthy :
    (e \in Archived /\ h \in registered) ~> rows[<<e, h>>] # "none"

\* A publish that leaves a webhook's backlog stale has warned about it within
\* the last AlertInterval: the map never suppresses a warning that is due.
BacklogIsReported ==
  [][\A w \in Workers : Report(w) /\ Stale(Hook(w)) =>
        now - lastWarn'[w][Hook(w)] < AlertInterval]_vars
=============================================================================
