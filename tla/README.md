# Verification of the SWG bounty archive

TLA+ models of the archive's collector and of what feeds on it, the TLC runs
that check them on small instances, and theorems that TLAPS checks for every
value of the constants. Paths below are relative to the repository root.
`PROJECT.json` maps every definition to the lines it stands for.

## 1. The system

The game SWG Legends publishes a rolling window of twelve bounty encounters, a
few leaderboards and officer registries, behind a 300 s cache. What nobody
fetches in time is gone. The archive polls it, keeps everything it saw, and
feeds Discord, a web site, an overlay and a desktop parser.

```
game API --poll--> worker --rows--> PostgreSQL <--reads-- Next.js site, API, overlay, slash commands
   ^                 |  \--new encounters--> Discord webhooks
   |                 \--heartbeat--> Cloudflare standby (cron) --captures--> R2 bucket
   \--fetch while the heartbeats are silent--/                                  |
                     PostgreSQL <--replay-captures (operator)-------------------/
```

| component | state it keeps | operations | hard part | what makes it correct |
|---|---|---|---|---|
| Worker poll cycle (`scripts/worker.ts`) | none but its heartbeat row; one process per deploy, two while a restart overlaps | heartbeat, ingest, publish, weekly post, disk check, wait | crash between any two steps, overlap of processes | a failing output never loses or repeats archive work |
| Encounter feed (`src/lib/discord/encounter-feed.ts`) | `discord_encounter_posts`, `discord_feed_webhooks`, an advisory lock, the alert times in memory | take up a webhook, select, send, record, report a backlog | two systems (database, Discord) with no common transaction; lock lost with its session | at least once, twice only in doubt, oldest first, history silent, backlog reported |
| Replay of captures (`scripts/replay-captures.ts`) | `bounty_encounters`, one BACKFILL run | list, ingest each, mute | runs beside the live worker | idempotent; does not mute what the live worker found |
| Ingestion pipeline (`src/lib/ingestion/pipeline.ts`) | runs, ingestions, errors, quality events, encounters, snapshots, participants, revisions | fetch with retries, archive, process in a transaction, audit, finalize | concurrent sources, failing transactions and failing audits, out-of-order states | nothing lost silently: what failed is audited, what changed is revised |
| Fetcher (`fetcher.ts`) | none | GET with timeout, retries and back-off | retry against timeout | bounded attempts, last answer returned |
| Schema drift (`hash.ts`, `unknown-fields.ts`, `integrity.ts`) | `schema_signatures`, `data_quality_events` | signature, diff against the known shapes, unknown fields, integrity assessment | narrowed samples, re-appearing variants, three statements without a transaction | nothing new unnoticed, no false alarm |
| Cloudflare standby (`cloudflare/bounty-capture`) | R2: heartbeat, latest, alert state, captures | heartbeat, cron decision, capture, alerts, list | separate puts, overlapping invocations, a source that refuses or hangs | takes over in time, tells what to replay |
| Weekly post (`src/lib/discord/weekly-post.ts`) | `discord_report_posts` | decide, send, record | crash between send and row | one post per cycle, of its final figures |
| Backfill (`scripts/backfill.ts`) | checkpoints | run periods, mark checkpoint | a partial run marked done | a checkpoint means the period is complete |
| Migrations (`scripts/migrate.ts`) | `schema_versions`, an advisory lock | apply each file in a transaction, verify checksums | concurrent deploys, a crash between files | each file once, in order |
| Deploy (`scripts/deploy.sh`) | containers, the image tag | check, build, migrate, switch | checks that are stale when used | never an older release over a newer |
| Parser sync (`src/app/api/sync`) | `sync_items` | push a batch (the later time wins), pull since a watermark | crosswise locks, late pushes, ties, the 2000-row limit | a batch is merged whole; a pull returns what changed |
| Sessions and OAuth (`src/lib/auth`, `src/app/api/auth`) | `sessions`, the session cookie, the OAuth state cookie of a browser | start, call back, use (slide), sign out | expiry against use, several clients and one browser | who is active stays signed in |
| Rate limit (`src/lib/rate-limit.ts`) | a map of windows | count a request | a window's edge, map growth | at most the limit per window |
| Overlay render cache (`src/lib/overlay/render.ts`) | two Maps of the Node process: images with an expiry, renders in flight | answer, render once, sweep | concurrent requests, failing renders, the 50-entry limit | one browser per key at a time, one launch per TTL |
| Backup scheduler (`backups/*.sh`) | dumps, a daily marker | wait, back up, prune, drill | skipped or repeated days | a day's backup exists once |
| Production sync (`scripts/prod-sync`) | staging tables | extract, merge, verify | merge against a live target | nothing lost |
| Queries and views (`data.ts`, `analytics/metrics.ts`, `overlay/model.ts`, `discord/commands.ts`, `discord/embeds.ts`) | none | rivalries, records, weekly report, guilds, overlay, `/hunter` | one figure is computed in several places, in SQL and in TypeScript, over other rows | the places agree |
| Pages, components, API documentation | none | render | none of their own | not modelled |
| Observability (`src/lib/observability`) | buffers, a free-space alert time | log, flush, check the disk | buffer limit | bounded, never blocks the worker |

The hazards, each at its line, are listed in `PROJECT.json`; where several lines
are exposed to one hazard, the line where it bites hardest stands for them.

## 2. Modules

| module | what it is |
|---|---|
| `EncounterFeed` | worker cycle, encounter feed, replay script, over one PostgreSQL and Discord |
| `FeedLedger` | what the feed promises, abstractly; `EncounterFeed` implements it |
| `EncounterFeed_proofs` | its types, the feed's four safety theorems and the refinement theorem |
| `CaptureStandby` | the Cloudflare standby, the primary's heartbeats, the replay range |
| `CaptureStandby_proofs` | how long the feed goes unwatched, and what the recovery message says |
| `LeaderboardHistory` | leaderboards and registries to snapshots, participants and revisions |
| `LeaderboardHistory_proofs` | which revisions there are, their direction, and the week a reader of a list is shown |
| `IngestionRun` | the life of an ingestion run, its audit, and the backfill that starts runs |
| `IngestionRun_proofs` | its types, and that status, counters, audit, error rows and checkpoints agree |
| `SchemaDrift` | the record of the answers' shapes, and the events and warnings it raises |
| `SchemaDrift_proofs` | nothing new is missed, every event is borne out, unknown fields are on file |
| `ArchiveQueries` | the queries and the arithmetic over them, as functions of the archive |
| `ArchiveQueries_proofs` | where their counts must agree, for every archive |
| `LwwStore` | what the parser's sync promises: whole batches merged, the later time wins |
| `StoreSync` | the PUT handler, statement by statement under PostgreSQL's row locks; it implements `LwwStore` |
| `StoreSync_proofs` | that it does, and that an answer is kept |
| `StorePull` | `StoreSync` with the GET handler's pulls |
| `WeeklyPost` | the worker's weekly post |
| `OverlayImages` | the overlay's cache of PNGs |
| `Accounts` | sign-in, sessions and sign-out |
| `Services` | `WeeklyPost`, `OverlayImages`, `Accounts` and `SchemaDrift` side by side |
| `Services_proofs` | theorems about the first three of them |
| `MCEncounterFeed`, `MCCaptureStandby`, `MCLeaderboardHistory`, `MCIngestionRun`, `MCArchiveQueries`, `MCStoreSync`, `MCStorePull`, `MCServices` | instances for TLC |

Each models one database or bucket with all the processes that share it. They
meet where one hands rows to the next: `IngestionRun` leaves open what a
transaction stores, `LeaderboardHistory` is the inside of a leaderboard's or
registry's transaction, `EncounterFeed` that of the encounters', `SchemaDrift`
is what a lane does between archiving an answer and processing it,
`CaptureStandby` yields the captures that `EncounterFeed`'s replay ingests, and
`ArchiveQueries` reads what all of them stored.

### EncounterFeed

One action per database statement, webhook answer or process event, because
those are the points at which another process, Discord or a crash can come in
between. PostgreSQL's tables are functions over encounters (numbered in the
order `(event_at, id)` the feed sorts by) and (encounter, webhook) pairs. A
worker is a program counter and the locals of its publish loop: the webhooks
left (`queue`), the batch left (`batch`), the cycle's start, the response being
archived, the alert times. The advisory lock belongs to a database session, so
`lock = w` stands both for "w holds the lock" and "w's session is alive".
`SessionLost` frees the lock while its publisher runs on; it can still send to
Discord (no session needed) but each of its statements fails
(`PublisherError`). Discord accepts, rejects, or accepts and loses the answer.
A game response is any set of encounters: the game's window is not used, so an
encounter may reappear late or never.

The replay script is its own process: list, ingest (each capture commits on its
own, dated at the capture), and one closing statement that mutes.

History variables: `doubtful` collects the pairs that were sent by a publisher
that could not record it, `known` is what was archived when the batch was
selected, `past` is what was old when a webhook was taken up, `lastWarn` is
when a process last warned. No guard reads them.

Left out: the text of messages, the log, the length of the poll's other
sources. One statement of the publisher failing on a live session is
`PublisherError`'s second disjunct; the unlock statement failing alone on a
session that lives on is not modelled (the code's catch ignores it and the pool
then keeps a session that holds the lock).

### CaptureStandby

The clock counts cron minutes. Each invocation reads the bucket (`CronFires`,
`ReadLatest`), goes to the source, and makes one put per action, so that a
manual capture, a heartbeat or its own death can come between. `served` counts
the game's encounters, and a payload is the count at the fetch: the encounters
it shows are the last `Window` of them. `Fetch` may find the bytes equal to the
stored ones only when the count is; the same encounters may also be rendered
anew (`fetchedAt` differs), hence the choice. The failure notices' hourly limit
is part of `NextAlert`. Budgets bound refusals, dead invocations and manual
captures. History variables: `lastTry`, `witnessed`, `since`.

### LeaderboardHistory

The game serves the running week of a board as CURRENT and the weeks before it
as PREVIOUS_n, in a list for each subject (players, guilds, cities), so a label
moves on while the row of a week stays. A week's row in `leaderboard_periods` has
no subject: the lists of all subjects share it (`PeriodOf`), whichever answer
commits relabels it for all, and a reader picks the newest snapshot of his list
among the weeks that bear the label (`Labelled`, `Shown`). A worker's run asks for
every board, label and subject, and may end with some of them unanswered
(`RunStarts`); its lanes process the answers side by side, one transaction each. An action is one statement that can meet another transaction
under READ COMMITTED: it sees what is committed when it runs. What a transaction
has written is in its own record (`tx`) until `Commit` makes it visible. Locks
are not a variable: `WaitsFor` derives from two transactions' progress whether
one holds what the other wants (the period's row, the unique key of a snapshot,
a participant), and `DeadlockAborts` is PostgreSQL's detector.

A state hash is what it covers: two states have the same hash exactly when label
and rows agree. A participant's fields are one field whose value is a version
number; a source in `Silent` leaves it null, and the upsert then replaces by null
what another source had stored. Participants are
typed by subject, so lists of two subjects have none in common. The
catalog's and the wins' upserts of participants work like the boards' and are
not modelled apart; neither is the seeding of profiles. `seen` is history: the
newest answer committed for each key.

### IngestionRun

What became of an item is told in three places that no transaction joins: the
run's counters in the process's memory, the item's `api_ingestions` row, and a
row of `ingestion_errors`. The actions are the statements and answers between
which a statement may fail or the process die; local work between two of them
is merged with the one after it. A request's attempts are counted (`Retry`), its
last failure is `NoAnswer`. What an answer holds is left open but for four
outcomes: it stores (`Process`), it stores with an issue of its schema or its
integrity (`ProcessPartial`), it is refused and rolled back (`Reject`), its board
is not in the catalog (`UnknownBoard`). The tracked boards are in the database
all together or not at all. `CommitLost` and `FinalizeFails` are statements that
fail with or without effect. A backfill runs one period after the other, with a
checkpoint row each; any number may run beside the pollers.

History: `flagged`, the pairs stored with an issue, and `lost`, what took effect
though its process saw an error. `lost` marks what no process can know.

### SchemaDrift

A shape is the set of paths of an answer with the types that occur there, and
stands for its own hash. An answer is an object with fields and one array of
entries: deeper nesting repeats what one array already shows, that an empty one
hides the paths below it. The actions are the four statements of
`recordSchemaAndUnknownFields`, which no transaction joins: the event about
unknown fields, the read of the known shapes, the insert of the new one, the
event about the change. `FailsBefore` and `FailsAfter` are a failing statement or
a dying process, without and with its effect. Events are their keys, since the
unique index on open events is what the code relies on; nobody resolves them
here. The key holds what the code hashes (`pipeline.ts:363`): the paths added and
removed, and each path of a new type with its types before and now, so that one
new type met in two paths of the API that knew different ones is two events and
two warnings. History: `baselines`, the shapes that found nothing to compare with, and
`cut`, those whose recorder got no further than the insert.

### ArchiveQueries

No process changes what another reads in the middle of a query, so the state is
an archive that grows by one encounter of any kind at a time, and everything
else is operators: one per query (`RivalryRow`, `OpponentRow`, `HunterStats`,
`ReportSummary`, `ReportHunters`, `GuildSummary`, `GuildRoster`, ...) and one per
computation in TypeScript (`RivalryMetrics` folds as `deriveRivalryMetrics`
does, `KdCard`, `LiteCard`, `SiteCard`, `OverlayCycle`, ...). The properties compare them; what
compares counts has a name of its own (`RivalrySidesAgree`, ...). An encounter's
credits are one number, a name is its lower-case form, a tick is a day. `Meetings`
bounds who hunts whom.

### LwwStore, StoreSync, StorePull

A device pushes a batch with one time per item. `Upsert` is one `INSERT ... ON
CONFLICT DO UPDATE ... WHERE sync_items.updated_at < EXCLUDED.updated_at`: it
waits while another transaction holds the row, then compares with what that one
committed. Locks are `done`, the rows a transaction has upserted; the transaction's writes (`applies`)
become visible at `Commit`. `PushFails` is a failing statement or connection,
`EndDeadlock` PostgreSQL's detector, `Answer` the response or its loss. The refinement maps a
commit to `LwwStore`'s merge of the whole batch, everything else to a stutter.
Devices are outside the repository and may push any batch in any order with any
times; only a batch that names one item twice is left out. `StorePull` adds a
reader with a page limit and the server's clock, and edits that are pushed at
their time or later.

### WeeklyPost, OverlayImages, Accounts, Services

`WeeklyPost`: overlapping workers decide from `discord_report_posts` and the
leaderboard periods, render a card from the rows archived by then, send it, store
the row; a statement, a render or an answer may fail and a process die at each.
`OverlayImages`: the Maps' insertion order is kept because the
sweep drops the first key (`Kept` is what it leaves of the rest, by places: a filter
about which proofs can be made); an action is what JavaScript runs between two awaits.
`Accounts`: one user, a website per browser and apps whose sign-in passes through
a browser; tokens are not guessed. These and `SchemaDrift` share neither variable
nor lock, so `Services` puts them side by side in one instance: `part` is chosen
at the start and says which of the four is followed, since a behaviour of one is
the same whatever the others do.

## 3. Runs

`expect: pass`:

| run | question | instance |
|---|---|---|
| `feed` | do overlapping workers, a webhook that comes and goes, a replay and a fault keep the feed's guarantees and implement the ledger? | 2 workers, 1 webhook on or off, 2 encounters, batch 2, 1 replay, 1 capture, 1 fault, 2 ticks |
| `feed_fair` | does a healthy webhook get everything behind one that may refuse for ever, and is every stale backlog reported? | 1 worker, 2 webhooks, 2 encounters, batch 1, backlog age 1, 1 fault, 4 ticks, fairness |
| `standby` | is the feed never unwatched for longer than documented, and does the recovery message cover what the standby saw, with a manual capture and a dying invocation? | 6 minutes, stale after 2, gap 2, window 1, 1 encounter, 1 refusal, 1 death, 1 manual capture |
| `history_worker` | are revisions real, complete and in the right direction? | 1 worker, 2 lanes, 1 board of 1 list, 2 people, 3 labels, 1 rollover, 3 answers, 1 change, 1 fault |
| `history_shared` | is a list's reader shown his week though other lists relabel it, and does every transaction end when lists name the same people in opposite orders? | 1 worker, 2 lanes, 1 board of 2 lists and 1 registry, 2 players and 1 guild, 2 labels, 1 rollover, 3 answers, 1 fault, fairness |
| `ingestion` | do status, counters, ingestion rows, error rows and checkpoints agree with what is stored? | 1 worker with 3 items beside 1 backfill with 2 periods of 2 items, 2 lanes, 1 retry, 2 runs, 1 unusable answer, 1 fault |
| `queries` | do all places that compute a figure agree, over every archive of that size? | 3 encounters, 4 names (two members of one guild, one of another that has a replaced row of one of the two, a name without a row), 6 of their 12 meetings, cycles of 2 days, 3 days, pages of 2 |
| `sync` | do pushes merge whole batches, the later time winning, and does every push end? | 2 devices, 2 items in every order, times 0 to 2, failures and deadlocks, fairness |
| `services` | is a week repeated only in doubt and its card settled; is a panel rendered by one browser and once per TTL; does who is active stay signed in; is what is new in an answer on file, and does no event say what the shapes do not bear out? | 2 publishers, weeks of 3 h with 1 h to settle, 2 rows, 1 fault; 3 panels, 2 places, 1 failure; 1 site and 2 apps in one browser, 3 sign-ins, lifetime 2 days of 4; 2 recorders, 2 paths, 8 answers to choose from, 3 answers, 1 fault |

`expect: violation`, each a disagreement between the code and its own words:

| run | what TLC shows |
|---|---|
| `standby_silence` | a source that times out makes the standby silent: no takeover and no failure notice |
| `backfill_partial` | a period whose requests failed in part gets the checkpoint SUCCEEDED, and is never asked for again |
| `sync_watermark` | an edit dated before another device's last pull and pushed after it is never pulled by that device |

Why the bounds are enough. Two workers suffice for every pairwise race over the
lock, and two encounters for order and for a batch that is cut half-way; batch
sizes 1 and 2 give the batch that is full and the one that is not. One fault per
behaviour is enough to open each of the code's windows; two webhooks give a list
with a first and a last. In the standby run the takeover limits keep the code's
order (gap at most stale, 290 s and 360 s), the window of 1 makes an encounter scroll
away as early as possible, and the clock runs for more than two takeovers. Two
lanes and two people are the least that can wait for one another; three labels
and a rollover make a fixed week's label move on while it can still be asked for
under both. In `history_shared` two lists are the least that can relabel a week for
one another, and a rollover between two of three answers makes the labels of one
list's answers those of another's. In `ingestion` two runs let
a poll and a backfill, or the two periods of a backfill, follow or overlap, and
items 2 and 3 share a source, so that one resolves the other's errors. In
`queries` three encounters are the least in which a revenge is followed by one
that is none. Of four names two make a guild whose totals add up, a third gives it a rival
and, as a bystander, a pair its third party; the fourth has no row, so that `/hunter`
shows it its other card; its name is part of another's, which may hide it. A page of
two cuts a list of three. In `sync` two items in two orders make two devices wait for each
other, and two times make earlier, later and tied versions. In `services` a week
may end, settle, be posted twice and grow too old; three panels overfill two
places; two apps and a site share one browser's state cookie; the payloads hold
an empty board, a narrowed one, the widened one, one with a new type, one with a
field less, and some with unknown fields.

Deadlock is checked in the feed, standby and history runs. In `ingestion` and
`backfill_partial` `MaxRuns` stops every process that would begin another run,
and the script itself ends; in `queries` the archive is full and the clock at its
end; in `sync`, `sync_watermark` and `services` the bounds on time, sign-ins,
answers and faults end the behaviour. What could hang there is asked for by name:
`PushesEnd`, and `RendersAreShared` (nobody waits for a render that has ended).

Symmetry: workers in `feed`, lanes in `ingestion` and `backfill_partial`, lanes and
participants in `history_worker`; they are sets whose members no definition tells
apart (the lists of `Orders` are closed under exchanging the two people), and none
of these runs checks liveness.

The runs ask for a type invariant where a proof rests on it or nothing else looks
at the variables' shapes (`feed`, `ingestion`, `sync`, `services`); elsewhere the
properties themselves read every variable.

Fairness. `EncounterFeed!FairSpec`: the container restarts a dead process
(`restart: unless-stopped`), and a process takes the step its code has reached.
Steps that a fault or an aborted cycle can pre-empt are strongly fair, because a
later cycle tries them again. Discord owes nothing but one thing: a webhook in
`Healthy` does not refuse for ever. `LeaderboardHistory!FairSpec`: a lane runs the
statement it has reached, strongly fair because PostgreSQL queues the waiters of
a row, so that a statement that is blocked again and again is served; and the
deadlock detector runs. `StoreSync!FairSpec` is the same for a PUT: its upserts
strongly fair, its commit, the detector and the answer weakly. That a device
pushes at all is not assumed.

Each property of a passing run has a mutant in `PROJECT.json`: a plausible bug
in one mapped definition that makes TLC find the property violated.

## 4. Theorems

About `EncounterFeed!Spec`, for any number of workers, webhooks, encounters,
replays, captures, ticks and faults, under `FeedAssumption` (the constants'
types only):

* `TypeCorrect`: `[](TypeOK /\ LoopInv)`. `LoopInv` ties the program counter to
  the publisher's locals (a webhook is left while publishing, a batch is left
  while sending). It is what makes `Hook` and `Current` defined, and every
  other proof uses it.
* `DuplicatesAreDoubtful`: a repeated message was in doubt. `DuplicateOnlyInDoubt`
  alone is not inductive; `DoubtInv` adds that what was delivered and is not in
  doubt has its row or is being recorded right now, that a publisher in its loop
  with a session is the only one, and that its batch has no rows yet, or is in
  doubt.
* `FeedIsOldestFirst`: the batch is the oldest part of what was pending at its
  selection, rows are never removed, and only settled encounters leave a batch.
* `HistoryIsSilent`: what was past when a webhook joined has its seed row in the
  same transaction, and no batch holds an encounter whose row existed at its
  selection.
* `BacklogAlwaysReported`: the alert time in memory is the time of the last
  warning, so a suppressed warning is one that was given within the interval.
* `FeedImplementsLedger`: every step is a step of `FeedLedger` or stutters. The
  argument needs `DoubtInv`-like facts about the publisher at its `mark` (what it
  records was delivered) and that a source, once set, stays (the mute withdraws
  only what no live poll archived).

About `IngestionRun!Spec`, for any number of workers, backfills, lanes, items,
periods, retries, runs and faults, under `RunAssumption`:

* `RunTypeCorrect`: `[](TypeOK /\ LoopInv)`; here `LoopInv` says that a process
  that collects has a run, and that a lane at work has an item its process has
  taken.
* `RowsAreAsRecorded`: `[]ProcessedMeansStored`. `OwnInv` strengthens it: a run
  belongs to one process and an item of it to one lane (`OwnRun`, `OwnItem`),
  what no lane has taken or processed is fresh (`Untaken`, `Unprocessed`), and
  what the audit is about to call FAILED is not stored as far as its process
  knows (`Unstored`). So two lanes never hold the same pair, and a lane's
  statement cannot undo what another recorded. The proof goes through two
  summaries: `LaneShape` and `LaneEffect` say what any step of a lane does to
  program counters and to rows, `StepShape` the same for a process.
* `RunReportsAreHonest`, `CountersAreExact`, `FailuresAreAudited`,
  `NothingIsLeftReceived`: the status, the counters, the error rows and the
  ingestion rows of a finished run. Each speaks of finished runs only, so none is
  inductive; `BookInv` says what is true before. `Books`: a process that has a run
  has counted what the database shows of the items its lanes are done with
  (`Done`), with at most one silent failure for each faulty statement. `InHand`
  and `Blank` say that an item in a lane's hands, or in nobody's yet, is not stored
  nor audited, so that a step of a lane moves one item from one side of the count
  to the other (`GoesOn`, `EndsStored` and the other ways an item can go). At
  `Finalize` nobody holds an item, and the books become the report (`Reports`).
  The same counting covers a run that ends in its catch.
* `CheckpointsAreBacked`: `[]CheckpointNamesItsRun`. `Noted` says that a run that a
  checkpoint names, or is about to, is in no process's hands any more (`Settled`);
  its report then says that something was stored.

About `CaptureStandby!Spec`, for any number of cron and manual invocations,
encounters, refusals, deaths and minutes, under `StandbyAssumption`:

* `FeedWatched`: `[]FeedNeverUnwatched`. `TimesInv` orders the times that the bucket
  holds, the heartbeat's and the last fetch's; `WatchInv` bounds the silence while
  invocations are still at work: a minute for each of the cron's that is on its way
  to the feed (`OnTheWay`), one more while this minute's is due. An invocation that
  leaves `OnTheWay` has gone to the feed, has found that somebody had, or has died.
* `RecoveryCounts` and `RecoveryCovers`: `[]CountsItsCaptures` and
  `[]ReplayCoversOutage`, under the further hypothesis `OneAtATime`: one invocation
  of the cron at a time, as `standby` has it. The cron fires every minute and the
  fetch gives up after ten seconds (`index.ts:37`), so this is the usual case, but
  nothing in the code enforces it, and it is needed (section 5). `AloneInv` says
  that the alert state an invocation read is still the bucket's; `CountInv` that
  it lags behind the captures by the one that is stored and not counted yet;
  `NamedInv`, `SeenInv` and `KnownInv` that every capture is named for replay or
  about to be, that what the cron saw is archived, captured or about to be, and
  that a payload that counts as stored was.

About `LeaderboardHistory!Spec`, for any number of workers, lanes, boards,
registries, labels, participants, lists, changes and faults, under
`HistoryAssumption` (a list names nobody twice):

* `RevisionsHaveSnapshots` and `CorrectionsAreRevised`: `[]RevisionsAreReal` and the
  action property `FixedChangesAreRevised`. `HistoryInv` says that one transaction
  at a time is past the lock on a week's row (`LockInv`), that answers are told
  apart by when they were observed (`AtInv`), and, by both, that the snapshot a
  transaction has read as the newest before its own still is, with the revisions in
  hand those of the entries written so far (`RevInv`). A commit thus makes real
  what the transaction holds, and an abort leaves nothing of it.
* `RevisionsAreOrdered`: `[]RevisionsGoForward`, under `OneWorker`, the deployment's
  one worker; with two it fails (section 5). `OrderInv` holds the order of one run's
  answers: an item is asked for once in a run (`RunInv`), so an answer that commits
  before one observed earlier bears another label (`LateInv`).
* `ReadersAreShownTheirWeek`: `[]ReadersGetTheirWeek`, for any number of workers.
  Weeks only end (`WeekInv`), so of two snapshots under one label the one of the
  later week was observed later, and the reader is shown the latest week that bears
  it; that the week asked for is among them follows from the labels being current and
  from what a list's newest answer has left behind (`StoredInv`, `SeenInv`): a snapshot
  under its label, since the state hash covers the label.

About `StoreSync!Spec`, for any number of devices, items, batches and times,
under `StoreSyncAssumption` (batches name an item once; `None` is neither a time
nor a version):

* `StoreTypeCorrect`: `[]TypeOK`.
* `AnsweredStays`: `[]AnsweredIsKept`. The inductive invariant says that no row is
  locked twice (`LocksApart`), that a transaction's batch is what it has upserted
  and what it has left, and that an upsert that took effect would do so still,
  since its row is locked (`OpenInv`), and that what was committed and is about
  to be answered is in its row, or something later is (`CommittedInv`).
* `StoreImplements`: `Spec => ImplementsStore`. A commit is `LwwStore`'s merge of
  the batch because of `OpenInv`; every other step leaves the rows alone.

About `SchemaDrift!DriftSpec`, for any recorders, paths, answers and faults:

* `NewsIsNeverMissed`: `[]NothingSlipsIn`. It is not inductive, because it lets a
  recorder that is about to report excuse all of its shape, of which its event
  names only the news. `Accounted` says that the news alone excuse. The step that
  inserts a shape keeps it: what is no news to the recorder stands in a shape that
  it has read, which is accounted for already; and what stands in none is news,
  since shapes without unobserved arrays hide nothing (`ComparableUnion`,
  `NewIsNews`).
* `EventsAreBorneOut`: `[]ReportsAreBorneOut`: no event says what one shape of one path,
  beside the shapes on file there, does not bear out. What a recorder is about to
  report is news of its own shape against shapes that it read, and these stay on file
  whoever fails or runs meanwhile; what an empty array hides is not called removed.
* `UnknownFieldsAreFiled`: `[]UnknownFieldsAreOnFile`. The fields found unknown in an
  answer are exactly those its shape shows (`ShapesShowUnknown`, which needs the
  array's own name to be a field the parser knows), and a recorder gets past the
  first statement only with its event on file (`FieldsInv`).
* `DriftTyped`, a lemma for the types of `Services`: a shape that was compared with
  nothing, whose recorder was cut off or that is about to be reported is one that its
  scope has (`FiledShapes`).

About `Services!Spec`, for any numbers of workers, weeks, panels, clients and
faults, under the assumptions of the four parts (a step of the whole is a step of
one part, `StepsOfParts`):

* `PostsRepeatOnlyInDoubt`: `[]RepeatedOnlyInDoubt`. `ShownOnce` says what keeps a
  week that is not in doubt from being shown again: one process at most is on its
  way with it, which has not shown it or is about to record it, and a week that
  was shown has its row or that process.
* `PostsAreSettled`: `[]CardsAreSettled`. `RenderedLate` carries through the
  render and the send that the week had settled: it had when the week was chosen,
  because the running week began no earlier than the chosen one ended
  (`DueIsSettled`), and nothing archived later counts as seen before.
* `OneBrowserPerPanel`: `[]RendersAreShared`, which is inductive with the types.
* `ActiveClientsStay`: `[]ActiveStaysSignedIn`. `OwnTokens` says that no two
  clients hold one token, so that one's sign-out or callback leaves the others'
  sessions alone, and `UseExtends` that a session outlives its last use by a
  lifetime.
* `LaunchesAreRare`: the action property `OneLaunchPerTTL`, under `ImagesAssumption`.
  `CacheInv` says that the Map has each panel that was rendered, in one place and
  as old as its last render, while no more panels were rendered than it holds.
  Beyond that it claims nothing, because panels are never unrendered.
* `ServicesAreTyped`: `[]TypeOK`, the types of all four parts. The part that is not a
  matter of course is the overlay's Map: it never has more entries than it may, nor a
  panel twice. The sweep drops one entry and keeps some of the rest (`SweptIsPart`,
  `KeptIsPart`), in places that are numbered without a gap (`Ranks`).
  `ServicesInv` joins the invariants of the parts.

About `ArchiveQueries!Spec`, for every archive, any names, players and guilds, cycles,
pages and dossiers of any size, under `ConstantsAssumption` (there are finitely many
rows of players, told apart by their ids and, of one name, by when they were seen):
all five invariants of the run `queries`, `TypeInv` being the inductive one (the archive is finite, its ids are unique, and nothing in it
is later than the clock). The work is in the sets, in three layers.

* Counts: a set is split in two (`CountParts`), and `actor_events` rows are counted by
  their encounters (`ActorsCount`, `TallyCounts`).
* Sums: the library's `SumFunction` is the value of a recursive function at the whole
  domain. `SumsUnique` and `SumsExist` say that there is exactly one such function, by
  a least counterexample among the subsets of a finite set (`LeastSubset`), which is
  well-founded; `SumDef` is the recursion that follows, `SumTake` that it does not
  matter which term is taken first. `FromEmpty` is induction over a finite set with
  a set in the place of the predicate. On these rest what the proofs use: `SumType`,
  `SumAdd`, `SumSame`, `SumUnion`, `SumPlus`, and `SumOfParts`: whatever adds up over
  two disjoint sets (`Additive`) is the sum over any partition (`Parted`). Counts,
  claims, failures and credits do (`FiguresOfParts`).
* The fold of a rivalry's page: it has a value that needs no order. `Figures` counts
  what `deriveRivalryMetrics` counts, its last killer being that of the latest kill, and
  `FiguresStep` says that an encounter later than all before changes them as
  `MetricsStep` does; a revenge is told from the previous kill, which is that of
  the latest row (`LatestRevenge`). Since no two encounters are at one place of the
  order (`BeforeOrders`, `LatestIsLast`), `MetricsAre` makes the fold `Figures`.

The theorems:

* `RivalriesTell`: `[]RivalriesAgree`. Every encounter of two rivals is won by one of
  them, each claim, credit and revenge is one side's (`RivalsTellAlike`), and the page
  folds to what the dossier counts.
* `RecordsTold`: `[]RecordsAgree`: kills and contracts in six places, and deaths as the
  two figures they are (`RecordsCountAlike`): what the site's card and the directory
  call so, and the sum with the times killed of `/hunter`'s card (`TargetsEnd`), in the
  cycle too (`CycleRecord`); the credits of the cards, and the pages of a history: a row
  with `r` newer ones is on page `r \div HistoryRows + 1` and on no other
  (`HistoriesArePaged`).
* `ReportTells`: `[]ReportAddsUp`. Hunters, targets and days each part the cycle's
  encounters, the days since none of them is later than today (`DaysHold`); a
  hunter's row is the cycle record (`ReportsShowRecords`).
* `GuildsTell`: `[]GuildsAgree`. A roster's rows are the newest of their names, whose
  sums are the guild's totals, and the replaced ones (`RosterParts`); rows and days both
  part the encounters they join (`MembersAndDays`), and what one guild won the other
  lost (`RivalGuildsMirror`).
* `OverlaysTell`: `[]OverlayTilesMatchRows`. A cycle's figures tally the actor events of
  the cycle's encounters (`CycleRecord`, `OverlaysCount`), and the best claim of a part
  is at most that of the whole (`BestGrows`).

Every invariant and every action property that a passing run checks is thus stated by
a theorem. Checked by TLC only, because the installed provers cannot reach it:
liveness (`HealthyWebhookDelivers`, `TransactionsEnd`, `PushesEnd`).

## 5. Other behaviours met

Behaviours of the code that a reader who changes it should know; no run keeps
them, most because no document promises otherwise.

Feed and replay:

* A crash or a lost answer between Discord's acceptance and the row announces an
  encounter again; `migrations/0017` says never. What holds is
  `DuplicateOnlyInDoubt`.
* A warning is given again within the hour when the backlog clears in between.
* The live worker publishes what a replay archived before the replay's closing
  statement mutes it (`scripts/replay-captures.ts:73`; its header, lines 15-16,
  promises silence). A replay that dies before it (line 68) leaves all of it
  pending.
* An encounter whose content a webhook refuses for ever holds back everything
  newer at that webhook; the backlog warning is what tells.

Standby:

* A manual capture made before a takeover may hold an encounter that the recovery
  message's `--since` leaves out; `ReplayCoversOutage` speaks of what the cron saw.
* Two invocations of the cron that overlap each write back the alert state they
  read, so one's takeover start or count is lost: with two cron slots TLC finds both
  `CountsItsCaptures` and `ReplayCoversOutage` violated. An invocation would have to
  last longer than a minute.
* The standby may fetch once while the primary collects, since a heartbeat follows
  its poll by the poll's length.

Ingestion:

* A fixed week that returns to an earlier state matches that state's hash: no
  snapshot, no revision (`pipeline.ts:159`), though `docs/swg-legends-api.md:84`
  has every change recorded; a reader still gets the state between.
* Two lanes read a participant before either writes it, so the second update
  overwrites a value it never compared with, and no revision tells (`pipeline.ts:86`).
* A week's row has one label for the lists of all subjects (`migrations/0000:87-97`),
  and any list's answer sets it (`pipeline.ts:147-148`). After a rollover, until the
  first answer of the new week relabels each row, two weeks of a board bear one label:
  the players' PREVIOUS_1 relabels the week that has ended while the week before it
  still bears that label, and a reader of the guilds' list, whose answer is not there
  yet or never comes, is shown the older one (`data.ts:771-775`). One worker is enough.
  So is an answer that a lane commits late, which puts an old label back.
  `ReadersGetTheirWeek` says that the reader is right again once the labels are.
* Two overlapping workers may commit answers in another order than they observed
  them, so a revision may lead from the newer to the older state, and the older
  week may end with the label. Even one worker's two lanes may: when a week ends
  in the midst of a run, the run can ask for one week under two labels and commit
  the later answer first. `RevisionsGoForward` therefore speaks of one label.
* A registry that knows a participant without a field and a board that knows it
  record revisions to and from null for ever (`pipeline.ts:93`).
* A success of one path resolves the open errors of every path of its source
  (`pipeline.ts:468`).
* `Number(null)` is 0 and finite: an answer without a `Retry-After` header is retried
  at once (`fetcher.ts:47`).
* A recorder cut off between the signature and its event loses the report for
  ever: the shape is known from then on (`pipeline.ts:323`). `NothingSlipsIn`
  excuses it by name.
* Two recorders that read the known shapes before either stores its own may name the
  same path as new in two events, when the rest of their news differs. So may one
  recorder for two paths of the API, since the key of an event holds the types that a
  path had before (`pipeline.ts:346-350,363`).
* A shape with entries is compared with shapes with entries only, so what was seen
  on an empty board alone is reported as new, though `pipeline.ts:330-332` speaks
  of all known signatures. Two recorders that are first on a path are both
  baselines, and what only one of them saw is never reported.

Weekly post:

* A crash, a failing INSERT or a lost answer after Discord has accepted posts the
  week again; `migrations/0009` says exactly once. What holds is
  `RepeatedOnlyInDoubt`.
* An outage of more than eight days skips a week's post; so does a second week
  that begins meanwhile, since only the week before the running one is due.

Sessions, overlay, queries and sync:

* A website's cookie ends 180 days after the sign-in although the session slides
  (`session.ts:64-70`); `ActiveStaysSignedIn` speaks of a browser while it keeps it.
* Two sign-ins that overlap in one browser both fail when the first to start is
  the first to return: the second start replaces the state cookie, and the first
  callback deletes it.
* A panel that was rendered twice keeps its first place in the Map and is dropped
  first beyond 50 panels (`render.ts:8-10` promises one launch per TTL).
* A weekly report's days are calendar days and its cycle is not: it begins and ends at
  22:00 UTC, so that its first and its last row cover part of a day
  (`data.ts:237-252`). The model's cycles are whole days and do not show it.
* The overlay's cycle view is empty for a player who was only hunted
  (`model.ts:124-127`): a player's record rides on the rows that the player hunted.
* `/hunter` looks at the newest 25 rows that contain the typed text, and finds no
  unranked player whose rows are older (`commands.ts:141`).
* Deaths are two figures. The site's encounter card counts the contracts a hunter
  failed (`encounter-list.tsx:49,57,68`), and `docs/public-api.md` calls the sum with
  the times killed a legacy combined figure (lines 60-64); the card of `/hunter` counts
  that sum (`embeds.ts:211`), and `docs/discord-bot.md:8` calls it the site's
  definition. `RecordsAgree` states both and how they differ.
* The roster and the days of a guild count a row that a newer one of the same name
  replaced, whichever guild that one names (`data.ts:646-656`); the totals and the
  rivals do not. `GuildsAgree` says by how much they differ.
* A dossier's opponents are grouped by spelling. Encounters of a player with
  himself are outside the model.
* The report's statements share no snapshot: a poll between them makes its figures
  disagree by the rows it brought (`data.ts:180`).
* A GET of the sync answers with times cut to milliseconds (`api/sync/route.ts:33`).

## 6. Not modelled

* Migrations, deploy, the backup scheduler, the production sync: one sequential
  script each, run by hand or alone. `migrate.ts` holds one advisory lock around
  all of its transactions; a deployment's effect on the worker is `Stop` and
  `Crash` of `EncounterFeed`. Nothing in them is shared by two actors but the
  database's own locks.
* Rate limit: a counter per address in one process. It answers 429 before a
  handler does anything; every handler modelled here may simply not be called.
* Observability: log shipping and the disk check; the archive neither waits for
  them nor reads what they keep.
* Pages, components, API documentation, formats and wording; the signature check
  of slash commands; the database client and type declarations.
* The integrity assessment's checks and the parsing of answers are outcomes of a
  lane's step; the catalog's and the wins' upserts of participants work like the
  boards' and are not modelled apart; the reconciliation's read-only queries and
  the single event it writes; the administration's health page, the parser's
  reports and lists of raw rows among the queries.
* `--dry-run` and the read-only routes change nothing.

## 7. What is open

Every safety property that a passing run checks is stated by a theorem; the three
liveness properties are checked on small instances only (section 4). What could still
be stated: that `LeaderboardHistory` implements an abstract history of corrected weeks,
and `Services`' cache an abstract one of paid launches.
