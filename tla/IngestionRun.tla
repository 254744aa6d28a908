---------------------------- MODULE IngestionRun ----------------------------
(***************************************************************************)
(* The life of an ingestion run (lib/ingestion/pipeline.ts: runIngestion,  *)
(* archiveAndProcess, recordTransportFailure; fetcher.ts; integrity.ts)    *)
(* and the backfill that starts one run per period (scripts/backfill.ts).  *)
(*                                                                         *)
(* A run asks for the board catalog and then, in concurrent lanes, for its *)
(* other items.  Whatever becomes of an item is told in three places that  *)
(* no transaction joins: the run's counters in memory, the item's          *)
(* ingestion row, the error rows.  An action is one statement or one       *)
(* answer.  A statement may fail; a process may die anywhere.              *)
(***************************************************************************)
EXTENDS Integers, FiniteSets

CONSTANTS
  Pollers,      \* worker processes
  Backfills,    \* backfill scripts
  Lanes,        \* INGESTION_CONCURRENCY
  NumItems,     \* the requests of a poll's run; the first is the catalog's
  NumPeriodItems, \* those that a backfill's run makes for one period
  BoardItems,   \* those about boards, which the catalog must have named
  SourceOf,     \* the api_sources row of each item
  NumPeriods,   \* the backfill's periods
  MaxRetries,   \* INGESTION_MAX_RETRIES
  MaxRuns,      \* bound: runs
  MaxMisses,    \* bound: answers that are missing, incomplete or not usable
  MaxFaults     \* bound: failing statements and dying processes

Procs == Pollers \cup Backfills
Slots == Procs \X Lanes
Items == 1..NumItems
Catalog == 1
RunIds == 1..MaxRuns
Pairs == RunIds \X Items
Periods == 1..NumPeriods

ASSUME RunAssumption ==
  /\ Pollers \cap Backfills = {}
  /\ Lanes # {} /\ NumItems \in Nat /\ NumPeriodItems \in 1..NumItems
  /\ NumPeriods \in Nat \ {0}
  /\ BoardItems \subseteq Items \ {Catalog} /\ DOMAIN SourceOf = Items
  /\ MaxRetries \in Nat /\ MaxRuns \in Nat
  /\ MaxMisses \in Nat /\ MaxFaults \in Nat

VARIABLES
  \* the database
  runs,        \* ingestion_runs
  ingestions,  \* api_ingestions.processing_status; "none" without a row
  problems,    \* ingestion_errors
  stored,      \* the pairs whose normalized rows are committed
  boards,      \* the tracked boards are in leaderboards
  checkpoints, \* backfill_checkpoints
  \* the processes
  proc,        \* each process, with its run's counters
  lane,        \* the request each lane works on
  misses, faults, \* the budgets used
  \* history
  flagged,     \* the pairs with an integrity or schema issue
  lost         \* what took effect though its process saw an error

audit == <<runs, ingestions, problems>>
history == <<flagged, lost>>
budgets == <<misses, faults>>
vars == <<audit, stored, boards, checkpoints, proc, lane, budgets, history>>

-----------------------------------------------------------------------------
NoRun == [type |-> "POLL", status |-> "none", requests |-> 0, errors |-> 0]
NoCheckpoint == [status |-> "none", run |-> 0]
Down == [pc |-> "down", run |-> 0, next |-> 1, requests |-> 0, errors |-> 0, partial |-> 0,
         period |-> 0]
Free == [pc |-> "free", item |-> 0, attempt |-> 0]

\* buildWork.
Work(type) == 1..(IF type = "POLL" THEN NumItems ELSE NumPeriodItems)
TypeOf(p) == IF p \in Pollers THEN "POLL" ELSE "BACKFILL"
ItemsOf(r) == Work(runs[r].type)

Pair(s) == <<proc[s[1]].run, lane[s].item>>
At(s, pc) == lane[s].pc = pc
Goto(s, pc) == lane' = [lane EXCEPT ![s].pc = pc]

Fault == faults < MaxFaults /\ faults' = faults + 1 /\ UNCHANGED misses
Miss == misses < MaxMisses /\ misses' = misses + 1 /\ UNCHANGED faults

\* The item is done with: execute()'s catch, or its end without an error.
EndFailed(s) ==
  /\ proc' = [proc EXCEPT ![s[1]].errors = @ + 1]
  /\ lane' = [lane EXCEPT ![s] = Free]

EndStored(s, issue) ==
  /\ proc' = [proc EXCEPT ![s[1]].partial = IF issue THEN @ + 1 ELSE @]
  /\ lane' = [lane EXCEPT ![s] = Free]
  /\ flagged' = IF issue THEN flagged \cup {Pair(s)} ELSE flagged

\* A process that leaves its run: a poller waits for its next cycle, a backfill
\* notes in its checkpoint what became of the run.
Leave(p, ok) ==
  proc' = [proc EXCEPT ![p] =
    IF p \in Pollers THEN Down
    ELSE [Down EXCEPT !.pc = IF ok THEN "note" ELSE "regret", !.run = proc[p].run,
                      !.period = proc[p].period]]

\* A mutant of RunStatus: a run that failed altogether is partial.
RunStatusNeverFailed(requests, errors, partial) ==
  IF requests > 0 /\ errors > requests THEN "FAILED"
  ELSE IF errors > 0 \/ partial > 0 THEN "PARTIAL"
  ELSE "SUCCEEDED"

\* classifyRunStatus.
RunStatus(requests, errors, partial) ==
  IF requests > 0 /\ errors >= requests THEN "FAILED"
  ELSE IF errors > 0 \/ partial > 0 THEN "PARTIAL"
  ELSE "SUCCEEDED"

-----------------------------------------------------------------------------
Init ==
  /\ runs = [r \in RunIds |-> NoRun]
  /\ ingestions = [x \in Pairs |-> "none"]
  /\ problems = [x \in Pairs |-> "none"]
  /\ stored = {}
  /\ boards = FALSE
  /\ checkpoints = [k \in Periods |-> NoCheckpoint]
  /\ proc = [p \in Procs |-> Down]
  /\ lane = [s \in Slots |-> Free]
  /\ misses = 0 /\ faults = 0
  /\ flagged = {} /\ lost = {}

(* The processes. *)

\* A poller's cycle begins.
StartCycle(w) ==
  /\ proc[w].pc = "down"
  /\ proc' = [proc EXCEPT ![w].pc = "begin"]
  /\ UNCHANGED <<audit, stored, boards, checkpoints, lane, budgets, history>>

\* The operator starts the backfill.
StartBackfill(f) ==
  /\ proc[f].pc = "down"
  /\ proc' = [proc EXCEPT ![f].pc = "look", ![f].period = 1]
  /\ UNCHANGED <<audit, stored, boards, checkpoints, lane, budgets, history>>

\* A mutant of SkipPeriod: it runs over the end of the periods.
SkipPeriodPast(f) ==
  /\ proc[f].pc = "look"
  /\ checkpoints[proc[f].period].status = "SUCCEEDED"
  /\ proc' = [proc EXCEPT ![f].period = @ + 1]
  /\ UNCHANGED <<audit, stored, boards, checkpoints, lane, budgets, history>>

\* It skips the periods that are complete, and marks the first that is not.
SkipPeriod(f) ==
  /\ proc[f].pc = "look"
  /\ checkpoints[proc[f].period].status = "SUCCEEDED"
  /\ proc' = [proc EXCEPT ![f] =
       IF @.period = NumPeriods THEN Down ELSE [@ EXCEPT !.period = proc[f].period + 1]]
  /\ UNCHANGED <<audit, stored, boards, checkpoints, lane, budgets, history>>

FindPeriod(f) ==
  /\ proc[f].pc = "look"
  /\ checkpoints[proc[f].period].status # "SUCCEEDED"
  /\ proc' = [proc EXCEPT ![f].pc = "mark"]
  /\ UNCHANGED <<audit, stored, boards, checkpoints, lane, budgets, history>>

\* The row may exist: its cursor stays what it was.
MarkPeriod(f) ==
  /\ proc[f].pc = "mark"
  /\ checkpoints' = [checkpoints EXCEPT ![proc[f].period].status = "RUNNING"]
  /\ proc' = [proc EXCEPT ![f].pc = "begin"]
  /\ UNCHANGED <<audit, stored, boards, lane, budgets, history>>

\* The run returned: the period is complete, whether SUCCEEDED or PARTIAL...
NotePeriod(f) ==
  /\ proc[f].pc = "note"
  /\ checkpoints' = [checkpoints EXCEPT ![proc[f].period] =
                       [status |-> "SUCCEEDED", run |-> proc[f].run]]
  /\ proc' = [proc EXCEPT ![f] =
       IF @.period = NumPeriods THEN Down
       ELSE [Down EXCEPT !.pc = "look", !.period = proc[f].period + 1]]
  /\ UNCHANGED <<audit, stored, boards, lane, budgets, history>>

\* ...it threw, and the script ends; the cursor keeps what it was.
RegretPeriod(f) ==
  /\ proc[f].pc = "regret"
  /\ checkpoints' = [checkpoints EXCEPT ![proc[f].period].status = "FAILED"]
  /\ proc' = [proc EXCEPT ![f] = Down]
  /\ UNCHANGED <<audit, stored, boards, lane, budgets, history>>

\* A statement of the script fails: the note's failure is regretted, any other
\* ends the script.
ScriptFails(f) ==
  /\ proc[f].pc \in {"look", "mark", "note", "regret"}
  /\ Fault
  /\ proc' = [proc EXCEPT ![f] = IF @.pc = "note" THEN [@ EXCEPT !.pc = "regret"] ELSE Down]
  /\ UNCHANGED <<audit, stored, boards, checkpoints, lane, history>>

\* The process dies; its run stays as it is.
Dies(p) ==
  /\ proc[p].pc # "down"
  /\ Fault
  /\ proc' = [proc EXCEPT ![p] = Down]
  /\ lane' = [s \in Slots |-> IF s[1] = p THEN Free ELSE lane[s]]
  /\ UNCHANGED <<audit, stored, boards, checkpoints, history>>

-----------------------------------------------------------------------------
(* runIngestion. *)

BeginRun(p) ==
  /\ proc[p].pc = "begin"
  /\ \E r \in RunIds :
       /\ runs[r].status = "none" /\ \A q \in RunIds : q < r => runs[q].status # "none"
       /\ runs' = [runs EXCEPT ![r] = [NoRun EXCEPT !.type = TypeOf(p), !.status = "RUNNING"]]
       /\ proc' = [proc EXCEPT ![p].pc = "collect", ![p].run = r]
  /\ UNCHANGED <<ingestions, problems, stored, boards, checkpoints, lane, budgets, history>>

\* The run's row cannot be written: nothing is asked for.
BeginFails(p) ==
  /\ proc[p].pc = "begin"
  /\ Fault
  /\ Leave(p, FALSE)
  /\ UNCHANGED <<audit, stored, boards, checkpoints, lane, history>>

\* A mutant of Take: the cursor is read and moved on in two steps.
TakeAgain(s) ==
  LET p == proc[s[1]]
  IN  /\ p.pc = "collect" /\ At(s, "free") /\ p.next \in Work(TypeOf(s[1]))
      /\ \A l \in Lanes : lane[<<s[1], l>>].item # Catalog
      /\ \E next \in {p.next, p.next + 1} :
           proc' = [proc EXCEPT ![s[1]].next = next, ![s[1]].requests = @ + 1]
      /\ lane' = [lane EXCEPT ![s] = [Free EXCEPT !.pc = "fetch", !.item = p.next]]
      /\ UNCHANGED <<audit, stored, boards, checkpoints, budgets, history>>

\* A lane takes the next item; the catalog is done before the others start.
Take(s) ==
  LET p == proc[s[1]]
  IN  /\ p.pc = "collect" /\ At(s, "free") /\ p.next \in Work(TypeOf(s[1]))
      /\ \A l \in Lanes : lane[<<s[1], l>>].item # Catalog
      /\ proc' = [proc EXCEPT ![s[1]].next = @ + 1, ![s[1]].requests = @ + 1]
      /\ lane' = [lane EXCEPT ![s] = [Free EXCEPT !.pc = "fetch", !.item = p.next]]
      /\ UNCHANGED <<audit, stored, boards, checkpoints, budgets, history>>

\* fetchJson tries again after a network error, HTTP 429, 5xx or a challenge.
Retry(s) ==
  /\ At(s, "fetch") /\ lane[s].attempt < MaxRetries
  /\ lane' = [lane EXCEPT ![s].attempt = @ + 1]
  /\ UNCHANGED <<audit, stored, boards, checkpoints, proc, budgets, history>>

\* A mutant of NoAnswer: only what was archived is recorded.
NoAnswerUnrecorded(s) ==
  /\ At(s, "fetch") /\ lane[s].attempt = MaxRetries
  /\ Miss
  /\ EndFailed(s)
  /\ UNCHANGED <<audit, stored, boards, checkpoints, history>>

\* The last attempt throws too: recordTransportFailure.
NoAnswer(s) ==
  /\ At(s, "fetch") /\ lane[s].attempt = MaxRetries
  /\ Miss
  /\ Goto(s, "problem")
  /\ UNCHANGED <<audit, stored, boards, checkpoints, proc, history>>

\* An answer: the payload and its ingestion row.
Received(s, status) == ingestions' = [ingestions EXCEPT ![Pair(s)] = status]

Archive(s) ==
  /\ At(s, "fetch")
  /\ Received(s, "RECEIVED")
  /\ Goto(s, "process")
  /\ UNCHANGED <<runs, problems, stored, boards, checkpoints, proc, budgets, history>>

\* An answer whose status is an error, after the retries it deserves.
ArchiveHttpError(s) ==
  /\ At(s, "fetch")
  /\ Miss
  /\ Received(s, "HTTP_ERROR")
  /\ Goto(s, "problem")
  /\ UNCHANGED <<runs, problems, stored, boards, checkpoints, proc, history>>

\* A statement of the archive fails, before the row or (last_attempt_at) after it:
\* nothing but the log tells.
ArchiveFails(s) ==
  /\ At(s, "fetch")
  /\ Fault
  /\ EndFailed(s)
  /\ UNCHANGED ingestions \/ Received(s, "RECEIVED")
  /\ UNCHANGED <<runs, problems, stored, boards, checkpoints, history>>

\* processCatalog upserts the boards that the catalog names.
Catalogued(s, named) == boards \/ (lane[s].item = Catalog /\ named)

\* What the transaction of archiveAndProcess commits: the normalized rows, the
\* ingestion's status, and that the source's errors are resolved.  A catalog that
\* is not complete may leave the tracked boards unnamed.
Transaction(s, named) ==
  /\ lane[s].item \in BoardItems => boards
  /\ stored' = stored \cup {Pair(s)}
  /\ boards' = Catalogued(s, named)
  /\ ingestions' = [ingestions EXCEPT ![Pair(s)] = "PROCESSED"]
  /\ problems' = [x \in Pairs |->
       IF problems[x] = "open" /\ SourceOf[x[2]] = SourceOf[lane[s].item]
       THEN "resolved" ELSE problems[x]]

Process(s) ==
  /\ At(s, "process")
  /\ Transaction(s, TRUE)
  /\ EndStored(s, FALSE)
  /\ UNCHANGED <<runs, checkpoints, budgets, lost>>

\* recordSchemaAndUnknownFields found something new, or the answer is incomplete.
ProcessPartial(s) ==
  /\ At(s, "process")
  /\ Miss
  /\ \E named \in BOOLEAN : Transaction(s, named)
  /\ EndStored(s, TRUE)
  /\ UNCHANGED <<runs, checkpoints, lost>>

\* The payload is not valid, or a statement of the schema's observation or of the
\* transaction fails: ROLLBACK.
Reject(s) ==
  /\ At(s, "process")
  /\ Miss
  /\ Goto(s, "audit")
  /\ UNCHANGED <<audit, stored, boards, checkpoints, proc, history>>

\* Its board is not in the catalog that was stored.
UnknownBoard(s) ==
  /\ At(s, "process") /\ lane[s].item \in BoardItems /\ ~boards
  /\ Goto(s, "audit")
  /\ UNCHANGED <<audit, stored, boards, checkpoints, proc, budgets, history>>

\* The connection breaks at the COMMIT, which took effect or did not.
CommitLost(s) ==
  /\ At(s, "process")
  /\ Fault
  /\ Goto(s, "audit")
  /\ \E named \in BOOLEAN : Transaction(s, named)
  /\ lost' = lost \cup {Pair(s)}
  /\ UNCHANGED <<runs, checkpoints, proc, flagged>>

\* A mutant of Audit: the status is left to the error row.
AuditWithoutStatus(s) ==
  /\ At(s, "audit")
  /\ Goto(s, "problem")
  /\ UNCHANGED <<audit, stored, boards, checkpoints, proc, budgets, history>>

\* The failure is written to the ingestion's row...
Audit(s) ==
  /\ At(s, "audit")
  /\ ingestions' = [ingestions EXCEPT ![Pair(s)] = "FAILED"]
  /\ Goto(s, "problem")
  /\ UNCHANGED <<runs, problems, stored, boards, checkpoints, proc, budgets, history>>

\* ...and to a row of its own.
Problem(s) ==
  /\ At(s, "problem")
  /\ problems' = [problems EXCEPT ![Pair(s)] = "open"]
  /\ EndFailed(s)
  /\ UNCHANGED <<runs, ingestions, stored, boards, checkpoints, budgets, history>>

\* A mutant of AuditFails: the failing statement escapes the count.
AuditFailsUncounted(s) ==
  /\ At(s, "audit") \/ At(s, "problem")
  /\ Fault
  /\ lane' = [lane EXCEPT ![s] = Free]
  /\ UNCHANGED <<audit, stored, boards, checkpoints, proc, history>>

\* A failing statement of the audit is only logged, and ends it.
AuditFails(s) ==
  /\ At(s, "audit") \/ At(s, "problem")
  /\ Fault
  /\ EndFailed(s)
  /\ UNCHANGED <<audit, stored, boards, checkpoints, history>>

\* Every lane has ended: the run's row gets its status and counters.
Ended(p) ==
  /\ proc[p].pc = "collect" /\ proc[p].next \notin Work(TypeOf(p))
  /\ \A l \in Lanes : lane[<<p, l>>].pc = "free"

Totals(p) ==
  [type |-> TypeOf(p),
   status |-> RunStatus(proc[p].requests, proc[p].errors, proc[p].partial),
   requests |-> proc[p].requests, errors |-> proc[p].errors]

Finalize(p) ==
  /\ Ended(p)
  /\ runs' = [runs EXCEPT ![proc[p].run] = Totals(p)]
  /\ Leave(p, Totals(p).status # "FAILED")
  /\ UNCHANGED <<ingestions, problems, stored, boards, checkpoints, lane, budgets, history>>

\* That statement fails, with or without effect.
FinalizeFails(p) ==
  /\ Ended(p)
  /\ Fault
  /\ runs' \in {runs, [runs EXCEPT ![proc[p].run] = Totals(p)]}
  /\ lost' = lost \cup {<<proc[p].run, 0>>}
  /\ proc' = [proc EXCEPT ![p].pc = "abort"]
  /\ UNCHANGED <<ingestions, problems, stored, boards, checkpoints, lane, flagged>>

\* A mutant of Abort: the catch does not throw again.
AbortReturns(p) ==
  /\ proc[p].pc = "abort"
  /\ runs' = [runs EXCEPT ![proc[p].run].status = "FAILED",
                          ![proc[p].run].errors = IF @ = 0 THEN 1 ELSE @]
  /\ Leave(p, TRUE)
  /\ UNCHANGED <<ingestions, problems, stored, boards, checkpoints, lane, budgets, history>>

\* The run's catch: FAILED, with at least one error.
Abort(p) ==
  /\ proc[p].pc = "abort"
  /\ runs' = [runs EXCEPT ![proc[p].run].status = "FAILED",
                          ![proc[p].run].errors = IF @ = 0 THEN 1 ELSE @]
  /\ Leave(p, FALSE)
  /\ UNCHANGED <<ingestions, problems, stored, boards, checkpoints, lane, budgets, history>>

\* The database that failed the last statement is still away.
AbortFails(p) ==
  /\ proc[p].pc = "abort"
  /\ Leave(p, FALSE)
  /\ UNCHANGED <<audit, stored, boards, checkpoints, lane, budgets, history>>

-----------------------------------------------------------------------------
Script(f) ==
  \/ SkipPeriod(f) \/ FindPeriod(f) \/ MarkPeriod(f)
  \/ NotePeriod(f) \/ RegretPeriod(f) \/ ScriptFails(f)

Lane(s) ==
  \/ Take(s) \/ Retry(s) \/ NoAnswer(s)
  \/ Archive(s) \/ ArchiveHttpError(s) \/ ArchiveFails(s)
  \/ Process(s) \/ ProcessPartial(s) \/ Reject(s) \/ UnknownBoard(s) \/ CommitLost(s)
  \/ Audit(s) \/ Problem(s) \/ AuditFails(s)

Run(p) ==
  \/ BeginRun(p) \/ BeginFails(p)
  \/ Finalize(p) \/ FinalizeFails(p) \/ Abort(p) \/ AbortFails(p)

Next ==
  \/ \E w \in Pollers : StartCycle(w)
  \/ \E f \in Backfills : StartBackfill(f) \/ Script(f)
  \/ \E p \in Procs : Run(p) \/ Dies(p)
  \/ \E s \in Slots : Lane(s)

Spec == Init /\ [][Next]_vars

-----------------------------------------------------------------------------
(* Properties. *)

Statuses == {"RUNNING", "SUCCEEDED", "PARTIAL", "FAILED"}
LanePcs == {"free", "fetch", "process", "audit", "problem"}

RunType == [type : {"POLL", "BACKFILL"}, status : Statuses \cup {"none"}, requests : Nat, errors : Nat]
ProcType ==
  [pc : {"down", "look", "mark", "begin", "collect", "abort", "note", "regret"},
   run : 0..MaxRuns, next : 1..(NumItems + 1), requests : Nat,
   errors : Nat, partial : Nat, period : 0..NumPeriods]
LaneType == [pc : LanePcs, item : 0..NumItems, attempt : 0..MaxRetries]

TypeOK ==
  /\ runs \in [RunIds -> RunType]
  /\ ingestions \in [Pairs -> {"none", "RECEIVED", "HTTP_ERROR", "PROCESSED", "FAILED"}]
  /\ problems \in [Pairs -> {"none", "open", "resolved"}]
  /\ stored \subseteq Pairs /\ flagged \subseteq Pairs
  /\ lost \subseteq RunIds \X (0..NumItems)
  /\ boards \in BOOLEAN
  /\ checkpoints \in [Periods -> [status : Statuses \cup {"none"}, run : 0..MaxRuns]]
  /\ proc \in [Procs -> ProcType]
  /\ lane \in [Slots -> LaneType]
  /\ misses \in 0..MaxMisses /\ faults \in 0..MaxFaults

\* What a run's process knows to be stored.
Good(r) == {i \in ItemsOf(r) : <<r, i>> \in stored \ lost}
Finished(r) == runs[r].status \in {"SUCCEEDED", "PARTIAL", "FAILED"}
Aborted(r) == <<r, 0>> \in lost

\* docs/monitoring.md:49: a run is SUCCEEDED only if every source succeeded and
\* passed its integrity checks, PARTIAL when some did and some did not, FAILED when
\* none did or the run aborts.
StatusIsHonest ==
  \A r \in RunIds : Finished(r) =>
    LET flawless == {i \in Good(r) : <<r, i>> \notin flagged}
    IN  /\ runs[r].status = "SUCCEEDED" => flawless = ItemsOf(r)
        /\ runs[r].status = "PARTIAL" => flawless # ItemsOf(r) /\ Good(r) # {}
        /\ runs[r].status = "FAILED" => Good(r) = {} \/ Aborted(r)

\* The counters that concurrent lanes keep in memory agree, at the end of a run,
\* with what the database holds: each item asked for once, and an error for each
\* that was not stored.
CountersMatchRows ==
  \A r \in RunIds : Finished(r) /\ ~Aborted(r) =>
    /\ runs[r].requests = Cardinality(ItemsOf(r))
    /\ runs[r].errors = Cardinality(ItemsOf(r) \ Good(r))

\* An ingestion says PROCESSED exactly when its normalized rows are there, unless
\* its process could not know that the COMMIT had taken effect.
ProcessedMeansStored ==
  \A x \in Pairs :
    /\ ingestions[x] = "PROCESSED" => x \in stored
    /\ x \in stored \ lost => ingestions[x] = "PROCESSED"

\* Every failure leaves an error row, also the failures of one lane while others
\* store rows of the same source: what has none is the fault of the statement that
\* should have written it, one item for each.
FailuresLeaveATrace ==
  \A r \in RunIds : Finished(r) =>
    Cardinality({i \in ItemsOf(r) \ Good(r) : problems[<<r, i>>] = "none"}) <= faults

\* No ingestion is left as RECEIVED by a finished run, but for a failing statement
\* each: the audit tells what became of every payload.
NothingLeftReceived ==
  \A r \in RunIds : Finished(r) =>
    Cardinality({i \in ItemsOf(r) : ingestions[<<r, i>>] = "RECEIVED"}) <= faults

\* A checkpoint that says SUCCEEDED names a run that stored something, whatever
\* other backfills do (backfill.ts:21-22).
CheckpointNamesItsRun ==
  \A k \in Periods : checkpoints[k].status = "SUCCEEDED" =>
    LET r == checkpoints[k].run
    IN  r # 0 /\ runs[r].status \in {"SUCCEEDED", "PARTIAL"} /\ Good(r) # {}

\* README.md:101, "Resumable CURRENT/PREVIOUS_1/PREVIOUS_2 backfill", and the
\* cursor's "complete: true" (backfill.ts:22): what a backfill does not do again is
\* there.
CompleteMeansStored ==
  \A k \in Periods : checkpoints[k].status = "SUCCEEDED" =>
    \A i \in Work("BACKFILL") : <<checkpoints[k].run, i>> \in stored
=============================================================================
