------------------------ MODULE IngestionRun_proofs -------------------------
(***************************************************************************)
(* Safety of ingestion runs for any number of processes, lanes, items,     *)
(* runs, missing answers and faults.                                       *)
(*                                                                         *)
(* A run's report is right because its process's books balance after every *)
(* step of every lane (BookInv): what it has counted is what the database  *)
(* shows of the items its lanes are done with.                             *)
(***************************************************************************)
EXTENDS IngestionRun, FiniteSetTheorems, TLAPS

-----------------------------------------------------------------------------
(* Type correctness. *)

\* What the program counters say of the other locals.
LoopInv ==
  /\ \A p \in Procs : proc[p].pc \in {"collect", "abort"} => proc[p].run \in RunIds
  /\ \A s \in Slots : lane[s].pc # "free" =>
       /\ proc[s[1]].pc = "collect"
       /\ lane[s].item \in 1..(proc[s[1]].next - 1)

LEMMA InitialValuesTyped ==
  /\ Down \in ProcType
  /\ Free \in LaneType
  /\ NoRun \in RunType
BY RunAssumption DEF NoRun, RunType, Statuses, Down, Free, ProcType, LaneType, LanePcs

LEMMA TypeInit == Init => TypeOK /\ LoopInv
<1> SUFFICES ASSUME Init PROVE TypeOK /\ LoopInv
  OBVIOUS
<1>1. /\ runs \in [RunIds -> RunType]
      /\ ingestions \in [Pairs -> {"none", "RECEIVED", "HTTP_ERROR", "PROCESSED", "FAILED"}]
      /\ problems \in [Pairs -> {"none", "open", "resolved"}]
  BY InitialValuesTyped DEF Init
<1>2. checkpoints \in [Periods -> [status : Statuses \cup {"none"}, run : 0..MaxRuns]]
  BY RunAssumption DEF Init, NoCheckpoint
<1>3. proc \in [Procs -> ProcType] /\ lane \in [Slots -> LaneType]
  BY InitialValuesTyped DEF Init
<1>4. /\ stored \subseteq Pairs /\ flagged \subseteq Pairs
      /\ lost \subseteq RunIds \X (0..NumItems)
      /\ boards \in BOOLEAN
      /\ misses \in 0..MaxMisses /\ faults \in 0..MaxFaults
  <2>1. boards \in BOOLEAN
    BY Zenon DEF Init
  <2>2. /\ stored \subseteq Pairs /\ flagged \subseteq Pairs
        /\ lost \subseteq RunIds \X (0..NumItems)
        /\ misses \in 0..MaxMisses /\ faults \in 0..MaxFaults
    BY RunAssumption DEF Init
  <2> QED BY <2>1, <2>2
<1>5. TypeOK
  BY <1>1, <1>2, <1>3, <1>4 DEF TypeOK
<1>6. LoopInv
  BY DEF Init, LoopInv, Down, Free, Slots
<1> QED BY <1>5, <1>6

\* What a run works on.
LEMMA WorkIsItems == \A type : Work(type) \in SUBSET Items
BY RunAssumption DEF Work, Items

\* A lane at work has a pair of its own.
LEMMA BusyLane ==
  ASSUME TypeOK, LoopInv, NEW s \in Slots, lane[s].pc # "free"
  PROVE  /\ s[1] \in Procs /\ s[2] \in Lanes /\ s = <<s[1], s[2]>>
         /\ proc[s[1]].pc = "collect" /\ proc[s[1]].run \in RunIds
         /\ lane[s].item \in Items /\ Pair(s) \in Pairs
<1>1. s[1] \in Procs /\ s[2] \in Lanes /\ s = <<s[1], s[2]>>
  BY DEF Slots
<1>2. proc[s[1]].pc = "collect" /\ proc[s[1]].run \in RunIds
  BY <1>1 DEF LoopInv
<1>3. proc[s[1]].next \in 1..(NumItems + 1) /\ lane[s].item \in 1..(proc[s[1]].next - 1)
  BY <1>1 DEF TypeOK, LoopInv, ProcType
<1>4. lane[s].item \in Items
  BY <1>3, RunAssumption DEF Items
<1> QED BY <1>1, <1>2, <1>4 DEF Pair, Pairs

\* What the shared updates leave behind.
LEMMA UpdatesTyped ==
  ASSUME TypeOK, NEW s \in Slots
  PROVE  /\ EndFailed(s) => proc' \in [Procs -> ProcType] /\ lane' \in [Slots -> LaneType]
         /\ \A pc \in LanePcs : Goto(s, pc) => lane' \in [Slots -> LaneType]
         /\ \A status \in {"RECEIVED", "HTTP_ERROR"} : Received(s, status) =>
              ingestions' \in [Pairs -> {"none", "RECEIVED", "HTTP_ERROR", "PROCESSED", "FAILED"}]
<1>1. proc \in [Procs -> ProcType] /\ lane \in [Slots -> LaneType]
  BY DEF TypeOK
<1>2. s[1] \in Procs
  BY DEF Slots
<1>3. EndFailed(s) => proc' \in [Procs -> ProcType] /\ lane' \in [Slots -> LaneType]
  BY <1>1, <1>2, InitialValuesTyped DEF EndFailed, ProcType
<1>4. \A pc \in LanePcs : Goto(s, pc) => lane' \in [Slots -> LaneType]
  BY <1>1 DEF Goto, LaneType
<1> QED BY <1>3, <1>4 DEF Received, TypeOK

LEMMA TransactionTyped ==
  ASSUME TypeOK, NEW s \in Slots, Pair(s) \in Pairs
  PROVE  /\ \A named \in BOOLEAN : Transaction(s, named) =>
              /\ stored' \subseteq Pairs
              /\ boards' \in BOOLEAN
              /\ ingestions' \in [Pairs -> {"none", "RECEIVED", "HTTP_ERROR", "PROCESSED", "FAILED"}]
              /\ problems' \in [Pairs -> {"none", "open", "resolved"}]
         /\ \A issue \in BOOLEAN : EndStored(s, issue) =>
              /\ proc' \in [Procs -> ProcType] /\ lane' \in [Slots -> LaneType]
              /\ flagged' \subseteq Pairs
<1> USE DEF TypeOK
<1>1. ASSUME NEW named \in BOOLEAN, Transaction(s, named)
      PROVE  boards' \in BOOLEAN
  BY <1>1, Zenon DEF Transaction, Catalogued
<1>2. ASSUME NEW named \in BOOLEAN, Transaction(s, named)
      PROVE  /\ stored' \subseteq Pairs
             /\ ingestions' \in [Pairs -> {"none", "RECEIVED", "HTTP_ERROR", "PROCESSED", "FAILED"}]
             /\ problems' \in [Pairs -> {"none", "open", "resolved"}]
  BY <1>2 DEF Transaction, Catalogued
<1>3. s[1] \in Procs
  BY DEF Slots
<1>4. ASSUME NEW issue \in BOOLEAN, EndStored(s, issue)
      PROVE  /\ proc' \in [Procs -> ProcType] /\ lane' \in [Slots -> LaneType]
             /\ flagged' \subseteq Pairs
  BY <1>3, <1>4, InitialValuesTyped DEF EndStored, ProcType
<1> QED BY <1>1, <1>2, <1>4

LEMMA BudgetsTyped ==
  ASSUME TypeOK
  PROVE  Fault \/ Miss => misses' \in 0..MaxMisses /\ faults' \in 0..MaxFaults
BY RunAssumption DEF TypeOK, Fault, Miss

LEMMA LeaveTyped ==
  ASSUME TypeOK, NEW p \in Procs, NEW ok \in BOOLEAN, Leave(p, ok)
  PROVE  proc' \in [Procs -> ProcType]
<1>1. proc \in [Procs -> ProcType]
  BY DEF TypeOK
<1>2. [Down EXCEPT !.pc = IF ok THEN "note" ELSE "regret", !.run = proc[p].run,
                   !.period = proc[p].period] \in ProcType
  BY <1>1, InitialValuesTyped DEF ProcType
<1> QED BY <1>1, <1>2, InitialValuesTyped DEF Leave

LEMMA TakingTyped ==
  ASSUME proc \in [Procs -> ProcType], NEW p \in Procs, proc[p].next \in 1..NumItems
  PROVE  /\ [proc EXCEPT ![p].next = @ + 1, ![p].requests = @ + 1] \in [Procs -> ProcType]
         /\ [Free EXCEPT !.pc = "fetch", !.item = proc[p].next] \in LaneType
<1>1. proc[p].next + 1 \in 1..(NumItems + 1) /\ proc[p].requests + 1 \in Nat
  BY RunAssumption DEF ProcType
<1>2. [proc[p] EXCEPT !.next = @ + 1, !.requests = @ + 1] \in ProcType
  BY <1>1 DEF ProcType
<1>3. [Free EXCEPT !.pc = "fetch", !.item = proc[p].next] \in LaneType
  <2>1. proc[p].next \in 0..NumItems /\ 0 \in 0..MaxRetries
    BY RunAssumption
  <2>2. [Free EXCEPT !.item = proc[p].next] \in LaneType
    BY <2>1, InitialValuesTyped DEF LaneType
  <2>3. [[Free EXCEPT !.item = proc[p].next] EXCEPT !.pc = "fetch"] \in LaneType
    BY <2>2 DEF LaneType, LanePcs
  <2> QED BY <2>3
<1> QED BY <1>2, <1>3

LEMMA LaneTyped ==
  ASSUME TypeOK, LoopInv, NEW s \in Slots, Lane(s)
  PROVE  TypeOK'
<1> USE DEF TypeOK
<1>1. /\ s[1] \in Procs
      /\ At(s, "free") \/ (proc[s[1]].pc = "collect" /\ Pair(s) \in Pairs
                          /\ lane[s].item \in Items /\ proc[s[1]].run \in RunIds)
  BY BusyLane DEF Slots, At
<1>2. CASE Take(s)
  <2>1. proc[s[1]].next \in 1..NumItems
    BY <1>2, WorkIsItems DEF Take, Items
  <2>2. proc' \in [Procs -> ProcType]
    BY <1>1, <1>2, <2>1, TakingTyped DEF Take
  <2>3. lane' \in [Slots -> LaneType]
    BY <1>1, <1>2, <2>1, TakingTyped DEF Take
  <2> QED BY <1>2, <2>2, <2>3 DEF Take, audit, budgets, history
<1>3. CASE Retry(s)
  <2>1. lane' \in [Slots -> LaneType]
    BY <1>3, RunAssumption DEF Retry, LaneType
  <2> QED BY <1>3, <2>1 DEF Retry, audit, budgets, history
<1>4. CASE NoAnswer(s)
  BY <1>4, UpdatesTyped, BudgetsTyped DEF NoAnswer, audit, history, LanePcs
<1>5. CASE Archive(s)
  BY <1>5, UpdatesTyped DEF Archive, budgets, history, LanePcs
<1>6. CASE ArchiveHttpError(s)
  BY <1>6, UpdatesTyped, BudgetsTyped DEF ArchiveHttpError, history, LanePcs
<1>7. CASE ArchiveFails(s)
  BY <1>7, UpdatesTyped, BudgetsTyped DEF ArchiveFails, history
<1>8. CASE Process(s)
  <2>1. PICK named \in BOOLEAN : Transaction(s, named)
    BY <1>8 DEF Process
  <2>2. /\ stored' \subseteq Pairs /\ boards' \in BOOLEAN
        /\ ingestions' \in [Pairs -> {"none", "RECEIVED", "HTTP_ERROR", "PROCESSED", "FAILED"}]
        /\ problems' \in [Pairs -> {"none", "open", "resolved"}]
    BY <1>1, <1>8, <2>1, TransactionTyped DEF At, Process
  <2>3. proc' \in [Procs -> ProcType] /\ lane' \in [Slots -> LaneType] /\ flagged' \subseteq Pairs
    BY <1>1, <1>8, TransactionTyped DEF At, Process
  <2> QED BY <1>8, <2>2, <2>3 DEF Process, budgets
<1>9. CASE ProcessPartial(s)
  <2>1. PICK named \in BOOLEAN : Transaction(s, named)
    BY <1>9 DEF ProcessPartial
  <2>2. /\ stored' \subseteq Pairs /\ boards' \in BOOLEAN
        /\ ingestions' \in [Pairs -> {"none", "RECEIVED", "HTTP_ERROR", "PROCESSED", "FAILED"}]
        /\ problems' \in [Pairs -> {"none", "open", "resolved"}]
    BY <1>1, <1>9, <2>1, TransactionTyped DEF At, ProcessPartial
  <2>3. proc' \in [Procs -> ProcType] /\ lane' \in [Slots -> LaneType] /\ flagged' \subseteq Pairs
    BY <1>1, <1>9, TransactionTyped DEF At, ProcessPartial
  <2>4. misses' \in 0..MaxMisses /\ faults' \in 0..MaxFaults
    BY <1>9, BudgetsTyped DEF ProcessPartial
  <2> QED BY <1>9, <2>2, <2>3, <2>4 DEF ProcessPartial
<1>10. CASE Reject(s)
  BY <1>10, UpdatesTyped, BudgetsTyped DEF Reject, audit, history, LanePcs
<1>11. CASE UnknownBoard(s)
  BY <1>11, UpdatesTyped DEF UnknownBoard, audit, budgets, history, LanePcs
<1>12. CASE CommitLost(s)
  <2>1. PICK named \in BOOLEAN : Transaction(s, named)
    BY <1>12 DEF CommitLost
  <2>2. /\ stored' \subseteq Pairs /\ boards' \in BOOLEAN
        /\ ingestions' \in [Pairs -> {"none", "RECEIVED", "HTTP_ERROR", "PROCESSED", "FAILED"}]
        /\ problems' \in [Pairs -> {"none", "open", "resolved"}]
    BY <1>1, <1>12, <2>1, TransactionTyped DEF At, CommitLost
  <2>3. lane' \in [Slots -> LaneType]
    BY <1>12, UpdatesTyped DEF CommitLost, LanePcs
  <2>4. misses' \in 0..MaxMisses /\ faults' \in 0..MaxFaults
    BY <1>12, BudgetsTyped DEF CommitLost
  <2>5. lost' \subseteq RunIds \X (0..NumItems)
    BY <1>1, <1>12, RunAssumption DEF CommitLost, At, Pair, Items
  <2> QED BY <1>12, <2>2, <2>3, <2>4, <2>5 DEF CommitLost
<1>13. CASE Audit(s)
  BY <1>13, UpdatesTyped DEF Audit, budgets, history, LanePcs
<1>14. CASE Problem(s)
  BY <1>14, UpdatesTyped DEF Problem, budgets, history
<1>15. CASE AuditFails(s)
  BY <1>15, UpdatesTyped, BudgetsTyped DEF AuditFails, audit, history
<1> QED
  BY <1>2, <1>3, <1>4, <1>5, <1>6, <1>7, <1>8, <1>9, <1>10, <1>11, <1>12, <1>13, <1>14, <1>15
     DEF Lane

\* A step of a lane takes an item, keeps its item or leaves it; of the processes
\* it changes only its own, and of that neither the program counter nor the run.
LaneStep(s) ==
  /\ \A t \in Slots \ {s} : lane'[t] = lane[t]
  /\ \A p \in Procs :
       proc'[p].pc = proc[p].pc /\ proc'[p].run = proc[p].run /\ (p # s[1] => proc'[p] = proc[p])
  /\ \/ /\ Take(s) /\ proc[s[1]].pc = "collect" /\ At(s, "free")
        /\ proc'[s[1]].next = proc[s[1]].next + 1
        /\ lane'[s].pc = "fetch" /\ lane'[s].item = proc[s[1]].next
     \/ /\ ~At(s, "free") /\ lane'[s].pc # "free" /\ lane'[s].item = lane[s].item
        /\ proc' = proc
     \/ ~At(s, "free") /\ lane'[s] = Free /\ proc'[s[1]].next = proc[s[1]].next

LEMMA LaneShape ==
  ASSUME TypeOK, LoopInv, NEW s \in Slots, Lane(s)
  PROVE  LaneStep(s)
<1> DEFINE Same == \A p \in Procs :
       proc'[p].pc = proc[p].pc /\ proc'[p].run = proc[p].run /\ (p # s[1] => proc'[p] = proc[p])
<1>1. /\ proc \in [Procs -> ProcType] /\ lane \in [Slots -> LaneType] /\ s[1] \in Procs
  BY DEF TypeOK, Slots
<1>2. CASE Take(s)
  <2>1. proc' = [proc EXCEPT ![s[1]].next = @ + 1, ![s[1]].requests = @ + 1]
    BY <1>2 DEF Take
  <2>2. Same /\ proc'[s[1]].next = proc[s[1]].next + 1
    BY <1>1, <2>1 DEF ProcType
  <2>3. /\ \A t \in Slots \ {s} : lane'[t] = lane[t]
        /\ lane'[s].pc = "fetch" /\ lane'[s].item = proc[s[1]].next
    BY <1>1, <1>2 DEF Take, Free
  <2> QED BY <1>2, <2>2, <2>3 DEF Take, LaneStep
<1>3. ASSUME ~At(s, "free"), EndFailed(s) \/ \E issue \in BOOLEAN : EndStored(s, issue)
      PROVE  /\ \A t \in Slots \ {s} : lane'[t] = lane[t]
             /\ Same /\ lane'[s] = Free /\ proc'[s[1]].next = proc[s[1]].next
  <2>1. lane' = [lane EXCEPT ![s] = Free]
    BY <1>3 DEF EndFailed, EndStored
  <2>2. CASE EndFailed(s)
    <3>1. proc' = [proc EXCEPT ![s[1]].errors = @ + 1]
      BY <2>2 DEF EndFailed
    <3> QED BY <1>1, <2>1, <3>1 DEF ProcType
  <2>3. ASSUME NEW issue \in BOOLEAN, EndStored(s, issue)
        PROVE  Same /\ proc'[s[1]].next = proc[s[1]].next
    <3>1. proc' = [proc EXCEPT ![s[1]].partial = IF issue THEN @ + 1 ELSE @]
      BY <2>3 DEF EndStored
    <3> QED BY <1>1, <3>1 DEF ProcType
  <2> QED BY <1>1, <1>3, <2>1, <2>2, <2>3
<1>4. ASSUME ~At(s, "free"), NEW pc \in LanePcs \ {"free"}, Goto(s, pc), proc' = proc
      PROVE  /\ \A t \in Slots \ {s} : lane'[t] = lane[t]
             /\ Same /\ lane'[s].pc # "free" /\ lane'[s].item = lane[s].item
  BY <1>1, <1>4 DEF Goto, LaneType
<1>5. CASE Retry(s)
  <2>1. lane' = [lane EXCEPT ![s].attempt = @ + 1] /\ proc' = proc /\ lane[s].pc = "fetch"
    BY <1>5 DEF Retry, At
  <2>2. lane'[s].pc = "fetch" /\ lane'[s].item = lane[s].item
    BY <1>1, <2>1 DEF LaneType
  <2>3. \A t \in Slots \ {s} : lane'[t] = lane[t]
    BY <1>1, <2>1
  <2> QED BY <2>1, <2>2, <2>3 DEF At, LaneStep
<1>6. CASE NoAnswer(s) \/ Archive(s) \/ ArchiveHttpError(s) \/ Reject(s) \/ UnknownBoard(s)
           \/ CommitLost(s) \/ Audit(s)
  <2>1. ~At(s, "free") /\ proc' = proc
    BY <1>6 DEF NoAnswer, Archive, ArchiveHttpError, Reject, UnknownBoard, CommitLost, Audit, At
  <2>2. Goto(s, "process") \/ Goto(s, "audit") \/ Goto(s, "problem")
    BY <1>6 DEF NoAnswer, Archive, ArchiveHttpError, Reject, UnknownBoard, CommitLost, Audit
  <2> QED BY <1>4, <2>1, <2>2 DEF LanePcs, LaneStep
<1>7. CASE ArchiveFails(s) \/ Process(s) \/ ProcessPartial(s) \/ Problem(s) \/ AuditFails(s)
  <2>1. ~At(s, "free")
    BY <1>7 DEF ArchiveFails, Process, ProcessPartial, Problem, AuditFails, At
  <2>2. EndFailed(s) \/ \E issue \in BOOLEAN : EndStored(s, issue)
    BY <1>7 DEF ArchiveFails, Process, ProcessPartial, Problem, AuditFails
  <2> QED BY <1>3, <2>1, <2>2 DEF LaneStep
<1> QED
  BY <1>2, <1>5, <1>6, <1>7 DEF Lane, LaneStep

LEMMA LaneLoop ==
  ASSUME TypeOK, LoopInv, NEW s \in Slots, Lane(s)
  PROVE  LoopInv'
<1>0. /\ \A u \in Slots \ {s} : lane'[u] = lane[u]
      /\ \A p \in Procs : proc'[p].pc = proc[p].pc /\ proc'[p].run = proc[p].run
  BY LaneShape DEF LaneStep
<1>1. \A p \in Procs : proc'[p].pc \in {"collect", "abort"} => proc'[p].run \in RunIds
  BY <1>0 DEF LoopInv
<1>2. ASSUME NEW t \in Slots, lane'[t].pc # "free"
      PROVE  proc'[t[1]].pc = "collect" /\ lane'[t].item \in 1..(proc'[t[1]].next - 1)
  <2>1. /\ s[1] \in Procs /\ t[1] \in Procs
        /\ proc[s[1]].next \in 1..(NumItems + 1) /\ proc[t[1]].next \in 1..(NumItems + 1)
    BY DEF TypeOK, Slots, ProcType
  <2>2. lane[t].pc # "free" => /\ proc[t[1]].pc = "collect"
                               /\ lane[t].item \in 1..(proc[t[1]].next - 1)
    BY DEF LoopInv
  <2>3. CASE t = s
    <3>1. Free.pc = "free"
      BY DEF Free
    <3>2. CASE proc[s[1]].pc = "collect" /\ proc'[s[1]].next = proc[s[1]].next + 1
                 /\ lane'[s].item = proc[s[1]].next
      BY <1>0, <2>1, <2>3, <3>2
    <3>3. CASE ~At(s, "free") /\ lane'[s].item = lane[s].item /\ proc' = proc
      BY <2>2, <2>3, <3>3 DEF At
    <3> QED BY <1>2, <2>3, <3>1, <3>2, <3>3, LaneShape DEF LaneStep
  <2>4. CASE t # s
    <3>1. lane'[t] = lane[t] /\ proc'[t[1]].pc = proc[t[1]].pc
      BY <1>0, <2>1, <2>4
    <3>2. proc'[t[1]] = proc[t[1]] \/ t[1] = s[1]
      BY <2>1, LaneShape DEF LaneStep
    <3>3. \/ proc'[s[1]].next = proc[s[1]].next + 1 \/ proc' = proc
          \/ proc'[s[1]].next = proc[s[1]].next
      BY LaneShape DEF LaneStep
    <3>4. proc'[t[1]].next = proc[t[1]].next \/ proc'[t[1]].next = proc[t[1]].next + 1
      BY <3>2, <3>3
    <3> QED BY <1>2, <2>1, <2>2, <3>1, <3>4
  <2> QED BY <2>3, <2>4
<1> QED BY <1>1, <1>2 DEF LoopInv

-----------------------------------------------------------------------------
(* The steps of a process. *)

Step(p) ==
  \/ p \in Pollers /\ StartCycle(p)
  \/ p \in Backfills /\ (StartBackfill(p) \/ Script(p))
  \/ Run(p) \/ Dies(p)

\* They leave the lanes of other processes alone, and their own only when none is
\* at work or the process dies; a run is entered by BeginRun alone.
LEMMA StepShape ==
  ASSUME TypeOK, LoopInv, NEW p \in Procs, Step(p)
  PROVE  /\ \A q \in Procs \ {p} : proc'[q] = proc[q]
         /\ \A s \in Slots : lane'[s] = lane[s] \/ (s[1] = p /\ lane'[s] = Free)
         /\ \A s \in Slots : s[1] = p => lane'[s].pc = "free"
         /\ proc'[p].pc = "collect" => BeginRun(p)
         /\ proc'[p].pc = "abort" => /\ proc[p].pc \in {"collect", "abort"}
                                     /\ proc'[p].run = proc[p].run
<1>1. proc \in [Procs -> ProcType] /\ lane \in [Slots -> LaneType]
  BY DEF TypeOK
<1>2. \A q \in Procs \ {p} : proc'[q] = proc[q]
  BY <1>1 DEF Step, Script, Run, StartCycle, StartBackfill, SkipPeriod, FindPeriod, MarkPeriod,
       NotePeriod, RegretPeriod, ScriptFails, BeginRun, BeginFails, Finalize, FinalizeFails, Abort,
       AbortFails, Dies, Leave
<1>3. Dies(p) \/ lane' = lane
  BY DEF Step, Script, Run, StartCycle, StartBackfill, SkipPeriod, FindPeriod, MarkPeriod,
       NotePeriod, RegretPeriod, ScriptFails, BeginRun, BeginFails, Finalize, FinalizeFails, Abort,
       AbortFails
<1>4. \A s \in Slots : lane'[s] = lane[s] \/ (s[1] = p /\ lane'[s] = Free)
  BY <1>1, <1>3 DEF Dies
<1>5. Dies(p) \/ proc[p].pc # "collect" \/ Ended(p)
  BY DEF Step, Script, Run, StartCycle, StartBackfill, SkipPeriod, FindPeriod, MarkPeriod,
       NotePeriod, RegretPeriod, ScriptFails, BeginRun, BeginFails, Finalize, FinalizeFails, Abort,
       AbortFails
<1>6. ASSUME NEW s \in Slots, s[1] = p
      PROVE  lane'[s].pc = "free"
  <2>1. CASE Dies(p)
    BY <1>1, <1>6, <2>1 DEF Dies, Free
  <2>2. CASE Ended(p) /\ lane' = lane
    BY <1>6, <2>2 DEF Ended, Slots
  <2>3. CASE proc[p].pc # "collect" /\ lane' = lane
    BY <1>6, <2>3 DEF LoopInv
  <2> QED BY <1>3, <1>5, <2>1, <2>2, <2>3
<1>7. /\ proc'[p].pc = "collect" => BeginRun(p)
      /\ proc'[p].pc = "abort" => /\ proc[p].pc \in {"collect", "abort"}
                                  /\ proc'[p].run = proc[p].run
  <2>1. ASSUME NEW ok \in BOOLEAN, Leave(p, ok)
        PROVE  proc'[p].pc \in {"down", "note", "regret"}
    BY <1>1, <2>1 DEF Leave, Down
  <2>2. CASE BeginFails(p) \/ Finalize(p) \/ Abort(p) \/ AbortFails(p)
    <3>1. \E ok \in BOOLEAN : Leave(p, ok)
      BY <2>2 DEF BeginFails, Finalize, Abort, AbortFails
    <3> QED BY <2>1, <3>1
  <2>3. CASE BeginRun(p)
    BY <1>1, <2>3 DEF BeginRun, ProcType
  <2>4. CASE FinalizeFails(p)
    BY <1>1, <2>4 DEF FinalizeFails, Ended, ProcType
  <2>5. CASE StartCycle(p) \/ StartBackfill(p) \/ FindPeriod(p) \/ MarkPeriod(p)
    BY <1>1, <2>5 DEF StartCycle, StartBackfill, FindPeriod, MarkPeriod, ProcType
  <2>6. CASE SkipPeriod(p) \/ NotePeriod(p) \/ RegretPeriod(p) \/ ScriptFails(p) \/ Dies(p)
    <3>1. proc'[p].pc \in {"down", "look", "regret"}
      <4>1. CASE SkipPeriod(p)
        BY <1>1, <4>1 DEF SkipPeriod, Down, ProcType
      <4>2. CASE NotePeriod(p)
        <5>1. [Down EXCEPT !.pc = "look", !.period = proc[p].period + 1].pc = "look"
          BY InitialValuesTyped DEF ProcType
        <5> QED BY <1>1, <4>2, <5>1 DEF NotePeriod, Down
      <4>4. CASE RegretPeriod(p) \/ Dies(p)
        BY <1>1, <4>4 DEF RegretPeriod, Dies, Down
      <4>3. CASE ScriptFails(p)
        BY <1>1, <4>3 DEF ScriptFails, Down, ProcType
      <4> QED BY <2>6, <4>1, <4>2, <4>3, <4>4
    <3> QED BY <3>1
  <2> QED BY <2>2, <2>3, <2>4, <2>5, <2>6 DEF Step, Run, Script
<1> QED BY <1>2, <1>4, <1>6, <1>7

LEMMA StepLoop ==
  ASSUME TypeOK, LoopInv, NEW p \in Procs, Step(p)
  PROVE  LoopInv'
<1>1. /\ \A q \in Procs \ {p} : proc'[q] = proc[q]
      /\ \A s \in Slots : lane'[s] = lane[s] \/ (s[1] = p /\ lane'[s] = Free)
      /\ \A s \in Slots : s[1] = p => lane'[s].pc = "free"
      /\ proc'[p].pc = "collect" => BeginRun(p)
      /\ proc'[p].pc = "abort" => proc[p].pc \in {"collect", "abort"} /\ proc'[p].run = proc[p].run
  BY StepShape
<1>2. BeginRun(p) => proc'[p].run \in RunIds
  BY DEF BeginRun, TypeOK, ProcType
<1>3. ASSUME NEW q \in Procs, proc'[q].pc \in {"collect", "abort"}
      PROVE  proc'[q].run \in RunIds
  BY <1>1, <1>2, <1>3 DEF LoopInv
<1>4. ASSUME NEW s \in Slots, lane'[s].pc # "free"
      PROVE  proc'[s[1]].pc = "collect" /\ lane'[s].item \in 1..(proc'[s[1]].next - 1)
  <2>1. s[1] # p /\ lane'[s] = lane[s] /\ s[1] \in Procs
    BY <1>1, <1>4 DEF Slots
  <2> QED BY <1>1, <1>4, <2>1 DEF LoopInv
<1> QED BY <1>3, <1>4 DEF LoopInv

LEMMA StepProcTyped ==
  ASSUME TypeOK, NEW p \in Procs, Step(p)
  PROVE  proc' \in [Procs -> ProcType]
<1>1. proc \in [Procs -> ProcType] /\ proc[p] \in ProcType
  BY DEF TypeOK
<1>2. ASSUME NEW v \in ProcType, proc' = [proc EXCEPT ![p] = v]
      PROVE  proc' \in [Procs -> ProcType]
  BY <1>1, <1>2
<1>3. CASE \E ok \in BOOLEAN : Leave(p, ok)
  BY <1>3, LeaveTyped
<1>4. CASE StartCycle(p) \/ FindPeriod(p) \/ MarkPeriod(p) \/ FinalizeFails(p)
  BY <1>1, <1>4 DEF StartCycle, FindPeriod, MarkPeriod, FinalizeFails, ProcType
<1>5. CASE StartBackfill(p)
  <2>1. [proc[p] EXCEPT !.pc = "look", !.period = 1] \in ProcType
    <3>1. 1 \in 0..NumPeriods
      BY RunAssumption
    <3> QED BY <1>1, <3>1 DEF ProcType
  <2> QED BY <1>1, <1>5, <2>1 DEF StartBackfill
<1>6. CASE BeginRun(p)
  <2>1. PICK r \in RunIds : proc' = [proc EXCEPT ![p].pc = "collect", ![p].run = r]
    BY <1>6 DEF BeginRun
  <2>2. [proc[p] EXCEPT !.pc = "collect", !.run = r] \in ProcType
    <3>1. r \in 0..MaxRuns
      BY RunAssumption DEF RunIds
    <3> QED BY <1>1, <3>1 DEF ProcType
  <2> QED BY <1>1, <2>1, <2>2
<1>7. CASE SkipPeriod(p) \/ NotePeriod(p)
  <2>1. proc[p].period # NumPeriods => proc[p].period + 1 \in 0..NumPeriods
    BY <1>1, RunAssumption DEF ProcType
  <2>2. proc[p].period # NumPeriods =>
          /\ [proc[p] EXCEPT !.period = @ + 1] \in ProcType
          /\ [Down EXCEPT !.pc = "look", !.period = proc[p].period + 1] \in ProcType
    BY <1>1, <2>1, InitialValuesTyped DEF ProcType
  <2>3. PICK v : v \in ProcType /\ proc' = [proc EXCEPT ![p] = v]
    <3>1. CASE SkipPeriod(p)
      <4>1. CASE proc[p].period = NumPeriods
        BY <3>1, <4>1, InitialValuesTyped DEF SkipPeriod
      <4>2. CASE proc[p].period # NumPeriods
        <5>1. proc' = [proc EXCEPT ![p] = [proc[p] EXCEPT !.period = @ + 1]]
          BY <1>1, <3>1, <4>2 DEF SkipPeriod
        <5> QED BY <2>2, <4>2, <5>1
      <4> QED BY <4>1, <4>2
    <3>2. CASE NotePeriod(p)
      BY <2>2, <3>2, InitialValuesTyped DEF NotePeriod
    <3> QED BY <1>7, <3>1, <3>2
  <2> QED BY <1>2, <2>3
<1>8. CASE RegretPeriod(p) \/ ScriptFails(p) \/ Dies(p)
  <2>1. [proc[p] EXCEPT !.pc = "regret"] \in ProcType
    BY <1>1 DEF ProcType
  <2> QED BY <1>1, <1>2, <1>8, <2>1, InitialValuesTyped DEF RegretPeriod, ScriptFails, Dies
<1>9. BeginFails(p) \/ Finalize(p) \/ Abort(p) \/ AbortFails(p) => \E ok \in BOOLEAN : Leave(p, ok)
  BY DEF BeginFails, Finalize, Abort, AbortFails
<1> QED BY <1>3, <1>4, <1>5, <1>6, <1>7, <1>8, <1>9 DEF Step, Script, Run

LEMMA AbortTyped ==
  ASSUME runs \in [RunIds -> RunType], NEW r,
         runs' = [runs EXCEPT ![r].status = "FAILED", ![r].errors = IF @ = 0 THEN 1 ELSE @]
  PROVE  runs' \in [RunIds -> RunType]
<1>1. CASE r \in RunIds
  <2>1. [runs[r] EXCEPT !.status = "FAILED", !.errors = IF @ = 0 THEN 1 ELSE @] \in RunType
    BY <1>1 DEF RunType, Statuses
  <2> QED BY <1>1, <2>1
<1>2. CASE r \notin RunIds
  BY <1>2
<1> QED BY <1>1, <1>2

LEMMA StepTyped ==
  ASSUME TypeOK, LoopInv, NEW p \in Procs, Step(p)
  PROVE  TypeOK'
<1> USE DEF TypeOK
<1>1. lane' \in [Slots -> LaneType]
  BY InitialValuesTyped DEF Step, Script, Run, StartCycle, StartBackfill, SkipPeriod, FindPeriod,
       MarkPeriod, NotePeriod, RegretPeriod, ScriptFails, BeginRun, BeginFails, Finalize,
       FinalizeFails, Abort, AbortFails, Dies
<1>2. misses' \in 0..MaxMisses /\ faults' \in 0..MaxFaults
  BY BudgetsTyped DEF Step, Script, Run, StartCycle, StartBackfill, SkipPeriod, FindPeriod,
       MarkPeriod, NotePeriod, RegretPeriod, ScriptFails, BeginRun, BeginFails, Finalize,
       FinalizeFails, Abort, AbortFails, Dies, budgets
<1>3. UNCHANGED <<ingestions, problems, stored, boards, flagged>>
  BY DEF Step, Script, Run, StartCycle, StartBackfill, SkipPeriod, FindPeriod,
       MarkPeriod, NotePeriod, RegretPeriod, ScriptFails, BeginRun, BeginFails, Finalize,
       FinalizeFails, Abort, AbortFails, Dies, audit, history
<1>4. lost' \subseteq RunIds \X (0..NumItems)
  <2>1. CASE FinalizeFails(p)
    <3>1. proc[p].run \in RunIds /\ 0 \in 0..NumItems
      BY <2>1, RunAssumption DEF FinalizeFails, Ended, LoopInv
    <3> QED BY <2>1, <3>1 DEF FinalizeFails
  <2>2. CASE ~FinalizeFails(p)
    BY <2>2 DEF Step, Script, Run, StartCycle, StartBackfill, SkipPeriod, FindPeriod,
       MarkPeriod, NotePeriod, RegretPeriod, ScriptFails, BeginRun, BeginFails, Finalize,
       Abort, AbortFails, Dies, history
  <2> QED BY <2>1, <2>2
<1>5. checkpoints' \in [Periods -> [status : Statuses \cup {"none"}, run : 0..MaxRuns]]
  <2>1. CASE MarkPeriod(p) \/ RegretPeriod(p)
    BY <2>1 DEF MarkPeriod, RegretPeriod, Statuses
  <2>2. CASE NotePeriod(p)
    BY <2>2 DEF NotePeriod, Statuses, ProcType
  <2>3. CASE ~(MarkPeriod(p) \/ RegretPeriod(p) \/ NotePeriod(p))
    BY <2>3 DEF Step, Script, Run, StartCycle, StartBackfill, SkipPeriod, FindPeriod,
       ScriptFails, BeginRun, BeginFails, Finalize, FinalizeFails, Abort, AbortFails, Dies
  <2> QED BY <2>1, <2>2, <2>3
<1>6. runs' \in [RunIds -> RunType]
  <2>1. CASE BeginRun(p)
    <3>1. [NoRun EXCEPT !.type = TypeOf(p), !.status = "RUNNING"] \in RunType
      BY InitialValuesTyped DEF RunType, TypeOf, Statuses
    <3> QED BY <2>1, <3>1 DEF BeginRun
  <2>2. CASE Finalize(p) \/ FinalizeFails(p)
    <3>1. Totals(p) \in RunType
      BY DEF Totals, RunType, TypeOf, RunStatus, Statuses, ProcType
    <3> QED BY <2>2, <3>1 DEF Finalize, FinalizeFails
  <2>3. CASE Abort(p)
    BY <2>3, AbortTyped DEF Abort
  <2>4. CASE ~(BeginRun(p) \/ Finalize(p) \/ FinalizeFails(p) \/ Abort(p))
    BY <2>4 DEF Step, Script, Run, StartCycle, StartBackfill, SkipPeriod, FindPeriod, MarkPeriod,
       NotePeriod, RegretPeriod, ScriptFails, BeginFails, AbortFails, Dies, audit
  <2> QED BY <2>1, <2>2, <2>3, <2>4
<1>7. proc' \in [Procs -> ProcType]
  BY StepProcTyped
<1> QED BY <1>1, <1>2, <1>3, <1>4, <1>5, <1>6, <1>7

\* A step of the system is one of a process or of a lane.
LEMMA NextSteps ==
  ASSUME Next
  PROVE  (\E p \in Procs : Step(p)) \/ (\E s \in Slots : Lane(s))
BY DEF Next, Step, Procs

LEMMA StutterTyped ==
  ASSUME TypeOK, LoopInv, UNCHANGED vars
  PROVE  TypeOK' /\ LoopInv'
<1>1. UNCHANGED <<runs, ingestions, problems, stored, boards, checkpoints, proc, lane, misses, faults,
                  flagged, lost>>
  BY DEF vars, audit, budgets, history
<1>2. TypeOK'
  BY <1>1 DEF TypeOK
<1> QED BY <1>1, <1>2 DEF LoopInv

\* The variables have their types in every reachable state, whatever fails: a process
\* that collects has a run, and a lane at work has an item its process has taken
\* (pipeline.ts, runIngestion; scripts/backfill.ts).
THEOREM RunTypeCorrect == Spec => [](TypeOK /\ LoopInv)
<1>1. Init => TypeOK /\ LoopInv
  BY TypeInit
<1>2. TypeOK /\ LoopInv /\ [Next]_vars => TypeOK' /\ LoopInv'
  BY NextSteps, StepTyped, StepLoop, LaneTyped, LaneLoop, StutterTyped
<1> QED BY <1>1, <1>2, PTL DEF Spec

-----------------------------------------------------------------------------
(* What an ingestion's row says of its rows. *)

Running(p) == proc[p].pc \in {"collect", "abort"}

\* Nothing has been stored for the pair, and nothing says so.
Fresh(x) == x \notin stored /\ ingestions[x] # "PROCESSED"

\* A run belongs to one process, an item of it to one lane.
OwnRun ==
  \A p \in Procs : Running(p) =>
    /\ runs[proc[p].run].status # "none"
    /\ \A q \in Procs \ {p} : Running(q) => proc[q].run # proc[p].run
OwnItem ==
  \A s, t \in Slots :
    s # t /\ s[1] = t[1] /\ lane[s].pc # "free" /\ lane[t].pc # "free" => lane[s].item # lane[t].item

\* What no lane has taken is fresh, and so is what a lane has not processed; what
\* the audit calls FAILED is not stored, as far as its process knows.
Untaken ==
  \A r \in RunIds, i \in Items :
    runs[r].status = "none" \/ (\E p \in Procs : proc[p].pc = "collect" /\ proc[p].run = r /\ i >= proc[p].next)
      => Fresh(<<r, i>>)
Unprocessed == \A s \in Slots : At(s, "fetch") \/ At(s, "process") => Fresh(Pair(s))
Unstored == \A s \in Slots : At(s, "audit") => Pair(s) \notin stored \ lost

OwnInv == OwnRun /\ OwnItem /\ Untaken /\ Unprocessed /\ Unstored

LEMMA OwnInit == Init => OwnInv /\ ProcessedMeansStored
BY DEF Init, OwnInv, OwnRun, OwnItem, Untaken, Unprocessed, Unstored, Running, Fresh, At, Down, Free,
       Pairs, ProcessedMeansStored

\* Two lanes at work never have the same pair.
LEMMA OwnPairs ==
  ASSUME TypeOK, LoopInv, OwnInv, NEW s \in Slots, NEW t \in Slots \ {s},
         lane[s].pc # "free", lane[t].pc # "free"
  PROVE  Pair(s) # Pair(t)
<1>1. /\ s[1] \in Procs /\ proc[s[1]].pc = "collect"
      /\ t[1] \in Procs /\ proc[t[1]].pc = "collect"
  BY BusyLane
<1>2. CASE s[1] = t[1]
  BY <1>2 DEF OwnInv, OwnItem, Pair
<1>3. CASE s[1] # t[1]
  BY <1>1, <1>3 DEF OwnInv, OwnRun, Running, Pair
<1> QED BY <1>2, <1>3

\* A lane at work changes what is known of its own pair only, and leaves it as its
\* new program counter says.
LaneEffect(s) ==
  /\ runs' = runs
  /\ \A x \in Pairs : x # Pair(s) =>
       /\ ingestions'[x] = ingestions[x]
       /\ x \in stored' <=> x \in stored
       /\ x \in lost' <=> x \in lost
  /\ ingestions'[Pair(s)] = "PROCESSED" => Pair(s) \in stored'
  /\ Pair(s) \in stored' \ lost' => ingestions'[Pair(s)] = "PROCESSED"
  /\ lane'[s].pc \in {"fetch", "process"} =>
       Pair(s) \notin stored' /\ ingestions'[Pair(s)] # "PROCESSED"
  /\ lane'[s].pc = "audit" => Pair(s) \notin stored' \ lost'

LEMMA LaneData ==
  ASSUME TypeOK, LoopInv, OwnInv, ProcessedMeansStored, NEW s \in Slots, Lane(s), ~At(s, "free")
  PROVE  LaneEffect(s)
<1>1. /\ Pair(s) \in Pairs
      /\ ingestions \in [Pairs -> {"none", "RECEIVED", "HTTP_ERROR", "PROCESSED", "FAILED"}]
      /\ lane \in [Slots -> LaneType] /\ Free.pc = "free"
  BY BusyLane DEF At, TypeOK, Free
<1>2. /\ ingestions[Pair(s)] = "PROCESSED" => Pair(s) \in stored
      /\ Pair(s) \in stored \ lost => ingestions[Pair(s)] = "PROCESSED"
  BY <1>1 DEF ProcessedMeansStored
<1>3. /\ At(s, "fetch") \/ At(s, "process") => Pair(s) \notin stored /\ ingestions[Pair(s)] # "PROCESSED"
      /\ At(s, "audit") => Pair(s) \notin stored \ lost
  BY DEF OwnInv, Unprocessed, Unstored, Fresh
<1>4. CASE Retry(s)
  <2>1. UNCHANGED <<runs, ingestions, stored, lost>> /\ At(s, "fetch")
    BY <1>4 DEF Retry, audit, history
  <2> QED BY <1>2, <1>3, <2>1 DEF LaneEffect, Pair
<1>5. CASE NoAnswer(s)
  <2>1. UNCHANGED <<runs, ingestions, stored, lost>> /\ lane'[s].pc = "problem"
    BY <1>1, <1>5 DEF NoAnswer, Goto, audit, history, LaneType
  <2> QED BY <1>2, <1>3, <2>1 DEF LaneEffect
<1>6. CASE Archive(s) \/ ArchiveHttpError(s) \/ ArchiveFails(s)
  <2>1. /\ UNCHANGED <<runs, stored, lost>> /\ At(s, "fetch")
        /\ UNCHANGED ingestions \/ Received(s, "RECEIVED") \/ Received(s, "HTTP_ERROR")
    BY <1>6 DEF Archive, ArchiveHttpError, ArchiveFails, history
  <2>2. lane'[s].pc # "audit"
    BY <1>1, <1>6 DEF Archive, ArchiveHttpError, ArchiveFails, Goto, EndFailed, LaneType
  <2>3. \A x \in Pairs : x # Pair(s) => ingestions'[x] = ingestions[x]
    BY <2>1 DEF Received, TypeOK
  <2>4. ingestions'[Pair(s)] # "PROCESSED"
    BY <1>1, <1>3, <2>1 DEF Received
  <2> QED BY <1>3, <2>1, <2>2, <2>3, <2>4 DEF LaneEffect
<1>7. CASE Process(s) \/ ProcessPartial(s)
  <2>1. PICK named \in BOOLEAN : Transaction(s, named)
    BY <1>7 DEF Process, ProcessPartial
  <2>2. lane'[s].pc = "free" /\ UNCHANGED <<runs, lost>>
    BY <1>1, <1>7 DEF Process, ProcessPartial, EndStored
  <2>3. stored' = stored \cup {Pair(s)} /\ ingestions' = [ingestions EXCEPT ![Pair(s)] = "PROCESSED"]
    BY <2>1 DEF Transaction
  <2> QED BY <1>1, <2>2, <2>3 DEF LaneEffect
<1>8. CASE CommitLost(s)
  <2>1. PICK named \in BOOLEAN : Transaction(s, named)
    BY <1>8 DEF CommitLost
  <2>2. lane'[s].pc = "audit" /\ runs' = runs /\ lost' = lost \cup {Pair(s)}
    BY <1>1, <1>8 DEF CommitLost, Goto, LaneType
  <2>3. stored' = stored \cup {Pair(s)} /\ ingestions' = [ingestions EXCEPT ![Pair(s)] = "PROCESSED"]
    BY <2>1 DEF Transaction
  <2> QED BY <1>1, <2>2, <2>3 DEF LaneEffect
<1>9. CASE Reject(s) \/ UnknownBoard(s)
  <2>1. UNCHANGED <<runs, ingestions, stored, lost>> /\ At(s, "process") /\ lane'[s].pc = "audit"
    BY <1>1, <1>9 DEF Reject, UnknownBoard, Goto, audit, history, LaneType
  <2> QED BY <1>2, <1>3, <2>1 DEF LaneEffect
<1>10. CASE Audit(s)
  <2>1. UNCHANGED <<runs, stored, lost>> /\ At(s, "audit") /\ lane'[s].pc = "problem"
    BY <1>1, <1>10 DEF Audit, Goto, history, LaneType
  <2>2. ingestions' = [ingestions EXCEPT ![Pair(s)] = "FAILED"]
    BY <1>10 DEF Audit
  <2> QED BY <1>1, <1>3, <2>1, <2>2 DEF LaneEffect
<1>11. CASE Problem(s) \/ AuditFails(s)
  <2>1. UNCHANGED <<runs, ingestions, stored, lost>> /\ lane'[s].pc = "free"
    BY <1>1, <1>11 DEF Problem, AuditFails, EndFailed, audit, history
  <2> QED BY <1>2, <2>1 DEF LaneEffect
<1> QED
  BY <1>4, <1>5, <1>6, <1>7, <1>8, <1>9, <1>10, <1>11 DEF Lane, Take, At

LEMMA LaneOwn ==
  ASSUME TypeOK, LoopInv, OwnInv, ProcessedMeansStored, NEW s \in Slots, Lane(s)
  PROVE  OwnInv' /\ ProcessedMeansStored'
<1>1. /\ s[1] \in Procs /\ proc[s[1]].next \in Nat /\ LaneStep(s)
      /\ \A p \in Procs : Running(p)' <=> Running(p)
  BY LaneShape DEF Slots, TypeOK, ProcType, LaneStep, Running
<1>2. runs' = runs
  <2>1. Take(s) => runs' = runs
    BY DEF Take, audit
  <2>2. ~At(s, "free") => runs' = runs
    BY LaneData DEF LaneEffect
  <2> QED BY <1>1, <2>1, <2>2 DEF LaneStep
<1>3. OwnRun'
  BY <1>1, <1>2 DEF LaneStep, OwnInv, OwnRun
<1>4. \A t \in Slots : t # s => lane'[t] = lane[t] /\ Pair(t)' = Pair(t)
  <2>1. \A t \in Slots : t # s => lane'[t] = lane[t]
    BY <1>1 DEF LaneStep
  <2>2. \A t \in Slots : proc'[t[1]].run = proc[t[1]].run
    BY <1>1 DEF LaneStep, Slots
  <2> QED BY <2>1, <2>2 DEF Pair
<1>5. CASE Take(s)
  <2>1. /\ proc[s[1]].pc = "collect" /\ proc'[s[1]].next = proc[s[1]].next + 1
        /\ lane'[s].pc = "fetch" /\ lane'[s].item = proc[s[1]].next
        /\ proc'[s[1]].run = proc[s[1]].run
        /\ \A p \in Procs : p # s[1] => proc'[p] = proc[p]
    BY <1>1, <1>5 DEF LaneStep, Take, At
  <2>2. /\ UNCHANGED <<runs, ingestions, stored, lost>>
        /\ \A x : Fresh(x)' <=> Fresh(x)
    BY <1>5 DEF Take, audit, history, Fresh
  <2>3. \A t \in Slots : t[1] = s[1] /\ lane[t].pc # "free" => lane[t].item # proc[s[1]].next
    BY <1>1 DEF LoopInv
  <2>4. OwnItem'
    BY <1>4, <2>1, <2>3 DEF OwnInv, OwnItem
  <2>5. Untaken'
    <3>1. \A p \in Procs : proc'[p].pc = "collect" /\ proc'[p].run = proc[p].run => proc[p].pc = "collect"
      BY <1>1 DEF LaneStep
    <3>2. \A p \in Procs, i \in Items : i >= proc'[p].next => i >= proc[p].next
      BY <1>1, <2>1 DEF Items
    <3>3. \A p \in Procs : proc'[p].run = proc[p].run
      BY <1>1 DEF LaneStep
    <3> QED BY <2>2, <3>1, <3>2, <3>3 DEF OwnInv, Untaken
  <2>6. Fresh(Pair(s)')
    <3>1. proc[s[1]].next \in Items
      BY <1>5, WorkIsItems DEF Take
    <3>2. proc[s[1]].run \in RunIds
      BY <1>1, <2>1 DEF LoopInv
    <3>3. Fresh(<<proc[s[1]].run, proc[s[1]].next>>)
      BY <1>1, <2>1, <3>1, <3>2 DEF OwnInv, Untaken, Items
    <3> QED BY <2>1, <3>3 DEF Pair
  <2>7. Unprocessed'
    BY <1>4, <2>2, <2>6 DEF OwnInv, Unprocessed, At
  <2>8. Unstored'
    BY <1>4, <2>1, <2>2 DEF OwnInv, Unstored, At
  <2>9. ProcessedMeansStored'
    BY <2>2 DEF ProcessedMeansStored
  <2> QED BY <1>3, <2>4, <2>5, <2>7, <2>8, <2>9 DEF OwnInv
<1>6. CASE ~At(s, "free")
  <2>1. LaneEffect(s)
    BY <1>6, LaneData
  <2>2. Pair(s) \in Pairs /\ lane[s].item \in 1..(proc[s[1]].next - 1) /\ proc[s[1]].pc = "collect"
    BY <1>6, BusyLane DEF LoopInv, At
  <2>3. /\ proc'[s[1]].next = proc[s[1]].next
        /\ lane'[s].pc # "free" => lane'[s].item = lane[s].item
    BY <1>1, <1>6 DEF LaneStep, Free
  <2>4. OwnItem'
    BY <1>4, <1>6, <2>3 DEF OwnInv, OwnItem, At
  <2>5. \A p \in Procs : /\ proc'[p].pc = proc[p].pc /\ proc'[p].run = proc[p].run
                         /\ proc'[p].next = proc[p].next
    BY <1>1, <2>3 DEF LaneStep
  <2>6. Untaken'
    <3>1. SUFFICES ASSUME NEW r \in RunIds, NEW i \in Items,
                          \/ runs[r].status = "none"
                          \/ \E p \in Procs : proc[p].pc = "collect" /\ proc[p].run = r /\ i >= proc[p].next
                   PROVE  Fresh(<<r, i>>)'
      BY <1>2, <2>5 DEF Untaken
    <3>2. Fresh(<<r, i>>)
      BY <3>1 DEF OwnInv, Untaken
    <3>3. <<r, i>> # Pair(s)
      <4>1. CASE runs[r].status = "none"
        BY <1>1, <2>2, <4>1 DEF OwnInv, OwnRun, Running, Pair
      <4>2. CASE \E p \in Procs : proc[p].pc = "collect" /\ proc[p].run = r /\ i >= proc[p].next
        <5>1. PICK p \in Procs : proc[p].pc = "collect" /\ proc[p].run = r /\ i >= proc[p].next
          BY <4>2
        <5>2. CASE p = s[1]
          BY <1>1, <2>2, <5>1, <5>2 DEF Pair, Items
        <5>3. CASE p # s[1]
          BY <1>1, <2>2, <5>1, <5>3 DEF OwnInv, OwnRun, Running, Pair
        <5> QED BY <5>2, <5>3
      <4> QED BY <3>1, <4>1, <4>2
    <3> QED BY <2>1, <3>2, <3>3 DEF LaneEffect, Fresh, Pairs
  <2>7. \A t \in Slots : t # s /\ lane[t].pc # "free" => Pair(t) # Pair(s) /\ Pair(t) \in Pairs
    BY <1>6, OwnPairs, BusyLane DEF At
  <2>8. lane'[s].pc # "free" => Pair(s)' = Pair(s)
    BY <1>1, <2>3, <2>5 DEF Pair
  <2>9. Unprocessed'
    <3>1. SUFFICES ASSUME NEW t \in Slots, lane'[t].pc = "fetch" \/ lane'[t].pc = "process"
                   PROVE  Pair(t)' \notin stored' /\ ingestions'[Pair(t)'] # "PROCESSED"
      BY DEF Unprocessed, At, Fresh
    <3>2. CASE t = s
      BY <2>1, <2>8, <3>1, <3>2 DEF LaneEffect
    <3>3. CASE t # s
      BY <1>4, <2>1, <2>7, <3>1, <3>3 DEF LaneEffect, OwnInv, Unprocessed, At, Fresh
    <3> QED BY <3>2, <3>3
  <2>10. Unstored'
    <3>1. SUFFICES ASSUME NEW t \in Slots, lane'[t].pc = "audit"
                   PROVE  Pair(t)' \notin stored' \ lost'
      BY DEF Unstored, At
    <3>2. CASE t = s
      BY <2>1, <2>8, <3>1, <3>2 DEF LaneEffect
    <3>3. CASE t # s
      BY <1>4, <2>1, <2>7, <3>1, <3>3 DEF LaneEffect, OwnInv, Unstored, At
    <3> QED BY <3>2, <3>3
  <2>11. ProcessedMeansStored'
    BY <2>1, <2>2 DEF LaneEffect, ProcessedMeansStored
  <2> QED BY <1>3, <2>4, <2>6, <2>9, <2>10, <2>11 DEF OwnInv
<1> QED BY <1>1, <1>5, <1>6 DEF LaneStep

LEMMA StepOwn ==
  ASSUME TypeOK, LoopInv, OwnInv, ProcessedMeansStored, NEW p \in Procs, Step(p)
  PROVE  OwnInv' /\ ProcessedMeansStored'
<1>1. /\ \A q \in Procs \ {p} : proc'[q] = proc[q]
      /\ \A s \in Slots : lane'[s] = lane[s] \/ (s[1] = p /\ lane'[s] = Free)
      /\ \A s \in Slots : s[1] = p => lane'[s].pc = "free"
      /\ proc'[p].pc = "collect" => BeginRun(p)
      /\ proc'[p].pc = "abort" => proc[p].pc \in {"collect", "abort"} /\ proc'[p].run = proc[p].run
  BY StepShape
<1>2. /\ UNCHANGED <<ingestions, stored>> /\ lost \subseteq lost'
      /\ \A x : Fresh(x) => Fresh(x)'
  BY DEF Step, Script, Run, StartCycle, StartBackfill, SkipPeriod, FindPeriod, MarkPeriod,
     NotePeriod, RegretPeriod, ScriptFails, BeginRun, BeginFails, Finalize, FinalizeFails, Abort,
     AbortFails, Dies, audit, history, Fresh
<1>3. \A r \in RunIds : runs[r].status # "none" => runs'[r].status # "none"
  <2>1. runs \in [RunIds -> RunType]
    BY DEF TypeOK
  <2>2. CASE BeginRun(p)
    BY <2>1, <2>2 DEF BeginRun, RunType, NoRun
  <2>3. CASE Finalize(p) \/ FinalizeFails(p)
    <3>1. Totals(p).status # "none"
      BY DEF Totals, RunStatus
    <3> QED BY <2>1, <2>3, <3>1 DEF Finalize, FinalizeFails
  <2>4. CASE Abort(p)
    BY <2>1, <2>4 DEF Abort, RunType
  <2>5. CASE ~(BeginRun(p) \/ Finalize(p) \/ FinalizeFails(p) \/ Abort(p))
    BY <2>5 DEF Step, Script, Run, StartCycle, StartBackfill, SkipPeriod, FindPeriod, MarkPeriod,
       NotePeriod, RegretPeriod, ScriptFails, BeginFails, AbortFails, Dies, audit
  <2> QED BY <2>2, <2>3, <2>4, <2>5
<1>4. BeginRun(p) => /\ proc'[p].run \in RunIds /\ runs[proc'[p].run].status = "none"
                     /\ runs'[proc'[p].run].status = "RUNNING"
  BY DEF BeginRun, TypeOK, ProcType, RunType, NoRun
<1>5. OwnRun'
  <2>1. \A q \in Procs : Running(q) => proc[q].run \in RunIds /\ runs[proc[q].run].status # "none"
    BY DEF Running, LoopInv, OwnInv, OwnRun
  <2>2. \A q \in Procs \ {p} : Running(q)' <=> Running(q)
    BY <1>1 DEF Running
  <2>3. Running(p)' => BeginRun(p) \/ (Running(p) /\ proc'[p].run = proc[p].run)
    BY <1>1 DEF Running
  <2>4. \A q \in Procs : Running(q)' => runs'[proc'[q].run].status # "none"
    BY <1>1, <1>3, <1>4, <2>1, <2>2, <2>3
  <2>5. \A q \in Procs \ {p} : Running(q)' /\ Running(p)' => proc'[q].run # proc'[p].run
    BY <1>1, <1>4, <2>1, <2>2, <2>3 DEF OwnInv, OwnRun
  <2> QED BY <1>1, <2>2, <2>4, <2>5 DEF OwnInv, OwnRun
<1>6. OwnItem'
  BY <1>1 DEF OwnInv, OwnItem, Slots
<1>7. Untaken'
  <2>1. SUFFICES ASSUME NEW r \in RunIds, NEW i \in Items,
                        \/ runs'[r].status = "none"
                        \/ \E q \in Procs : proc'[q].pc = "collect" /\ proc'[q].run = r /\ i >= proc'[q].next
                 PROVE  Fresh(<<r, i>>)
    BY <1>2 DEF Untaken
  <2>2. CASE runs'[r].status = "none"
    BY <1>3, <2>2 DEF OwnInv, Untaken
  <2>3. CASE \E q \in Procs : proc'[q].pc = "collect" /\ proc'[q].run = r /\ i >= proc'[q].next
    <3>1. PICK q \in Procs : proc'[q].pc = "collect" /\ proc'[q].run = r /\ i >= proc'[q].next
      BY <2>3
    <3>2. CASE q = p
      BY <1>1, <1>4, <3>1, <3>2 DEF OwnInv, Untaken
    <3>3. CASE q # p
      BY <1>1, <3>1, <3>3 DEF OwnInv, Untaken
    <3> QED BY <3>2, <3>3
  <2> QED BY <2>1, <2>2, <2>3
<1>8. ASSUME NEW s \in Slots, lane'[s].pc # "free"
      PROVE  lane'[s] = lane[s] /\ Pair(s)' = Pair(s)
  BY <1>1, <1>8 DEF Pair, Slots
<1>9. Unprocessed' /\ Unstored'
  BY <1>2, <1>8 DEF OwnInv, Unprocessed, Unstored, At
<1>10. ProcessedMeansStored'
  BY <1>2 DEF ProcessedMeansStored
<1> QED BY <1>5, <1>6, <1>7, <1>9, <1>10 DEF OwnInv

LEMMA StutterOwn ==
  ASSUME OwnInv, ProcessedMeansStored, UNCHANGED vars
  PROVE  OwnInv' /\ ProcessedMeansStored'
<1>1. UNCHANGED <<runs, ingestions, stored, proc, lane, lost>>
  BY DEF vars, audit, history
<1>2. OwnInv'
  BY <1>1 DEF OwnInv, OwnRun, OwnItem, Untaken, Unprocessed, Unstored, Running, Fresh, At, Pair
<1> QED BY <1>1, <1>2 DEF ProcessedMeansStored

\* An ingestion says PROCESSED exactly when its normalized rows are there, unless a
\* COMMIT took effect unseen: for any number of workers, backfills and lanes
\* (pipeline.ts, archiveAndProcess and the audit in its catch).
THEOREM RowsAreAsRecorded == Spec => []ProcessedMeansStored
<1>1. Init => TypeOK /\ LoopInv /\ OwnInv /\ ProcessedMeansStored
  BY TypeInit, OwnInit
<1>2. TypeOK /\ LoopInv /\ OwnInv /\ ProcessedMeansStored /\ [Next]_vars
        => TypeOK' /\ LoopInv' /\ OwnInv' /\ ProcessedMeansStored'
  <2>1. ASSUME TypeOK, LoopInv, OwnInv, ProcessedMeansStored, Next
        PROVE  TypeOK' /\ LoopInv' /\ OwnInv' /\ ProcessedMeansStored'
    BY <2>1, NextSteps, StepTyped, StepLoop, StepOwn, LaneTyped, LaneLoop, LaneOwn
  <2> QED BY <2>1, StutterTyped, StutterOwn
<1> QED BY <1>1, <1>2, PTL DEF Spec

-----------------------------------------------------------------------------
(* The books of a run: its counters, its rows and its checkpoints. *)

\* The items a process has behind it, those of them that are not stored as far as it
\* knows, those without an error row, and those left as RECEIVED.
Known(r, i) == <<r, i>> \in stored \ lost
Done(p) ==
  {i \in 1..(proc[p].next - 1) :
     \A l \in Lanes : lane[<<p, l>>].pc # "free" => lane[<<p, l>>].item # i}
Missed(p) == {i \in Done(p) : ~Known(proc[p].run, i)}
Untraced(p) == {i \in Missed(p) : problems[<<proc[p].run, i>>] = "none"}
Unread(p) == {i \in Done(p) : ingestions[<<proc[p].run, i>>] = "RECEIVED"}

\* What is known of a pair before, while and after a lane works on it.
Blank ==
  \A r \in RunIds, i \in Items :
    runs[r].status = "none" \/ (\E p \in Procs : proc[p].pc = "collect" /\ proc[p].run = r /\ i >= proc[p].next)
      => ingestions[<<r, i>>] = "none"
InHand ==
  \A s \in Slots :
    /\ ~At(s, "free") => Pair(s) \notin stored \ lost
    /\ At(s, "fetch") => ingestions[Pair(s)] = "none"
    /\ At(s, "problem") => ingestions[Pair(s)] # "RECEIVED"
Sound ==
  /\ flagged \subseteq stored \ lost
  /\ \A x \in Pairs : x \in lost => x \in stored

\* A process without a run has counted nothing...
Idle ==
  \A p \in Procs : ~Running(p) =>
    proc[p].next = 1 /\ proc[p].requests = 0 /\ proc[p].errors = 0 /\ proc[p].partial = 0

\* ...and one with a run has counted what the database shows of it.
Kept(p) ==
  /\ runs[proc[p].run].type = TypeOf(p)
  /\ proc[p].next - 1 \in Work(TypeOf(p)) \cup {0}
  /\ proc[p].requests = proc[p].next - 1
  /\ proc[p].errors = Cardinality(Missed(p))
  /\ proc[p].partial > 0 <=> \E i \in Items : <<proc[p].run, i>> \in flagged
  /\ Cardinality(Untraced(p)) <= faults
  /\ Cardinality(Unread(p)) <= faults
  /\ proc[p].pc = "collect" => runs[proc[p].run].status = "RUNNING"
  /\ proc[p].pc = "abort" => Aborted(proc[p].run) /\ proc[p].next \notin Work(TypeOf(p))
Books == \A p \in Procs : Running(p) => Kept(p)

\* A run that a checkpoint names, or is about to, is out of every process's hands.
Settled(r) ==
  /\ r \in RunIds /\ runs[r].status \in {"SUCCEEDED", "PARTIAL"}
  /\ \A q \in Procs : Running(q) => proc[q].run # r
Noted ==
  /\ \A p \in Procs : proc[p].pc = "note" => Settled(proc[p].run)
  /\ \A k \in Periods : checkpoints[k].status = "SUCCEEDED" => Settled(checkpoints[k].run)

\* What the reports say of one run.
Flawless(r) == {i \in Good(r) : <<r, i>> \notin flagged}
Silent(r) == {i \in ItemsOf(r) \ Good(r) : problems[<<r, i>>] = "none"}
Left(r) == {i \in ItemsOf(r) : ingestions[<<r, i>>] = "RECEIVED"}
Report(r) ==
  Finished(r) =>
    /\ runs[r].status = "SUCCEEDED" => Flawless(r) = ItemsOf(r)
    /\ runs[r].status = "PARTIAL" => Flawless(r) # ItemsOf(r) /\ Good(r) # {}
    /\ runs[r].status = "FAILED" => Good(r) = {} \/ Aborted(r)
    /\ ~Aborted(r) => /\ runs[r].requests = Cardinality(ItemsOf(r))
                      /\ runs[r].errors = Cardinality(ItemsOf(r) \ Good(r))
    /\ Cardinality(Silent(r)) <= faults
    /\ Cardinality(Left(r)) <= faults

Reports == \A r \in RunIds : Report(r)

BookInv == Blank /\ InHand /\ Sound /\ Idle /\ Books /\ Noted /\ Reports

\* A lane at work touches its own pair alone.  Its item stays in hand, is stored, or
\* is counted as an error that has its row unless a statement failed.
GoesOn(s) ==
  /\ lane'[s].pc # "free" /\ proc' = proc
  /\ Pair(s) \notin stored' \ lost' /\ Pair(s) \notin flagged'
  /\ lane'[s].pc = "fetch" => ingestions'[Pair(s)] = "none"
  /\ lane'[s].pc = "problem" => ingestions'[Pair(s)] # "RECEIVED"
EndsStored(s) ==
  /\ lane'[s].pc = "free"
  /\ Pair(s) \in stored' \ lost' /\ ingestions'[Pair(s)] = "PROCESSED"
  /\ proc'[s[1]].errors = proc[s[1]].errors
  /\ proc'[s[1]].partial > 0 <=> proc[s[1]].partial > 0 \/ Pair(s) \in flagged'
EndsFailed(s) ==
  /\ lane'[s].pc = "free"
  /\ Pair(s) \notin stored' \ lost' /\ Pair(s) \notin flagged'
  /\ proc'[s[1]].errors = proc[s[1]].errors + 1
  /\ proc'[s[1]].partial = proc[s[1]].partial
  /\ faults' = faults + 1 \/ (problems'[Pair(s)] # "none" /\ ingestions'[Pair(s)] # "RECEIVED")

Elsewhere(s) ==
  \A x \in Pairs : x # Pair(s) =>
    /\ ingestions'[x] = ingestions[x]
    /\ x \in stored' <=> x \in stored
    /\ x \in lost' <=> x \in lost
    /\ x \in flagged' <=> x \in flagged
    /\ problems'[x] = "none" <=> problems[x] = "none"

BookEffect(s) ==
  /\ UNCHANGED <<runs, checkpoints>>
  /\ Elsewhere(s)
  /\ flagged' \subseteq flagged \cup {Pair(s)}
  /\ lost' = lost \/ (lost' = lost \cup {Pair(s)} /\ Pair(s) \in stored')
  /\ stored \subseteq stored'
  /\ faults' >= faults
  /\ proc'[s[1]].requests = proc[s[1]].requests
  /\ GoesOn(s) \/ EndsStored(s) \/ EndsFailed(s)

LEMMA LaneBooks ==
  ASSUME TypeOK, LoopInv, OwnInv, InHand, Sound, NEW s \in Slots, Lane(s), ~At(s, "free")
  PROVE  BookEffect(s)
<1> DEFINE x == Pair(s)
<1>1. /\ x \in Pairs /\ s[1] \in Procs
      /\ ingestions \in [Pairs -> {"none", "RECEIVED", "HTTP_ERROR", "PROCESSED", "FAILED"}]
      /\ problems \in [Pairs -> {"none", "open", "resolved"}]
      /\ lane \in [Slots -> LaneType] /\ proc \in [Procs -> ProcType] /\ Free.pc = "free"
      /\ faults \in Nat
  BY BusyLane, RunAssumption DEF At, TypeOK, Free
<1>2. /\ x \notin stored \ lost /\ x \notin flagged
      /\ At(s, "fetch") => ingestions[x] = "none"
      /\ At(s, "problem") => ingestions[x] # "RECEIVED"
  BY <1>1 DEF InHand, Sound
<1>3. At(s, "process") => x \notin stored /\ x \notin lost
  BY <1>1 DEF OwnInv, Unprocessed, Fresh, Sound
<1>4. CASE Retry(s)
  <2>1. /\ UNCHANGED <<runs, ingestions, problems, stored, lost, flagged, faults, proc, checkpoints>>
        /\ At(s, "fetch") /\ lane'[s].pc = "fetch"
    BY <1>1, <1>4 DEF Retry, audit, history, budgets, At, LaneType
  <2>2. GoesOn(s)
    BY <1>2, <2>1 DEF GoesOn
  <2> QED BY <1>1, <2>1, <2>2 DEF BookEffect, Elsewhere
<1>5. CASE NoAnswer(s) \/ Reject(s) \/ UnknownBoard(s)
  <2>1. /\ UNCHANGED <<runs, ingestions, problems, stored, lost, flagged, faults, proc, checkpoints>>
        /\ lane'[s].pc = "audit" \/ (lane'[s].pc = "problem" /\ At(s, "fetch"))
    BY <1>1, <1>5 DEF NoAnswer, Reject, UnknownBoard, Goto, Miss, audit, history, budgets, LaneType
  <2>2. GoesOn(s)
    BY <1>2, <2>1 DEF GoesOn
  <2> QED BY <1>1, <2>1, <2>2 DEF BookEffect, Elsewhere
<1>6. CASE Archive(s) \/ ArchiveHttpError(s)
  <2>1. /\ UNCHANGED <<runs, problems, stored, lost, flagged, faults, proc, checkpoints>>
        /\ \/ Received(s, "RECEIVED") /\ lane'[s].pc = "process"
           \/ Received(s, "HTTP_ERROR") /\ lane'[s].pc = "problem"
    BY <1>1, <1>6 DEF Archive, ArchiveHttpError, Goto, Miss, history, budgets, LaneType
  <2>2. \/ ingestions' = [ingestions EXCEPT ![x] = "RECEIVED"] /\ lane'[s].pc = "process"
        \/ ingestions' = [ingestions EXCEPT ![x] = "HTTP_ERROR"] /\ lane'[s].pc = "problem"
    BY <2>1 DEF Received
  <2>3. GoesOn(s)
    BY <1>1, <1>2, <2>1, <2>2 DEF GoesOn
  <2> QED BY <1>1, <2>1, <2>2, <2>3 DEF BookEffect, Elsewhere
<1>7. CASE ArchiveFails(s) \/ AuditFails(s)
  <2>1. /\ UNCHANGED <<runs, problems, stored, lost, flagged, checkpoints>>
        /\ ingestions' = ingestions \/ ingestions' = [ingestions EXCEPT ![x] = "RECEIVED"]
        /\ faults' = faults + 1 /\ EndFailed(s)
    BY <1>7 DEF ArchiveFails, AuditFails, Received, Fault, audit, history
  <2>2. /\ lane'[s].pc = "free" /\ proc'[s[1]].errors = proc[s[1]].errors + 1
        /\ proc'[s[1]].partial = proc[s[1]].partial /\ proc'[s[1]].requests = proc[s[1]].requests
    BY <1>1, <2>1 DEF EndFailed, ProcType
  <2>3. EndsFailed(s)
    BY <1>2, <2>1, <2>2 DEF EndsFailed
  <2>4. Elsewhere(s)
    BY <1>1, <2>1 DEF Elsewhere
  <2> QED BY <1>1, <2>1, <2>2, <2>3, <2>4 DEF BookEffect
<1>8. CASE Process(s) \/ ProcessPartial(s)
  <2>1. PICK named \in BOOLEAN, issue \in BOOLEAN :
          /\ Transaction(s, named) /\ EndStored(s, issue)
          /\ UNCHANGED <<runs, checkpoints, lost, faults>> /\ At(s, "process")
    BY <1>8 DEF Process, ProcessPartial, Miss, budgets
  <2>2. /\ stored' = stored \cup {x} /\ ingestions' = [ingestions EXCEPT ![x] = "PROCESSED"]
        /\ \A y \in Pairs : problems'[y] = "none" <=> problems[y] = "none"
    BY <1>1, <2>1 DEF Transaction
  <2>3. /\ lane'[s].pc = "free" /\ proc'[s[1]].errors = proc[s[1]].errors
        /\ proc'[s[1]].partial = IF issue THEN proc[s[1]].partial + 1 ELSE proc[s[1]].partial
        /\ flagged' = IF issue THEN flagged \cup {x} ELSE flagged
        /\ proc'[s[1]].requests = proc[s[1]].requests
    BY <1>1, <2>1 DEF EndStored, ProcType
  <2>4. proc[s[1]].partial \in Nat
    BY <1>1 DEF ProcType
  <2>5. EndsStored(s)
    BY <1>1, <1>2, <1>3, <2>1, <2>2, <2>3, <2>4 DEF EndsStored
  <2>6. Elsewhere(s)
    BY <1>1, <2>1, <2>2, <2>3 DEF Elsewhere
  <2> QED BY <1>1, <2>1, <2>2, <2>3, <2>5, <2>6 DEF BookEffect
<1>9. CASE CommitLost(s)
  <2>1. PICK named \in BOOLEAN : Transaction(s, named)
    BY <1>9 DEF CommitLost
  <2>2. /\ stored' = stored \cup {x} /\ ingestions' = [ingestions EXCEPT ![x] = "PROCESSED"]
        /\ \A y \in Pairs : problems'[y] = "none" <=> problems[y] = "none"
    BY <1>1, <2>1 DEF Transaction
  <2>3. /\ UNCHANGED <<runs, checkpoints, proc, flagged>> /\ lost' = lost \cup {x}
        /\ lane'[s].pc = "audit" /\ faults' = faults + 1
    BY <1>1, <1>9 DEF CommitLost, Goto, Fault, LaneType
  <2>4. GoesOn(s)
    BY <1>2, <2>2, <2>3 DEF GoesOn
  <2> QED BY <1>1, <2>2, <2>3, <2>4 DEF BookEffect, Elsewhere
<1>10. CASE Audit(s)
  <2>1. /\ UNCHANGED <<runs, problems, stored, lost, flagged, faults, proc, checkpoints>>
        /\ ingestions' = [ingestions EXCEPT ![x] = "FAILED"] /\ lane'[s].pc = "problem"
    BY <1>1, <1>10 DEF Audit, Goto, history, budgets, LaneType
  <2>2. GoesOn(s)
    BY <1>1, <1>2, <2>1 DEF GoesOn
  <2> QED BY <1>1, <2>1, <2>2 DEF BookEffect, Elsewhere
<1>11. CASE Problem(s)
  <2>1. /\ UNCHANGED <<runs, ingestions, stored, lost, flagged, faults, checkpoints>>
        /\ problems' = [problems EXCEPT ![x] = "open"] /\ EndFailed(s) /\ At(s, "problem")
    BY <1>11 DEF Problem, history, budgets
  <2>2. /\ lane'[s].pc = "free" /\ proc'[s[1]].errors = proc[s[1]].errors + 1
        /\ proc'[s[1]].partial = proc[s[1]].partial /\ proc'[s[1]].requests = proc[s[1]].requests
    BY <1>1, <2>1 DEF EndFailed, ProcType
  <2>3. EndsFailed(s)
    BY <1>1, <1>2, <2>1, <2>2 DEF EndsFailed
  <2> QED BY <1>1, <2>1, <2>2, <2>3 DEF BookEffect, Elsewhere
<1> QED
  BY <1>4, <1>5, <1>6, <1>7, <1>8, <1>9, <1>10, <1>11 DEF Lane, Take, At

\* Counting what a process has behind it.
LEMMA Countable ==
  ASSUME TypeOK, NEW p \in Procs
  PROVE  /\ Done(p) \subseteq Items /\ Untraced(p) \subseteq Missed(p)
         /\ \A S \in SUBSET Done(p) : IsFiniteSet(S) /\ Cardinality(S) \in Nat
<1>1. proc[p].next \in 1..(NumItems + 1)
  BY DEF TypeOK, ProcType
<1>2. Done(p) \subseteq Items
  BY <1>1, RunAssumption DEF Done, Items
<1>3. IsFiniteSet(Items)
  BY RunAssumption, FS_Interval DEF Items
<1>4. ASSUME NEW S \in SUBSET Done(p)
      PROVE  IsFiniteSet(S) /\ Cardinality(S) \in Nat
  <2>1. IsFiniteSet(S)
    BY <1>2, <1>3, FS_Subset
  <2> QED BY <2>1, FS_CardinalityType
<1>5. Untraced(p) \subseteq Missed(p)
  BY DEF Untraced
<1> QED BY <1>2, <1>4, <1>5

LEMMA CountOneMore ==
  ASSUME NEW S, NEW T, NEW x, IsFiniteSet(S), NEW n \in Nat, Cardinality(S) \in Nat
  PROVE  /\ T = S \cup {x} /\ x \notin S => Cardinality(T) = Cardinality(S) + 1
         /\ T \subseteq S \cup {x} /\ Cardinality(S) <= n => Cardinality(T) <= n + 1
         /\ T \subseteq S /\ Cardinality(S) <= n => Cardinality(T) <= n
<1>1. /\ IsFiniteSet(S \cup {x})
      /\ Cardinality(S \cup {x}) = IF x \in S THEN Cardinality(S) ELSE Cardinality(S) + 1
  BY FS_AddElement
<1>2. T \subseteq S \cup {x} => Cardinality(T) \in Nat /\ Cardinality(T) <= Cardinality(S \cup {x})
  BY <1>1, FS_Subset, FS_CardinalityType
<1>3. T \subseteq S => Cardinality(T) \in Nat /\ Cardinality(T) <= Cardinality(S)
  BY FS_Subset, FS_CardinalityType
<1>4. T = S \cup {x} /\ x \notin S => Cardinality(T) = Cardinality(S) + 1
  BY <1>1
<1>5. T \subseteq S \cup {x} /\ Cardinality(S) <= n => Cardinality(T) <= n + 1
  <2>1. Cardinality(S \cup {x}) <= Cardinality(S) + 1 /\ Cardinality(S \cup {x}) \in Nat
    BY <1>1
  <2> QED BY <1>2, <2>1
<1>6. T \subseteq S /\ Cardinality(S) <= n => Cardinality(T) <= n
  BY <1>3
<1> QED BY <1>4, <1>5, <1>6

\* A lane's step puts its item behind its process when it ends, and nothing else.
LEMMA LaneDone ==
  ASSUME TypeOK, LoopInv, OwnInv, NEW s \in Slots, Lane(s)
  PROVE  /\ \A q \in Procs \ {s[1]} : Done(q)' = Done(q)
         /\ Take(s) => Done(s[1])' = Done(s[1])
         /\ ~At(s, "free") /\ lane'[s].pc # "free" => Done(s[1])' = Done(s[1])
         /\ ~At(s, "free") /\ lane'[s].pc = "free" => Done(s[1])' = Done(s[1]) \cup {lane[s].item}
         /\ ~At(s, "free") => lane[s].item \notin Done(s[1])
<1>1. /\ LaneStep(s) /\ s[1] \in Procs /\ s[2] \in Lanes /\ s = <<s[1], s[2]>>
      /\ proc[s[1]].next \in 1..(NumItems + 1) /\ Free.pc = "free"
      /\ \A q \in Procs, l \in Lanes : <<q, l>> \in Slots
  BY LaneShape DEF Slots, TypeOK, ProcType, Free
<1>2. \A q \in Procs, l \in Lanes : <<q, l>> # s => lane'[<<q, l>>] = lane[<<q, l>>]
  BY <1>1 DEF LaneStep
<1>3. ASSUME NEW q \in Procs \ {s[1]}
      PROVE  Done(q)' = Done(q)
  <2>1. \A l \in Lanes : lane'[<<q, l>>] = lane[<<q, l>>]
    BY <1>1, <1>2
  <2>2. proc'[q] = proc[q]
    BY <1>1 DEF LaneStep
  <2> QED BY <2>1, <2>2 DEF Done
<1>4. CASE Take(s)
  <2>1. /\ proc'[s[1]].next = proc[s[1]].next + 1 /\ lane[s].pc = "free"
        /\ lane'[s].pc = "fetch" /\ lane'[s].item = proc[s[1]].next
    BY <1>1, <1>4 DEF LaneStep, Take, At
  <2>2. ASSUME NEW i \in 1..proc[s[1]].next
        PROVE  i \in Done(s[1])' <=> i \in Done(s[1])
    BY <1>1, <1>2, <2>1 DEF Done
  <2>3. Done(s[1])' \subseteq 1..proc[s[1]].next /\ Done(s[1]) \subseteq 1..proc[s[1]].next
    BY <1>1, <2>1 DEF Done
  <2>4. Done(s[1])' = Done(s[1])
    BY <2>2, <2>3
  <2> QED BY <1>3, <1>4, <2>1, <2>4 DEF At
<1>5. CASE ~At(s, "free")
  <2>1. lane[s].item \in 1..(proc[s[1]].next - 1) /\ lane[s].pc # "free"
    BY <1>5 DEF At, LoopInv
  <2>2. lane[s].item \notin Done(s[1])
    BY <1>1, <2>1 DEF Done
  <2>3. proc'[s[1]].next = proc[s[1]].next
    BY <1>1, <1>5 DEF LaneStep
  <2>4. \A l \in Lanes : <<s[1], l>> # s /\ lane[<<s[1], l>>].pc # "free" =>
          lane[<<s[1], l>>].item # lane[s].item
    BY <1>1, <2>1 DEF OwnInv, OwnItem
  <2>5. CASE lane'[s].pc # "free"
    <3>1. lane'[s].item = lane[s].item
      BY <1>1, <1>5, <2>5 DEF LaneStep
    <3>2. \A i : i \in Done(s[1])' <=> i \in Done(s[1])
      BY <1>1, <1>2, <2>1, <2>3, <2>5, <3>1 DEF Done
    <3> QED BY <1>3, <1>5, <2>2, <2>5, <3>2 DEF Take
  <2>6. CASE lane'[s].pc = "free"
    <3>1. \A i : i \in Done(s[1])' <=> i \in Done(s[1]) \/ i = lane[s].item
      BY <1>1, <1>2, <2>1, <2>3, <2>4, <2>6 DEF Done
    <3>2. Done(s[1])' = Done(s[1]) \cup {lane[s].item}
      BY <3>1
    <3> QED BY <1>3, <1>5, <2>2, <2>6, <3>2 DEF Take
  <2> QED BY <2>5, <2>6
<1> QED BY <1>1, <1>4, <1>5 DEF LaneStep

\* A step that leaves a run's pairs alone leaves the books on it alone.
SamePair(x) ==
  /\ ingestions'[x] = ingestions[x]
  /\ x \in stored' \ lost' <=> x \in stored \ lost
  /\ x \in flagged' <=> x \in flagged
  /\ problems'[x] = "none" <=> problems[x] = "none"

LEMMA SameSets ==
  ASSUME TypeOK, NEW p \in Procs, Done(p)' = Done(p), proc'[p].run = proc[p].run,
         \A i \in Items : SamePair(<<proc[p].run, i>>)
  PROVE  Missed(p)' = Missed(p) /\ Untraced(p)' = Untraced(p) /\ Unread(p)' = Unread(p)
<1>1. Done(p) \subseteq Items
  BY Countable
<1>2. \A i : i \in Missed(p)' <=> i \in Missed(p)
  BY <1>1 DEF Missed, Known, SamePair
<1>3. \A i : i \in Untraced(p)' <=> i \in Untraced(p)
  BY <1>1, <1>2 DEF Untraced, Missed, SamePair
<1>4. \A i : i \in Unread(p)' <=> i \in Unread(p)
  BY <1>1 DEF Unread, SamePair
<1>5. Missed(p)' = Missed(p)
  BY <1>2
<1>6. Untraced(p)' = Untraced(p)
  BY <1>3
<1>7. Unread(p)' = Unread(p)
  BY <1>4
<1> QED BY <1>5, <1>6, <1>7

LEMMA KeptSame ==
  ASSUME TypeOK, TypeOK', NEW p \in Procs, Kept(p), Done(p)' = Done(p), proc'[p] = proc[p],
         runs'[proc[p].run] = runs[proc[p].run], faults' >= faults,
         \A i \in Items : SamePair(<<proc[p].run, i>>),
         Aborted(proc[p].run) => Aborted(proc[p].run)'
  PROVE  Kept(p)'
<1>1. Missed(p)' = Missed(p) /\ Untraced(p)' = Untraced(p) /\ Unread(p)' = Unread(p)
  BY SameSets
<1>2. faults \in Nat /\ faults' \in Nat
  BY RunAssumption DEF TypeOK
<1>3. Untraced(p) \in SUBSET Done(p) /\ Unread(p) \in SUBSET Done(p)
  BY DEF Untraced, Unread, Missed
<1>4. Cardinality(Untraced(p)) \in Nat /\ Cardinality(Unread(p)) \in Nat
  BY <1>3, Countable
<1>5. Cardinality(Untraced(p)) <= faults' /\ Cardinality(Unread(p)) <= faults'
  BY <1>2, <1>4 DEF Kept
<1>6. proc'[p].errors = Cardinality(Missed(p)')
  BY <1>1 DEF Kept
<1>7. (\E i \in Items : <<proc'[p].run, i>> \in flagged') <=> (\E i \in Items : <<proc[p].run, i>> \in flagged)
  BY DEF SamePair
<1>8. Cardinality(Untraced(p)') <= faults' /\ Cardinality(Unread(p)') <= faults'
  BY <1>1, <1>5
<1> QED BY <1>6, <1>7, <1>8 DEF Kept, Aborted

\* A lane at work adds its item to the books when it ends.
LEMMA LaneKeeps ==
  ASSUME TypeOK, TypeOK', LoopInv, OwnInv, BookInv, NEW s \in Slots, Lane(s), ~At(s, "free"),
         Kept(s[1])
  PROVE  Kept(s[1])'
<1> DEFINE p == s[1]
           r == proc[p].run
           i == lane[s].item
<1>1. /\ p \in Procs /\ r \in RunIds /\ i \in Items /\ proc[p].pc = "collect"
      /\ BookEffect(s) /\ LaneStep(s) /\ Pair(s) = <<r, i>>
      /\ faults \in Nat /\ faults' \in Nat /\ Done(p) \subseteq Items
      /\ proc[p] \in ProcType /\ proc'[p] \in ProcType
  <2>1. p \in Procs /\ r \in RunIds /\ i \in Items /\ proc[p].pc = "collect"
    BY BusyLane DEF At
  <2>2. BookEffect(s) /\ LaneStep(s) /\ Pair(s) = <<r, i>>
    BY LaneBooks, LaneShape DEF Pair, BookInv
  <2>3. faults \in Nat /\ faults' \in Nat /\ proc[p] \in ProcType /\ proc'[p] \in ProcType
    BY <2>1, RunAssumption DEF TypeOK
  <2> QED BY <2>1, <2>2, <2>3, Countable
<1>2. proc'[p].pc = proc[p].pc /\ proc'[p].run = r
  BY <1>1 DEF LaneStep
<1>3. proc'[p].next = proc[p].next /\ proc'[p].requests = proc[p].requests
  BY <1>1 DEF LaneStep, BookEffect
<1>4. \A j \in Items : j # i => SamePair(<<r, j>>)
  <2>1. \A j \in Items : j # i => <<r, j>> \in Pairs /\ <<r, j>> # Pair(s)
    BY <1>1 DEF Pairs
  <2> QED BY <1>1, <2>1 DEF BookEffect, Elsewhere, SamePair
<1>5. runs' = runs /\ faults' >= faults
  BY <1>1 DEF BookEffect
<1>6. Cardinality(Untraced(p)) <= faults /\ Cardinality(Unread(p)) <= faults
  BY DEF Kept
<1>7. /\ Untraced(p) \in SUBSET Done(p) /\ Unread(p) \in SUBSET Done(p) /\ Missed(p) \in SUBSET Done(p)
  BY DEF Untraced, Unread, Missed
<1>8. /\ IsFiniteSet(Untraced(p)) /\ IsFiniteSet(Unread(p)) /\ IsFiniteSet(Missed(p))
      /\ Cardinality(Untraced(p)) \in Nat /\ Cardinality(Unread(p)) \in Nat
      /\ Cardinality(Missed(p)) \in Nat
  BY <1>1, <1>7, Countable
<1>9. i \notin Done(p)
  BY LaneDone
<1>10. (\E j \in Items : <<r, j>> \in flagged') <=>
         (\E j \in Items : <<r, j>> \in flagged) \/ <<r, i>> \in flagged'
  <2>1. <<r, i>> \notin flagged
    BY <1>1 DEF BookInv, Sound, InHand
  <2> QED BY <1>1, <1>4, <2>1 DEF SamePair
<1>11. CASE GoesOn(s)
  <2>1. Done(p)' = Done(p) /\ proc' = proc
    BY <1>11, LaneDone DEF GoesOn
  <2>2. <<r, i>> \notin stored \ lost /\ <<r, i>> \notin flagged'
    BY <1>1, <1>11 DEF GoesOn, BookInv, InHand
  <2>3. \A j \in Done(p) : SamePair(<<r, j>>)
    BY <1>1, <1>4, <1>9
  <2>4. \A j : j \in Missed(p)' <=> j \in Missed(p)
    BY <2>1, <2>3 DEF Missed, Known, SamePair
  <2>5. \A j : j \in Untraced(p)' <=> j \in Untraced(p)
    BY <2>1, <2>3, <2>4 DEF Untraced, Missed, SamePair
  <2>6. \A j : j \in Unread(p)' <=> j \in Unread(p)
    BY <2>1, <2>3 DEF Unread, SamePair
  <2>7. Missed(p)' = Missed(p)
    BY <2>4
  <2>8. Untraced(p)' = Untraced(p)
    BY <2>5
  <2>9. Unread(p)' = Unread(p)
    BY <2>6
  <2>10. Cardinality(Untraced(p)') <= faults' /\ Cardinality(Unread(p)') <= faults'
    BY <1>1, <1>5, <1>6, <1>8, <2>8, <2>9
  <2>11. proc'[p].errors = Cardinality(Missed(p)')
    BY <2>1, <2>7 DEF Kept
  <2>12. proc'[p].partial > 0 <=> \E j \in Items : <<r, j>> \in flagged'
    BY <1>10, <2>1, <2>2 DEF Kept
  <2> QED BY <1>1, <1>2, <1>3, <1>5, <2>10, <2>11, <2>12 DEF Kept
<1>12. CASE EndsStored(s)
  <2>1. Done(p)' = Done(p) \cup {i}
    BY <1>12, LaneDone DEF EndsStored
  <2>2. <<r, i>> \in stored' \ lost' /\ ingestions'[<<r, i>>] = "PROCESSED"
    BY <1>1, <1>12 DEF EndsStored
  <2>3. \A j \in Done(p) : SamePair(<<r, j>>)
    BY <1>1, <1>4, <1>9
  <2>4. \A j : j \in Missed(p)' <=> j \in Missed(p)
    BY <1>2, <2>1, <2>2, <2>3 DEF Missed, Known, SamePair
  <2>5. \A j : j \in Untraced(p)' <=> j \in Untraced(p)
    BY <1>2, <2>3, <2>4 DEF Untraced, Missed, SamePair
  <2>6. \A j : j \in Unread(p)' <=> j \in Unread(p)
    BY <1>2, <2>1, <2>2, <2>3 DEF Unread, SamePair
  <2>7. Missed(p)' = Missed(p)
    BY <2>4
  <2>8. Untraced(p)' = Untraced(p)
    BY <2>5
  <2>9. Unread(p)' = Unread(p)
    BY <2>6
  <2>10. Cardinality(Untraced(p)') <= faults' /\ Cardinality(Unread(p)') <= faults'
    BY <1>1, <1>5, <1>6, <1>8, <2>8, <2>9
  <2>11. proc'[p].errors = Cardinality(Missed(p)')
    BY <1>12, <2>7 DEF Kept, EndsStored
  <2>12. proc'[p].partial > 0 <=> \E j \in Items : <<r, j>> \in flagged'
    BY <1>1, <1>10, <1>12 DEF Kept, EndsStored
  <2> QED BY <1>1, <1>2, <1>3, <1>5, <2>10, <2>11, <2>12 DEF Kept
<1>13. CASE EndsFailed(s)
  <2>1. Done(p)' = Done(p) \cup {i}
    BY <1>13, LaneDone DEF EndsFailed
  <2>2. /\ <<r, i>> \notin stored' \ lost' /\ <<r, i>> \notin flagged'
        /\ proc'[p].errors = proc[p].errors + 1 /\ proc'[p].partial = proc[p].partial
        /\ faults' = faults + 1 \/ (problems'[<<r, i>>] # "none" /\ ingestions'[<<r, i>>] # "RECEIVED")
    BY <1>1, <1>13 DEF EndsFailed
  <2>3. \A j \in Done(p) : SamePair(<<r, j>>)
    BY <1>1, <1>4, <1>9
  <2>4. \A j : j \in Missed(p)' <=> j \in Missed(p) \/ j = i
    BY <1>2, <2>1, <2>2, <2>3 DEF Missed, Known, SamePair
  <2>5. \A j : /\ j \in Untraced(p)' => j \in Untraced(p) \/ j = i
               /\ problems'[<<r, i>>] # "none" /\ j \in Untraced(p)' => j \in Untraced(p)
    <3>1. \A j \in Missed(p) : SamePair(<<r, j>>)
      BY <2>3 DEF Missed
    <3>2. \A j \in Untraced(p)' : j \in Missed(p)' /\ problems'[<<r, j>>] = "none"
      BY <1>2 DEF Untraced
    <3> QED BY <2>4, <3>1, <3>2 DEF Untraced, SamePair
  <2>6. \A j : /\ j \in Unread(p)' => j \in Unread(p) \/ j = i
               /\ ingestions'[<<r, i>>] # "RECEIVED" /\ j \in Unread(p)' => j \in Unread(p)
    BY <1>2, <2>1, <2>3 DEF Unread, SamePair
  <2>7. Missed(p)' = Missed(p) \cup {i} /\ i \notin Missed(p)
    BY <1>9, <2>4 DEF Missed
  <2>8. Untraced(p)' \subseteq Untraced(p) \cup {i} /\ Unread(p)' \subseteq Unread(p) \cup {i}
    BY <2>5, <2>6
  <2>9. problems'[<<r, i>>] # "none" => Untraced(p)' \subseteq Untraced(p)
    BY <2>5
  <2>10. ingestions'[<<r, i>>] # "RECEIVED" => Unread(p)' \subseteq Unread(p)
    BY <2>6
  <2>11. Cardinality(Untraced(p)') <= faults'
    <3>1. CASE faults' = faults + 1
      <4>1. Cardinality(Untraced(p)') <= faults + 1
        BY <1>1, <1>6, <1>8, <2>8, CountOneMore
      <4> QED BY <3>1, <4>1
    <3>2. CASE problems'[<<r, i>>] # "none"
      <4>1. Cardinality(Untraced(p)') <= faults
        BY <1>1, <1>6, <1>8, <2>9, <3>2, CountOneMore
      <4>2. Cardinality(Untraced(p)') \in Int
        BY <1>8, <2>9, <3>2, FS_Subset, FS_CardinalityType
      <4> QED BY <1>1, <1>5, <4>1, <4>2
    <3> QED BY <2>2, <3>1, <3>2
  <2>12. Cardinality(Unread(p)') <= faults'
    <3>1. CASE faults' = faults + 1
      <4>1. Cardinality(Unread(p)') <= faults + 1
        BY <1>1, <1>6, <1>8, <2>8, CountOneMore
      <4> QED BY <3>1, <4>1
    <3>2. CASE ingestions'[<<r, i>>] # "RECEIVED"
      <4>1. Cardinality(Unread(p)') <= faults
        BY <1>1, <1>6, <1>8, <2>10, <3>2, CountOneMore
      <4>2. Cardinality(Unread(p)') \in Int
        BY <1>8, <2>10, <3>2, FS_Subset, FS_CardinalityType
      <4> QED BY <1>1, <1>5, <4>1, <4>2
    <3> QED BY <2>2, <3>1, <3>2
  <2>13. proc'[p].errors = Cardinality(Missed(p)')
    <3>1. Cardinality(Missed(p)') = Cardinality(Missed(p)) + 1
      BY <1>1, <1>8, <2>7, CountOneMore
    <3> QED BY <2>2, <3>1 DEF Kept
  <2>14. proc'[p].partial > 0 <=> \E j \in Items : <<r, j>> \in flagged'
    BY <1>10, <2>2 DEF Kept
  <2> QED BY <1>1, <1>2, <1>3, <1>5, <2>11, <2>12, <2>13, <2>14 DEF Kept
<1> QED BY <1>1, <1>11, <1>12, <1>13 DEF BookEffect

LEMMA ReportsOfRuns ==
  Reports => StatusIsHonest /\ CountersMatchRows /\ FailuresLeaveATrace /\ NothingLeftReceived
<1>1. Reports => StatusIsHonest
  BY Zenon DEF Reports, Report, StatusIsHonest, Flawless
<1>2. Reports => CountersMatchRows
  BY Zenon DEF Reports, Report, CountersMatchRows
<1>3. Reports => FailuresLeaveATrace
  BY Zenon DEF Reports, Report, FailuresLeaveATrace, Silent
<1>4. Reports => NothingLeftReceived
  BY Zenon DEF Reports, Report, NothingLeftReceived, Left
<1> QED BY <1>1, <1>2, <1>3, <1>4

LEMMA ReportSame ==
  ASSUME TypeOK, TypeOK', NEW r \in RunIds, Report(r), runs'[r] = runs[r], faults' >= faults,
         Finished(r) => \A i \in Items : SamePair(<<r, i>>),
         Aborted(r) => Aborted(r)'
  PROVE  Report(r)'
<1> SUFFICES ASSUME Finished(r)' PROVE Report(r)'
  BY DEF Report
<1>1. Finished(r) /\ ItemsOf(r)' = ItemsOf(r) /\ ItemsOf(r) \subseteq Items
  BY WorkIsItems DEF Finished, ItemsOf
<1>2. \A i \in ItemsOf(r) : SamePair(<<r, i>>)
  BY <1>1
<1>3. \A i : i \in Good(r)' <=> i \in Good(r)
  BY <1>1, <1>2 DEF Good, SamePair
<1>4. Good(r)' = Good(r)
  BY <1>3
<1>5. \A i : i \in Flawless(r)' <=> i \in Flawless(r)
  <2>1. \A i \in Good(r) : SamePair(<<r, i>>)
    BY <1>2 DEF Good
  <2> QED BY <1>4, <2>1 DEF Flawless, SamePair
<1>6. \A i : i \in Silent(r)' <=> i \in Silent(r)
  BY <1>1, <1>2, <1>4 DEF Silent, SamePair
<1>7. \A i : i \in Left(r)' <=> i \in Left(r)
  BY <1>1, <1>2 DEF Left, SamePair
<1>8. Flawless(r)' = Flawless(r)
  BY <1>5
<1>9. Silent(r)' = Silent(r)
  BY <1>6
<1>10. Left(r)' = Left(r)
  BY <1>7
<1>11. Cardinality(Silent(r)') <= faults' /\ Cardinality(Left(r)') <= faults'
  <2>1. Cardinality(Silent(r)) <= faults /\ Cardinality(Left(r)) <= faults
    BY <1>1 DEF Report
  <2>2. IsFiniteSet(Silent(r)) /\ IsFiniteSet(Left(r))
    <3>1. IsFiniteSet(Items)
      BY RunAssumption, FS_Interval DEF Items
    <3>2. Silent(r) \subseteq Items /\ Left(r) \subseteq Items
      BY <1>1 DEF Silent, Left
    <3> QED BY <3>1, <3>2, FS_Subset
  <2>3. Cardinality(Silent(r)) \in Nat /\ Cardinality(Left(r)) \in Nat
    BY <2>2, FS_CardinalityType
  <2>4. faults \in Nat /\ faults' \in Nat
    BY RunAssumption DEF TypeOK
  <2> QED BY <1>9, <1>10, <2>1, <2>3, <2>4
<1>12. Cardinality(ItemsOf(r)' \ Good(r)') = Cardinality(ItemsOf(r) \ Good(r))
  BY <1>1, <1>4
<1> QED BY <1>1, <1>4, <1>8, <1>11, <1>12 DEF Report

\* A lane's step keeps the books.
LEMMA LaneBookInv ==
  ASSUME TypeOK, TypeOK', LoopInv, OwnInv, BookInv, NEW s \in Slots, Lane(s)
  PROVE  BookInv'
<1> DEFINE p == s[1]
<1>1. /\ p \in Procs /\ LaneStep(s) /\ proc[p] \in ProcType /\ Free.pc = "free"
      /\ proc[p].next \in Nat
  BY LaneShape DEF Slots, TypeOK, ProcType, Free
<1>2. \A q \in Procs : /\ proc'[q].pc = proc[q].pc /\ proc'[q].run = proc[q].run
                       /\ Running(q)' <=> Running(q)
                       /\ q # p => proc'[q] = proc[q]
  BY <1>1 DEF LaneStep, Running
<1>3. proc[p].pc = "collect" /\ proc[p].run \in RunIds /\ Running(p) /\ Kept(p)
  <2>1. proc[p].pc = "collect"
    BY <1>1 DEF LaneStep, LoopInv, At
  <2> QED BY <1>1, <2>1 DEF LoopInv, Running, BookInv, Books
<1>4. \A t \in Slots : t # s => lane'[t] = lane[t] /\ Pair(t)' = Pair(t)
  <2>1. \A t \in Slots : proc'[t[1]].run = proc[t[1]].run
    BY <1>2 DEF Slots
  <2> QED BY <1>1, <2>1 DEF LaneStep, Pair
<1>5. /\ runs' = runs /\ checkpoints' = checkpoints /\ faults' >= faults
      /\ \A r \in RunIds : Aborted(r)' <=> Aborted(r)
      /\ \A r \in RunIds, i \in Items : r # proc[p].run => SamePair(<<r, i>>)
  <2>1. CASE Take(s)
    <3>1. UNCHANGED <<runs, checkpoints, faults, lost, stored, flagged, problems, ingestions>>
      BY <2>1 DEF Take, audit, budgets, history
    <3>2. faults \in Nat
      BY RunAssumption DEF TypeOK
    <3> QED BY <3>1, <3>2 DEF Aborted, SamePair
  <2>2. CASE ~At(s, "free")
    <3>1. BookEffect(s) /\ Pair(s) \in Pairs /\ Pair(s) = <<proc[p].run, lane[s].item>>
      BY <2>2, LaneBooks, BusyLane DEF BookInv, At, Pair
    <3>2. \A r \in RunIds : <<r, 0>> # Pair(s)
      BY <3>1 DEF Pairs, Items
    <3>3. \A r \in RunIds, i \in Items : r # proc[p].run => <<r, i>> # Pair(s) /\ <<r, i>> \in Pairs
      BY <3>1 DEF Pairs
    <3>4. \A r \in RunIds, i \in Items : r # proc[p].run => SamePair(<<r, i>>)
      BY <3>1, <3>3 DEF BookEffect, Elsewhere, SamePair
    <3>5. \A r \in RunIds : Aborted(r)' <=> Aborted(r)
      BY <3>1, <3>2 DEF BookEffect, Aborted
    <3> QED BY <3>1, <3>4, <3>5 DEF BookEffect
  <2> QED BY <1>1, <2>1, <2>2 DEF LaneStep
<1>6. Idle'
  BY <1>2, <1>3 DEF BookInv, Idle
<1>7. Noted'
  BY <1>2, <1>5 DEF BookInv, Noted, Settled
<1>8. Reports'
  <2>1. SUFFICES ASSUME NEW r \in RunIds PROVE Report(r)'
    BY DEF Reports
  <2>2. Finished(r) => r # proc[p].run
    BY <1>3 DEF Finished, Kept
  <2>3. Report(r)
    BY DEF BookInv, Reports
  <2> QED BY <1>5, <2>2, <2>3, ReportSame
<1>9. Books'
  <2>1. SUFFICES ASSUME NEW q \in Procs, Running(q)
                 PROVE  Kept(q)'
    BY <1>2 DEF Books
  <2>2. CASE q # p
    <3>1. proc[q].run \in RunIds /\ proc[q].run # proc[p].run /\ Kept(q)
      BY <1>1, <1>3, <2>1, <2>2 DEF LoopInv, OwnInv, OwnRun, BookInv, Books, Running
    <3>2. Done(q)' = Done(q)
      BY <2>2, LaneDone
    <3> QED BY <1>2, <1>5, <2>2, <3>1, <3>2, KeptSame
  <2>3. CASE q = p /\ ~At(s, "free")
    BY <1>3, <2>3, LaneKeeps
  <2>4. CASE q = p /\ Take(s)
    <3>1. /\ Done(p)' = Done(p)
          /\ UNCHANGED <<runs, ingestions, problems, stored, lost, flagged, faults>>
      BY <2>4, LaneDone DEF Take, audit, budgets, history
    <3>2. \A i \in Items : SamePair(<<proc[p].run, i>>)
      BY <3>1 DEF SamePair
    <3>3. Missed(p)' = Missed(p) /\ Untraced(p)' = Untraced(p) /\ Unread(p)' = Unread(p)
      BY <1>1, <1>2, <3>1, <3>2, SameSets
    <3>4. /\ proc'[p].next = proc[p].next + 1 /\ proc'[p].requests = proc[p].requests + 1
          /\ proc'[p].errors = proc[p].errors /\ proc'[p].partial = proc[p].partial
          /\ proc'[p].run = proc[p].run /\ proc'[p].pc = "collect"
          /\ proc[p].next \in Work(TypeOf(p))
      <4>1. proc' = [proc EXCEPT ![p].next = @ + 1, ![p].requests = @ + 1]
        BY <2>4 DEF Take
      <4>2. proc[p].next \in Work(TypeOf(p))
        BY <2>4 DEF Take
      <4> QED BY <1>1, <1>3, <4>1, <4>2 DEF TypeOK, ProcType
    <3>5. Cardinality(Missed(p)') = Cardinality(Missed(p)) /\ Cardinality(Untraced(p)') = Cardinality(Untraced(p))
          /\ Cardinality(Unread(p)') = Cardinality(Unread(p))
      BY <3>3
    <3>6. /\ proc'[p].next - 1 \in Work(TypeOf(p)) \cup {0}
          /\ proc'[p].requests = proc'[p].next - 1
      <4>1. proc[p].requests \in Nat /\ proc[p].requests = proc[p].next - 1
        BY <1>1, <1>3 DEF ProcType, Kept
      <4> QED BY <1>1, <3>4, <4>1
    <3>7. proc'[p].errors = Cardinality(Missed(p)')
      BY <1>3, <3>4, <3>5 DEF Kept
    <3>8. Cardinality(Untraced(p)') <= faults' /\ Cardinality(Unread(p)') <= faults'
      BY <1>3, <3>1, <3>5 DEF Kept
    <3>9. proc'[p].partial > 0 <=> \E i \in Items : <<proc'[p].run, i>> \in flagged'
      BY <1>3, <3>1, <3>4 DEF Kept
    <3>10. runs'[proc'[p].run].type = TypeOf(p) /\ runs'[proc'[p].run].status = "RUNNING"
      BY <1>3, <3>1, <3>4 DEF Kept
    <3>11. Kept(p)'
      BY <3>4, <3>6, <3>7, <3>8, <3>9, <3>10 DEF Kept
    <3> QED BY <2>4, <3>11
  <2> QED BY <1>1, <2>2, <2>3, <2>4 DEF LaneStep
<1>10. Sound'
  <2>1. CASE Take(s)
    <3>1. UNCHANGED <<lost, stored, flagged>>
      BY <2>1 DEF Take, history
    <3> QED BY <3>1 DEF BookInv, Sound
  <2>2. CASE ~At(s, "free")
    <3>1. BookEffect(s) /\ Pair(s) \in Pairs
      BY <2>2, LaneBooks, BusyLane DEF BookInv, At
    <3>2. Pair(s) \in flagged' => Pair(s) \in stored' \ lost'
      BY <3>1 DEF BookEffect, GoesOn, EndsStored, EndsFailed
    <3>3. \A x \in flagged' : x \in stored' \ lost'
      BY <3>1, <3>2 DEF BookEffect, BookInv, Sound
    <3>4. \A x \in Pairs : x \in lost' => x \in stored'
      BY <3>1 DEF BookEffect, BookInv, Sound
    <3> QED BY <3>3, <3>4 DEF Sound
  <2> QED BY <1>1, <2>1, <2>2 DEF LaneStep
<1>11. InHand'
  <2>1. SUFFICES ASSUME NEW t \in Slots, lane'[t].pc # "free"
                 PROVE  /\ Pair(t)' \notin stored' \ lost'
                        /\ lane'[t].pc = "fetch" => ingestions'[Pair(t)'] = "none"
                        /\ lane'[t].pc = "problem" => ingestions'[Pair(t)'] # "RECEIVED"
    BY DEF InHand, At
  <2>2. CASE t # s
    <3>1. lane'[t] = lane[t] /\ Pair(t)' = Pair(t) /\ Pair(t) \in Pairs
      BY <1>4, <2>1, <2>2, BusyLane
    <3>2. SamePair(Pair(t))
      <4>1. CASE Take(s)
        BY <4>1 DEF Take, audit, history, SamePair
      <4>2. CASE ~At(s, "free")
        <5>1. BookEffect(s) /\ Pair(s) # Pair(t)
          BY <2>1, <2>2, <3>1, <4>2, LaneBooks, OwnPairs DEF BookInv, At
        <5> QED BY <3>1, <5>1 DEF BookEffect, Elsewhere, SamePair
      <4> QED BY <1>1, <4>1, <4>2 DEF LaneStep
    <3> QED BY <2>1, <3>1, <3>2 DEF BookInv, InHand, At, SamePair
  <2>3. CASE t = s /\ Take(s)
    <3>1. lane'[s].pc = "fetch" /\ lane'[s].item = proc[p].next /\ proc'[p].run = proc[p].run
      BY <1>1, <2>3 DEF LaneStep, Take, At
    <3>2. UNCHANGED <<ingestions, stored, lost>> /\ proc[p].next \in Items
      BY <2>3, WorkIsItems DEF Take, audit, history
    <3>3. Pair(s)' = <<proc[p].run, proc[p].next>>
      BY <3>1 DEF Pair
    <3>4. ingestions[<<proc[p].run, proc[p].next>>] = "none" /\ Fresh(<<proc[p].run, proc[p].next>>)
      BY <1>1, <1>3, <3>2 DEF BookInv, Blank, OwnInv, Untaken
    <3> QED BY <2>3, <3>1, <3>2, <3>3, <3>4 DEF Fresh
  <2>4. CASE t = s /\ ~At(s, "free")
    <3>1. BookEffect(s) /\ GoesOn(s)
      BY <2>1, <2>4, LaneBooks DEF BookInv, BookEffect, EndsStored, EndsFailed
    <3>2. Pair(s)' = Pair(s)
      BY <1>1, <1>2, <2>4, <3>1 DEF LaneStep, Free, GoesOn, Pair
    <3> QED BY <2>4, <3>1, <3>2 DEF GoesOn
  <2> QED BY <1>1, <2>2, <2>3, <2>4 DEF LaneStep
<1>12. Blank'
  <2>1. SUFFICES ASSUME NEW r \in RunIds, NEW i \in Items,
                        \/ runs[r].status = "none"
                        \/ \E q \in Procs : proc[q].pc = "collect" /\ proc[q].run = r /\ i >= proc'[q].next
                 PROVE  ingestions'[<<r, i>>] = "none"
    BY <1>2, <1>5 DEF Blank
  <2>2. proc'[p].next \in Nat /\ proc'[p].next >= proc[p].next
    BY <1>1 DEF LaneStep
  <2>3. ingestions[<<r, i>>] = "none"
    BY <1>1, <1>2, <2>1, <2>2 DEF BookInv, Blank, Items
  <2>4. CASE r # proc[p].run
    BY <1>5, <2>3, <2>4 DEF SamePair
  <2>5. CASE r = proc[p].run /\ Take(s)
    BY <2>3, <2>5 DEF Take, audit
  <2>6. CASE r = proc[p].run /\ ~At(s, "free")
    <3>1. i >= proc'[p].next
      BY <1>1, <1>3, <2>1, <2>6 DEF OwnInv, OwnRun, Running, Kept
    <3>2. lane[s].item \in 1..(proc[p].next - 1) /\ BookEffect(s) /\ Pair(s) = <<proc[p].run, lane[s].item>>
      BY <2>6, LaneBooks DEF LoopInv, BookInv, At, Pair
    <3>3. <<r, i>> # Pair(s) /\ <<r, i>> \in Pairs
      BY <1>1, <2>2, <3>1, <3>2 DEF Pairs, Items
    <3> QED BY <2>3, <3>2, <3>3 DEF BookEffect, Elsewhere
  <2> QED BY <1>1, <2>4, <2>5, <2>6 DEF LaneStep
<1> QED BY <1>6, <1>7, <1>8, <1>9, <1>10, <1>11, <1>12 DEF BookInv

-----------------------------------------------------------------------------
(* The steps of a process. *)

LEMMA BookInit == Init => BookInv
<1> SUFFICES ASSUME Init PROVE BookInv
  OBVIOUS
<1>1. Blank /\ InHand /\ Sound
  BY DEF Init, Blank, InHand, Sound, At, Free, Pairs
<1>2. Idle /\ Books /\ Noted
  BY DEF Init, Idle, Books, Noted, Running, Down, NoCheckpoint
<1>3. Reports
  BY DEF Init, Reports, Report, Finished, NoRun
<1> QED BY <1>1, <1>2, <1>3 DEF BookInv

\* They touch no pair, and count nothing; a run is begun, finished or aborted.
LEMMA StepEffect ==
  ASSUME TypeOK, LoopInv, Idle, NEW p \in Procs, Step(p)
  PROVE  /\ UNCHANGED <<ingestions, problems, stored, flagged>> /\ faults' >= faults
         /\ lost' = lost \/ (FinalizeFails(p) /\ lost' = lost \cup {<<proc[p].run, 0>>})
         /\ \/ BeginRun(p) \/ FinalizeFails(p)
            \/ ~Running(p)' /\ (Finalize(p) \/ Abort(p) \/ runs' = runs)
         /\ ~Running(p)' => /\ proc'[p].next = 1 /\ proc'[p].requests = 0
                            /\ proc'[p].errors = 0 /\ proc'[p].partial = 0
         /\ proc'[p].pc = "note" => /\ Finalize(p) /\ Totals(p).status # "FAILED"
                                    /\ proc'[p].run = proc[p].run
         /\ \A k \in Periods : checkpoints'[k].status = "SUCCEEDED" =>
              \/ checkpoints[k] = checkpoints'[k]
              \/ proc[p].pc = "note" /\ checkpoints'[k].run = proc[p].run
<1>1. /\ proc \in [Procs -> ProcType] /\ proc[p] \in ProcType /\ faults \in Nat
      /\ checkpoints \in [Periods -> [status : Statuses \cup {"none"}, run : 0..MaxRuns]]
  BY RunAssumption DEF TypeOK
<1>2. /\ UNCHANGED <<ingestions, problems, stored, flagged>>
      /\ lost' = lost \/ (FinalizeFails(p) /\ lost' = lost \cup {<<proc[p].run, 0>>})
  BY DEF Step, Script, Run, StartCycle, StartBackfill, SkipPeriod, FindPeriod, MarkPeriod,
     NotePeriod, RegretPeriod, ScriptFails, BeginRun, BeginFails, Finalize, FinalizeFails, Abort,
     AbortFails, Dies, audit, history
<1>3. faults' >= faults
  <2>1. faults' = faults \/ faults' = faults + 1
    BY DEF Step, Script, Run, StartCycle, StartBackfill, SkipPeriod, FindPeriod, MarkPeriod,
       NotePeriod, RegretPeriod, ScriptFails, BeginRun, BeginFails, Finalize, FinalizeFails, Abort,
       AbortFails, Dies, Fault, budgets
  <2> QED BY <1>1, <2>1
<1>4. \A k \in Periods : checkpoints'[k].status = "SUCCEEDED" =>
        \/ checkpoints[k] = checkpoints'[k]
        \/ proc[p].pc = "note" /\ checkpoints'[k].run = proc[p].run
  <2>1. CASE MarkPeriod(p) \/ RegretPeriod(p)
    BY <1>1, <2>1 DEF MarkPeriod, RegretPeriod
  <2>2. CASE NotePeriod(p)
    BY <1>1, <2>2 DEF NotePeriod
  <2>3. CASE ~(MarkPeriod(p) \/ RegretPeriod(p) \/ NotePeriod(p))
    <3>1. checkpoints' = checkpoints
      BY <2>3 DEF Step, Script, Run, StartCycle, StartBackfill, SkipPeriod, FindPeriod,
         ScriptFails, BeginRun, BeginFails, Finalize, FinalizeFails, Abort, AbortFails, Dies
    <3> QED BY <3>1
  <2> QED BY <2>1, <2>2, <2>3
<1> DEFINE Unused == /\ proc'[p].next = 1 /\ proc'[p].requests = 0
                     /\ proc'[p].errors = 0 /\ proc'[p].partial = 0
<1>5. ASSUME NEW ok \in BOOLEAN, Leave(p, ok)
      PROVE  /\ Unused /\ ~Running(p)'
             /\ proc'[p].pc = "note" => ok /\ proc'[p].run = proc[p].run
  <2>1. CASE p \in Pollers
    BY <1>1, <1>5, <2>1 DEF Leave, Down, Running
  <2>2. CASE p \notin Pollers
    BY <1>1, <1>5, <2>2 DEF Leave, Down, Running
  <2> QED BY <2>1, <2>2
<1>6. CASE BeginRun(p) \/ FinalizeFails(p)
  BY <1>1, <1>2, <1>3, <1>4, <1>6 DEF BeginRun, FinalizeFails, Running, ProcType
<1>7. CASE Finalize(p)
  BY <1>2, <1>3, <1>4, <1>5, <1>7 DEF Finalize
<1>8. CASE BeginFails(p) \/ Abort(p) \/ AbortFails(p)
  <2>1. Leave(p, FALSE)
    BY <1>8 DEF BeginFails, Abort, AbortFails
  <2>2. Abort(p) \/ runs' = runs
    BY <1>8 DEF BeginFails, AbortFails, audit
  <2> QED BY <1>2, <1>3, <1>4, <1>5, <2>1, <2>2
<1>9. CASE StartCycle(p) \/ StartBackfill(p) \/ FindPeriod(p) \/ MarkPeriod(p) \/ SkipPeriod(p)
  <2>1. /\ ~Running(p) /\ runs' = runs
        /\ \/ proc'[p] = Down \/ proc'[p] = [proc[p] EXCEPT !.pc = "begin"]
           \/ proc'[p] = [proc[p] EXCEPT !.pc = "look", !.period = 1]
           \/ proc'[p] = [proc[p] EXCEPT !.pc = "mark"]
           \/ proc[p].pc = "look" /\ proc'[p] = [proc[p] EXCEPT !.period = proc[p].period + 1]
    BY <1>1, <1>9 DEF StartCycle, StartBackfill, FindPeriod, MarkPeriod, SkipPeriod, audit, Running
  <2>2. Unused /\ proc'[p].pc \in {"down", "begin", "look", "mark"}
    <3>1. /\ proc[p].next = 1 /\ proc[p].requests = 0 /\ proc[p].errors = 0 /\ proc[p].partial = 0
      BY <2>1 DEF Idle
    <3>2. CASE proc'[p] = Down
      BY <3>2 DEF Down
    <3>3. CASE proc'[p] # Down
      BY <1>1, <2>1, <3>1, <3>3 DEF ProcType
    <3> QED BY <3>2, <3>3
  <2> QED BY <1>2, <1>3, <1>4, <2>1, <2>2 DEF Running
<1>10. CASE NotePeriod(p) \/ RegretPeriod(p) \/ ScriptFails(p) \/ Dies(p)
  <2>1. /\ runs' = runs
        /\ \/ proc'[p] = Down
           \/ proc'[p] = [Down EXCEPT !.pc = "look", !.period = proc[p].period + 1]
           \/ proc[p].pc = "note" /\ proc'[p] = [proc[p] EXCEPT !.pc = "regret"]
    BY <1>1, <1>10 DEF NotePeriod, RegretPeriod, ScriptFails, Dies, audit
  <2>2. Unused /\ proc'[p].pc \in {"down", "look", "regret"}
    <3>1. CASE proc'[p] = Down
      BY <3>1 DEF Down
    <3>2. CASE proc'[p] = [Down EXCEPT !.pc = "look", !.period = proc[p].period + 1]
      BY <3>2 DEF Down
    <3>3. CASE proc[p].pc = "note" /\ proc'[p] = [proc[p] EXCEPT !.pc = "regret"]
      <4>1. /\ proc[p].next = 1 /\ proc[p].requests = 0 /\ proc[p].errors = 0 /\ proc[p].partial = 0
        BY <3>3 DEF Idle, Running
      <4> QED BY <1>1, <3>3, <4>1 DEF ProcType
    <3> QED BY <2>1, <3>1, <3>2, <3>3
  <2> QED BY <1>2, <1>3, <1>4, <2>1, <2>2 DEF Running
<1> QED
  BY <1>6, <1>7, <1>8, <1>9, <1>10 DEF Step, Script, Run

\* When every lane has ended, the totals say what the database holds.
LEMMA TotalsAreHonest ==
  ASSUME TypeOK, LoopInv, OwnInv, BookInv, NEW p \in Procs, Ended(p)
  PROVE  LET r == proc[p].run
             W == Work(TypeOf(p))
             G == {i \in W : <<r, i>> \in stored \ lost}
             t == Totals(p)
         IN  /\ W # {} /\ G \subseteq W /\ Done(p) = W /\ runs[r].type = TypeOf(p)
             /\ t.type = TypeOf(p) /\ t.status \in {"SUCCEEDED", "PARTIAL", "FAILED"}
             /\ t.status = "SUCCEEDED" => {i \in G : <<r, i>> \notin flagged} = W
             /\ t.status = "PARTIAL" => {i \in G : <<r, i>> \notin flagged} # W /\ G # {}
             /\ t.status = "FAILED" => G = {}
             /\ t.requests = Cardinality(W) /\ t.errors = Cardinality(W \ G)
             /\ Cardinality({i \in W \ G : problems[<<r, i>>] = "none"}) <= faults
             /\ Cardinality({i \in W : ingestions[<<r, i>>] = "RECEIVED"}) <= faults
<1> DEFINE r == proc[p].run
           W == Work(TypeOf(p))
           G == {i \in W : <<r, i>> \in stored \ lost}
           t == Totals(p)
<1>1. /\ Running(p) /\ Kept(p) /\ proc[p].next \in 1..(NumItems + 1)
      /\ \A l \in Lanes : lane[<<p, l>>].pc = "free"
      /\ proc[p].next \notin W /\ r \in RunIds /\ proc[p] \in ProcType
  BY DEF Ended, Running, BookInv, Books, TypeOK, ProcType, LoopInv
<1>2. PICK n \in Nat : n >= 1 /\ W = 1..n /\ n <= NumItems
  BY RunAssumption DEF Work
<1>3. proc[p].next = n + 1
  <2>1. proc[p].next - 1 \in 0..n
    BY <1>1, <1>2 DEF Kept
  <2> QED BY <1>1, <1>2, <2>1
<1>4. Done(p) = W
  BY <1>1, <1>2, <1>3 DEF Done
<1>5. IsFiniteSet(W) /\ Cardinality(W) = n
  BY <1>2, FS_Interval
<1>6. Missed(p) = W \ G
  BY <1>4 DEF Missed, Known
<1>7. /\ proc[p].requests = n /\ proc[p].errors = Cardinality(W \ G)
      /\ Cardinality(W \ G) \in Nat /\ Cardinality(W \ G) <= n
      /\ Cardinality(W \ G) = n => W \ G = W
      /\ Cardinality(W \ G) = 0 => W \ G = {}
  <2>1. proc[p].requests = n /\ proc[p].errors = Cardinality(W \ G)
    BY <1>1, <1>2, <1>3, <1>6 DEF Kept
  <2>2. /\ IsFiniteSet(W \ G) /\ Cardinality(W \ G) <= Cardinality(W)
        /\ Cardinality(W \ G) = Cardinality(W) => W \ G = W
    BY <1>5, FS_Subset
  <2>3. Cardinality(W \ G) \in Nat
    BY <2>2, FS_CardinalityType
  <2>4. Cardinality(W \ G) = 0 => W \ G = {}
    BY <2>2, FS_EmptySet
  <2> QED BY <1>5, <2>1, <2>2, <2>3, <2>4
<1>8. proc[p].partial > 0 <=> \E i \in Items : <<r, i>> \in flagged
  BY <1>1 DEF Kept
<1>9. \A i \in Items : <<r, i>> \in flagged => i \in G
  <2>1. SUFFICES ASSUME NEW i \in Items, <<r, i>> \in stored \ lost
                 PROVE  i \in W
    BY DEF BookInv, Sound
  <2>2. ~Fresh(<<r, i>>)
    BY <2>1 DEF Fresh
  <2>3. ~(i >= proc[p].next)
    BY <1>1, <2>1, <2>2 DEF OwnInv, Untaken, Ended
  <2> QED BY <1>2, <1>3, <2>3 DEF Items
<1>10. W \subseteq Items /\ W # {} /\ G \subseteq W
  <2>1. W \subseteq Items
    BY WorkIsItems
  <2>2. 1 \in W
    BY <1>2
  <2> QED BY <2>1, <2>2
<1>11. /\ t.type = TypeOf(p) /\ t.requests = n /\ t.errors = Cardinality(W \ G)
       /\ t.status = RunStatus(n, Cardinality(W \ G), proc[p].partial)
  BY <1>7 DEF Totals
<1>12. /\ t.status \in {"SUCCEEDED", "PARTIAL", "FAILED"}
       /\ t.status = "FAILED" <=> Cardinality(W \ G) = n
       /\ t.status = "SUCCEEDED" => Cardinality(W \ G) = 0 /\ ~(proc[p].partial > 0)
       /\ t.status = "PARTIAL" => Cardinality(W \ G) # n /\ (Cardinality(W \ G) > 0 \/ proc[p].partial > 0)
  <2>1. proc[p].partial \in Nat /\ n >= 1
    BY <1>1, <1>2 DEF ProcType
  <2> QED BY <1>7, <1>11, <2>1 DEF RunStatus
<1>13. t.status = "FAILED" => G = {}
  BY <1>7, <1>10, <1>12
<1>14. t.status = "SUCCEEDED" => {i \in G : <<r, i>> \notin flagged} = W
  BY <1>7, <1>8, <1>10, <1>12
<1>15. t.status = "PARTIAL" => {i \in G : <<r, i>> \notin flagged} # W /\ G # {}
  <2>1. G = {} => W \ G = W
    OBVIOUS
  <2>2. G = {} => Cardinality(W \ G) = n
    BY <1>5, <2>1
  <2>3. G = W => Cardinality(W \ G) = 0
    BY FS_EmptySet
  <2>4. {i \in G : <<r, i>> \notin flagged} = W => G = W /\ ~\E i \in W : <<r, i>> \in flagged
    BY <1>10
  <2>5. proc[p].partial > 0 => \E i \in W : <<r, i>> \in flagged
    BY <1>8, <1>9, <1>10
  <2> QED BY <1>12, <2>2, <2>3, <2>4, <2>5
<1>16. {i \in W \ G : problems[<<r, i>>] = "none"} = Untraced(p)
  BY <1>6 DEF Untraced
<1>17. {i \in W : ingestions[<<r, i>>] = "RECEIVED"} = Unread(p)
  BY <1>4 DEF Unread
<1>18. /\ Cardinality({i \in W \ G : problems[<<r, i>>] = "none"}) <= faults
       /\ Cardinality({i \in W : ingestions[<<r, i>>] = "RECEIVED"}) <= faults
  BY <1>1, <1>16, <1>17 DEF Kept
<1>19. runs[r].type = TypeOf(p)
  BY <1>1 DEF Kept
<1> QED BY <1>4, <1>5, <1>10, <1>11, <1>12, <1>13, <1>14, <1>15, <1>18, <1>19

\* So do the rows of a run that is aborted.
LEMMA AllDone ==
  ASSUME TypeOK, LoopInv, BookInv, NEW p \in Procs, proc[p].pc = "abort"
  PROVE  LET r == proc[p].run
             W == Work(TypeOf(p))
         IN  /\ runs[r].type = TypeOf(p) /\ Aborted(r)
             /\ Cardinality({i \in W \ Good(r) : problems[<<r, i>>] = "none"}) <= faults
             /\ Cardinality({i \in W : ingestions[<<r, i>>] = "RECEIVED"}) <= faults
<1> DEFINE r == proc[p].run
           W == Work(TypeOf(p))
<1>1. /\ Kept(p) /\ proc[p].next \in 1..(NumItems + 1) /\ proc[p].next \notin W
      /\ runs[r].type = TypeOf(p) /\ Aborted(r)
  BY DEF Running, BookInv, Books, TypeOK, ProcType, Kept
<1>2. PICK n \in Nat : n >= 1 /\ W = 1..n /\ n <= NumItems
  BY RunAssumption DEF Work
<1>3. proc[p].next = n + 1
  <2>1. proc[p].next - 1 \in 0..n
    BY <1>1, <1>2 DEF Kept
  <2> QED BY <1>1, <1>2, <2>1
<1>4. \A l \in Lanes : lane[<<p, l>>].pc = "free"
  BY DEF LoopInv, Slots
<1>5. Done(p) = W
  BY <1>2, <1>3, <1>4 DEF Done
<1>6. Missed(p) = W \ Good(r)
  BY <1>1, <1>5 DEF Missed, Known, Good, ItemsOf
<1>7. {i \in W \ Good(r) : problems[<<r, i>>] = "none"} = Untraced(p)
  BY <1>6 DEF Untraced
<1>8. {i \in W : ingestions[<<r, i>>] = "RECEIVED"} = Unread(p)
  BY <1>5 DEF Unread
<1> QED BY <1>1, <1>7, <1>8 DEF Kept

\* A process's step keeps the books.
LEMMA StepBookInv ==
  ASSUME TypeOK, TypeOK', LoopInv, OwnInv, BookInv, NEW p \in Procs, Step(p)
  PROVE  BookInv'
<1> DEFINE r0 == proc[p].run
<1>1. /\ \A q \in Procs \ {p} : proc'[q] = proc[q] /\ (Running(q)' <=> Running(q))
      /\ \A s \in Slots : lane'[s] = lane[s] \/ (s[1] = p /\ lane'[s] = Free)
      /\ \A s \in Slots : s[1] = p => lane'[s].pc = "free"
      /\ proc'[p].pc = "collect" => BeginRun(p)
      /\ Running(p) => r0 \in RunIds /\ Kept(p)
  BY StepShape DEF Running, LoopInv, BookInv, Books
<1>2. /\ UNCHANGED <<ingestions, problems, stored, flagged>> /\ faults' >= faults
      /\ lost' = lost \/ (FinalizeFails(p) /\ lost' = lost \cup {<<r0, 0>>})
      /\ \/ BeginRun(p) \/ FinalizeFails(p)
         \/ ~Running(p)' /\ (Finalize(p) \/ Abort(p) \/ runs' = runs)
  BY StepEffect DEF BookInv
<1>3. \A r \in RunIds, i \in Items : SamePair(<<r, i>>)
  <2>1. \A r \in RunIds, i \in Items : <<r, i>> # <<r0, 0>>
    BY DEF Items
  <2> QED BY <1>2, <2>1 DEF SamePair
<1>4. \A r \in RunIds : Aborted(r) => Aborted(r)'
  BY <1>2 DEF Aborted
<1>5. ASSUME NEW r \in RunIds
      PROVE  \/ runs'[r] = runs[r]
             \/ BeginRun(p) /\ runs[r].status = "none" /\ runs'[r].status = "RUNNING"
             \/ r = r0 /\ Running(p) /\ Ended(p) /\ runs'[r] = Totals(p) /\ (Finalize(p) \/ FinalizeFails(p))
             \/ /\ r = r0 /\ Running(p) /\ Abort(p) /\ proc[p].pc = "abort"
                /\ runs'[r].status = "FAILED" /\ runs'[r].type = runs[r].type
  <2>1. runs \in [RunIds -> RunType]
    BY DEF TypeOK
  <2>2. CASE BeginRun(p)
    BY <2>1, <2>2 DEF BeginRun, RunType, NoRun
  <2>3. CASE Finalize(p) \/ FinalizeFails(p)
    BY <2>1, <2>3 DEF Finalize, FinalizeFails, Ended, Running
  <2>4. CASE Abort(p)
    BY <2>1, <2>4, ZenonT(30) DEF Abort, RunType, Running
  <2> QED BY <1>2, <2>2, <2>3, <2>4
<1>6. Reports'
  <2>1. SUFFICES ASSUME NEW r \in RunIds PROVE Report(r)'
    BY DEF Reports
  <2>2. CASE runs'[r] = runs[r]
    BY <1>2, <1>3, <1>4, <2>2, ReportSame DEF BookInv, Reports
  <2>3. CASE runs'[r].status = "RUNNING"
    BY <2>3 DEF Report, Finished
  <2>4. CASE r = r0 /\ Ended(p) /\ runs'[r] = Totals(p)
    <3> DEFINE W == Work(TypeOf(p))
               G == {i \in W : <<r, i>> \in stored \ lost}
    <3>1. /\ Totals(p).type = TypeOf(p)
          /\ Totals(p).status = "SUCCEEDED" => {i \in G : <<r, i>> \notin flagged} = W
          /\ Totals(p).status = "PARTIAL" => {i \in G : <<r, i>> \notin flagged} # W /\ G # {}
          /\ Totals(p).status = "FAILED" => G = {}
          /\ Totals(p).requests = Cardinality(W) /\ Totals(p).errors = Cardinality(W \ G)
          /\ Cardinality({i \in W \ G : problems[<<r, i>>] = "none"}) <= faults
          /\ Cardinality({i \in W : ingestions[<<r, i>>] = "RECEIVED"}) <= faults
      BY <2>4, TotalsAreHonest
    <3>2. ItemsOf(r)' = W /\ W \subseteq Items
      BY <2>4, <3>1, WorkIsItems DEF ItemsOf
    <3>3. Good(r)' = G
      BY <1>3, <3>2 DEF Good, SamePair
    <3>4. Flawless(r)' = {i \in G : <<r, i>> \notin flagged}
      BY <1>2, <3>3 DEF Flawless
    <3>5. Silent(r)' = {i \in W \ G : problems[<<r, i>>] = "none"}
      BY <1>2, <3>2, <3>3 DEF Silent
    <3>6. Left(r)' = {i \in W : ingestions[<<r, i>>] = "RECEIVED"}
      BY <1>2, <3>2 DEF Left
    <3>7. Cardinality(Silent(r)') <= faults' /\ Cardinality(Left(r)') <= faults'
      <4>1. IsFiniteSet(Items)
        BY RunAssumption, FS_Interval DEF Items
      <4>2. Silent(r)' \subseteq Items /\ Left(r)' \subseteq Items
        BY <3>2, <3>5, <3>6
      <4>3. Cardinality(Silent(r)') \in Nat /\ Cardinality(Left(r)') \in Nat
        BY <4>1, <4>2, FS_Subset, FS_CardinalityType
      <4>4. faults \in Nat /\ faults' \in Nat
        BY RunAssumption DEF TypeOK
      <4> QED BY <1>2, <3>1, <3>5, <3>6, <4>3, <4>4
    <3>8. /\ runs'[r].requests = Cardinality(ItemsOf(r)')
          /\ runs'[r].errors = Cardinality(ItemsOf(r)' \ Good(r)')
      BY <2>4, <3>1, <3>2, <3>3
    <3>9. /\ runs'[r].status = "SUCCEEDED" => Flawless(r)' = ItemsOf(r)'
          /\ runs'[r].status = "PARTIAL" => Flawless(r)' # ItemsOf(r)' /\ Good(r)' # {}
          /\ runs'[r].status = "FAILED" => Good(r)' = {}
      BY <2>4, <3>1, <3>2, <3>3, <3>4
    <3> QED BY <3>7, <3>8, <3>9 DEF Report
  <2>5. CASE r = r0 /\ proc[p].pc = "abort" /\ runs'[r].status = "FAILED" /\ runs'[r].type = runs[r].type
    <3> DEFINE W == Work(TypeOf(p))
    <3>1. /\ runs[r].type = TypeOf(p) /\ Aborted(r)
          /\ Cardinality({i \in W \ Good(r) : problems[<<r, i>>] = "none"}) <= faults
          /\ Cardinality({i \in W : ingestions[<<r, i>>] = "RECEIVED"}) <= faults
      BY <2>5, AllDone
    <3>2. ItemsOf(r)' = W /\ ItemsOf(r) = W /\ W \subseteq Items
      BY <2>5, <3>1, WorkIsItems DEF ItemsOf
    <3>3. Good(r)' = Good(r)
      BY <1>3, <3>2 DEF Good, SamePair
    <3>5. Silent(r)' = {i \in W \ Good(r) : problems[<<r, i>>] = "none"}
      BY <1>2, <3>2, <3>3 DEF Silent
    <3>6. Left(r)' = {i \in W : ingestions[<<r, i>>] = "RECEIVED"}
      BY <1>2, <3>2 DEF Left
    <3>7. Cardinality(Silent(r)') <= faults' /\ Cardinality(Left(r)') <= faults'
      <4>1. IsFiniteSet(Items)
        BY RunAssumption, FS_Interval DEF Items
      <4>2. Silent(r)' \subseteq Items /\ Left(r)' \subseteq Items
        BY <3>2, <3>5, <3>6
      <4>3. Cardinality(Silent(r)') \in Nat /\ Cardinality(Left(r)') \in Nat
        BY <4>1, <4>2, FS_Subset, FS_CardinalityType
      <4>4. faults \in Nat /\ faults' \in Nat
        BY RunAssumption DEF TypeOK
      <4> QED BY <1>2, <3>1, <3>5, <3>6, <4>3, <4>4
    <3> QED BY <1>4, <2>5, <3>1, <3>7 DEF Report
  <2> QED BY <1>5, <2>2, <2>3, <2>4, <2>5
<1>7. Idle'
  <2>1. ~Running(p)' => /\ proc'[p].next = 1 /\ proc'[p].requests = 0
                        /\ proc'[p].errors = 0 /\ proc'[p].partial = 0
    BY StepEffect DEF BookInv
  <2> QED BY <1>1, <2>1 DEF BookInv, Idle
<1>8. Sound'
  <2>1. <<r0, 0>> \notin Pairs /\ flagged \subseteq Pairs
    BY DEF Pairs, Items, TypeOK
  <2> QED BY <1>2, <2>1 DEF BookInv, Sound
<1>9. InHand'
  <2>1. SUFFICES ASSUME NEW t \in Slots, lane'[t].pc # "free"
                 PROVE  /\ Pair(t)' \notin stored' \ lost'
                        /\ lane'[t].pc = "fetch" => ingestions'[Pair(t)'] = "none"
                        /\ lane'[t].pc = "problem" => ingestions'[Pair(t)'] # "RECEIVED"
    BY DEF InHand, At
  <2>2. t[1] \in Procs \ {p} /\ lane'[t] = lane[t]
    BY <1>1, <2>1 DEF Slots
  <2>3. Pair(t)' = Pair(t)
    BY <1>1, <2>2 DEF Pair
  <2> QED BY <1>2, <2>1, <2>2, <2>3 DEF BookInv, InHand, At
<1>10. BeginRun(p) => proc'[p].run \in RunIds /\ runs[proc'[p].run].status = "none"
  BY DEF BeginRun, TypeOK, ProcType
<1>11. \A r \in RunIds : runs'[r].status = "none" => runs[r].status = "none"
  <2>1. Ended(p) => Totals(p).status # "none"
    BY DEF Totals, RunStatus
  <2> QED BY <1>5, <2>1
<1>12. Blank'
  <2>1. SUFFICES ASSUME NEW r \in RunIds, NEW i \in Items,
                        \/ runs'[r].status = "none"
                        \/ \E q \in Procs : proc'[q].pc = "collect" /\ proc'[q].run = r /\ i >= proc'[q].next
                 PROVE  ingestions[<<r, i>>] = "none"
    BY <1>2 DEF Blank
  <2>2. \/ runs[r].status = "none"
        \/ \E q \in Procs : proc[q].pc = "collect" /\ proc[q].run = r /\ i >= proc[q].next
    BY <1>1, <1>10, <1>11, <2>1
  <2> QED BY <2>2 DEF BookInv, Blank
<1>13. Books'
  <2>1. SUFFICES ASSUME NEW q \in Procs, Running(q)'
                 PROVE  Kept(q)'
    BY DEF Books
  <2>2. CASE q # p
    <3>1. /\ Running(q) /\ Kept(q) /\ proc[q].run \in RunIds /\ proc'[q] = proc[q]
          /\ runs[proc[q].run].status # "none" /\ (Running(p) => proc[q].run # r0)
      BY <1>1, <2>1, <2>2 DEF BookInv, Books, LoopInv, OwnInv, OwnRun, Running
    <3>2. runs'[proc[q].run] = runs[proc[q].run]
      BY <1>5, <3>1
    <3>3. \A l \in Lanes : lane'[<<q, l>>] = lane[<<q, l>>]
      BY <1>1, <2>2 DEF Slots
    <3>4. Done(q)' = Done(q)
      BY <3>1, <3>3 DEF Done
    <3> QED BY <1>2, <1>3, <1>4, <3>1, <3>2, <3>4, KeptSame
  <2>3. CASE q = p /\ FinalizeFails(p)
    <3>1. /\ Ended(p) /\ Running(p) /\ Kept(p) /\ r0 \in RunIds /\ lane' = lane
          /\ proc'[p] = [proc[p] EXCEPT !.pc = "abort"] /\ lost' = lost \cup {<<r0, 0>>}
          /\ runs' \in {runs, [runs EXCEPT ![r0] = Totals(p)]} /\ proc[p] \in ProcType
      BY <1>1, <2>3 DEF FinalizeFails, Ended, Running, TypeOK
    <3>2. /\ proc'[p].pc = "abort" /\ proc'[p].run = r0 /\ proc'[p].next = proc[p].next
          /\ proc'[p].requests = proc[p].requests /\ proc'[p].errors = proc[p].errors
          /\ proc'[p].partial = proc[p].partial
      BY <3>1 DEF ProcType
    <3>3. Done(p)' = Done(p)
      BY <3>1, <3>2 DEF Done
    <3>4. Missed(p)' = Missed(p) /\ Untraced(p)' = Untraced(p) /\ Unread(p)' = Unread(p)
      BY <1>3, <3>1, <3>2, <3>3, SameSets
    <3>5. runs'[r0].type = TypeOf(p)
      BY <3>1 DEF Kept, Totals, TypeOK
    <3>6. Cardinality(Untraced(p)') <= faults' /\ Cardinality(Unread(p)') <= faults'
      <4>1. Untraced(p) \in SUBSET Done(p) /\ Unread(p) \in SUBSET Done(p)
        BY DEF Untraced, Unread, Missed
      <4>2. Cardinality(Untraced(p)) \in Nat /\ Cardinality(Unread(p)) \in Nat
        BY <4>1, Countable
      <4>3. faults \in Nat /\ faults' \in Nat
        BY RunAssumption DEF TypeOK
      <4>4. Cardinality(Untraced(p)) <= faults /\ Cardinality(Unread(p)) <= faults
        BY <3>1 DEF Kept
      <4> QED BY <1>2, <3>4, <4>2, <4>3, <4>4
    <3>7. proc'[p].errors = Cardinality(Missed(p)')
      BY <3>1, <3>2, <3>4 DEF Kept
    <3>8. Aborted(r0)' /\ proc'[p].next \notin Work(TypeOf(p))
      BY <3>1, <3>2 DEF Aborted, Ended
    <3>9. proc'[p].partial > 0 <=> \E i \in Items : <<proc'[p].run, i>> \in flagged'
      BY <1>2, <3>1, <3>2 DEF Kept
    <3>10. proc'[p].next - 1 \in Work(TypeOf(p)) \cup {0} /\ proc'[p].requests = proc'[p].next - 1
      BY <3>1, <3>2 DEF Kept
    <3>11. Kept(p)'
      BY <3>2, <3>5, <3>6, <3>7, <3>8, <3>9, <3>10 DEF Kept
    <3> QED BY <2>3, <3>11
  <2>4. CASE q = p /\ BeginRun(p)
    <3>1. PICK r \in RunIds :
            /\ runs[r].status = "none"
            /\ runs' = [runs EXCEPT ![r] = [NoRun EXCEPT !.type = TypeOf(p), !.status = "RUNNING"]]
            /\ proc' = [proc EXCEPT ![p].pc = "collect", ![p].run = r]
      BY <2>4 DEF BeginRun
    <3>2. /\ proc[p].next = 1 /\ proc[p].requests = 0 /\ proc[p].errors = 0 /\ proc[p].partial = 0
          /\ proc[p] \in ProcType /\ proc \in [Procs -> ProcType] /\ runs \in [RunIds -> RunType]
      BY <2>4 DEF BeginRun, BookInv, Idle, Running, TypeOK
    <3>3. /\ proc'[p].next = 1 /\ proc'[p].requests = 0 /\ proc'[p].errors = 0 /\ proc'[p].partial = 0
          /\ proc'[p].pc = "collect" /\ proc'[p].run = r
      BY <3>1, <3>2 DEF ProcType
    <3>4. runs'[r].type = TypeOf(p) /\ runs'[r].status = "RUNNING"
      BY <3>1, <3>2 DEF NoRun
    <3>5. Done(p)' = {}
      BY <3>3 DEF Done
    <3>6. Missed(p)' = {} /\ Untraced(p)' = {} /\ Unread(p)' = {}
      BY <3>5 DEF Missed, Untraced, Unread
    <3>7. Cardinality(Missed(p)') = 0 /\ Cardinality(Untraced(p)') = 0 /\ Cardinality(Unread(p)') = 0
      BY <3>6, FS_EmptySet
    <3>8. \A i \in Items : <<r, i>> \notin flagged'
      BY <1>2, <3>1 DEF OwnInv, Untaken, Fresh, BookInv, Sound
    <3>9. faults' \in Nat
      BY RunAssumption DEF TypeOK
    <3>10. ~(proc'[p].partial > 0) /\ proc'[p].next - 1 = 0 /\ 0 <= faults'
      BY <3>3, <3>9
    <3>11. Kept(p)'
      BY <3>3, <3>4, <3>7, <3>8, <3>10 DEF Kept
    <3> QED BY <2>4, <3>11
  <2> QED BY <1>2, <2>1, <2>2, <2>3, <2>4
<1>14. ASSUME NEW r, Settled(r)
       PROVE  Settled(r)'
  <2>1. r \in RunIds /\ runs[r].status \in {"SUCCEEDED", "PARTIAL"} /\ (Running(p) => r # r0)
    BY <1>14 DEF Settled
  <2>2. runs'[r] = runs[r]
    BY <1>5, <2>1
  <2>3. Running(p)' => proc'[p].run # r
    <3>1. FinalizeFails(p) => Running(p) /\ proc'[p].run = r0
      BY DEF FinalizeFails, Ended, Running, TypeOK, ProcType
    <3> QED BY <1>2, <1>10, <2>1, <3>1
  <2> QED BY <1>1, <1>14, <2>1, <2>2, <2>3 DEF Settled
<1>15. Noted'
  <2>1. /\ proc'[p].pc = "note" => /\ Finalize(p) /\ Totals(p).status # "FAILED" /\ proc'[p].run = r0
        /\ \A k \in Periods : checkpoints'[k].status = "SUCCEEDED" =>
             \/ checkpoints[k] = checkpoints'[k]
             \/ proc[p].pc = "note" /\ checkpoints'[k].run = r0
    BY StepEffect DEF BookInv
  <2>2. ASSUME proc'[p].pc = "note", NEW r, r = r0
        PROVE  Settled(r)'
    <3>1. /\ Finalize(p) /\ Totals(p).status # "FAILED" /\ Ended(p) /\ Running(p) /\ r \in RunIds
          /\ runs'[r] = Totals(p)
      BY <1>1, <2>1, <2>2 DEF Finalize, Ended, Running, TypeOK
    <3>2. Totals(p).status \in {"SUCCEEDED", "PARTIAL"}
      BY <3>1, TotalsAreHonest
    <3>3. ~Running(p)'
      BY <2>2 DEF Running
    <3>4. \A q \in Procs : Running(q)' => proc'[q].run # r
      BY <1>1, <2>2, <3>1, <3>3 DEF OwnInv, OwnRun
    <3> QED BY <3>1, <3>2, <3>4 DEF Settled
  <2>3. ASSUME NEW q \in Procs, proc'[q].pc = "note", NEW r, r = proc'[q].run
        PROVE  Settled(r)'
    <3>1. CASE q = p
      BY <2>1, <2>2, <2>3, <3>1
    <3>2. CASE q # p
      <4>1. Settled(r)
        BY <1>1, <2>3, <3>2 DEF BookInv, Noted
      <4> QED BY <1>14, <4>1
    <3> QED BY <3>1, <3>2
  <2>4. ASSUME NEW k \in Periods, checkpoints'[k].status = "SUCCEEDED", NEW r, r = checkpoints'[k].run
        PROVE  Settled(r)'
    <3>1. Settled(r)
      BY <2>1, <2>4 DEF BookInv, Noted
    <3> QED BY <1>14, <3>1
  <2>5. \A q \in Procs : proc'[q].pc = "note" =>
          /\ proc'[q].run \in RunIds /\ runs'[proc'[q].run].status \in {"SUCCEEDED", "PARTIAL"}
          /\ \A x \in Procs : Running(x)' => proc'[x].run # proc'[q].run
    BY <2>3 DEF Settled
  <2>6. \A k \in Periods : checkpoints'[k].status = "SUCCEEDED" =>
          /\ checkpoints'[k].run \in RunIds /\ runs'[checkpoints'[k].run].status \in {"SUCCEEDED", "PARTIAL"}
          /\ \A x \in Procs : Running(x)' => proc'[x].run # checkpoints'[k].run
    BY <2>4 DEF Settled
  <2> QED BY <2>5, <2>6 DEF Noted, Settled
<1> QED BY <1>6, <1>7, <1>8, <1>9, <1>12, <1>13, <1>15 DEF BookInv

LEMMA StutterBookInv ==
  ASSUME BookInv, UNCHANGED vars
  PROVE  BookInv'
<1>1. UNCHANGED <<runs, ingestions, problems, stored, checkpoints, proc, lane, faults, flagged, lost>>
  BY DEF vars, audit, budgets, history
<1>2. Blank' /\ InHand' /\ Sound' /\ Idle'
  BY <1>1 DEF BookInv, Blank, InHand, Sound, Idle, At, Pair, Running
<1>3. Books'
  <2>1. \A p \in Procs : /\ Done(p)' = Done(p) /\ Missed(p)' = Missed(p)
                         /\ Untraced(p)' = Untraced(p) /\ Unread(p)' = Unread(p)
    BY <1>1 DEF Missed, Untraced, Unread, Done, Known
  <2> QED BY <1>1, <2>1 DEF BookInv, Books, Kept, Running, Aborted
<1>4. Noted'
  BY <1>1 DEF BookInv, Noted, Settled, Running
<1>5. Reports'
  BY <1>1 DEF BookInv, Reports, Report, Finished, Flawless, Silent, Left, Good, ItemsOf, Aborted
<1> QED BY <1>2, <1>3, <1>4, <1>5 DEF BookInv

LEMMA BooksBalance == Spec => [](BookInv /\ TypeOK)
<1>1. Init => TypeOK /\ LoopInv /\ OwnInv /\ ProcessedMeansStored /\ BookInv
  BY TypeInit, OwnInit, BookInit
<1>2. TypeOK /\ LoopInv /\ OwnInv /\ ProcessedMeansStored /\ BookInv /\ [Next]_vars
        => TypeOK' /\ LoopInv' /\ OwnInv' /\ ProcessedMeansStored' /\ BookInv'
  <2>1. ASSUME TypeOK, LoopInv, OwnInv, ProcessedMeansStored, BookInv, Next
        PROVE  TypeOK' /\ LoopInv' /\ OwnInv' /\ ProcessedMeansStored' /\ BookInv'
    <3>1. CASE \E p \in Procs : Step(p)
      <4>1. PICK p \in Procs : Step(p)
        BY <3>1
      <4>2. TypeOK'
        BY <2>1, <4>1, StepTyped
      <4> QED BY <2>1, <4>1, <4>2, StepLoop, StepOwn, StepBookInv
    <3>2. CASE \E s \in Slots : Lane(s)
      <4>1. PICK s \in Slots : Lane(s)
        BY <3>2
      <4>2. TypeOK'
        BY <2>1, <4>1, LaneTyped
      <4> QED BY <2>1, <4>1, <4>2, LaneLoop, LaneOwn, LaneBookInv
    <3> QED BY <2>1, <3>1, <3>2, NextSteps
  <2> QED BY <2>1, StutterTyped, StutterOwn, StutterBookInv
<1> QED BY <1>1, <1>2, PTL DEF Spec

\* The status that a run and its catch write into ingestion_runs says whether all, some
\* or nothing of its items was stored and without an issue (classifyRunStatus), for any
\* number of workers, backfills, lanes, items and faults.
THEOREM RunReportsAreHonest == Spec => []StatusIsHonest
<1>1. BookInv => StatusIsHonest
  BY ReportsOfRuns DEF BookInv
<1> QED BY <1>1, BooksBalance, PTL

\* The counters that the lanes of a run keep in memory are exact: an answer asked for
\* each item, an error for each that was not stored (pipeline.ts, runIngestion).
THEOREM CountersAreExact == Spec => []CountersMatchRows
<1>1. BookInv => CountersMatchRows
  BY ReportsOfRuns DEF BookInv
<1> QED BY <1>1, BooksBalance, PTL

\* No failure escapes the audit but for a statement of the audit itself that failed:
\* an item that is not stored has an error row (archiveAndProcess,
\* recordTransportFailure).
THEOREM FailuresAreAudited == Spec => []FailuresLeaveATrace
<1>1. BookInv => FailuresLeaveATrace
  BY ReportsOfRuns DEF BookInv
<1> QED BY <1>1, BooksBalance, PTL

\* What became of a payload is told: no ingestion of a finished run is still RECEIVED,
\* one exception for each statement that failed (archiveAndProcess).
THEOREM NothingIsLeftReceived == Spec => []NothingLeftReceived
<1>1. BookInv => NothingLeftReceived
  BY ReportsOfRuns DEF BookInv
<1> QED BY <1>1, BooksBalance, PTL

\* What a backfill marks complete names a run that stored something and that no
\* process will change any more, however many backfills and workers there are
\* (scripts/backfill.ts).
THEOREM CheckpointsAreBacked == Spec => []CheckpointNamesItsRun
<1>1. ASSUME BookInv, TypeOK
      PROVE  CheckpointNamesItsRun
  <2>1. SUFFICES ASSUME NEW k \in Periods, checkpoints[k].status = "SUCCEEDED"
                 PROVE  LET r == checkpoints[k].run
                        IN  r # 0 /\ runs[r].status \in {"SUCCEEDED", "PARTIAL"} /\ Good(r) # {}
    BY DEF CheckpointNamesItsRun
  <2> DEFINE r == checkpoints[k].run
  <2>2. r \in RunIds /\ runs[r].status \in {"SUCCEEDED", "PARTIAL"}
    BY <1>1, <2>1 DEF BookInv, Noted, Settled
  <2>3. Report(r) /\ Finished(r)
    BY <1>1, <2>2 DEF BookInv, Reports, Finished
  <2>4. ItemsOf(r) # {}
    <3>1. 1 \in ItemsOf(r)
      BY RunAssumption DEF ItemsOf, Work
    <3> QED BY <3>1
  <2>5. Good(r) # {}
    BY <2>2, <2>3, <2>4 DEF Report, Flawless
  <2> QED BY <2>2, <2>5 DEF RunIds
<1> QED BY <1>1, BooksBalance, PTL
=============================================================================
