------------------------- MODULE RunLifecycleProofs --------------------------
(***************************************************************************)
(* What TLAPS proves of RunLifecycle, for any number of engines, tasks,    *)
(* executions and runs, any retry policy and any bounds.                   *)
(***************************************************************************)
EXTENDS RunLifecycle, FiniteSetTheorems, TLAPS

(* A row that exists names its task and its execution. *)
RowsRefer ==
    \A r \in Run : runs[r].status # "absent" =>
        runs[r].task \in Task /\ runs[r].exec \in Execution

(* A queued run has a lease left, and so has one that is being deferred. *)
LeasesLeft ==
    /\ \A r \in Run : runs[r].status = "queued" => runs[r].gen < MaxLease
    /\ \A e \in Engine, r \in Run :
          job[e][r].result = "deferred" => job[e][r].gen < MaxLease

TypeInv == TypeOK /\ RowsRefer /\ LeasesLeft

TypedTables ==
    /\ runs \in [Run -> RunRow]
    /\ executions \in [Execution -> ExecutionRow]
    /\ record \in [Execution -> RecordRow]
    /\ published \in [Run -> [EventType -> Nat]]
    /\ output \in [Run -> [Key -> Nat]]
    /\ retryClaims \subseteq Run
    /\ emitClaims \subseteq Task \X (Execution \cup {None}) \X Key

TypedMemory ==
    /\ engine \in [Engine -> {"down", "recovering", "up", "stopping"}]
    /\ job \in [Engine -> [Run -> Job]]
    /\ sweep \in [Engine -> SUBSET (Run \X (0 .. MaxLease))]
    /\ recover \in [Engine -> SUBSET (Run \X (0 .. MaxLease))]
    /\ faults \in 0 .. MaxFaults

-----------------------------------------------------------------------------
(* newId returns an id that no row has. *)
LEMMA NewIdIsUnused ==
    ASSUME Unused # {}
    PROVE  NewId \in Run /\ runs[NewId].status = "absent"
  BY DEF NewId, Unused

(* A freshly queued row is a row, for the task and execution asked for. *)
LEMMA QueuedRunTyped ==
    ASSUME NEW t \in Task, NEW x \in Execution, NEW n \in Nat, NEW due \in BOOLEAN
    PROVE  /\ QueuedRun(t, x, n, due) \in RunRow
           /\ QueuedRun(t, x, n, due).status = "queued"
           /\ QueuedRun(t, x, n, due).gen = 0
           /\ QueuedRun(t, x, n, due).task \in Task
           /\ QueuedRun(t, x, n, due).exec \in Execution
  <1>1. NoRun \in RunRow
    BY RunAssumption DEF NoRun, RunRow, RunError, Live, Terminal
  <1>2. QueuedRun(t, x, n, due) \in RunRow
    BY <1>1 DEF QueuedRun, RunRow, RunError, Live, Terminal
  <1>3. QED
    BY <1>2 DEF QueuedRun, NoRun

(* Ending a run leaves a table of records. *)
LEMMA FailedRecordTyped ==
    ASSUME TypedTables, NEW r \in Run
    PROVE  FailedRecord(r) \in [Execution -> RecordRow]
  BY DEF FailedRecord, TypedTables, RecordRow

-----------------------------------------------------------------------------
(* What finishRun does to the tables, stated row by row: the run it ends,   *)
(* at most one retry inserted under an unused id, every other row as it was *)
(* and one lifecycle event for the run that ended.                          *)
Inserted(q) ==
    /\ runs[q].status = "absent"
    /\ runs'[q].status = "queued"
    /\ runs'[q].gen = 0
    /\ runs'[q].task \in Task
    /\ runs'[q].exec \in Execution

EndsWith(r, status) ==
    /\ runs'[r].status = status
    /\ runs'[r].gen = runs[r].gen
    /\ runs'[r].task = runs[r].task
    /\ runs'[r].exec = runs[r].exec
    /\ \A q \in Run \ {r} : runs'[q] = runs[q] \/ Inserted(q)
    /\ \A q \in Run \ {r} : published'[q] = published[q]
    /\ \A t \in Lifecycle :
          published'[r][t] = IF t = EventFor(status) THEN published[r][t] + 1
                                                     ELSE published[r][t]
    /\ output' = output

EngineOutcome == {"succeeded", "failed", "timed_out"}

LEMMA RetryTyped ==
    ASSUME TypedTables, RowsRefer, NEW r \in Run, runs[r].status # "absent"
    PROVE  LET retried == QueuedRun(runs[r].task, runs[r].exec, runs[r].attempt + 1, FALSE)
           IN  /\ retried \in RunRow
               /\ retried.status = "queued" /\ retried.gen = 0
               /\ retried.task \in Task /\ retried.exec \in Execution
  <1>1. runs[r].task \in Task /\ runs[r].exec \in Execution /\ runs[r].attempt + 1 \in Nat
    BY DEF RowsRefer, TypedTables, RunRow
  <1>2. QED
    BY <1>1, QueuedRunTyped

LEMMA AdmissionTyped ==
    ASSUME NEW x \in Execution, executions \in [Execution -> ExecutionRow]
    PROVE  [executions EXCEPT ![x].admitted = @ + 1] \in [Execution -> ExecutionRow]
  BY DEF ExecutionRow

LEMMA FinishRunEffect ==
    ASSUME TypedTables, RowsRefer,
           NEW r \in Run, runs[r].status = "running",
           NEW status \in EngineOutcome, NEW error \in RunError, NEW retry \in BOOLEAN,
           FinishRun(r, status, error, retry)
    PROVE  TypedTables' /\ EndsWith(r, status)
  <1> DEFINE x == runs[r].exec
             t == runs[r].task
             decides == Decides(r, retry)
             again == decides /\ ~Spent(r) /\ Budget(x)
             notices == {EventFor(status)}
                        \cup {n \in {"retries_exhausted"} :
                                 decides /\ Spent(r) /\ RetryMax[t] > 0}
                        \cup {n \in {"run_budget_exceeded"} :
                                 decides /\ ~Spent(r) /\ ~Budget(x)}
             ended == [runs EXCEPT ![r].status = status, ![r].error = error]
             retried == QueuedRun(t, x, runs[r].attempt + 1, FALSE)
  <1>1. x \in Execution /\ t \in Task
    BY DEF RowsRefer, TypedTables, RunRow
  <1>2. ended \in [Run -> RunRow] /\ ended[r].status = status
        /\ ended[r].gen = runs[r].gen /\ ended[r].task = t /\ ended[r].exec = x
        /\ \A q \in Run \ {r} : ended[q] = runs[q]
    <2>1. ended = [runs EXCEPT ![r] = [runs[r] EXCEPT !.status = status, !.error = error]]
      BY DEF TypedTables
    <2>2. [runs[r] EXCEPT !.status = status, !.error = error] \in RunRow
      <3>1. runs[r] \in RunRow
        BY DEF TypedTables
      <3>2. status \in Terminal
        BY DEF EngineOutcome, Terminal
      <3>3. QED
        BY <3>1, <3>2 DEF RunRow
    <2>3. QED
      BY <2>1, <2>2 DEF TypedTables, RunRow
  <1>3. again => NewId \in Run /\ NewId # r /\ runs[NewId].status = "absent"
    BY NewIdIsUnused DEF FinishRun
  <1>4. retried \in RunRow /\ retried.status = "queued" /\ retried.gen = 0
        /\ retried.task \in Task /\ retried.exec \in Execution
    BY RetryTyped
  <1>5. runs' = IF again THEN [ended EXCEPT ![NewId] = retried] ELSE ended
    BY DEF FinishRun
  <1>8. executions' \in [Execution -> ExecutionRow]
    <2>1. executions' = IF again THEN [executions EXCEPT ![x].admitted = @ + 1]
                                 ELSE executions
      BY DEF FinishRun
    <2>2. [executions EXCEPT ![x].admitted = @ + 1] \in [Execution -> ExecutionRow]
      BY <1>1, AdmissionTyped DEF TypedTables
    <2>3. QED
      BY <2>1, <2>2 DEF TypedTables
  <1> HIDE DEF ended, retried, again
  <1>6. runs' \in [Run -> RunRow]
    BY <1>2, <1>3, <1>4, <1>5
  <1>7. /\ runs'[r].status = status /\ runs'[r].gen = runs[r].gen
        /\ runs'[r].task = t /\ runs'[r].exec = x
        /\ \A q \in Run \ {r} : runs'[q] = runs[q] \/ Inserted(q)
    BY <1>2, <1>3, <1>4, <1>5 DEF Inserted
  <1>9. record' \in [Execution -> RecordRow]
    BY FailedRecordTyped DEF FinishRun, TypedTables
  <1>10. published' = [published EXCEPT ![r] =
                         [n \in EventType |-> IF n \in notices THEN @[n] + 1 ELSE @[n]]]
    BY DEF FinishRun
  <1>11. \A n \in Lifecycle : n \in notices <=> n = EventFor(status)
    BY DEF Lifecycle, EventFor, EngineOutcome
  <1>12. Lifecycle \subseteq EventType
    BY DEF EventType
  <1> HIDE DEF notices
  <1>13. published' \in [Run -> [EventType -> Nat]]
    BY <1>10 DEF TypedTables
  <1>14. /\ \A q \in Run \ {r} : published'[q] = published[q]
         /\ \A n \in Lifecycle :
               published'[r][n] = IF n = EventFor(status) THEN published[r][n] + 1
                                                          ELSE published[r][n]
    BY <1>10, <1>11, <1>12 DEF TypedTables
  <1>15. retryClaims' \subseteq Run /\ output' = output /\ emitClaims' = emitClaims
    BY DEF FinishRun, TypedTables
  <1>16. TypedTables'
    BY <1>6, <1>8, <1>9, <1>13, <1>15 DEF TypedTables
  <1>17. QED
    BY <1>7, <1>14, <1>15, <1>16 DEF EndsWith

-----------------------------------------------------------------------------
(* The type invariant, action by action.                                    *)
LEMMA TypeOKSplits == TypeOK <=> TypedTables /\ TypedMemory
  BY DEF TypeOK, TypedTables, TypedMemory

(* A change of one job keeps the memory of the processes typed. *)
LEMMA JobTyped ==
    ASSUME TypedMemory, NEW e \in Engine, NEW r \in Run, NEW j \in Job,
           job' = [job EXCEPT ![e][r] = j],
           UNCHANGED <<engine, sweep, recover, faults>>
    PROVE  TypedMemory'
  BY DEF TypedMemory

(* LeasesLeft survives a change of one job and of rows that are not left    *)
(* queued, or were queued before with the same generation.                  *)
LEMMA LeasesLeftKept ==
    ASSUME LeasesLeft, TypedMemory, NEW e \in Engine, NEW r \in Run, NEW j \in Job,
           job' = [job EXCEPT ![e][r] = j],
           j.result = "deferred" => j.gen < MaxLease,
           \A q \in Run : runs'[q].status = "queued" => runs'[q].gen < MaxLease
    PROVE  LeasesLeft'
  BY DEF LeasesLeft, TypedMemory

LEMMA SomeLease == 0 < MaxLease
  BY RunAssumption DEF RunAssumption

LEMMA IdleTyped == Idle \in Job /\ Idle.pc = "none" /\ Idle.result = "none"
  BY RunAssumption DEF Idle, Job

-----------------------------------------------------------------------------
LEMMA TriggerTypes ==
    ASSUME TypeInv, NEW t \in Task, NEW x \in Execution, Trigger(t, x)
    PROVE  TypeInv'
  <1>1. QueuedRun(t, x, 0, TRUE) \in RunRow
        /\ QueuedRun(t, x, 0, TRUE).status = "queued" /\ QueuedRun(t, x, 0, TRUE).gen = 0
        /\ QueuedRun(t, x, 0, TRUE).task \in Task /\ QueuedRun(t, x, 0, TRUE).exec \in Execution
    BY QueuedRunTyped
  <1>2. NewId \in Run
    BY NewIdIsUnused DEF Trigger
  <1>3. runs' = [runs EXCEPT ![NewId] = QueuedRun(t, x, 0, TRUE)]
    BY DEF Trigger
  <1>4. runs' \in [Run -> RunRow] /\ RowsRefer'
    BY <1>1, <1>2, <1>3 DEF TypeInv, TypeOK, RowsRefer
  <1>5. [status |-> "running", runtime |-> "none", admitted |-> 1] \in ExecutionRow
    BY DEF ExecutionRow
  <1>6. executions' \in [Execution -> ExecutionRow]
    BY <1>5 DEF Trigger, TypeInv, TypeOK
  <1>7. TypeOK'
    BY <1>4, <1>6 DEF Trigger, TypeInv, TypeOK, memory
  <1>8. LeasesLeft'
    <2>1. UNCHANGED job
      BY DEF Trigger, memory
    <2>2. QED
      BY <1>1, <1>2, <1>3, <2>1, SomeLease DEF TypeInv, TypeOK, LeasesLeft
  <1>9. QED
    BY <1>4, <1>7, <1>8 DEF TypeInv

LEMMA CancelTypes ==
    ASSUME TypeInv, NEW r \in Run, Cancel(r)
    PROVE  TypeInv'
  <1>1. [runs[r] EXCEPT !.status = "cancelled", !.error = "cancelled"] \in RunRow
    <2>1. runs[r] \in RunRow
      BY DEF TypeInv, TypeOK
    <2>2. QED
      BY <2>1 DEF RunRow, RunError, Terminal
  <1>2. runs' = [runs EXCEPT ![r] = [runs[r] EXCEPT !.status = "cancelled", !.error = "cancelled"]]
    BY DEF Cancel, TypeInv, TypeOK
  <1>3. runs' \in [Run -> RunRow]
    BY <1>1, <1>2 DEF TypeInv, TypeOK
  <1>4. record' \in [Execution -> RecordRow]
    BY FailedRecordTyped, TypeOKSplits DEF Cancel, TypeInv
  <1>5. TypeOK'
    BY <1>3, <1>4 DEF Cancel, TypeInv, TypeOK, memory
  <1>6. RowsRefer' /\ LeasesLeft'
    BY <1>2 DEF Cancel, TypeInv, TypeOK, RunRow, RowsRefer, LeasesLeft, memory, Live
  <1>7. QED
    BY <1>5, <1>6 DEF TypeInv

LEMMA TimeTypes ==
    ASSUME TypeInv, NEW r \in Run, Time(r)
    PROVE  TypeInv'
  <1>0. runs[r] \in RunRow
    BY DEF TypeInv, TypeOK
  <1>1. \E row \in RunRow :
            /\ runs' = [runs EXCEPT ![r] = row]
            /\ row.status = runs[r].status /\ row.gen = runs[r].gen
            /\ row.task = runs[r].task /\ row.exec = runs[r].exec
    <2>1. CASE WaitElapses(r)
      <3>1. [runs[r] EXCEPT !.due = TRUE] \in RunRow
        BY <1>0 DEF RunRow
      <3>2. QED
        BY <2>1, <3>1 DEF WaitElapses, TypeInv, TypeOK, RunRow
    <2>2. CASE DeadlinePasses(r)
      <3>1. [runs[r] EXCEPT !.deadline = "passed"] \in RunRow
        BY <1>0 DEF RunRow
      <3>2. QED
        BY <2>2, <3>1 DEF DeadlinePasses, TypeInv, TypeOK, RunRow
    <2>3. CASE HeartbeatAges(r)
      <3>1. [runs[r] EXCEPT !.stale = TRUE] \in RunRow
        BY <1>0 DEF RunRow
      <3>2. QED
        BY <2>3, <3>1 DEF HeartbeatAges, TypeInv, TypeOK, RunRow
    <2>4. QED
      BY <2>1, <2>2, <2>3 DEF Time
  <1>2. UNCHANGED <<executions, record, published, output, retryClaims, emitClaims, memory>>
    BY DEF Time, WaitElapses, DeadlinePasses, HeartbeatAges
  <1>3. TypeOK'
    BY <1>1, <1>2 DEF TypeInv, TypeOK, memory
  <1>4. RowsRefer' /\ LeasesLeft'
    BY <1>1, <1>2 DEF TypeInv, TypeOK, RowsRefer, LeasesLeft, memory
  <1>5. QED
    BY <1>3, <1>4 DEF TypeInv

-----------------------------------------------------------------------------
(* Steps that touch the memory of one process and no table. *)
LEMMA MemoryStepTypes ==
    ASSUME TypeInv, UNCHANGED tables, TypedMemory',
           \A d \in Engine, q \in Run :
              job'[d][q] = job[d][q] \/ job'[d][q].result # "deferred"
    PROVE  TypeInv'
  <1>1. TypeOK'
    BY TypeOKSplits DEF TypeInv, TypeOK, TypedMemory, tables
  <1>2. RowsRefer' /\ LeasesLeft'
    BY DEF TypeInv, RowsRefer, LeasesLeft, tables
  <1>3. QED
    BY <1>1, <1>2 DEF TypeInv

LEMMA JobStepTypes ==
    ASSUME TypeInv, NEW e \in Engine, NEW r \in Run, NEW j \in Job,
           job' = [job EXCEPT ![e][r] = j],
           j.result = "deferred" => j.gen < MaxLease,
           UNCHANGED <<tables, engine, sweep, recover, faults>>
    PROVE  TypeInv'
  <1>1. TypedMemory /\ LeasesLeft /\ RowsRefer
    BY TypeOKSplits DEF TypeInv
  <1>2. TypedMemory'
    BY <1>1, JobTyped
  <1>3. TypeOK'
    BY <1>2 DEF TypeInv, TypeOK, TypedMemory, tables
  <1>4. LeasesLeft' /\ RowsRefer'
    <2>1. \A q \in Run : runs'[q].status = "queued" => runs'[q].gen < MaxLease
      BY <1>1 DEF LeasesLeft, tables
    <2>2. QED
      BY <1>1, <2>1, LeasesLeftKept DEF RowsRefer, tables
  <1>5. QED
    BY <1>3, <1>4 DEF TypeInv

LEMMA PickUpTypes ==
    ASSUME TypeInv, NEW e \in Engine, PickUp(e)
    PROVE  TypeInv'
  <1>1. [Idle EXCEPT !.pc = "loading"] \in Job /\ [Idle EXCEPT !.pc = "loading"].result # "deferred"
    BY IdleTyped DEF Idle, Job
  <1>2. job' \in [Engine -> [Run -> Job]]
    BY <1>1 DEF PickUp, TypeInv, TypeOK
  <1>3. \A d \in Engine, q \in Run : job'[d][q] = job[d][q] \/ job'[d][q].result # "deferred"
    BY <1>1 DEF PickUp, TypeInv, TypeOK
  <1>4. TypedMemory'
    BY <1>2 DEF PickUp, TypeInv, TypeOK, TypedMemory
  <1>5. QED
    BY <1>3, <1>4, MemoryStepTypes DEF PickUp

LEMMA SweepTypes ==
    ASSUME TypeInv, NEW e \in Engine,
           \/ SweepRead(e)
           \/ \E r \in Run, g \in 0 .. MaxLease : SweepTooLate(e, r, g)
    PROVE  TypeInv'
  <1>1. \A r \in Run : runs[r].gen \in 0 .. MaxLease
    BY DEF TypeInv, TypeOK, RunRow
  <1>2. /\ UNCHANGED <<tables, engine, job, recover, faults>>
        /\ sweep' \in [Engine -> SUBSET (Run \X (0 .. MaxLease))]
    <2>1. CASE SweepRead(e)
      <3> DEFINE overdue == {<<r, runs[r].gen>> : r \in
                       {q \in Run : runs[q].status = "running" /\ runs[q].deadline = "passed"}}
      <3>1. overdue \subseteq Run \X (0 .. MaxLease)
        BY <1>1
      <3>2. sweep' = [sweep EXCEPT ![e] = sweep[e] \cup overdue]
            /\ UNCHANGED <<tables, engine, job, recover, faults>>
        BY <2>1 DEF SweepRead
      <3> HIDE DEF overdue
      <3>3. sweep[e] \cup overdue \in SUBSET (Run \X (0 .. MaxLease))
        BY <3>1 DEF TypeInv, TypeOK
      <3>4. QED
        BY <3>2, <3>3 DEF TypeInv, TypeOK
    <2>2. ASSUME NEW r \in Run, NEW g \in 0 .. MaxLease, SweepTooLate(e, r, g)
          PROVE  /\ UNCHANGED <<tables, engine, job, recover, faults>>
                 /\ sweep' \in [Engine -> SUBSET (Run \X (0 .. MaxLease))]
      BY <2>2 DEF SweepTooLate, TypeInv, TypeOK
    <2>3. QED
      BY <2>1, <2>2
  <1>3. TypedMemory'
    BY <1>2 DEF TypeInv, TypeOK, TypedMemory
  <1>4. QED
    BY <1>2, <1>3, MemoryStepTypes

LEMMA BootTypes ==
    ASSUME TypeInv, NEW e \in Engine, Boot(e)
    PROVE  TypeInv'
  <1>1. \A r \in Run : runs[r].gen \in 0 .. MaxLease
    BY DEF TypeInv, TypeOK, RunRow
  <1> DEFINE orphans == {<<r, runs[r].gen>> : r \in
                           {q \in Run : runs[q].status = "running" /\ runs[q].stale}}
  <1>2. orphans \in SUBSET (Run \X (0 .. MaxLease))
    BY <1>1
  <1>3. recover' = [recover EXCEPT ![e] = orphans]
    BY DEF Boot
  <1> HIDE DEF orphans
  <1>4. recover' \in [Engine -> SUBSET (Run \X (0 .. MaxLease))]
    BY <1>2, <1>3 DEF TypeInv, TypeOK
  <1>5. engine' \in [Engine -> {"down", "recovering", "up", "stopping"}]
    BY DEF Boot, TypeInv, TypeOK
  <1>6. UNCHANGED <<tables, job, sweep, faults>>
    BY DEF Boot
  <1>7. TypedMemory'
    BY <1>4, <1>5, <1>6 DEF TypeInv, TypeOK, TypedMemory
  <1>8. QED
    BY <1>6, <1>7, MemoryStepTypes

LEMMA LifeTypes ==
    ASSUME TypeInv, NEW e \in Engine,
           \/ Recovered(e) \/ Stop(e)
           \/ \E r \in Run, g \in 0 .. MaxLease : RecoverTooLate(e, r, g)
    PROVE  TypeInv'
  <1>1. UNCHANGED <<tables, job>>
    BY DEF Recovered, Stop, RecoverTooLate
  <1>2. engine' \in [Engine -> {"down", "recovering", "up", "stopping"}]
    BY DEF Recovered, Stop, RecoverTooLate, TypeInv, TypeOK
  <1>3. sweep' = sweep /\ recover' \in [Engine -> SUBSET (Run \X (0 .. MaxLease))]
    BY DEF Recovered, Stop, RecoverTooLate, TypeInv, TypeOK
  <1>4. faults' \in 0 .. MaxFaults
    <2>1. faults' = faults \/ (faults < MaxFaults /\ faults' = faults + 1)
      BY DEF Recovered, Stop, RecoverTooLate
    <2>2. faults \in 0 .. MaxFaults /\ MaxFaults \in Nat
      BY RunAssumption DEF RunAssumption, TypeInv, TypeOK
    <2>3. QED
      BY <2>1, <2>2
  <1>5. TypedMemory'
    BY <1>1, <1>2, <1>3, <1>4 DEF TypeInv, TypeOK, TypedMemory
  <1>6. QED
    BY <1>1, <1>5, MemoryStepTypes

LEMMA DeathTypes ==
    ASSUME TypeInv, NEW e \in Engine, Exit(e) \/ Crash(e)
    PROVE  TypeInv'
  <1>1. Die(e) /\ faults' \in 0 .. MaxFaults
    BY RunAssumption DEF RunAssumption, Exit, Crash, TypeInv, TypeOK
  <1>2. [q \in Run |-> Idle] \in [Run -> Job]
    BY IdleTyped
  <1>3. TypedMemory'
    BY <1>1, <1>2 DEF Die, TypeInv, TypeOK, TypedMemory
  <1>4. \A d \in Engine, q \in Run : job'[d][q] = job[d][q] \/ job'[d][q].result # "deferred"
    BY <1>1, IdleTyped DEF Die, TypeInv, TypeOK
  <1>5. QED
    BY <1>1, <1>3, <1>4, MemoryStepTypes DEF Die

LEMMA JobTypes ==
    ASSUME TypeInv, NEW e \in Engine, NEW r \in Run,
           \/ StartRefused(e, r) \/ SettleTooLate(e, r) \/ HeartbeatLost(e, r)
           \/ CheckCompletion(e, r)
           \/ \E result \in {"ok", "executor", "permanent", "deferred"} :
                 ExecutorReturns(e, r, result)
    PROVE  TypeInv'
  <1>1. job[e][r] \in Job
    BY DEF TypeInv, TypeOK
  <1>2. CASE StartRefused(e, r) \/ SettleTooLate(e, r)
    BY <1>2, IdleTyped, JobStepTypes DEF StartRefused, SettleTooLate
  <1>3. CASE HeartbeatLost(e, r)
    <2> DEFINE j == [job[e][r] EXCEPT !.aborted = TRUE]
    <2>1. j \in Job /\ j.gen = job[e][r].gen /\ j.result = job[e][r].result
      BY <1>1 DEF Job
    <2>2. job' = [job EXCEPT ![e][r] = j]
      BY <1>3 DEF HeartbeatLost, TypeInv, TypeOK
    <2>3. j.result = "deferred" => j.gen < MaxLease
      BY <2>1 DEF TypeInv, LeasesLeft
    <2>4. UNCHANGED <<tables, engine, sweep, recover, faults>>
      BY <1>3 DEF HeartbeatLost
    <2> HIDE DEF j
    <2>5. QED
      BY <2>1, <2>2, <2>3, <2>4, JobStepTypes
  <1>4. CASE CheckCompletion(e, r)
    <2> DEFINE result == IF CompletionError(r) THEN "permanent" ELSE job[e][r].result
               j == [job[e][r] EXCEPT !.pc = "settling",
                                      !.result = result]
    <2>1. job' = [job EXCEPT ![e][r] = j]
      BY <1>4 DEF CheckCompletion, TypeInv, TypeOK
    <2>2. j \in Job /\ j.gen = job[e][r].gen /\ j.result = result
      BY <1>1 DEF Job
    <2>3. j.result = "deferred" => j.gen < MaxLease
      BY <2>2 DEF TypeInv, LeasesLeft
    <2>4. UNCHANGED <<tables, engine, sweep, recover, faults>>
      BY <1>4 DEF CheckCompletion
    <2> HIDE DEF j
    <2>5. QED
      BY <2>1, <2>2, <2>3, <2>4, JobStepTypes
  <1>5. ASSUME NEW result \in {"ok", "executor", "permanent", "deferred"},
               ExecutorReturns(e, r, result)
        PROVE  TypeInv'
    <2> DEFINE j == [job[e][r] EXCEPT !.pc = IF result = "ok" THEN "checking" ELSE "settling",
                                      !.result = result]
    <2>1. job' = [job EXCEPT ![e][r] = j]
      BY <1>5 DEF ExecutorReturns, TypeInv, TypeOK
    <2>2. j \in Job /\ j.gen = job[e][r].gen /\ j.result = result
      BY <1>1 DEF Job
    <2>3. j.result = "deferred" => j.gen < MaxLease
      BY <1>5, <2>2 DEF ExecutorReturns
    <2>4. UNCHANGED <<tables, engine, sweep, recover, faults>>
      BY <1>5 DEF ExecutorReturns
    <2> HIDE DEF j
    <2>5. QED
      BY <2>1, <2>2, <2>3, <2>4, JobStepTypes
  <1>6. QED
    BY <1>2, <1>3, <1>4, <1>5

-----------------------------------------------------------------------------
(* Steps that change the tables. *)
LEMMA ExecutionTypes ==
    ASSUME TypeInv, NEW x \in Execution,
           FinalizeExecution(x) \/ \E e \in Engine : SettleExecution(e, x)
    PROVE  TypeInv'
  <1>1. UNCHANGED <<runs, record, published, output, retryClaims, emitClaims, memory>>
    BY DEF FinalizeExecution, SettleExecution
  <1>2. executions[x] \in ExecutionRow
    BY DEF TypeInv, TypeOK
  <1>3. executions' \in [Execution -> ExecutionRow]
    <2>1. CASE FinalizeExecution(x)
      <3>1. \A s \in {executions[x].runtime, "failed"} :
               executions[x].runtime # "none" =>
                  [executions[x] EXCEPT !.status = s] \in ExecutionRow
        BY <1>2 DEF ExecutionRow
      <3>2. QED
        BY <2>1, <3>1 DEF FinalizeExecution, TypeInv, TypeOK
    <2>2. ASSUME NEW e \in Engine, SettleExecution(e, x)
          PROVE  executions' \in [Execution -> ExecutionRow]
      <3>1. RuntimeOutcome(x) \in {"cancelled", "failed", "succeeded"}
        BY DEF RuntimeOutcome
      <3>2. \A o \in {"cancelled", "failed", "succeeded"} :
               [executions[x] EXCEPT !.runtime = o,
                                     !.status = IF o = "cancelled" THEN "cancelled"
                                                ELSE executions[x].status]
                  \in ExecutionRow
        BY <1>2 DEF ExecutionRow
      <3>3. executions' = [executions EXCEPT ![x] =
               [executions[x] EXCEPT !.runtime = RuntimeOutcome(x),
                                     !.status = IF RuntimeOutcome(x) = "cancelled"
                                                THEN "cancelled"
                                                ELSE executions[x].status]]
        BY <2>2, <1>2 DEF SettleExecution, TypeInv, TypeOK, ExecutionRow
      <3>4. QED
        BY <3>1, <3>2, <3>3 DEF TypeInv, TypeOK
    <2>3. QED
      BY <2>1, <2>2
  <1>4. TypeOK'
    BY <1>1, <1>3 DEF TypeInv, TypeOK, memory
  <1>5. RowsRefer' /\ LeasesLeft'
    BY <1>1 DEF TypeInv, RowsRefer, LeasesLeft, memory
  <1>6. QED
    BY <1>4, <1>5 DEF TypeInv

(* A step that changes one row, and possibly one job. *)
LEMMA RowStepTypes ==
    ASSUME TypeInv, NEW r \in Run, NEW row \in RunRow,
           runs[r].status # "absent",
           runs' = [runs EXCEPT ![r] = row],
           row.task = runs[r].task, row.exec = runs[r].exec,
           row.status = "queued" => row.gen < MaxLease,
           NEW e \in Engine, NEW j \in Job,
           job' = [job EXCEPT ![e][r] = j],
           j.result = "deferred" => j.gen < MaxLease,
           UNCHANGED <<executions, record, published, output, retryClaims, emitClaims,
                       engine, sweep, recover, faults>>
    PROVE  TypeInv'
  <1>1. TypedMemory /\ LeasesLeft /\ RowsRefer
    BY TypeOKSplits DEF TypeInv
  <1>2. TypedMemory'
    BY <1>1, JobTyped
  <1>3. runs' \in [Run -> RunRow]
    BY DEF TypeInv, TypeOK
  <1>4. TypeOK'
    BY <1>2, <1>3 DEF TypeInv, TypeOK, TypedMemory
  <1>5. RowsRefer'
    BY <1>1, <1>3 DEF TypeInv, TypeOK, RowsRefer
  <1>6. \A q \in Run : runs'[q].status = "queued" => runs'[q].gen < MaxLease
    BY <1>1, <1>3 DEF TypeInv, TypeOK, LeasesLeft
  <1>7. LeasesLeft'
    BY <1>1, <1>6, LeasesLeftKept
  <1>8. QED
    BY <1>4, <1>5, <1>7 DEF TypeInv

LEMMA PrerequisiteBlockTypes ==
    ASSUME TypeInv, NEW e \in Engine, NEW r \in Run, PrerequisiteBlock(e, r)
    PROVE  TypeInv'
  <1>1. runs[r] \in RunRow
    BY DEF TypeInv, TypeOK
  <1> DEFINE row == [runs[r] EXCEPT !.due = FALSE]
  <1>2. row \in RunRow /\ row.task = runs[r].task /\ row.exec = runs[r].exec
        /\ row.gen = runs[r].gen /\ row.status = "queued"
    BY <1>1 DEF RunRow, PrerequisiteBlock
  <1>3. runs' = [runs EXCEPT ![r] = row]
    BY DEF PrerequisiteBlock, TypeInv, TypeOK
  <1>4. runs[r].status = "queued" /\ row.gen < MaxLease
    BY <1>2 DEF PrerequisiteBlock, TypeInv, LeasesLeft
  <1>5. job' = [job EXCEPT ![e][r] = Idle] /\ Idle \in Job /\ Idle.result # "deferred"
    BY IdleTyped DEF PrerequisiteBlock
  <1>6. UNCHANGED <<executions, record, published, output, retryClaims, emitClaims,
                    engine, sweep, recover, faults>>
    BY DEF PrerequisiteBlock
  <1> HIDE DEF row
  <1>7. QED
    BY <1>2, <1>3, <1>4, <1>5, <1>6, RowStepTypes

(* The row and the job that startRun writes. *)
LEMMA StartRunWrites ==
    ASSUME TypeInv, NEW e \in Engine, NEW r \in Run, StartRun(e, r)
    PROVE  \E row \in RunRow, j \in Job :
              /\ runs' = [runs EXCEPT ![r] = row]
              /\ job' = [job EXCEPT ![e][r] = j]
              /\ row.status = "running" /\ row.gen = runs[r].gen + 1
              /\ row.task = runs[r].task /\ row.exec = runs[r].exec
              /\ j.pc \in {"executing", "settling"} /\ j.gen = runs[r].gen + 1
              /\ j.result # "deferred"
  <1>1. runs[r] \in RunRow /\ runs[r].gen + 1 \in 0 .. MaxLease
    <2>1. runs[r] \in RunRow /\ runs[r].gen < MaxLease
      BY DEF TypeInv, TypeOK, LeasesLeft, StartRun, Startable
    <2>2. QED
      BY <2>1, RunAssumption DEF RunAssumption, RunRow
  <1> DEFINE row == [runs[r] EXCEPT !.status = "running", !.gen = runs[r].gen + 1,
                                    !.stale = FALSE, !.deadline = DeadlineFor(r)]
             taken == [Idle EXCEPT !.pc = "executing", !.gen = runs[r].gen + 1]
             refused == [Idle EXCEPT !.pc = "settling", !.gen = runs[r].gen + 1,
                                     !.result = "permanent"]
  <1>2. row \in RunRow /\ row.status = "running" /\ row.gen = runs[r].gen + 1
        /\ row.task = runs[r].task /\ row.exec = runs[r].exec
    BY <1>1 DEF RunRow, DeadlineFor, Live
  <1>3. taken \in Job /\ taken.pc = "executing" /\ taken.gen = runs[r].gen + 1
        /\ taken.result = "none"
    BY <1>1 DEF Idle, Job
  <1>4. refused \in Job /\ refused.pc = "settling" /\ refused.gen = runs[r].gen + 1
        /\ refused.result = "permanent"
    BY <1>1 DEF Idle, Job
  <1>5. runs' = [runs EXCEPT ![r] = row]
    BY DEF StartRun, TypeInv, TypeOK
  <1>6. \/ job' = [job EXCEPT ![e][r] = taken]
        \/ job' = [job EXCEPT ![e][r] = refused]
    BY DEF StartRun
  <1> HIDE DEF row, taken, refused
  <1>7. QED
    BY <1>2, <1>3, <1>4, <1>5, <1>6

LEMMA StartRunTypes ==
    ASSUME TypeInv, NEW e \in Engine, NEW r \in Run, StartRun(e, r)
    PROVE  TypeInv'
  <1>1. runs[r].status # "absent"
    BY DEF StartRun, Startable
  <1>2. UNCHANGED <<executions, record, published, output, retryClaims, emitClaims,
                    engine, sweep, recover, faults>>
    BY DEF StartRun
  <1>3. PICK row \in RunRow, j \in Job :
              /\ runs' = [runs EXCEPT ![r] = row]
              /\ job' = [job EXCEPT ![e][r] = j]
              /\ row.status = "running" /\ row.gen = runs[r].gen + 1
              /\ row.task = runs[r].task /\ row.exec = runs[r].exec
              /\ j.pc \in {"executing", "settling"} /\ j.gen = runs[r].gen + 1
              /\ j.result # "deferred"
    BY StartRunWrites
  <1>4. QED
    BY <1>1, <1>2, <1>3, RowStepTypes

LEMMA HeartbeatTypes ==
    ASSUME TypeInv, NEW e \in Engine, NEW r \in Run, Heartbeat(e, r)
    PROVE  TypeInv'
  <1>1. runs[r] \in RunRow /\ job[e][r] \in Job /\ runs[r].status = "running"
    BY DEF TypeInv, TypeOK, Heartbeat, Held
  <1> DEFINE row == [runs[r] EXCEPT !.stale = FALSE]
  <1>2. row \in RunRow /\ row.task = runs[r].task /\ row.exec = runs[r].exec
        /\ row.status = "running"
    BY <1>1 DEF RunRow
  <1>3. runs' = [runs EXCEPT ![r] = row]
    BY DEF Heartbeat, TypeInv, TypeOK
  <1>4. job' = [job EXCEPT ![e][r] = job[e][r]]
    BY DEF Heartbeat, memory, TypeInv, TypeOK
  <1>5. job[e][r].result = "deferred" => job[e][r].gen < MaxLease
    BY DEF TypeInv, LeasesLeft
  <1>6. UNCHANGED <<executions, record, published, output, retryClaims, emitClaims,
                    engine, sweep, recover, faults>>
    BY DEF Heartbeat, memory
  <1> HIDE DEF row
  <1>7. QED
    BY <1>1, <1>2, <1>3, <1>4, <1>5, <1>6, RowStepTypes

LEMMA OutputTypes ==
    ASSUME TypeInv, NEW e \in Engine, NEW r \in Run, NEW k \in Key, Emit(e, r, k)
    PROVE  TypeInv'
  <1>1. runs[r].task \in Task /\ runs[r].exec \in Execution
    BY DEF TypeInv, RowsRefer, Emit, Held
  <1>2. emitClaims' \subseteq Task \X (Execution \cup {None}) \X Key
    <2>1. EmitClaim(r, k) \in Task \X (Execution \cup {None}) \X Key
      BY <1>1 DEF EmitClaim
    <2>2. QED
      BY <2>1 DEF Emit, TypeInv, TypeOK
  <1>3. output' \in [Run -> [Key -> Nat]]
    BY DEF Emit, TypeInv, TypeOK
  <1>4. TypeOK'
    BY <1>2, <1>3 DEF Emit, TypeInv, TypeOK, memory
  <1>5. QED
    BY <1>4 DEF Emit, TypeInv, RowsRefer, LeasesLeft, memory

LEMMA RecordTypes ==
    ASSUME TypeInv, NEW e \in Engine, NEW r \in Run, NEW outcome \in Outcomes,
           RecordOutcome(e, r, outcome)
    PROVE  TypeInv'
  <1>1. [status |-> outcome, run |-> r] \in RecordRow
    BY DEF RecordRow
  <1>2. record' \in [Execution -> RecordRow]
    BY <1>1 DEF RecordOutcome, TypeInv, TypeOK
  <1>3. TypeOK'
    BY <1>2 DEF RecordOutcome, TypeInv, TypeOK, memory
  <1>4. QED
    BY <1>3 DEF RecordOutcome, TypeInv, RowsRefer, LeasesLeft, memory

(* finishRun, from whichever process: it needs the run running, and leaves  *)
(* no other row short of a lease.                                           *)
LEMMA FinishTypes ==
    ASSUME TypeInv, NEW r \in Run, NEW status \in EngineOutcome,
           TypedTables', EndsWith(r, status), TypedMemory',
           \A d \in Engine, q \in Run :
              job'[d][q] = job[d][q] \/ job'[d][q].result # "deferred",
           runs[r].status = "running"
    PROVE  TypeInv'
  <1>1. TypeOK'
    BY TypeOKSplits DEF TypeOK, TypedTables, TypedMemory
  <1>2. \A q \in Run : runs'[q].status # "absent" =>
                          runs'[q].task \in Task /\ runs'[q].exec \in Execution
    BY DEF EndsWith, Inserted, TypeInv, RowsRefer
  <1>3. \A q \in Run : runs'[q].status = "queued" => runs'[q].gen < MaxLease
    BY SomeLease DEF EndsWith, Inserted, TypeInv, LeasesLeft, EngineOutcome
  <1>4. \A d \in Engine, q \in Run :
           job'[d][q].result = "deferred" => job'[d][q].gen < MaxLease
    BY DEF TypeInv, LeasesLeft
  <1>5. QED
    BY <1>1, <1>2, <1>3, <1>4 DEF TypeInv, RowsRefer, LeasesLeft

LEMMA SettleEffect ==
    ASSUME TypeInv, NEW e \in Engine, NEW r \in Run, Settle(e, r)
    PROVE  \/ job[e][r].result = "deferred" /\ Requeue(r)
           \/ \E status \in EngineOutcome : TypedTables' /\ EndsWith(r, status)
  <1>1. TypedTables /\ RowsRefer /\ runs[r].status = "running"
    BY TypeOKSplits DEF TypeInv, Settle, Held
  <1>2. /\ "none" \in RunError /\ "executor" \in RunError /\ "permanent" \in RunError
        /\ "succeeded" \in EngineOutcome /\ "failed" \in EngineOutcome
    BY DEF RunError, EngineOutcome
  <1>3. CASE FinishRun(r, "succeeded", "none", FALSE)
    BY <1>1, <1>2, <1>3, FinishRunEffect
  <1>4. CASE FinishRun(r, "failed", "executor", TRUE)
    BY <1>1, <1>2, <1>4, FinishRunEffect
  <1>5. CASE FinishRun(r, "failed", "permanent", FALSE)
    BY <1>1, <1>2, <1>5, FinishRunEffect
  <1>6. QED
    BY <1>3, <1>4, <1>5 DEF Settle

LEMMA SettleTypes ==
    ASSUME TypeInv, NEW e \in Engine, NEW r \in Run, Settle(e, r)
    PROVE  TypeInv'
  <1>1. runs[r].status = "running" /\ runs[r].gen = job[e][r].gen
    BY DEF Settle, Held
  <1>2. job' = [job EXCEPT ![e][r] = Idle] /\ UNCHANGED <<engine, sweep, recover, faults>>
    BY DEF Settle
  <1>3. CASE job[e][r].result = "deferred" /\ Requeue(r)
    <2>1. runs[r] \in RunRow
      BY DEF TypeInv, TypeOK
    <2> DEFINE row == [runs[r] EXCEPT !.status = "queued", !.due = FALSE,
                                      !.deadline = "none", !.error = "deferred"]
    <2>2. row \in RunRow /\ row.task = runs[r].task /\ row.exec = runs[r].exec
          /\ row.gen = runs[r].gen /\ row.status = "queued"
      BY <2>1 DEF RunRow, RunError, Live
    <2>3. runs' = [runs EXCEPT ![r] = row]
      BY <1>3 DEF Requeue, TypeInv, TypeOK
    <2>4. row.gen < MaxLease
      BY <1>1, <1>3, <2>2 DEF TypeInv, LeasesLeft
    <2>5. UNCHANGED <<executions, record, published, output, retryClaims, emitClaims>>
      BY <1>3 DEF Requeue
    <2> HIDE DEF row
    <2>6. QED
      BY <1>1, <1>2, <2>2, <2>3, <2>4, <2>5, IdleTyped, RowStepTypes
  <1>4. ASSUME NEW status \in EngineOutcome, TypedTables', EndsWith(r, status)
        PROVE  TypeInv'
    <2>1. TypedMemory'
      BY <1>2, IdleTyped, JobTyped, TypeOKSplits DEF TypeInv
    <2>2. \A d \in Engine, q \in Run :
             job'[d][q] = job[d][q] \/ job'[d][q].result # "deferred"
      BY <1>2, IdleTyped DEF TypeInv, TypeOK
    <2>3. QED
      BY <1>1, <1>4, <2>1, <2>2, FinishTypes
  <1>5. QED
    BY <1>3, <1>4, SettleEffect

(* The watchdog and crash recovery end runs the same way. *)
LEMMA ReapEffect ==
    ASSUME TypeInv, NEW e \in Engine, NEW r \in Run, NEW g \in 0 .. MaxLease,
           SweepFinish(e, r, g) \/ RecoverRun(e, r, g)
    PROVE  /\ runs[r].status = "running"
           /\ \E status \in EngineOutcome : TypedTables' /\ EndsWith(r, status)
  <1>1. TypedTables /\ RowsRefer /\ runs[r].status = "running"
    BY TypeOKSplits DEF TypeInv, SweepFinish, RecoverRun, Held, Orphaned
  <1>2. "timed_out" \in EngineOutcome /\ "failed" \in EngineOutcome
        /\ "timeout" \in RunError /\ "browser_outcome_uncertain" \in RunError
        /\ "engine_restart" \in RunError
    BY DEF EngineOutcome, RunError
  <1>3. CASE SweepFinish(e, r, g)
    <2>1. FinishRun(r, "timed_out", "timeout", FALSE)
      BY <1>3 DEF SweepFinish
    <2>2. QED
      BY <1>1, <1>2, <2>1, FinishRunEffect
  <1>4. CASE RecoverRun(e, r, g)
    <2>1. \E error \in RunError, retry \in BOOLEAN : FinishRun(r, "failed", error, retry)
      BY <1>2, <1>4 DEF RecoverRun, SafeToRetry
    <2>2. QED
      BY <1>1, <1>2, <2>1, FinishRunEffect
  <1>5. QED
    BY <1>1, <1>3, <1>4

LEMMA ReapTypes ==
    ASSUME TypeInv, NEW e \in Engine, NEW r \in Run, NEW g \in 0 .. MaxLease,
           SweepFinish(e, r, g) \/ RecoverRun(e, r, g)
    PROVE  TypeInv'
  <1>1. UNCHANGED <<engine, job, faults>>
    BY DEF SweepFinish, RecoverRun
  <1>2. /\ sweep' \in [Engine -> SUBSET (Run \X (0 .. MaxLease))]
        /\ recover' \in [Engine -> SUBSET (Run \X (0 .. MaxLease))]
    BY DEF SweepFinish, RecoverRun, TypeInv, TypeOK
  <1>3. TypedMemory'
    BY <1>1, <1>2 DEF TypeInv, TypeOK, TypedMemory
  <1>4. QED
    BY <1>1, <1>3, ReapEffect, FinishTypes

-----------------------------------------------------------------------------
LEMMA InitTypes == Init => TypeInv
  <1> SUFFICES ASSUME Init PROVE TypeInv
    OBVIOUS
  <1>1. NoRun \in RunRow /\ NoRun.status = "absent"
    BY RunAssumption DEF RunAssumption, NoRun, RunRow, RunError, Live, Terminal
  <1>2. NoExecution \in ExecutionRow /\ NoRecord \in RecordRow
    BY DEF NoExecution, ExecutionRow, NoRecord, RecordRow
  <1>3. NoEvents \in [EventType -> Nat]
    BY DEF NoEvents
  <1>4. 0 \in 0 .. MaxFaults
    BY RunAssumption DEF RunAssumption
  <1>5. TypedTables
    BY <1>1, <1>2, <1>3 DEF Init, TypedTables
  <1>6. TypedMemory
    BY <1>4, IdleTyped DEF Init, TypedMemory
  <1>7. RowsRefer /\ LeasesLeft
    BY <1>1, IdleTyped DEF Init, RowsRefer, LeasesLeft
  <1>8. QED
    BY <1>5, <1>6, <1>7, TypeOKSplits DEF TypeInv

LEMMA StutterTypes ==
    ASSUME TypeInv, UNCHANGED vars
    PROVE  TypeInv'
  BY DEF TypeInv, TypeOK, RowsRefer, LeasesLeft, vars

LEMMA NextTypes == TypeInv /\ [Next]_vars => TypeInv'
  <1> SUFFICES ASSUME TypeInv, [Next]_vars PROVE TypeInv'
    OBVIOUS
  <1>1. CASE \E t \in Task, x \in Execution : Trigger(t, x)
    BY <1>1, TriggerTypes
  <1>2. CASE \E r \in Run : Cancel(r) \/ Time(r)
    BY <1>2, CancelTypes, TimeTypes
  <1>3. CASE \E x \in Execution : FinalizeExecution(x)
    BY <1>3, ExecutionTypes
  <1>4. ASSUME NEW e \in Engine, PickUp(e) \/ Watch(e) \/ ProcessLife(e)
        PROVE  TypeInv'
    <2>1. CASE PickUp(e)
      BY <2>1, PickUpTypes
    <2>2. CASE Watch(e)
      BY <2>2, SweepTypes, ReapTypes, ExecutionTypes DEF Watch
    <2>3. CASE ProcessLife(e)
      BY <2>3, BootTypes, LifeTypes, DeathTypes, ReapTypes DEF ProcessLife
    <2>4. QED
      BY <1>4, <2>1, <2>2, <2>3
  <1>5. ASSUME NEW e \in Engine, NEW r \in Run, Execute(e, r)
        PROVE  TypeInv'
    BY <1>5, PrerequisiteBlockTypes, StartRunTypes, JobTypes, OutputTypes, RecordTypes,
       SettleTypes, HeartbeatTypes DEF Execute
  <1>6. CASE UNCHANGED vars
    BY <1>6, StutterTypes
  <1>7. QED
    BY <1>1, <1>2, <1>3, <1>4, <1>5, <1>6 DEF Next

(* The tables and the memory of the engines stay well formed: a lease is    *)
(* within its bound, every run that exists has its task and its execution,  *)
(* and only a run with a lease left waits in the queue.                     *)
THEOREM TypesHold == Spec => []TypeInv
  BY InitTypes, NextTypes, PTL DEF Spec

(* The type invariant of the runs TLC makes, for every value of the         *)
(* constants.                                                               *)
THEOREM TypeCorrect == Spec => []TypeOK
  <1>1. TypeInv => TypeOK
    BY DEF TypeInv
  <1>2. QED
    BY <1>1, TypesHold, PTL

-----------------------------------------------------------------------------
(* What one step may do to one run, seen from its row, its events and its   *)
(* output.  Everything else said of a run's end follows from this.          *)
Kept(q) ==
    /\ runs'[q].status = runs[q].status
    /\ runs[q].status \in Terminal => runs'[q] = runs[q]
    /\ published'[q] = published[q]

Moves(q) ==
    /\ published'[q] = published[q]
    /\ \/ runs[q].status = "absent" /\ runs'[q].status = "queued"
       \/ runs[q].status \in Live /\ runs'[q].status \in Live \cup {"cancelled"}

Ends(q) ==
    /\ runs[q].status = "running"
    /\ runs'[q].status \in EngineOutcome
    /\ \A t \in Lifecycle :
          published'[q][t] = IF t = EventFor(runs'[q].status) THEN published[q][t] + 1
                                                              ELSE published[q][t]

OutputKept(q) == runs[q].status = "running" \/ output'[q] = output[q]

RunStep(q) == (Kept(q) \/ Moves(q) \/ Ends(q)) /\ OutputKept(q)

LEMMA UntouchedRuns ==
    ASSUME UNCHANGED <<runs, published, output>>
    PROVE  \A q \in Run : RunStep(q)
  BY DEF RunStep, Kept, OutputKept

LEMMA FinishedRuns ==
    ASSUME NEW r \in Run, NEW status \in EngineOutcome,
           runs[r].status = "running", EndsWith(r, status)
    PROVE  \A q \in Run : RunStep(q)
  <1>1. RunStep(r)
    BY DEF EndsWith, RunStep, Ends, OutputKept
  <1>2. ASSUME NEW q \in Run \ {r}
        PROVE  RunStep(q)
    <2>1. CASE runs'[q] = runs[q]
      BY <2>1 DEF EndsWith, RunStep, Kept, OutputKept
    <2>2. CASE Inserted(q)
      BY <2>2 DEF EndsWith, Inserted, RunStep, Moves, OutputKept
    <2>3. QED
      BY <2>1, <2>2 DEF EndsWith
  <1>3. QED
    BY <1>1, <1>2

(* Only the run r changes, and its change is a move. *)
LEMMA MovedRun ==
    ASSUME NEW r \in Run, UNCHANGED <<published, output>>,
           \A q \in Run \ {r} : runs'[q] = runs[q],
           \/ runs[r].status = "absent" /\ runs'[r].status = "queued"
           \/ runs[r].status \in Live /\ runs'[r].status \in Live \cup {"cancelled"}
    PROVE  \A q \in Run : RunStep(q)
  BY DEF RunStep, Kept, Moves, OutputKept

LEMMA RunSteps == TypeInv /\ [Next]_vars => \A q \in Run : RunStep(q)
  <1> SUFFICES ASSUME TypeInv, [Next]_vars PROVE \A q \in Run : RunStep(q)
    OBVIOUS
  <1>0. runs \in [Run -> RunRow]
    BY DEF TypeInv, TypeOK
  <1>1. ASSUME NEW t \in Task, NEW x \in Execution, Trigger(t, x)
        PROVE  \A q \in Run : RunStep(q)
    <2>1. NewId \in Run /\ runs[NewId].status = "absent"
      BY <1>1, NewIdIsUnused DEF Trigger
    <2>2. runs' = [runs EXCEPT ![NewId] = QueuedRun(t, x, 0, TRUE)]
          /\ UNCHANGED <<published, output>>
      BY <1>1 DEF Trigger
    <2>3. QueuedRun(t, x, 0, TRUE).status = "queued"
      BY QueuedRunTyped
    <2>4. QED
      BY <1>0, <2>1, <2>2, <2>3, MovedRun
  <1>2. ASSUME NEW r \in Run, Cancel(r)
        PROVE  \A q \in Run : RunStep(q)
    <2>1. runs[r].status \in Live /\ runs'[r].status = "cancelled"
          /\ (\A q \in Run \ {r} : runs'[q] = runs[q]) /\ UNCHANGED <<published, output>>
      BY <1>0, <1>2 DEF Cancel, RunRow
    <2>2. QED
      BY <2>1, MovedRun
  <1>3. ASSUME NEW r \in Run, Time(r)
        PROVE  \A q \in Run : RunStep(q)
    <2>1. runs[r].status \in Live /\ runs'[r].status = runs[r].status
          /\ (\A q \in Run \ {r} : runs'[q] = runs[q]) /\ UNCHANGED <<published, output>>
      BY <1>0, <1>3 DEF Time, WaitElapses, DeadlinePasses, HeartbeatAges, RunRow, Live
    <2>2. QED
      BY <2>1, MovedRun
  <1>4. ASSUME NEW x \in Execution,
               FinalizeExecution(x) \/ \E e \in Engine : SettleExecution(e, x)
        PROVE  \A q \in Run : RunStep(q)
    BY <1>4, UntouchedRuns DEF FinalizeExecution, SettleExecution
  <1>5. ASSUME NEW e \in Engine, PickUp(e) \/ Watch(e) \/ ProcessLife(e)
        PROVE  \A q \in Run : RunStep(q)
    <2>1. CASE PickUp(e)
      BY <2>1, UntouchedRuns DEF PickUp, tables
    <2>2. CASE Watch(e)
      <3>1. CASE SweepRead(e) \/ \E r \in Run, g \in 0 .. MaxLease : SweepTooLate(e, r, g)
        BY <3>1, UntouchedRuns DEF SweepRead, SweepTooLate, tables
      <3>2. ASSUME NEW r \in Run, NEW g \in 0 .. MaxLease, SweepFinish(e, r, g)
            PROVE  \A q \in Run : RunStep(q)
        BY <3>2, ReapEffect, FinishedRuns
      <3>3. QED
        BY <2>2, <3>1, <3>2, <1>4 DEF Watch
    <2>3. CASE ProcessLife(e)
      <3>1. CASE \/ Boot(e) \/ Recovered(e) \/ Stop(e) \/ Exit(e) \/ Crash(e)
                 \/ \E r \in Run, g \in 0 .. MaxLease : RecoverTooLate(e, r, g)
        BY <3>1, UntouchedRuns DEF Boot, Recovered, Stop, Exit, Crash, Die, RecoverTooLate, tables
      <3>2. ASSUME NEW r \in Run, NEW g \in 0 .. MaxLease, RecoverRun(e, r, g)
            PROVE  \A q \in Run : RunStep(q)
        BY <3>2, ReapEffect, FinishedRuns
      <3>3. QED
        BY <2>3, <3>1, <3>2 DEF ProcessLife
    <2>4. QED
      BY <1>5, <2>1, <2>2, <2>3
  <1>6. ASSUME NEW e \in Engine, NEW r \in Run, Execute(e, r)
        PROVE  \A q \in Run : RunStep(q)
    <2>1. CASE PrerequisiteBlock(e, r) \/ StartRun(e, r) \/ Heartbeat(e, r)
      <3>1. runs[r].status \in Live /\ runs'[r].status \in Live
            /\ (\A q \in Run \ {r} : runs'[q] = runs[q]) /\ UNCHANGED <<published, output>>
        <4>1. CASE PrerequisiteBlock(e, r) \/ Heartbeat(e, r)
          BY <1>0, <4>1 DEF PrerequisiteBlock, Heartbeat, Held, RunRow, Live, memory
        <4>2. CASE StartRun(e, r)
          <5>1. \E row \in RunRow : runs' = [runs EXCEPT ![r] = row] /\ row.status = "running"
            BY <4>2, StartRunWrites
          <5>2. runs[r].status = "queued" /\ UNCHANGED <<published, output>>
            BY <4>2 DEF StartRun, Startable
          <5>3. QED
            BY <1>0, <5>1, <5>2 DEF Live
        <4>3. QED
          BY <2>1, <4>1, <4>2
      <3>2. QED
        BY <3>1, MovedRun
    <2>2. ASSUME NEW k \in Key, Emit(e, r, k)
          PROVE  \A q \in Run : RunStep(q)
      <3>1. runs[r].status = "running" /\ UNCHANGED <<runs, published>>
            /\ \A q \in Run \ {r} : output'[q] = output[q]
        BY <2>2 DEF Emit, Held, TypeInv, TypeOK
      <3>2. ASSUME NEW q \in Run PROVE RunStep(q)
        BY <3>1 DEF RunStep, Kept, OutputKept
      <3>3. QED
        BY <3>2
    <2>3. CASE \/ StartRefused(e, r) \/ CheckCompletion(e, r) \/ SettleTooLate(e, r)
               \/ HeartbeatLost(e, r)
               \/ \E outcome \in Outcomes : RecordOutcome(e, r, outcome)
               \/ \E result \in {"ok", "executor", "permanent", "deferred"} :
                     ExecutorReturns(e, r, result)
      BY <2>3, UntouchedRuns DEF StartRefused, CheckCompletion, SettleTooLate, HeartbeatLost,
                                 RecordOutcome, ExecutorReturns, tables
    <2>4. CASE Settle(e, r)
      <3>1. runs[r].status = "running"
        BY <2>4 DEF Settle, Held
      <3>2. CASE Requeue(r)
        <4>1. runs'[r].status = "queued" /\ (\A q \in Run \ {r} : runs'[q] = runs[q])
              /\ UNCHANGED <<published, output>>
          BY <1>0, <3>2 DEF Requeue, RunRow
        <4>2. QED
          BY <3>1, <4>1, MovedRun DEF Live
      <3>3. QED
        BY <2>4, <3>1, <3>2, SettleEffect, FinishedRuns
    <2>5. QED
      BY <1>6, <2>1, <2>2, <2>3, <2>4 DEF Execute
  <1>7. CASE UNCHANGED vars
    BY <1>7, UntouchedRuns DEF vars
  <1>8. QED
    BY <1>1, <1>2, <1>3, <1>4, <1>5, <1>6, <1>7 DEF Next

-----------------------------------------------------------------------------
LEMMA PublishedInit == Init => OutcomePublishedOnce
  BY DEF Init, NoRun, NoEvents, EventType, Lifecycle, OutcomePublishedOnce

LEMMA PublishedStep ==
    TypeInv /\ OutcomePublishedOnce /\ [Next]_vars => OutcomePublishedOnce'
  <1> SUFFICES ASSUME TypeInv, OutcomePublishedOnce, [Next]_vars,
                      NEW q \in Run, NEW t \in Lifecycle
               PROVE  published'[q][t] =
                         IF runs'[q].status \in {"succeeded", "failed", "timed_out"}
                            /\ EventFor(runs'[q].status) = t THEN 1 ELSE 0
    BY DEF OutcomePublishedOnce
  <1>1. Kept(q) \/ Moves(q) \/ Ends(q)
    BY RunSteps DEF RunStep
  <1>2. published[q][t] =
           IF runs[q].status \in {"succeeded", "failed", "timed_out"}
              /\ EventFor(runs[q].status) = t THEN 1 ELSE 0
    BY DEF OutcomePublishedOnce
  <1>3. CASE Kept(q)
    BY <1>2, <1>3 DEF Kept
  <1>4. CASE Moves(q)
    BY <1>2, <1>4 DEF Moves, Live
  <1>5. CASE Ends(q)
    BY <1>2, <1>5 DEF Ends, EngineOutcome
  <1>6. QED
    BY <1>1, <1>3, <1>4, <1>5

(* Whoever of the executor, the watchdog, crash recovery and the user ends  *)
(* a run, its lifecycle event is published exactly once and says how.       *)
THEOREM PublishedOnce == Spec => []OutcomePublishedOnce
  BY TypesHold, PublishedInit, PublishedStep, PTL DEF Spec

LEMMA EndedIsFinalStep ==
    TypeInv /\ [Next]_vars =>
        [\A r \in Run : runs[r].status \in Terminal =>
            runs'[r] = runs[r] /\ published'[r] = published[r] /\ output'[r] = output[r]]_vars
  <1> SUFFICES ASSUME TypeInv, [Next]_vars, NEW r \in Run, runs[r].status \in Terminal
               PROVE  runs'[r] = runs[r] /\ published'[r] = published[r] /\ output'[r] = output[r]
    OBVIOUS
  <1>1. RunStep(r)
    BY RunSteps
  <1>2. QED
    BY <1>1 DEF RunStep, Kept, Moves, Ends, OutputKept, Terminal, Live

(* No step of any process changes a run that has ended, publishes for it or *)
(* lets it emit.                                                            *)
THEOREM EndIsFinal == Spec => EndedIsFinal
  BY TypesHold, EndedIsFinalStep, PTL DEF Spec, EndedIsFinal

-----------------------------------------------------------------------------
(* One executor per lease.  A row that has left the queue keeps its         *)
(* generation and does not fall back into the queue, except when the one    *)
(* process that holds it puts it there.                                     *)
Steady(q) ==
    runs[q].status \notin {"absent", "queued"} =>
        runs'[q].gen = runs[q].gen /\ runs'[q].status \notin {"absent", "queued"}

(* What a process does about q it did before, under the same lease. *)
Continues(d, q) ==
    job'[d][q].pc \in {"executing", "checking", "settling"} =>
        Active(d, q) /\ job'[d][q].gen = job[d][q].gen

LEMMA SteadyStep ==
    ASSUME OneExecutor,
           \A q \in Run : Steady(q),
           \A d \in Engine, q \in Run : Continues(d, q)
    PROVE  OneExecutor'
  BY DEF OneExecutor, Steady, Continues, Active

LEMMA FinishIsSteady ==
    ASSUME NEW r \in Run, NEW status \in EngineOutcome, EndsWith(r, status)
    PROVE  \A q \in Run : Steady(q)
  BY DEF Steady, EndsWith, Inserted, EngineOutcome

LEMMA JobsContinue ==
    ASSUME UNCHANGED job
    PROVE  \A d \in Engine, q \in Run : Continues(d, q)
  BY DEF Continues, Active

LEMMA RunsSteady ==
    ASSUME UNCHANGED runs
    PROVE  \A q \in Run : Steady(q)
  BY DEF Steady

LEMMA OneExecutorStep == TypeInv /\ OneExecutor /\ [Next]_vars => OneExecutor'
  <1> SUFFICES ASSUME TypeInv, OneExecutor, [Next]_vars PROVE OneExecutor'
    OBVIOUS
  <1>0. runs \in [Run -> RunRow] /\ job \in [Engine -> [Run -> Job]]
    BY DEF TypeInv, TypeOK
  <1>1. ASSUME NEW t \in Task, NEW x \in Execution, Trigger(t, x)
        PROVE  OneExecutor'
    <2>1. NewId \in Run /\ runs[NewId].status = "absent"
      BY <1>1, NewIdIsUnused DEF Trigger
    <2>2. runs' = [runs EXCEPT ![NewId] = QueuedRun(t, x, 0, TRUE)] /\ UNCHANGED job
      BY <1>1 DEF Trigger, memory
    <2>3. \A q \in Run : Steady(q)
      BY <1>0, <2>1, <2>2 DEF Steady
    <2>4. QED
      BY <2>2, <2>3, JobsContinue, SteadyStep
  <1>2. ASSUME NEW r \in Run, Cancel(r) \/ Time(r)
        PROVE  OneExecutor'
    <2>1. UNCHANGED job
      BY <1>2 DEF Cancel, Time, WaitElapses, DeadlinePasses, HeartbeatAges, memory
    <2>2. \A q \in Run : Steady(q)
      <3>1. /\ runs'[r].gen = runs[r].gen
            /\ runs'[r].status \in {runs[r].status, "cancelled"}
        BY <1>0, <1>2
           DEF Cancel, Time, WaitElapses, DeadlinePasses, HeartbeatAges, RunRow
      <3>2. \A q \in Run \ {r} : runs'[q] = runs[q]
        BY <1>0, <1>2 DEF Cancel, Time, WaitElapses, DeadlinePasses, HeartbeatAges
      <3>3. QED
        BY <3>1, <3>2 DEF Steady
    <2>3. QED
      BY <2>1, <2>2, JobsContinue, SteadyStep
  <1>3. ASSUME NEW x \in Execution,
               FinalizeExecution(x) \/ \E e \in Engine : SettleExecution(e, x)
        PROVE  OneExecutor'
    <2>1. UNCHANGED <<runs, job>>
      BY <1>3 DEF FinalizeExecution, SettleExecution, memory
    <2>2. QED
      BY <2>1, RunsSteady, JobsContinue, SteadyStep
  <1>4. ASSUME NEW e \in Engine, NEW r \in Run, NEW g \in 0 .. MaxLease,
               SweepFinish(e, r, g) \/ RecoverRun(e, r, g)
        PROVE  OneExecutor'
    <2>1. UNCHANGED job
      BY <1>4 DEF SweepFinish, RecoverRun
    <2>2. QED
      BY <1>4, <2>1, ReapEffect, FinishIsSteady, JobsContinue, SteadyStep
  <1>5. ASSUME NEW e \in Engine, PickUp(e) \/ Watch(e) \/ ProcessLife(e)
        PROVE  OneExecutor'
    <2>1. CASE PickUp(e)
      <3>1. UNCHANGED runs
        BY <2>1 DEF PickUp, tables
      <3>2. [Idle EXCEPT !.pc = "loading"].pc = "loading"
        BY DEF Idle
      <3>3. \A d \in Engine, q \in Run : Continues(d, q)
        BY <1>0, <2>1, <3>2 DEF PickUp, Continues, Active
      <3>4. QED
        BY <3>1, <3>3, RunsSteady, SteadyStep
    <2>2. CASE SweepRead(e) \/ \E r \in Run, g \in 0 .. MaxLease : SweepTooLate(e, r, g)
      BY <2>2, RunsSteady, JobsContinue, SteadyStep DEF SweepRead, SweepTooLate, tables
    <2>3. CASE \/ Boot(e) \/ Recovered(e) \/ Stop(e)
               \/ \E r \in Run, g \in 0 .. MaxLease : RecoverTooLate(e, r, g)
      BY <2>3, RunsSteady, JobsContinue, SteadyStep
         DEF Boot, Recovered, Stop, RecoverTooLate, tables
    <2>4. CASE Exit(e) \/ Crash(e)
      <3>1. UNCHANGED runs /\ job' = [job EXCEPT ![e] = [q \in Run |-> Idle]]
        BY <2>4 DEF Exit, Crash, Die, tables
      <3>2. \A d \in Engine, q \in Run : Continues(d, q)
        BY <1>0, <3>1, IdleTyped DEF Continues, Active
      <3>3. QED
        BY <3>1, <3>2, RunsSteady, SteadyStep
    <2>5. QED
      BY <1>3, <1>4, <1>5, <2>1, <2>2, <2>3, <2>4 DEF Watch, ProcessLife
  <1>6. ASSUME NEW e \in Engine, NEW r \in Run, Execute(e, r)
        PROVE  OneExecutor'
    <2>1. CASE PrerequisiteBlock(e, r)
      <3>1. job' = [job EXCEPT ![e][r] = Idle]
            /\ runs[r].status = "queued" /\ \A q \in Run \ {r} : runs'[q] = runs[q]
        BY <1>0, <2>1 DEF PrerequisiteBlock
      <3>2. \A d \in Engine, q \in Run : Continues(d, q)
        BY <1>0, <3>1, IdleTyped DEF Continues, Active
      <3>3. \A q \in Run : Steady(q)
        BY <3>1 DEF Steady
      <3>4. QED
        BY <3>2, <3>3, SteadyStep
    <2>2. CASE StartRun(e, r)
      <3>1. PICK row \in RunRow, j \in Job :
              /\ runs' = [runs EXCEPT ![r] = row]
              /\ job' = [job EXCEPT ![e][r] = j]
              /\ row.status = "running" /\ row.gen = runs[r].gen + 1
              /\ row.task = runs[r].task /\ row.exec = runs[r].exec
              /\ j.pc \in {"executing", "settling"} /\ j.gen = runs[r].gen + 1
              /\ j.result # "deferred"
        BY <2>2, StartRunWrites
      <3>2. \A d \in Engine : ~Active(d, r)
        BY <2>2 DEF StartRun, Startable, OneExecutor
      <3>3. ASSUME NEW d \in Engine, NEW q \in Run,
                   job'[d][q].pc \in {"executing", "checking", "settling"}
            PROVE  /\ runs'[q].gen = job'[d][q].gen
                   /\ runs'[q].status \notin {"absent", "queued"}
                   /\ \A c \in Engine \ {d} :
                         job'[c][q].pc \notin {"executing", "checking", "settling"}
        <4>1. CASE q = r
          BY <1>0, <3>1, <3>2, <3>3, <4>1 DEF Active
        <4>2. CASE q # r
          BY <1>0, <3>1, <3>3, <4>2 DEF OneExecutor, Active
        <4>3. QED
          BY <4>1, <4>2
      <3>4. QED
        BY <3>3 DEF OneExecutor, Active
    <2>3. CASE Heartbeat(e, r)
      <3>1. \A q \in Run : Steady(q)
        BY <1>0, <2>3 DEF Heartbeat, RunRow, Steady
      <3>2. UNCHANGED job
        BY <2>3 DEF Heartbeat, memory
      <3>3. QED
        BY <3>1, <3>2, JobsContinue, SteadyStep
    <2>4. CASE \/ \E k \in Key : Emit(e, r, k)
               \/ \E outcome \in Outcomes : RecordOutcome(e, r, outcome)
      BY <2>4, RunsSteady, JobsContinue, SteadyStep DEF Emit, RecordOutcome, memory
    <2>5. CASE \/ StartRefused(e, r) \/ CheckCompletion(e, r) \/ SettleTooLate(e, r)
               \/ HeartbeatLost(e, r)
               \/ \E result \in {"ok", "executor", "permanent", "deferred"} :
                     ExecutorReturns(e, r, result)
      <3>1. UNCHANGED runs
        BY <2>5 DEF StartRefused, CheckCompletion, SettleTooLate, HeartbeatLost,
                    ExecutorReturns, tables
      <3>2. \A d \in Engine, q \in Run : Continues(d, q)
        <4>1. CASE StartRefused(e, r) \/ SettleTooLate(e, r)
          BY <1>0, <4>1, IdleTyped DEF StartRefused, SettleTooLate, Continues, Active
        <4>2. CASE HeartbeatLost(e, r)
          BY <1>0, <4>2 DEF HeartbeatLost, Continues, Active, Job
        <4>3. CASE CheckCompletion(e, r)
          BY <1>0, <4>3 DEF CheckCompletion, Continues, Active, Job
        <4>4. CASE \E result \in {"ok", "executor", "permanent", "deferred"} :
                      ExecutorReturns(e, r, result)
          BY <1>0, <4>4 DEF ExecutorReturns, Continues, Active, Job
        <4>5. QED
          BY <2>5, <4>1, <4>2, <4>3, <4>4
      <3>3. QED
        BY <3>1, <3>2, RunsSteady, SteadyStep
    <2>6. CASE Settle(e, r)
      <3>1. job' = [job EXCEPT ![e][r] = Idle] /\ Active(e, r)
        BY <2>6 DEF Settle, Active
      <3>2. \A d \in Engine, q \in Run : Continues(d, q)
        BY <1>0, <3>1, IdleTyped DEF Continues, Active
      <3>3. CASE Requeue(r)
        <4>1. \A q \in Run \ {r} : runs'[q] = runs[q]
          BY <1>0, <3>3 DEF Requeue
        <4>2. \A d \in Engine : job'[d][r].pc \notin {"executing", "checking", "settling"}
          BY <1>0, <3>1, IdleTyped DEF OneExecutor, Active
        <4>3. QED
          BY <3>2, <4>1, <4>2 DEF OneExecutor, Continues, Active
      <3>4. QED
        BY <2>6, <3>2, <3>3, SettleEffect, FinishIsSteady, SteadyStep
    <2>7. QED
      BY <1>6, <2>1, <2>2, <2>3, <2>4, <2>5, <2>6 DEF Execute
  <1>7. CASE UNCHANGED vars
    BY <1>7, RunsSteady, JobsContinue, SteadyStep DEF vars
  <1>8. QED
    BY <1>1, <1>2, <1>3, <1>5, <1>6, <1>7 DEF Next

(* Any number of engines that poll the same queue never execute one run     *)
(* twice at a time: the lease of startRun is a lock, and the process that   *)
(* executes a run holds the generation in its row.                          *)
THEOREM OneExecutorAlways == Spec => []OneExecutor
  <1>1. Init => OneExecutor
    BY IdleTyped DEF Init, OneExecutor, Active
  <1>2. QED
    BY <1>1, TypesHold, OneExecutorStep, PTL DEF Spec

-----------------------------------------------------------------------------
(* The attempts of an execution.  What one step does to them is one of the  *)
(* following: nothing, the settlement of an execution, its first run, the   *)
(* end of a run, or a failure and its retry at once.                        *)
SameNames(q) ==
    /\ runs'[q].task = runs[q].task
    /\ runs'[q].exec = runs[q].exec
    /\ runs'[q].attempt = runs[q].attempt

Carries ==
    /\ \A q \in Run :
          /\ SameNames(q)
          /\ \/ runs'[q].status = runs[q].status
             \/ runs[q].status \in Live /\ runs'[q].status \in Live
          /\ runs'[q].error \in {runs[q].error, "deferred"}
    /\ \A x \in Execution :
          /\ executions'[x].admitted = executions[x].admitted
          /\ executions'[x].runtime = executions[x].runtime
          /\ executions'[x].status = "absent" <=> executions[x].status = "absent"

Settles(x) == \E e \in Engine : SettleExecution(e, x)

Begins(n, x) ==
    /\ executions[x].status = "absent"
    /\ runs[n].status = "absent"
    /\ runs'[n].status = "queued" /\ runs'[n].exec = x /\ runs'[n].error = "none"
    /\ \A q \in Run \ {n} : runs'[q] = runs[q]
    /\ executions' = [executions EXCEPT ![x] =
                        [status |-> "running", runtime |-> "none", admitted |-> 1]]

Stops(r) ==
    /\ runs[r].status \in Live
    /\ runs'[r].status \in Terminal
    /\ SameNames(r)
    /\ \A q \in Run \ {r} : runs'[q] = runs[q]
    /\ UNCHANGED executions

Retries(r, n) ==
    /\ runs[r].status = "running"
    /\ runs'[r].status = "failed"
    /\ runs'[r].error # "browser_outcome_uncertain"
    /\ SameNames(r)
    /\ n # r
    /\ runs[n].status = "absent"
    /\ runs'[n].status = "queued" /\ runs'[n].error = "none"
    /\ runs'[n].exec = runs[r].exec
    /\ runs'[n].attempt = runs[r].attempt + 1
    /\ \A q \in Run \ {r, n} : runs'[q] = runs[q]
    /\ executions[runs[r].exec].admitted < MaxRuns
    /\ executions' = [executions EXCEPT ![runs[r].exec].admitted = @ + 1]

ChainStep ==
    \/ Carries
    \/ \E x \in Execution : Settles(x)
    \/ \E n \in Run, x \in Execution : Begins(n, x)
    \/ \E r \in Run : Stops(r)
    \/ \E r, n \in Run : Retries(r, n)

(* finishRun ends a run, or replaces a failed one that may be retried. *)
LEMMA FinishRunAttempts ==
    ASSUME TypedTables, RowsRefer, NEW r \in Run, runs[r].status = "running",
           NEW status \in EngineOutcome, NEW error \in RunError, NEW retry \in BOOLEAN,
           retry => status = "failed" /\ error # "browser_outcome_uncertain",
           FinishRun(r, status, error, retry)
    PROVE  Stops(r) \/ \E n \in Run : Retries(r, n)
  <1> DEFINE x == runs[r].exec
             again == Decides(r, retry) /\ ~Spent(r) /\ Budget(x)
             ended == [runs EXCEPT ![r].status = status, ![r].error = error]
             retried == QueuedRun(runs[r].task, x, runs[r].attempt + 1, FALSE)
  <1>1. /\ ended \in [Run -> RunRow]
        /\ ended[r].status = status /\ ended[r].error = error
        /\ ended[r].task = runs[r].task /\ ended[r].exec = x
        /\ ended[r].attempt = runs[r].attempt
        /\ \A q \in Run \ {r} : ended[q] = runs[q]
    <2>1. ended = [runs EXCEPT ![r] = [runs[r] EXCEPT !.status = status, !.error = error]]
      BY DEF TypedTables
    <2>2. [runs[r] EXCEPT !.status = status, !.error = error] \in RunRow
      <3>1. runs[r] \in RunRow
        BY DEF TypedTables
      <3>2. status \in Terminal
        BY DEF EngineOutcome, Terminal
      <3>3. QED
        BY <3>1, <3>2 DEF RunRow
    <2>3. QED
      BY <2>1, <2>2 DEF TypedTables, RunRow
  <1>2. runs' = IF again THEN [ended EXCEPT ![NewId] = retried] ELSE ended
    BY DEF FinishRun
  <1>3. executions' = IF again THEN [executions EXCEPT ![x].admitted = @ + 1] ELSE executions
    BY DEF FinishRun
  <1>4. retried.status = "queued" /\ retried.error = "none" /\ retried.exec = x
        /\ retried.attempt = runs[r].attempt + 1
    BY DEF QueuedRun, NoRun
  <1>5. again => /\ NewId \in Run /\ NewId # r /\ runs[NewId].status = "absent"
                 /\ retry /\ executions[x].admitted < MaxRuns
    BY NewIdIsUnused DEF FinishRun, Decides, Budget
  <1> HIDE DEF again, ended, retried
  <1>6. CASE again
    BY <1>1, <1>2, <1>3, <1>4, <1>5, <1>6 DEF Retries, SameNames
  <1>7. CASE ~again
    BY <1>1, <1>2, <1>3, <1>7 DEF Stops, SameNames, EngineOutcome, Terminal, Live
  <1>8. QED
    BY <1>6, <1>7

(* Only one row changes, and neither its names nor whether it is live. *)
LEMMA CarriedRow ==
    ASSUME NEW r \in Run, runs \in [Run -> RunRow], NEW row,
           runs' = [runs EXCEPT ![r] = row], UNCHANGED executions,
           row.task = runs[r].task, row.exec = runs[r].exec,
           row.attempt = runs[r].attempt, row.error \in {runs[r].error, "deferred"},
           \/ row.status = runs[r].status
           \/ runs[r].status \in Live /\ row.status \in Live
    PROVE  Carries
  BY DEF Carries, SameNames

LEMMA CarriedTables ==
    ASSUME UNCHANGED <<runs, executions>>
    PROVE  Carries
  BY DEF Carries, SameNames

LEMMA ChainSteps == TypeInv /\ [Next]_vars => ChainStep
  <1> SUFFICES ASSUME TypeInv, [Next]_vars PROVE ChainStep
    OBVIOUS
  <1>0. /\ runs \in [Run -> RunRow] /\ TypedTables /\ RowsRefer
        /\ executions \in [Execution -> ExecutionRow]
    BY TypeOKSplits DEF TypeInv, TypeOK
  <1>1. ASSUME NEW t \in Task, NEW x \in Execution, Trigger(t, x)
        PROVE  ChainStep
    <2>1. NewId \in Run /\ runs[NewId].status = "absent"
      BY <1>1, NewIdIsUnused DEF Trigger
    <2>2. QueuedRun(t, x, 0, TRUE).status = "queued" /\ QueuedRun(t, x, 0, TRUE).exec = x
          /\ QueuedRun(t, x, 0, TRUE).error = "none"
      BY DEF QueuedRun, NoRun
    <2>3. Begins(NewId, x)
      BY <1>0, <1>1, <2>1, <2>2 DEF Trigger, Begins
    <2>4. QED
      BY <2>1, <2>3 DEF ChainStep
  <1>2. ASSUME NEW r \in Run, Cancel(r)
        PROVE  ChainStep
    <2>1. Stops(r)
      BY <1>0, <1>2 DEF Cancel, Stops, SameNames, RunRow, Terminal
    <2>2. QED
      BY <2>1 DEF ChainStep
  <1>3. ASSUME NEW r \in Run, Time(r)
        PROVE  ChainStep
    <2>1. UNCHANGED executions
      BY <1>3 DEF Time, WaitElapses, DeadlinePasses, HeartbeatAges
    <2> DEFINE waited == [runs[r] EXCEPT !.due = TRUE]
               overdue == [runs[r] EXCEPT !.deadline = "passed"]
               aged == [runs[r] EXCEPT !.stale = TRUE]
    <2>2. \/ runs' = [runs EXCEPT ![r] = waited]
          \/ runs' = [runs EXCEPT ![r] = overdue]
          \/ runs' = [runs EXCEPT ![r] = aged]
      BY <1>0, <1>3 DEF Time, WaitElapses, DeadlinePasses, HeartbeatAges
    <2>3. \A row \in {waited, overdue, aged} :
             /\ row.task = runs[r].task /\ row.exec = runs[r].exec
             /\ row.attempt = runs[r].attempt /\ row.error = runs[r].error
             /\ row.status = runs[r].status
      BY <1>0 DEF RunRow
    <2> HIDE DEF waited, overdue, aged
    <2>4. PICK row \in {waited, overdue, aged} : runs' = [runs EXCEPT ![r] = row]
      BY <2>2
    <2>5. Carries
      BY <1>0, <2>1, <2>3, <2>4, CarriedRow
    <2>6. QED
      BY <2>5 DEF ChainStep
  <1>4. ASSUME NEW x \in Execution, FinalizeExecution(x)
        PROVE  ChainStep
    <2>1. UNCHANGED runs /\ executions[x].status = "running" /\ executions[x].runtime # "none"
          /\ \E s \in {executions[x].runtime, "failed"} :
                executions' = [executions EXCEPT ![x].status = s]
      BY <1>4 DEF FinalizeExecution
    <2>2. \A s \in {executions[x].runtime, "failed"} : s # "absent"
      BY <1>0, <2>1 DEF ExecutionRow
    <2>3. Carries
      BY <1>0, <2>1, <2>2 DEF Carries, SameNames, ExecutionRow
    <2>4. QED
      BY <2>3 DEF ChainStep
  <1>5. ASSUME NEW e \in Engine, NEW r \in Run, NEW g \in 0 .. MaxLease,
               SweepFinish(e, r, g) \/ RecoverRun(e, r, g)
        PROVE  ChainStep
    <2>1. runs[r].status = "running"
      BY <1>5 DEF SweepFinish, RecoverRun, Held, Orphaned
    <2>2. "timed_out" \in EngineOutcome /\ "failed" \in EngineOutcome
          /\ "timeout" \in RunError /\ "browser_outcome_uncertain" \in RunError
          /\ "engine_restart" \in RunError
      BY DEF EngineOutcome, RunError
    <2>3. CASE SweepFinish(e, r, g)
      <3>1. FinishRun(r, "timed_out", "timeout", FALSE)
        BY <2>3 DEF SweepFinish
      <3>2. QED
        BY <1>0, <2>1, <2>2, <3>1, FinishRunAttempts DEF ChainStep
    <2>4. CASE RecoverRun(e, r, g)
      <3>1. \E error \in RunError, retry \in BOOLEAN :
               /\ FinishRun(r, "failed", error, retry)
               /\ retry => error # "browser_outcome_uncertain"
        BY <2>2, <2>4 DEF RecoverRun, SafeToRetry
      <3>2. QED
        BY <1>0, <2>1, <2>2, <3>1, FinishRunAttempts DEF ChainStep
    <2>5. QED
      BY <1>5, <2>3, <2>4
  <1>6. ASSUME NEW e \in Engine, PickUp(e) \/ Watch(e) \/ ProcessLife(e)
        PROVE  ChainStep
    <2>1. CASE \/ PickUp(e) \/ SweepRead(e) \/ Boot(e) \/ Recovered(e) \/ Stop(e)
               \/ Exit(e) \/ Crash(e)
               \/ \E r \in Run, g \in 0 .. MaxLease :
                     SweepTooLate(e, r, g) \/ RecoverTooLate(e, r, g)
      BY <2>1, CarriedTables DEF ChainStep, PickUp, SweepRead, SweepTooLate, Boot, Recovered,
                                 Stop, Exit, Crash, Die, RecoverTooLate, tables
    <2>2. CASE \E x \in Execution : SettleExecution(e, x)
      BY <2>2 DEF ChainStep, Settles
    <2>3. QED
      BY <1>5, <1>6, <2>1, <2>2 DEF Watch, ProcessLife
  <1>7. ASSUME NEW e \in Engine, NEW r \in Run, Execute(e, r)
        PROVE  ChainStep
    <2>1. CASE PrerequisiteBlock(e, r)
      <3>1. runs' = [runs EXCEPT ![r] = [runs[r] EXCEPT !.due = FALSE]] /\ UNCHANGED executions
        BY <1>0, <2>1 DEF PrerequisiteBlock
      <3> DEFINE row == [runs[r] EXCEPT !.due = FALSE]
      <3>2. row.task = runs[r].task /\ row.exec = runs[r].exec
            /\ row.attempt = runs[r].attempt /\ row.error = runs[r].error
            /\ row.status = runs[r].status
        BY <1>0 DEF RunRow
      <3>3. QED
        BY <1>0, <3>1, <3>2, CarriedRow DEF ChainStep
    <2>2. CASE StartRun(e, r)
      <3> DEFINE row == [runs[r] EXCEPT !.status = "running", !.gen = runs[r].gen + 1,
                                        !.stale = FALSE, !.deadline = DeadlineFor(r)]
      <3>1. runs' = [runs EXCEPT ![r] = row] /\ UNCHANGED executions
        BY <1>0, <2>2 DEF StartRun
      <3>2. runs[r].status \in Live
        BY <2>2 DEF StartRun, Startable, Live
      <3>3. row.task = runs[r].task /\ row.exec = runs[r].exec
            /\ row.attempt = runs[r].attempt /\ row.error = runs[r].error
            /\ row.status \in Live
        BY <1>0 DEF RunRow, Live
      <3> HIDE DEF row
      <3>4. QED
        BY <1>0, <3>1, <3>2, <3>3, CarriedRow DEF ChainStep
    <2>3. CASE Heartbeat(e, r)
      <3> DEFINE row == [runs[r] EXCEPT !.stale = FALSE]
      <3>1. runs' = [runs EXCEPT ![r] = row] /\ UNCHANGED executions
        BY <1>0, <2>3 DEF Heartbeat
      <3>2. row.task = runs[r].task /\ row.exec = runs[r].exec
            /\ row.attempt = runs[r].attempt /\ row.error = runs[r].error
            /\ row.status = runs[r].status
        BY <1>0 DEF RunRow
      <3> HIDE DEF row
      <3>3. QED
        BY <1>0, <3>1, <3>2, CarriedRow DEF ChainStep
    <2>4. CASE \/ StartRefused(e, r) \/ CheckCompletion(e, r) \/ SettleTooLate(e, r)
               \/ HeartbeatLost(e, r)
               \/ \E k \in Key : Emit(e, r, k)
               \/ \E outcome \in Outcomes : RecordOutcome(e, r, outcome)
               \/ \E result \in {"ok", "executor", "permanent", "deferred"} :
                     ExecutorReturns(e, r, result)
      BY <2>4, CarriedTables DEF ChainStep, StartRefused, CheckCompletion, SettleTooLate,
                                 HeartbeatLost, Emit, RecordOutcome, ExecutorReturns, tables
    <2>5. CASE Settle(e, r)
      <3>1. runs[r].status = "running"
        BY <2>5 DEF Settle, Held
      <3>2. CASE Requeue(r)
        <4> DEFINE row == [runs[r] EXCEPT !.status = "queued", !.due = FALSE,
                                          !.deadline = "none", !.error = "deferred"]
        <4>1. runs' = [runs EXCEPT ![r] = row] /\ UNCHANGED executions
          BY <1>0, <3>2 DEF Requeue
        <4>2. row.task = runs[r].task /\ row.exec = runs[r].exec
              /\ row.attempt = runs[r].attempt /\ row.error = "deferred"
              /\ row.status \in Live /\ runs[r].status \in Live
          BY <1>0, <3>1 DEF RunRow, Live
        <4> HIDE DEF row
        <4>3. QED
          BY <1>0, <4>1, <4>2, CarriedRow DEF ChainStep
      <3>3. CASE \/ FinishRun(r, "succeeded", "none", FALSE)
                 \/ FinishRun(r, "failed", "executor", TRUE)
                 \/ FinishRun(r, "failed", "permanent", FALSE)
        <4>1. /\ "none" \in RunError /\ "executor" \in RunError /\ "permanent" \in RunError
              /\ "succeeded" \in EngineOutcome /\ "failed" \in EngineOutcome
          BY DEF RunError, EngineOutcome
        <4>2. QED
          BY <1>0, <3>1, <3>3, <4>1, FinishRunAttempts DEF ChainStep
      <3>4. QED
        BY <2>5, <3>2, <3>3 DEF Settle
    <2>6. QED
      BY <1>7, <2>1, <2>2, <2>3, <2>4, <2>5 DEF Execute
  <1>8. CASE UNCHANGED vars
    BY <1>8, CarriedTables DEF ChainStep, vars
  <1>9. QED
    BY <1>1, <1>2, <1>3, <1>4, <1>6, <1>7, <1>8 DEF Next

-----------------------------------------------------------------------------
(* What every reachable chain of attempts looks like: a live run is alone   *)
(* and the latest, attempts of one execution have different numbers, and    *)
(* nothing follows a success, a cancel or an uncertain browser attempt.     *)
Siblings(q, r) == q # r /\ runs[q].status # "absent" /\ runs[q].exec = runs[r].exec

NoName == \A q \in Run : runs[q].status = "absent" => runs[q].exec = None

Unborn == \A r \in Run : runs[r].exec \in Execution => executions[runs[r].exec].status # "absent"

OneLive ==
    \A r, q \in Run : runs[r].status \in Live /\ Siblings(q, r) =>
        runs[q].status \in Terminal /\ runs[q].attempt < runs[r].attempt

AttemptsDiffer ==
    \A r, q \in Run : runs[r].status # "absent" /\ Siblings(q, r) =>
        runs[q].attempt # runs[r].attempt

Uncertain ==
    \A r \in Run : runs[r].error = "browser_outcome_uncertain" => runs[r].status \in Terminal

Closes(r) ==
    \/ runs[r].status \in {"cancelled", "succeeded"}
    \/ runs[r].error = "browser_outcome_uncertain"

ClosersLast ==
    \A r, q \in Run : Closes(r) /\ Siblings(q, r) => runs[q].attempt < runs[r].attempt

ChainInv ==
    NoName /\ Unborn /\ OneLive /\ AttemptsDiffer /\ Uncertain /\ ClosersLast

(* The facts of the tables that the chain rests on. *)
ChainTables ==
    /\ \A q \in Run : runs[q].attempt \in Nat
    /\ \A q \in Run : runs[q].status \in {"absent"} \cup Live \cup Terminal
    /\ \A q \in Run : runs[q].exec \in Execution \cup {None}
    /\ \A q \in Run : runs[q].status # "absent" => runs[q].exec \in Execution

LEMMA TypesGiveTables == TypeInv => ChainTables
  BY DEF TypeInv, TypeOK, RowsRefer, RunRow, ChainTables

LEMMA NamesNoExecution == None \notin Execution
  BY RunAssumption DEF RunAssumption

LEMMA CarriesKeepsChain ==
    ASSUME ChainInv, ChainTables, Carries
    PROVE  ChainInv'
  <1>1. \A q, r \in Run : Siblings(q, r)' => Siblings(q, r)
    BY DEF Carries, SameNames, Siblings, Live
  <1>2. NoName' /\ Unborn'
    BY DEF ChainInv, NoName, Unborn, Carries, SameNames, Live, ChainTables
  <1>3. OneLive'
    <2>1. ASSUME NEW r \in Run, NEW q \in Run, runs'[r].status \in Live, Siblings(q, r)'
          PROVE  runs'[q].status \in Terminal /\ runs'[q].attempt < runs'[r].attempt
      <3>1. runs[r].status \in Live
        BY <2>1 DEF Carries
      <3>2. runs[q].status \in Terminal /\ runs[q].attempt < runs[r].attempt
        BY <1>1, <2>1, <3>1 DEF ChainInv, OneLive
      <3>3. QED
        BY <3>2 DEF Carries, SameNames, Live, Terminal
    <2>2. QED
      BY <2>1 DEF OneLive
  <1>4. AttemptsDiffer'
    <2>1. ASSUME NEW r \in Run, NEW q \in Run, runs'[r].status # "absent", Siblings(q, r)'
          PROVE  runs'[q].attempt # runs'[r].attempt
      <3>1. runs[r].status # "absent"
        BY <2>1 DEF Carries, Live
      <3>2. QED
        BY <1>1, <2>1, <3>1 DEF ChainInv, AttemptsDiffer, Carries, SameNames
    <2>2. QED
      BY <2>1 DEF AttemptsDiffer
  <1>5. Uncertain'
    BY DEF ChainInv, Uncertain, Carries, Live, Terminal
  <1>6. ClosersLast'
    <2>1. ASSUME NEW r \in Run, NEW q \in Run, Closes(r)', Siblings(q, r)'
          PROVE  runs'[q].attempt < runs'[r].attempt
      <3>1. Closes(r)
        BY <2>1 DEF Carries, Closes, Live
      <3>2. QED
        BY <1>1, <2>1, <3>1 DEF ChainInv, ClosersLast, Carries, SameNames
    <2>2. QED
      BY <2>1 DEF ClosersLast
  <1>7. QED
    BY <1>2, <1>3, <1>4, <1>5, <1>6 DEF ChainInv

(* Settling writes no run, and an execution that exists goes on existing. *)
LEMMA SettlesWrites ==
    ASSUME TypeInv, NEW x \in Execution, Settles(x)
    PROVE  /\ UNCHANGED runs
           /\ \A y \in Execution : executions[y].status # "absent" =>
                                       executions'[y].status # "absent"
           /\ \A y \in Execution : executions'[y].admitted = executions[y].admitted
           /\ \A y \in Execution \ {x} : executions'[y].runtime = executions[y].runtime
           /\ executions'[x].runtime = RuntimeOutcome(x)
           /\ executions[x].runtime = "none" /\ RunsOf(x) # {}
           /\ \A r \in RunsOf(x) : runs[r].status \notin Live
  <1>1. executions \in [Execution -> ExecutionRow]
    BY DEF TypeInv, TypeOK
  <1>2. PICK e \in Engine : SettleExecution(e, x)
    BY DEF Settles
  <1> DEFINE outcome == RuntimeOutcome(x)
             row == [executions[x] EXCEPT !.runtime = outcome,
                        !.status = IF outcome = "cancelled" THEN "cancelled"
                                                            ELSE executions[x].status]
  <1>3. executions' = [executions EXCEPT ![x] = row]
    BY <1>1, <1>2 DEF SettleExecution
  <1>4. row.runtime = outcome /\ row.admitted = executions[x].admitted
        /\ row.status \in {"cancelled", executions[x].status}
    BY <1>1 DEF ExecutionRow
  <1>5. Quiet(x) /\ UNCHANGED runs
    BY <1>2 DEF SettleExecution
  <1> HIDE DEF row
  <1>6. QED
    BY <1>1, <1>3, <1>4, <1>5 DEF Quiet

LEMMA SettlesKeepsChain ==
    ASSUME TypeInv, ChainInv, NEW x \in Execution, Settles(x)
    PROVE  ChainInv'
  <1>1. UNCHANGED runs
    BY SettlesWrites
  <1>2. Unborn'
    BY <1>1, SettlesWrites DEF ChainInv, Unborn
  <1>3. QED
    BY <1>1, <1>2 DEF ChainInv, NoName, OneLive, AttemptsDiffer, Uncertain, ClosersLast,
                      Closes, Siblings

LEMMA BeginsKeepsChain ==
    ASSUME TypeInv, ChainInv, NEW n \in Run, NEW x \in Execution, Begins(n, x)
    PROVE  ChainInv'
  <1>0. ChainTables /\ executions \in [Execution -> ExecutionRow]
    BY TypesGiveTables DEF TypeInv, TypeOK
  <1>1. \A q \in Run : runs[q].exec # x
    BY DEF Begins, ChainInv, Unborn
  <1>2. \A q \in Run \ {n} : runs'[q] = runs[q]
    BY DEF Begins
  <1>3. \A q \in Run : ~Siblings(q, n)' /\ ~Siblings(n, q)'
    BY <1>1, <1>2 DEF Begins, Siblings
  <1>4. \A q, r \in Run : Siblings(q, r)' => q # n /\ r # n /\ Siblings(q, r)
    <2>1. SUFFICES ASSUME NEW q \in Run, NEW r \in Run, Siblings(q, r)'
                   PROVE  q # n /\ r # n /\ Siblings(q, r)
      OBVIOUS
    <2>2. q # n /\ r # n
      BY <1>3, <2>1
    <2>3. QED
      BY <1>2, <2>1, <2>2 DEF Siblings
  <1>5. runs'[n].status = "queued" /\ runs'[n].exec = x /\ runs'[n].error = "none"
    BY DEF Begins
  <1>6. executions'[x].status # "absent"
        /\ \A y \in Execution \ {x} : executions'[y] = executions[y]
    BY <1>0 DEF Begins
  <1>7. NoName' /\ Unborn' /\ Uncertain'
    <2>1. NoName'
      BY <1>2, <1>5 DEF ChainInv, NoName
    <2>2. Unborn'
      BY <1>2, <1>5, <1>6 DEF ChainInv, Unborn
    <2>3. Uncertain'
      BY <1>2, <1>5 DEF ChainInv, Uncertain
    <2>4. QED
      BY <2>1, <2>2, <2>3
  <1>8. OneLive' /\ AttemptsDiffer' /\ ClosersLast'
    <2>1. ASSUME NEW r \in Run, NEW q \in Run, Siblings(q, r)'
          PROVE  /\ Siblings(q, r) /\ runs'[r] = runs[r] /\ runs'[q] = runs[q]
      BY <1>2, <1>4, <2>1
    <2>2. OneLive'
      BY <2>1 DEF ChainInv, OneLive
    <2>3. AttemptsDiffer'
      BY <2>1 DEF ChainInv, AttemptsDiffer
    <2>4. ClosersLast'
      BY <2>1 DEF ChainInv, ClosersLast, Closes
    <2>5. QED
      BY <2>2, <2>3, <2>4
  <1>9. QED
    BY <1>7, <1>8 DEF ChainInv

LEMMA StopsKeepsChain ==
    ASSUME TypeInv, ChainInv, NEW r \in Run, Stops(r)
    PROVE  ChainInv'
  <1>0. ChainTables
    BY TypesGiveTables
  <1>1. /\ runs[r].status \in Live /\ runs'[r].status \in Terminal
        /\ \A q \in Run \ {r} : runs'[q] = runs[q]
        /\ \A q \in Run : SameNames(q)
        /\ UNCHANGED executions
    BY DEF Stops, SameNames
  <1>2. \A p, q \in Run : Siblings(q, p)' => Siblings(q, p)
    BY <1>1 DEF SameNames, Siblings, Live
  <1>3. NoName' /\ Unborn'
    BY <1>1 DEF ChainInv, NoName, Unborn, SameNames, Terminal, Live
  <1>4. Uncertain'
    BY <1>1 DEF ChainInv, Uncertain
  <1>5. \A q \in Run : Siblings(q, r) =>
            runs[q].status \in Terminal /\ runs[q].attempt < runs[r].attempt
    BY <1>1 DEF ChainInv, OneLive
  <1>6. OneLive'
    <2>1. ASSUME NEW p \in Run, NEW q \in Run, runs'[p].status \in Live, Siblings(q, p)'
          PROVE  runs'[q].status \in Terminal /\ runs'[q].attempt < runs'[p].attempt
      <3>1. p # r /\ runs'[p] = runs[p]
        BY <1>1, <2>1 DEF Terminal, Live
      <3>2. runs[q].status \in Terminal /\ runs[q].attempt < runs[p].attempt
        BY <1>2, <2>1, <3>1 DEF ChainInv, OneLive
      <3>3. QED
        BY <1>1, <3>1, <3>2 DEF SameNames
    <2>2. QED
      BY <2>1 DEF OneLive
  <1>7. AttemptsDiffer'
    <2>1. ASSUME NEW p \in Run, NEW q \in Run, runs'[p].status # "absent", Siblings(q, p)'
          PROVE  runs'[q].attempt # runs'[p].attempt
      <3>1. runs[p].status # "absent"
        BY <1>1, <2>1 DEF Live
      <3>2. QED
        BY <1>1, <1>2, <2>1, <3>1 DEF ChainInv, AttemptsDiffer, SameNames
    <2>2. QED
      BY <2>1 DEF AttemptsDiffer
  <1>8. ClosersLast'
    <2>1. ASSUME NEW p \in Run, NEW q \in Run, Closes(p)', Siblings(q, p)'
          PROVE  runs'[q].attempt < runs'[p].attempt
      <3>1. CASE p = r
        BY <1>1, <1>2, <1>5, <2>1, <3>1 DEF SameNames
      <3>2. CASE p # r
        <4>1. Closes(p)
          BY <1>1, <2>1, <3>2 DEF Closes
        <4>2. QED
          BY <1>1, <1>2, <2>1, <4>1 DEF ChainInv, ClosersLast, SameNames
      <3>3. QED
        BY <3>1, <3>2
    <2>2. QED
      BY <2>1 DEF ClosersLast
  <1>9. QED
    BY <1>3, <1>4, <1>6, <1>7, <1>8 DEF ChainInv

LEMMA RetriesKeepsChain ==
    ASSUME TypeInv, ChainInv, NEW r \in Run, NEW n \in Run, Retries(r, n)
    PROVE  ChainInv'
  <1>0. ChainTables /\ executions \in [Execution -> ExecutionRow]
    BY TypesGiveTables DEF TypeInv, TypeOK
  <1> DEFINE x == runs[r].exec
  <1>1. /\ runs[r].status = "running" /\ runs'[r].status = "failed"
        /\ runs'[r].error # "browser_outcome_uncertain"
        /\ runs'[r].exec = x /\ runs'[r].attempt = runs[r].attempt
        /\ n # r /\ runs[n].status = "absent"
        /\ runs'[n].status = "queued" /\ runs'[n].error = "none"
        /\ runs'[n].exec = x /\ runs'[n].attempt = runs[r].attempt + 1
        /\ \A q \in Run \ {r, n} : runs'[q] = runs[q]
    BY DEF Retries, SameNames
  <1>2. x \in Execution
    BY <1>0, <1>1 DEF ChainTables
  <1>3. \A q \in Run : Siblings(q, r) =>
            runs[q].status \in Terminal /\ runs[q].attempt < runs[r].attempt /\ ~Closes(q)
    <2>1. SUFFICES ASSUME NEW q \in Run, Siblings(q, r)
                   PROVE  runs[q].status \in Terminal /\ runs[q].attempt < runs[r].attempt
                          /\ ~Closes(q)
      OBVIOUS
    <2>2. runs[q].status \in Terminal /\ runs[q].attempt < runs[r].attempt
      BY <1>1, <2>1 DEF ChainInv, OneLive, Live
    <2>3. Siblings(r, q)
      BY <1>1, <2>1 DEF Siblings
    <2>4. ASSUME Closes(q) PROVE FALSE
      <3>1. runs[r].attempt < runs[q].attempt
        BY <2>3, <2>4 DEF ChainInv, ClosersLast
      <3>2. QED
        BY <1>0, <2>2, <3>1 DEF ChainTables
    <2>5. QED
      BY <2>2, <2>4
  (* Old rows of the execution other than r, seen from the new state. *)
  <1>4. \A q \in Run \ {r, n} : runs'[q].status # "absent" /\ runs'[q].exec = x =>
            Siblings(q, r)
    BY <1>1 DEF Siblings
  <1>5. NoName' /\ Unborn' /\ Uncertain'
    <2>1. NoName'
      BY <1>1 DEF ChainInv, NoName
    <2>2. \A y \in Execution : executions[y].status # "absent" => executions'[y].status # "absent"
      BY <1>0, <1>2 DEF Retries, ExecutionRow
    <2>3. executions[x].status # "absent"
      BY <1>2 DEF ChainInv, Unborn
    <2>4. Unborn'
      BY <1>1, <1>2, <2>2, <2>3 DEF ChainInv, Unborn
    <2>5. Uncertain'
      BY <1>1 DEF ChainInv, Uncertain
    <2>6. QED
      BY <2>1, <2>4, <2>5
  <1>6. ASSUME NEW p \in Run, NEW q \in Run, runs'[p].status # "absent", Siblings(q, p)'
        PROVE  /\ runs'[p].status \in Live =>
                     runs'[q].status \in Terminal /\ runs'[q].attempt < runs'[p].attempt
               /\ runs'[q].attempt # runs'[p].attempt
               /\ Closes(p)' => runs'[q].attempt < runs'[p].attempt
    <2>0. q # p /\ runs'[q].status # "absent" /\ runs'[q].exec = runs'[p].exec
      BY <1>6 DEF Siblings
    <2>1. CASE p = n
      <3>1. CASE q = r
        BY <1>0, <1>1, <2>1, <3>1 DEF Closes, ChainTables, Terminal
      <3>2. CASE q # r
        <4>1. Siblings(q, r) /\ runs'[q] = runs[q]
          BY <1>1, <1>4, <2>0, <2>1, <3>2
        <4>2. runs[q].status \in Terminal /\ runs[q].attempt < runs[r].attempt
          BY <1>3, <4>1
        <4>3. QED
          BY <1>0, <1>1, <2>1, <4>1, <4>2 DEF ChainTables
      <3>3. QED
        BY <3>1, <3>2
    <2>2. CASE p = r
      <3>1. ~Closes(r)' /\ runs'[r].status \notin Live
        BY <1>1 DEF Closes, Live
      <3>2. CASE q = n
        BY <1>0, <1>1, <2>2, <3>1, <3>2 DEF ChainTables
      <3>3. CASE q # n
        <4>1. Siblings(q, r) /\ runs'[q] = runs[q]
          BY <1>1, <1>4, <2>0, <2>2, <3>3
        <4>2. runs[q].attempt < runs[r].attempt
          BY <1>3, <4>1
        <4>3. QED
          BY <1>0, <1>1, <2>2, <3>1, <4>1, <4>2 DEF ChainTables
      <3>4. QED
        BY <3>2, <3>3
    <2>3. CASE p \notin {r, n} /\ q \in {r, n}
      <3>1. Siblings(p, r) /\ runs'[p] = runs[p]
        BY <1>1, <1>4, <1>6, <2>0, <2>3
      <3>2. runs[p].status \in Terminal /\ runs[p].attempt < runs[r].attempt /\ ~Closes(p)
        BY <1>3, <3>1
      <3>3. runs'[q].attempt \in {runs[r].attempt, runs[r].attempt + 1}
        BY <1>1, <2>3
      <3>4. QED
        BY <1>0, <3>1, <3>2, <3>3 DEF ChainTables, Closes, Terminal, Live
    <2>4. CASE p \notin {r, n} /\ q \notin {r, n}
      <3>1. Siblings(q, p) /\ runs'[p] = runs[p] /\ runs'[q] = runs[q]
        BY <1>1, <2>0, <2>4 DEF Siblings
      <3>2. QED
        BY <1>6, <3>1 DEF ChainInv, OneLive, AttemptsDiffer, ClosersLast, Closes
    <2>5. QED
      BY <2>1, <2>2, <2>3, <2>4
  <1>7. \A p \in Run : runs'[p].status \in Live \/ Closes(p)' => runs'[p].status # "absent"
    <2>1. Uncertain'
      BY <1>5
    <2>2. QED
      BY <2>1 DEF Uncertain, Closes, Live, Terminal
  <1>8. OneLive' /\ AttemptsDiffer' /\ ClosersLast'
    BY <1>6, <1>7 DEF OneLive, AttemptsDiffer, ClosersLast
  <1>9. QED
    BY <1>5, <1>8 DEF ChainInv

LEMMA ChainStepKeeps == TypeInv /\ ChainInv /\ [Next]_vars => ChainInv'
  BY ChainSteps, TypesGiveTables, CarriesKeepsChain, SettlesKeepsChain, BeginsKeepsChain,
     StopsKeepsChain, RetriesKeepsChain DEF ChainStep

LEMMA ChainInit == Init => ChainInv
  BY NamesNoExecution
     DEF Init, NoRun, ChainInv, NoName, Unborn, OneLive, AttemptsDiffer, Uncertain, ClosersLast,
         Closes, Siblings, Live

LEMMA ChainHolds == Spec => []ChainInv
  BY TypesHold, ChainInit, ChainStepKeeps, PTL DEF Spec

(* A real-browser attempt cut off by a restart stays the last of its        *)
(* execution: no retry, of any engine, ever follows it.                     *)
THEOREM NeverReplayed == Spec => []UncertainNeverReplayed
  <1>1. TypeInv /\ ChainInv => UncertainNeverReplayed
    <2>1. SUFFICES ASSUME TypeInv, ChainInv, NEW r \in Run, NEW q \in Run,
                          runs[r].error = "browser_outcome_uncertain",
                          runs[q].exec = runs[r].exec
                   PROVE  runs[q].attempt <= runs[r].attempt
      BY DEF UncertainNeverReplayed
    <2>2. ChainTables
      BY <2>1, TypesGiveTables
    <2>3. runs[r].status # "absent" /\ runs[r].exec \in Execution
      BY <2>1, <2>2 DEF ChainInv, Uncertain, ChainTables, Terminal
    <2>4. runs[q].status # "absent"
      BY <2>1, <2>3, NamesNoExecution DEF ChainInv, NoName
    <2>5. CASE q = r
      BY <2>1, <2>2, <2>5 DEF ChainTables
    <2>6. CASE q # r
      <3>1. Siblings(q, r) /\ Closes(r)
        BY <2>1, <2>4, <2>6 DEF Siblings, Closes
      <3>2. QED
        BY <2>1, <2>2, <3>1 DEF ChainInv, ClosersLast, ChainTables
    <2>7. QED
      BY <2>5, <2>6
  <1>2. QED
    BY <1>1, TypesHold, ChainHolds, PTL
-----------------------------------------------------------------------------
(* The runs of an execution are the ones it admitted, and one is the last.  *)
IsLast(r) ==
    /\ runs[r].status # "absent"
    /\ \A q \in Run : Siblings(q, r) => runs[q].attempt < runs[r].attempt

HasLast ==
    \A r \in Run : runs[r].status # "absent" =>
        \E l \in Run : IsLast(l) /\ runs[l].exec = runs[r].exec

Admitted ==
    \A x \in Execution :
        /\ IsFiniteSet(RunsOf(x))
        /\ Cardinality(RunsOf(x)) = executions[x].admitted
        /\ executions[x].admitted <= MaxRuns

Unsettled == \A x \in Execution : executions[x].status = "absent" => executions[x].runtime = "none"

CountInv == HasLast /\ Admitted /\ Unsettled

LEMMA LiveIsLast ==
    ASSUME ChainInv, NEW r \in Run, runs[r].status \in Live
    PROVE  IsLast(r)
  BY DEF ChainInv, OneLive, IsLast, Live

LEMMA OneLast ==
    ASSUME ChainTables, NEW p \in Run, NEW q \in Run, IsLast(p), IsLast(q),
           runs[p].exec = runs[q].exec
    PROVE  p = q
  BY DEF IsLast, Siblings, ChainTables

(* Rows that keep their names and their existence keep their execution's    *)
(* set of runs and its last.                                                *)
LEMMA SameRuns ==
    ASSUME \A q \in Run : SameNames(q) /\ (runs'[q].status = "absent" <=> runs[q].status = "absent")
    PROVE  /\ \A x \in Execution : RunsOf(x)' = RunsOf(x)
           /\ HasLast => HasLast'
           /\ \A r \in Run : IsLast(r) => IsLast(r)'
  <1>1. \A x \in Execution : RunsOf(x)' = RunsOf(x)
    BY DEF SameNames, RunsOf
  <1>2. \A r \in Run : IsLast(r) => IsLast(r)'
    BY DEF SameNames, IsLast, Siblings
  <1>3. HasLast => HasLast'
    BY <1>2 DEF HasLast, SameNames
  <1>4. QED
    BY <1>1, <1>2, <1>3

LEMMA CarriesKeepsCount ==
    ASSUME CountInv, Carries
    PROVE  CountInv'
  <1>1. /\ \A x \in Execution : RunsOf(x)' = RunsOf(x)
        /\ HasLast'
    BY SameRuns DEF Carries, Live, CountInv
  <1>2. \A x \in Execution : executions'[x].admitted = executions[x].admitted
        /\ executions'[x].runtime = executions[x].runtime
        /\ (executions'[x].status = "absent" <=> executions[x].status = "absent")
    BY DEF Carries
  <1>3. Admitted'
    <2>1. SUFFICES ASSUME NEW x \in Execution
                   PROVE  /\ IsFiniteSet(RunsOf(x)')
                          /\ Cardinality(RunsOf(x)') = executions'[x].admitted
                          /\ executions'[x].admitted <= MaxRuns
      BY DEF Admitted
    <2>2. QED
      BY <1>1, <1>2 DEF CountInv, Admitted
  <1>4. Unsettled'
    BY <1>2 DEF CountInv, Unsettled
  <1>5. QED
    BY <1>1, <1>3, <1>4 DEF CountInv

LEMMA SettlesKeepsCount ==
    ASSUME TypeInv, ChainInv, CountInv, NEW x \in Execution, Settles(x)
    PROVE  CountInv'
  <1>1. /\ UNCHANGED runs
        /\ \A y \in Execution : executions'[y].admitted = executions[y].admitted
        /\ \A y \in Execution \ {x} : executions'[y].runtime = executions[y].runtime
        /\ \A y \in Execution : executions[y].status # "absent" => executions'[y].status # "absent"
        /\ RunsOf(x) # {}
    BY SettlesWrites
  <1>2. \A y \in Execution : RunsOf(y)' = RunsOf(y)
    BY <1>1 DEF RunsOf
  <1>3. HasLast'
    BY <1>1 DEF CountInv, HasLast, IsLast, Siblings
  <1>4. Admitted'
    <2>1. SUFFICES ASSUME NEW y \in Execution
                   PROVE  /\ IsFiniteSet(RunsOf(y)')
                          /\ Cardinality(RunsOf(y)') = executions'[y].admitted
                          /\ executions'[y].admitted <= MaxRuns
      BY DEF Admitted
    <2>2. QED
      BY <1>1, <1>2 DEF CountInv, Admitted
  <1>5. executions[x].status # "absent"
    BY <1>1 DEF RunsOf, ChainInv, Unborn
  <1>6. Unsettled'
    BY <1>1, <1>5 DEF CountInv, Unsettled
  <1>7. QED
    BY <1>3, <1>4, <1>6 DEF CountInv

(* A trigger makes the first run of an execution that has none. *)
LEMMA BeginsRuns ==
    ASSUME TypeInv, ChainInv, NEW n \in Run, NEW x \in Execution, Begins(n, x)
    PROVE  /\ RunsOf(x) = {} /\ RunsOf(x)' = {n}
           /\ \A y \in Execution \ {x} : RunsOf(y)' = RunsOf(y)
           /\ IsLast(n)'
           /\ \A r \in Run : IsLast(r) => r # n /\ IsLast(r)' /\ runs'[r] = runs[r]
           /\ executions'[x] = [status |-> "running", runtime |-> "none", admitted |-> 1]
           /\ \A y \in Execution \ {x} : executions'[y] = executions[y]
  <1>0. executions \in [Execution -> ExecutionRow]
    BY DEF TypeInv, TypeOK
  <1>1. /\ \A q \in Run \ {n} : runs'[q] = runs[q]
        /\ runs[n].status = "absent"
        /\ runs'[n].status = "queued" /\ runs'[n].exec = x
    BY DEF Begins
  <1>2. \A q \in Run : runs[q].exec # x
    BY DEF Begins, ChainInv, Unborn
  <1>3. RunsOf(x) = {} /\ RunsOf(x)' = {n}
    BY <1>1, <1>2 DEF RunsOf
  <1>4. \A y \in Execution \ {x} : RunsOf(y)' = RunsOf(y)
    BY <1>1 DEF RunsOf
  <1>5. IsLast(n)'
    BY <1>1, <1>2 DEF IsLast, Siblings
  <1>6. \A r \in Run : IsLast(r) => r # n /\ IsLast(r)' /\ runs'[r] = runs[r]
    <2>1. SUFFICES ASSUME NEW r \in Run, IsLast(r)
                   PROVE  r # n /\ IsLast(r)' /\ runs'[r] = runs[r]
      OBVIOUS
    <2>2. r # n /\ runs'[r] = runs[r]
      BY <1>1, <2>1 DEF IsLast
    <2>3. \A q \in Run : Siblings(q, r)' => Siblings(q, r) /\ runs'[q] = runs[q]
      BY <1>1, <1>2, <2>2 DEF Siblings
    <2>4. QED
      BY <2>1, <2>2, <2>3 DEF IsLast
  <1>7. /\ executions'[x] = [status |-> "running", runtime |-> "none", admitted |-> 1]
        /\ \A y \in Execution \ {x} : executions'[y] = executions[y]
    BY <1>0 DEF Begins
  <1>8. QED
    BY <1>3, <1>4, <1>5, <1>6, <1>7

LEMMA BeginsKeepsCount ==
    ASSUME TypeInv, ChainInv, CountInv, NEW n \in Run, NEW x \in Execution, Begins(n, x)
    PROVE  CountInv'
  <1>1. /\ RunsOf(x)' = {n}
        /\ \A y \in Execution \ {x} : RunsOf(y)' = RunsOf(y)
        /\ IsLast(n)'
        /\ \A r \in Run : IsLast(r) => r # n /\ IsLast(r)' /\ runs'[r] = runs[r]
        /\ executions'[x].admitted = 1 /\ executions'[x].runtime = "none"
        /\ \A y \in Execution \ {x} : executions'[y] = executions[y]
    BY BeginsRuns
  <1>2. HasLast'
    <2>1. ASSUME NEW r \in Run, runs'[r].status # "absent"
          PROVE  \E l \in Run : IsLast(l)' /\ runs'[l].exec = runs'[r].exec
      <3>1. CASE r = n
        BY <1>1, <3>1
      <3>2. CASE r # n
        <4>1. runs'[r] = runs[r]
          BY <3>2 DEF Begins
        <4>2. PICK l \in Run : IsLast(l) /\ runs[l].exec = runs[r].exec
          BY <2>1, <4>1 DEF CountInv, HasLast
        <4>3. QED
          BY <1>1, <4>1, <4>2
      <3>3. QED
        BY <3>1, <3>2
    <2>2. QED
      BY <2>1 DEF HasLast
  <1>3. Admitted'
    <2>1. SUFFICES ASSUME NEW y \in Execution
                   PROVE  /\ IsFiniteSet(RunsOf(y)')
                          /\ Cardinality(RunsOf(y)') = executions'[y].admitted
                          /\ executions'[y].admitted <= MaxRuns
      BY DEF Admitted
    <2>2. CASE y = x
      <3>1. IsFiniteSet({n}) /\ Cardinality({n}) = 1
        BY FS_Singleton
      <3>2. 1 <= MaxRuns
        BY RunAssumption DEF RunAssumption
      <3>3. QED
        BY <1>1, <2>2, <3>1, <3>2
    <2>3. CASE y # x
      BY <1>1, <2>3 DEF CountInv, Admitted
    <2>4. QED
      BY <2>2, <2>3
  <1>4. Unsettled'
    BY <1>1 DEF CountInv, Unsettled
  <1>5. QED
    BY <1>2, <1>3, <1>4 DEF CountInv

LEMMA StopsKeepsCount ==
    ASSUME CountInv, NEW r \in Run, Stops(r)
    PROVE  CountInv'
  <1>1. \A q \in Run : SameNames(q) /\ (runs'[q].status = "absent" <=> runs[q].status = "absent")
    BY DEF Stops, SameNames, Live, Terminal
  <1>2. /\ \A x \in Execution : RunsOf(x)' = RunsOf(x)
        /\ HasLast'
    BY <1>1, SameRuns DEF CountInv
  <1>3. UNCHANGED executions
    BY DEF Stops
  <1>4. Admitted'
    <2>1. SUFFICES ASSUME NEW y \in Execution
                   PROVE  /\ IsFiniteSet(RunsOf(y)')
                          /\ Cardinality(RunsOf(y)') = executions'[y].admitted
                          /\ executions'[y].admitted <= MaxRuns
      BY DEF Admitted
    <2>2. QED
      BY <1>2, <1>3 DEF CountInv, Admitted
  <1>5. QED
    BY <1>2, <1>3, <1>4 DEF CountInv, Unsettled

(* A retry becomes the last run of its execution. *)
LEMMA RetriesRuns ==
    ASSUME TypeInv, ChainInv, NEW r \in Run, NEW n \in Run, Retries(r, n),
           NEW x \in Execution, runs[r].exec = x
    PROVE  /\ RunsOf(x)' = RunsOf(x) \cup {n} /\ n \notin RunsOf(x)
           /\ \A y \in Execution \ {x} : RunsOf(y)' = RunsOf(y)
           /\ IsLast(n)'
           /\ \A q \in Run : IsLast(q) /\ q # r =>
                 q # n /\ IsLast(q)' /\ runs'[q] = runs[q] /\ runs[q].exec # x
           /\ executions'[x].admitted = executions[x].admitted + 1
           /\ executions'[x].runtime = executions[x].runtime
           /\ executions'[x].status = executions[x].status
           /\ \A y \in Execution \ {x} : executions'[y] = executions[y]
  <1>0. ChainTables /\ executions \in [Execution -> ExecutionRow]
    BY TypesGiveTables DEF TypeInv, TypeOK
  <1>1. /\ runs[r].status = "running" /\ runs'[r].status = "failed"
        /\ runs'[r].exec = x /\ runs'[r].attempt = runs[r].attempt
        /\ n # r /\ runs[n].status = "absent"
        /\ runs'[n].status = "queued"
        /\ runs'[n].exec = x /\ runs'[n].attempt = runs[r].attempt + 1
        /\ \A q \in Run \ {r, n} : runs'[q] = runs[q]
    BY DEF Retries, SameNames
  <1>3. RunsOf(x)' = RunsOf(x) \cup {n} /\ n \notin RunsOf(x)
    BY <1>1 DEF RunsOf
  <1>4. \A y \in Execution \ {x} : RunsOf(y)' = RunsOf(y)
    BY <1>1 DEF RunsOf
  <1>5. IsLast(r)
    BY <1>1, LiveIsLast DEF Live
  <1>6. IsLast(n)'
    <2>1. SUFFICES ASSUME NEW q \in Run, Siblings(q, n)'
                   PROVE  runs'[q].attempt < runs'[n].attempt
      BY <1>1 DEF IsLast
    <2>2. CASE q = r
      BY <1>0, <1>1, <2>2 DEF ChainTables
    <2>3. CASE q # r
      <3>1. Siblings(q, r) /\ runs'[q] = runs[q]
        BY <1>1, <2>1, <2>3 DEF Siblings
      <3>2. QED
        BY <1>0, <1>1, <1>5, <3>1 DEF IsLast, ChainTables
    <2>4. QED
      BY <2>2, <2>3
  <1>7. \A q \in Run : IsLast(q) /\ q # r =>
            q # n /\ IsLast(q)' /\ runs'[q] = runs[q] /\ runs[q].exec # x
    <2>1. SUFFICES ASSUME NEW q \in Run, IsLast(q), q # r
                   PROVE  q # n /\ IsLast(q)' /\ runs'[q] = runs[q] /\ runs[q].exec # x
      OBVIOUS
    <2>2. q # n /\ runs'[q] = runs[q]
      BY <1>1, <2>1 DEF IsLast
    <2>3. runs[q].exec # x
      BY <1>0, <1>5, <2>1, OneLast
    <2>4. \A p \in Run : Siblings(p, q)' => Siblings(p, q) /\ runs'[p] = runs[p]
      BY <1>1, <2>2, <2>3 DEF Siblings
    <2>5. QED
      BY <2>1, <2>2, <2>3, <2>4 DEF IsLast
  <1>8. /\ executions'[x].admitted = executions[x].admitted + 1
        /\ executions'[x].runtime = executions[x].runtime
        /\ executions'[x].status = executions[x].status
        /\ \A y \in Execution \ {x} : executions'[y] = executions[y]
    BY <1>0 DEF Retries, ExecutionRow
  <1>9. QED
    BY <1>3, <1>4, <1>6, <1>7, <1>8

LEMMA RetriesKeepsCount ==
    ASSUME TypeInv, ChainInv, CountInv, NEW r \in Run, NEW n \in Run, Retries(r, n)
    PROVE  CountInv'
  <1>0. PICK x \in Execution : runs[r].exec = x
    BY TypesGiveTables DEF ChainTables, Retries
  <1>1. /\ RunsOf(x)' = RunsOf(x) \cup {n} /\ n \notin RunsOf(x)
        /\ \A y \in Execution \ {x} : RunsOf(y)' = RunsOf(y)
        /\ IsLast(n)'
        /\ \A q \in Run : IsLast(q) /\ q # r =>
              q # n /\ IsLast(q)' /\ runs'[q] = runs[q] /\ runs[q].exec # x
        /\ executions'[x].admitted = executions[x].admitted + 1
        /\ executions'[x].runtime = executions[x].runtime
        /\ executions'[x].status = executions[x].status
        /\ \A y \in Execution \ {x} : executions'[y] = executions[y]
    BY <1>0, RetriesRuns
  <1>2. HasLast'
    <2>1. ASSUME NEW q \in Run, runs'[q].status # "absent"
          PROVE  \E l \in Run : IsLast(l)' /\ runs'[l].exec = runs'[q].exec
      <3>1. runs'[n].exec = x /\ runs'[r].exec = x
        BY <1>0 DEF Retries, SameNames
      <3>2. CASE q \in {r, n}
        BY <1>1, <3>1, <3>2
      <3>3. CASE q \notin {r, n}
        <4>1. runs'[q] = runs[q]
          BY <3>3 DEF Retries
        <4>2. PICK l \in Run : IsLast(l) /\ runs[l].exec = runs[q].exec
          BY <2>1, <4>1 DEF CountInv, HasLast
        <4>3. CASE l = r
          BY <1>0, <1>1, <3>1, <4>1, <4>2, <4>3
        <4>4. CASE l # r
          BY <1>1, <4>1, <4>2, <4>4
        <4>5. QED
          BY <4>3, <4>4
      <3>4. QED
        BY <3>2, <3>3
    <2>2. QED
      BY <2>1 DEF HasLast
  <1>3. Admitted'
    <2>1. SUFFICES ASSUME NEW y \in Execution
                   PROVE  /\ IsFiniteSet(RunsOf(y)')
                          /\ Cardinality(RunsOf(y)') = executions'[y].admitted
                          /\ executions'[y].admitted <= MaxRuns
      BY DEF Admitted
    <2>2. CASE y = x
      <3>1. IsFiniteSet(RunsOf(x)) /\ Cardinality(RunsOf(x)) = executions[x].admitted
        BY <1>1 DEF CountInv, Admitted
      <3>2. IsFiniteSet(RunsOf(x) \cup {n})
            /\ Cardinality(RunsOf(x) \cup {n}) = Cardinality(RunsOf(x)) + 1
        BY <1>1, <3>1, FS_AddElement
      <3>3. executions[x].admitted < MaxRuns
        BY <1>0 DEF Retries
      <3>4. executions[x].admitted \in Nat /\ MaxRuns \in Nat
        BY <1>1, RunAssumption DEF TypeInv, TypeOK, ExecutionRow, RunAssumption
      <3>5. executions'[x].admitted = executions[x].admitted + 1
            /\ executions[x].admitted + 1 <= MaxRuns
        BY <1>1, <3>3, <3>4
      <3>6. IsFiniteSet(RunsOf(x)') /\ Cardinality(RunsOf(x)') = executions[x].admitted + 1
        BY <1>1, <3>1, <3>2
      <3>7. QED
        BY <2>2, <3>5, <3>6
    <2>3. CASE y # x
      BY <1>1, <2>1, <2>3 DEF CountInv, Admitted
    <2>4. QED
      BY <2>2, <2>3
  <1>4. Unsettled'
    BY <1>1 DEF CountInv, Unsettled
  <1>5. QED
    BY <1>2, <1>3, <1>4 DEF CountInv

LEMMA CountKept == TypeInv /\ ChainInv /\ CountInv /\ [Next]_vars => CountInv'
  BY ChainSteps, CarriesKeepsCount, SettlesKeepsCount, BeginsKeepsCount, StopsKeepsCount,
     RetriesKeepsCount DEF ChainStep

LEMMA CountInit == Init => CountInv
  <1> SUFFICES ASSUME Init PROVE CountInv
    OBVIOUS
  <1>1. \A r \in Run : runs[r].status = "absent"
    BY DEF Init, NoRun
  <1>2. \A x \in Execution : RunsOf(x) = {} /\ executions[x] = NoExecution
    BY <1>1 DEF Init, RunsOf
  <1>3. IsFiniteSet({}) /\ Cardinality({}) = 0 /\ 0 <= MaxRuns
    BY FS_EmptySet, RunAssumption DEF RunAssumption
  <1>4. Admitted
    <2>1. SUFFICES ASSUME NEW x \in Execution
                   PROVE  /\ IsFiniteSet(RunsOf(x))
                          /\ Cardinality(RunsOf(x)) = executions[x].admitted
                          /\ executions[x].admitted <= MaxRuns
      BY DEF Admitted
    <2>2. executions[x].admitted = 0
      BY <1>2 DEF NoExecution
    <2>3. QED
      BY <1>2, <1>3, <2>2
  <1>5. QED
    BY <1>1, <1>2, <1>4 DEF CountInv, HasLast, Unsettled, NoExecution

LEMMA CountHolds == Spec => []CountInv
  BY TypesHold, ChainHolds, CountInit, CountKept, PTL DEF Spec
-----------------------------------------------------------------------------
(* The refinement.  The stage of an execution is read off its last run.     *)
Stages == [x \in Execution |-> Stage(x)]
Made == [x \in Execution |-> Cardinality(RunsOf(x))]
Runtimes == [x \in Execution |-> executions[x].runtime]

StageOf(r) == IF runs[r].status \in Live THEN "live" ELSE runs[r].status

StageFacts ==
    \A x \in Execution :
        /\ RunsOf(x) = {} => Stage(x) = "none"
        /\ \A r \in Run : IsLast(r) /\ runs[r].exec = x =>
              Stage(x) = StageOf(r) /\ Latest(x) = r
        /\ RunsOf(x) # {} => \E r \in Run : IsLast(r) /\ runs[r].exec = x

LEMMA StagesRead == TypeInv /\ ChainInv /\ CountInv => StageFacts
  <1> SUFFICES ASSUME TypeInv, ChainInv, CountInv, NEW x \in Execution
               PROVE  /\ RunsOf(x) = {} => Stage(x) = "none"
                      /\ \A r \in Run : IsLast(r) /\ runs[r].exec = x =>
                            Stage(x) = StageOf(r) /\ Latest(x) = r
                      /\ RunsOf(x) # {} => \E r \in Run : IsLast(r) /\ runs[r].exec = x
    BY DEF StageFacts
  <1>0. ChainTables
    BY TypesGiveTables
  <1>1. RunsOf(x) = {} => Stage(x) = "none"
    BY DEF Stage
  <1>2. RunsOf(x) # {} => \E r \in Run : IsLast(r) /\ runs[r].exec = x
    BY DEF CountInv, HasLast, RunsOf
  <1>3. ASSUME NEW r \in Run, IsLast(r), runs[r].exec = x
        PROVE  Stage(x) = StageOf(r) /\ Latest(x) = r
    <2>1. r \in RunsOf(x)
      BY <1>3 DEF RunsOf, IsLast
    <2>2. \A q \in RunsOf(x) : q # r => runs[q].attempt < runs[r].attempt
      BY <1>3, <2>1 DEF RunsOf, IsLast, Siblings
    <2>3. \A q \in RunsOf(x) : runs[q].attempt <= runs[r].attempt
      BY <1>0, <2>2 DEF ChainTables, RunsOf
    <2>4. /\ Latest(x) \in RunsOf(x)
          /\ \A q \in RunsOf(x) : runs[q].attempt <= runs[Latest(x)].attempt
      BY <2>1, <2>3 DEF Latest
    <2>5. Latest(x) = r
      <3> DEFINE l == Latest(x)
      <3>1. l \in Run
        BY <2>4 DEF RunsOf
      <3>2. runs[l].attempt \in Nat /\ runs[r].attempt \in Nat
        BY <1>0, <3>1 DEF ChainTables
      <3>3. runs[r].attempt <= runs[l].attempt
        BY <2>1, <2>4
      <3>4. l # r => runs[l].attempt < runs[r].attempt
        BY <2>2, <2>4
      <3> HIDE DEF l
      <3>5. l = r
        BY <3>2, <3>3, <3>4
      <3>6. QED
        BY <3>5 DEF l
    <2>6. \A q \in RunsOf(x) : runs[q].status \in Live => q = r
      BY <1>0, <1>3, LiveIsLast, OneLast DEF RunsOf
    <2>7. Stage(x) = StageOf(r)
      <3>1. RunsOf(x) # {}
        BY <2>1
      <3>2. CASE runs[r].status \in Live
        BY <2>1, <3>1, <3>2 DEF Stage, StageOf
      <3>3. CASE runs[r].status \notin Live
        <4>1. ~\E q \in RunsOf(x) : runs[q].status \in Live
          BY <2>6, <3>3
        <4>2. QED
          BY <2>5, <3>1, <3>3, <4>1 DEF Stage, StageOf
      <3>4. QED
        BY <3>2, <3>3
    <2>8. QED
      BY <2>5, <2>7
  <1>4. QED
    BY <1>1, <1>2, <1>3

(* A step that keeps the last run of y, and its outcome, keeps y's stage. *)
LEMMA StageKept ==
    ASSUME StageFacts, StageFacts', NEW y \in Execution,
           RunsOf(y)' = RunsOf(y),
           \A r \in Run : IsLast(r) /\ runs[r].exec = y =>
               IsLast(r)' /\ runs'[r].exec = y /\ StageOf(r)' = StageOf(r)
    PROVE  Stage(y)' = Stage(y)
  <1>1. CASE RunsOf(y) = {}
    BY <1>1 DEF StageFacts
  <1>2. CASE RunsOf(y) # {}
    <2>1. PICK r \in Run : IsLast(r) /\ runs[r].exec = y
      BY <1>2 DEF StageFacts
    <2>2. Stage(y) = StageOf(r) /\ Stage(y)' = StageOf(r)'
      BY <2>1 DEF StageFacts
    <2>3. QED
      BY <2>1, <2>2
  <1>3. QED
    BY <1>1, <1>2

(* An execution's count of runs is the one it admitted. *)
LEMMA CountKeptOf ==
    ASSUME CountInv, CountInv', NEW y \in Execution,
           executions'[y].admitted = executions[y].admitted
    PROVE  Cardinality(RunsOf(y))' = Cardinality(RunsOf(y))
  BY DEF CountInv, Admitted

RefinesInv == TypeInv /\ ChainInv /\ CountInv /\ StageFacts

LEMMA CarriesStutters ==
    ASSUME RefinesInv, RefinesInv', Carries
    PROVE  UNCHANGED <<Stages, Made, Runtimes>>
  <1>1. /\ \A x \in Execution : RunsOf(x)' = RunsOf(x)
        /\ \A r \in Run : IsLast(r) => IsLast(r)'
    BY SameRuns DEF Carries, Live
  <1>2. \A r \in Run : runs'[r].exec = runs[r].exec /\ StageOf(r)' = StageOf(r)
    BY DEF Carries, SameNames, StageOf
  <1>3. \A y \in Execution : Stage(y)' = Stage(y)
    BY <1>1, <1>2, StageKept DEF RefinesInv
  <1>4. \A y \in Execution : Cardinality(RunsOf(y))' = Cardinality(RunsOf(y))
    BY <1>1
  <1>5. \A y \in Execution : executions'[y].runtime = executions[y].runtime
    BY DEF Carries
  <1>6. QED
    BY <1>3, <1>4, <1>5 DEF Stages, Made, Runtimes

LEMMA SettlesRefines ==
    ASSUME RefinesInv, RefinesInv', NEW x \in Execution, Settles(x)
    PROVE  Attempts!AbsSettle(x)
  <1>0. TypeInv /\ ChainInv /\ CountInv /\ StageFacts /\ ChainTables
    BY TypesGiveTables DEF RefinesInv
  <1>1. /\ UNCHANGED runs
        /\ \A y \in Execution \ {x} : executions'[y].runtime = executions[y].runtime
        /\ executions'[x].runtime = RuntimeOutcome(x)
        /\ executions[x].runtime = "none" /\ RunsOf(x) # {}
        /\ \A r \in RunsOf(x) : runs[r].status \notin Live
    BY <1>0, SettlesWrites
  <1>2. PICK r \in Run : IsLast(r) /\ runs[r].exec = x
    BY <1>0, <1>1 DEF StageFacts
  <1>3. Stage(x) = StageOf(r) /\ Latest(x) = r
    BY <1>0, <1>2 DEF StageFacts
  <1>4. r \in RunsOf(x)
    BY <1>2 DEF RunsOf, IsLast
  <1>5. runs[r].status \in Terminal /\ Stage(x) = runs[r].status
    BY <1>0, <1>1, <1>2, <1>3, <1>4 DEF StageOf, IsLast, ChainTables
  (* A cancelled run is the last one. *)
  <1>6. (\E q \in RunsOf(x) : runs[q].status = "cancelled") <=> runs[r].status = "cancelled"
    <2>1. ASSUME NEW q \in RunsOf(x), runs[q].status = "cancelled"
          PROVE  q = r
      <3>1. q \in Run /\ runs[q].exec = x /\ Closes(q)
        BY <2>1 DEF RunsOf, Closes
      <3>2. IsLast(q)
        BY <1>0, <2>1, <3>1 DEF ChainInv, ClosersLast, IsLast
      <3>3. QED
        BY <1>0, <1>2, <3>1, <3>2, OneLast
    <2>2. QED
      BY <1>4, <2>1
  <1>7. /\ RuntimeOutcome(x) \in {"succeeded", "failed", "cancelled"}
        /\ RuntimeOutcome(x) = "cancelled" <=> Stage(x) = "cancelled"
        /\ RuntimeOutcome(x) = "succeeded" => Stage(x) = "succeeded"
    BY <1>3, <1>5, <1>6 DEF RuntimeOutcome
  <1>8. Stages[x] \in {"succeeded", "failed", "timed_out", "cancelled"}
        /\ Stages[x] = Stage(x) /\ Runtimes[x] = "none"
    BY <1>1, <1>5 DEF Stages, Runtimes, Terminal
  <1>9. Stages' = Stages /\ Made' = Made
    <2>1. \A y \in Execution : RunsOf(y)' = RunsOf(y)
      BY <1>1 DEF RunsOf
    <2>2. \A y \in Execution : \A q \in Run : IsLast(q) /\ runs[q].exec = y =>
               IsLast(q)' /\ runs'[q].exec = y /\ StageOf(q)' = StageOf(q)
      BY <1>1 DEF IsLast, Siblings, StageOf
    <2>3. \A y \in Execution : Stage(y)' = Stage(y)
      BY <2>1, <2>2, StageKept DEF RefinesInv
    <2>4. \A y \in Execution : Cardinality(RunsOf(y))' = Cardinality(RunsOf(y))
      BY <2>1
    <2>5. QED
      BY <2>3, <2>4 DEF Stages, Made
  <1>10. Runtimes' = [Runtimes EXCEPT ![x] = RuntimeOutcome(x)]
    BY <1>1 DEF Runtimes
  <1>11. QED
    BY <1>7, <1>8, <1>9, <1>10
       DEF Attempts!AbsSettle, Attempts!Ended, Stages, Made, Runtimes

LEMMA BeginsRefines ==
    ASSUME RefinesInv, RefinesInv', NEW n \in Run, NEW x \in Execution, Begins(n, x)
    PROVE  Attempts!AbsBegin(x)
  <1>0. TypeInv /\ ChainInv /\ CountInv /\ StageFacts /\ CountInv' /\ StageFacts'
    BY DEF RefinesInv
  <1>1. /\ RunsOf(x) = {} /\ RunsOf(x)' = {n}
        /\ \A y \in Execution \ {x} : RunsOf(y)' = RunsOf(y)
        /\ IsLast(n)'
        /\ \A r \in Run : IsLast(r) => r # n /\ IsLast(r)' /\ runs'[r] = runs[r]
        /\ executions'[x] = [status |-> "running", runtime |-> "none", admitted |-> 1]
        /\ \A y \in Execution \ {x} : executions'[y] = executions[y]
    BY <1>0, BeginsRuns
  <1>2. Stage(x) = "none"
    BY <1>0, <1>1 DEF StageFacts
  <1>3. runs'[n].exec = x /\ runs'[n].status = "queued"
    BY DEF Begins
  <1>4. StageOf(n)' = "live"
    BY <1>3 DEF StageOf, Live
  <1>5. Stage(x)' = "live"
    BY <1>0, <1>1, <1>3, <1>4 DEF StageFacts
  <1>6. \A y \in Execution \ {x} : Stage(y)' = Stage(y)
    <2>1. \A q \in Run : IsLast(q) => StageOf(q)' = StageOf(q)
      BY <1>1 DEF StageOf
    <2>2. QED
      BY <1>0, <1>1, <2>1, StageKept
  <1>7. Stages' = [Stages EXCEPT ![x] = "live"]
    BY <1>5, <1>6 DEF Stages
  <1>8. Cardinality(RunsOf(x))' = 1
    <2>1. executions'[x].admitted = 1
      BY <1>1
    <2>2. Cardinality(RunsOf(x))' = executions'[x].admitted
      BY <1>0 DEF CountInv, Admitted
    <2>3. QED
      BY <2>1, <2>2
  <1>9. \A y \in Execution \ {x} : Cardinality(RunsOf(y))' = Cardinality(RunsOf(y))
    BY <1>1
  <1>10. Made' = [Made EXCEPT ![x] = 1]
    BY <1>8, <1>9 DEF Made
  <1>11. executions[x].runtime = "none"
    BY <1>0 DEF CountInv, Unsettled, Begins
  <1>12. Runtimes' = Runtimes
    BY <1>1, <1>11 DEF Runtimes
  <1>13. Stages[x] = "none"
    BY <1>2 DEF Stages
  <1>14. QED
    BY <1>7, <1>10, <1>12, <1>13 DEF Attempts!AbsBegin, Stages, Made, Runtimes

LEMMA StopsRefines ==
    ASSUME RefinesInv, RefinesInv', NEW r \in Run, Stops(r)
    PROVE  Attempts!AbsEnd(runs[r].exec)
  <1>0. TypeInv /\ ChainInv /\ CountInv /\ StageFacts /\ CountInv' /\ StageFacts' /\ ChainTables
    BY TypesGiveTables DEF RefinesInv
  <1>1. /\ runs[r].status \in Live /\ runs'[r].status \in Terminal
        /\ \A q \in Run \ {r} : runs'[q] = runs[q]
        /\ UNCHANGED executions
    BY DEF Stops
  <1>2. PICK x \in Execution : runs[r].exec = x
    BY <1>0, <1>1 DEF ChainTables, Live
  <1>3. \A q \in Run : SameNames(q) /\ (runs'[q].status = "absent" <=> runs[q].status = "absent")
    BY <1>1 DEF Stops, SameNames, Live, Terminal
  <1>4. /\ \A y \in Execution : RunsOf(y)' = RunsOf(y)
        /\ \A q \in Run : IsLast(q) => IsLast(q)'
    BY <1>3, SameRuns
  <1>5. IsLast(r)
    BY <1>0, <1>1, LiveIsLast
  <1>6. StageOf(r) = "live" /\ StageOf(r)' = runs'[r].status
    BY <1>1 DEF StageOf, Live, Terminal
  <1>7. runs'[r].exec = x
    BY <1>2, <1>3 DEF SameNames
  <1>8. Stage(x) = "live" /\ Stage(x)' = runs'[r].status
    BY <1>0, <1>2, <1>4, <1>5, <1>6, <1>7 DEF StageFacts
  <1>9. \A y \in Execution \ {x} : Stage(y)' = Stage(y)
    <2>1. \A y \in Execution \ {x} : \A q \in Run : IsLast(q) /\ runs[q].exec = y =>
               IsLast(q)' /\ runs'[q].exec = y /\ StageOf(q)' = StageOf(q)
      BY <1>1, <1>2, <1>4 DEF StageOf
    <2>2. QED
      BY <1>0, <1>4, <2>1, StageKept
  <1>10. Stages' = [Stages EXCEPT ![x] = runs'[r].status] /\ Stages[x] = "live"
    BY <1>8, <1>9 DEF Stages
  <1>11. \A y \in Execution : Cardinality(RunsOf(y))' = Cardinality(RunsOf(y))
    BY <1>4
  <1>12. Made' = Made /\ Runtimes' = Runtimes
    BY <1>1, <1>11 DEF Made, Runtimes
  <1>13. runs'[r].status \in {"succeeded", "failed", "timed_out", "cancelled"}
    BY <1>1 DEF Terminal
  <1>14. Attempts!AbsEnd(x)
    BY <1>10, <1>12, <1>13 DEF Attempts!AbsEnd, Attempts!Ended, Stages, Made, Runtimes
  <1>15. QED
    BY <1>2, <1>14

LEMMA RetriesRefines ==
    ASSUME RefinesInv, RefinesInv', NEW r \in Run, NEW n \in Run, Retries(r, n)
    PROVE  Attempts!AbsRetry(runs[r].exec)
  <1>0. TypeInv /\ ChainInv /\ CountInv /\ StageFacts /\ CountInv' /\ StageFacts' /\ ChainTables
    BY TypesGiveTables DEF RefinesInv
  <1>1. PICK x \in Execution : runs[r].exec = x
    BY <1>0 DEF ChainTables, Retries
  <1>2. /\ RunsOf(x)' = RunsOf(x) \cup {n}
        /\ \A y \in Execution \ {x} : RunsOf(y)' = RunsOf(y)
        /\ IsLast(n)'
        /\ \A q \in Run : IsLast(q) /\ q # r =>
              q # n /\ IsLast(q)' /\ runs'[q] = runs[q] /\ runs[q].exec # x
        /\ executions'[x].admitted = executions[x].admitted + 1
        /\ executions'[x].runtime = executions[x].runtime
        /\ \A y \in Execution \ {x} : executions'[y] = executions[y]
    BY <1>0, <1>1, RetriesRuns
  <1>3. IsLast(r) /\ StageOf(r) = "live"
    BY <1>0, LiveIsLast DEF Retries, Live, StageOf
  <1>4. runs'[n].exec = x /\ runs'[n].status = "queued"
    BY <1>1 DEF Retries
  <1>5. StageOf(n)' = "live"
    BY <1>4 DEF StageOf, Live
  <1>6. Stage(x) = "live" /\ Stage(x)' = "live"
    BY <1>0, <1>1, <1>2, <1>3, <1>4, <1>5 DEF StageFacts
  <1>7. \A y \in Execution \ {x} : Stage(y)' = Stage(y)
    <2>1. \A y \in Execution \ {x} : \A q \in Run : IsLast(q) /\ runs[q].exec = y =>
               IsLast(q)' /\ runs'[q].exec = y /\ StageOf(q)' = StageOf(q)
      BY <1>1, <1>2 DEF StageOf
    <2>2. QED
      BY <1>0, <1>2, <2>1, StageKept
  <1>8. Stages' = Stages /\ Stages[x] = "live"
    BY <1>6, <1>7 DEF Stages
  <1>9. Cardinality(RunsOf(x)) = executions[x].admitted
        /\ Cardinality(RunsOf(x))' = executions'[x].admitted
    BY <1>0 DEF CountInv, Admitted
  <1>10. \A y \in Execution \ {x} : Cardinality(RunsOf(y))' = Cardinality(RunsOf(y))
    BY <1>2
  <1>11. Made' = [Made EXCEPT ![x] = Made[x] + 1]
    <2>1. Made[x] = executions[x].admitted
      BY <1>9 DEF Made
    <2>2. Cardinality(RunsOf(x))' = Made[x] + 1
      BY <1>2, <1>9, <2>1
    <2>3. QED
      BY <1>10, <2>2 DEF Made
  <1>12. Made[x] < MaxRuns
    BY <1>1, <1>9 DEF Made, Retries
  <1>13. \A y \in Execution : executions'[y].runtime = executions[y].runtime
    BY <1>2
  <1>14. Runtimes' = Runtimes
    BY <1>13 DEF Runtimes
  <1>15. Attempts!AbsRetry(x)
    BY <1>8, <1>11, <1>12, <1>14 DEF Attempts!AbsRetry, Stages, Made, Runtimes
  <1>16. QED
    BY <1>1, <1>15

(* Several engines, their watchdogs, recovery and the user together look    *)
(* like one bare chain of attempts: one after the other, within the budget, *)
(* an outcome read off the last one, and nothing once it is settled.        *)
THEOREM EnginesImplementAttempts == Spec => ImplementsAttempts
  <1>1. Init => Attempts!AbsInit
    <2> SUFFICES ASSUME Init PROVE Attempts!AbsInit
      OBVIOUS
    <2>1. \A r \in Run : runs[r].status = "absent"
      BY DEF Init, NoRun
    <2>2. \A x \in Execution : RunsOf(x) = {} /\ executions[x].runtime = "none"
      BY <2>1 DEF Init, RunsOf, NoExecution
    <2>3. \A x \in Execution : Stage(x) = "none" /\ Cardinality(RunsOf(x)) = 0
      BY <2>2, FS_EmptySet DEF Stage
    <2>4. QED
      BY <2>2, <2>3 DEF Attempts!AbsInit
  <1>2. RefinesInv /\ RefinesInv' /\ [Next]_vars => [Attempts!AbsNext]_(Attempts!abstractVars)
    <2> SUFFICES ASSUME RefinesInv, RefinesInv', [Next]_vars
                 PROVE  [Attempts!AbsNext]_(Attempts!abstractVars)
      OBVIOUS
    <2>0. TypeInv /\ ChainTables
      BY TypesGiveTables DEF RefinesInv
    <2>1. ChainStep
      BY <2>0, ChainSteps
    <2>2. CASE Carries
      BY <2>2, CarriesStutters DEF Attempts!abstractVars, Stages, Made, Runtimes
    <2>3. ASSUME NEW x \in Execution, Settles(x)
          PROVE  Attempts!AbsNext
      BY <2>3, SettlesRefines DEF Attempts!AbsNext
    <2>4. ASSUME NEW n \in Run, NEW x \in Execution, Begins(n, x)
          PROVE  Attempts!AbsNext
      BY <2>4, BeginsRefines DEF Attempts!AbsNext
    <2>5. ASSUME NEW r \in Run, Stops(r)
          PROVE  Attempts!AbsNext
      <3>1. runs[r].exec \in Execution
        BY <2>0, <2>5 DEF ChainTables, Stops, Live
      <3>2. QED
        BY <2>5, <3>1, StopsRefines DEF Attempts!AbsNext
    <2>6. ASSUME NEW r \in Run, NEW n \in Run, Retries(r, n)
          PROVE  Attempts!AbsNext
      <3>1. runs[r].exec \in Execution
        BY <2>0, <2>6 DEF ChainTables, Retries
      <3>2. QED
        BY <2>6, <3>1, RetriesRefines DEF Attempts!AbsNext
    <2>7. QED
      BY <2>1, <2>2, <2>3, <2>4, <2>5, <2>6 DEF ChainStep
  <1>3. TypeInv /\ ChainInv /\ CountInv => RefinesInv
    BY StagesRead DEF RefinesInv
  <1>4. QED
    BY <1>1, <1>2, <1>3, TypesHold, ChainHolds, CountHolds, PTL
       DEF Spec, ImplementsAttempts, Attempts!AbsSpec
-----------------------------------------------------------------------------
(* What one step may do to leases, records, claims and jobs.                *)
RowStep(q) ==
    runs[q].status # "absent" =>
        /\ runs'[q].status # "absent"
        /\ runs'[q].task = runs[q].task /\ runs'[q].exec = runs[q].exec
        /\ runs'[q].gen >= runs[q].gen
        /\ runs'[q].status = "running" /\ runs'[q].gen = runs[q].gen =>
              /\ runs[q].status = "running"
              /\ runs[q].deadline = "passed" => runs'[q].deadline = "passed"

NotEnded(q) == runs'[q].status = runs[q].status \/ runs'[q].status \notin EngineOutcome

(* The engine ends a run on the word of its executor, of a sweep that       *)
(* listed it, or of a recovery that finds it stale.                         *)
EndedBy(q) ==
    \/ runs'[q].status = "timed_out"
       /\ \E e \in Engine, g \in 0 .. MaxLease : <<q, g>> \in sweep[e] /\ Held(q, g)
    \/ runs'[q].status = "failed" /\ runs[q].stale
    \/ /\ runs'[q].status \in {"succeeded", "failed"}
       /\ \E e \in Engine : /\ job[e][q].pc = "settling" /\ job'[e][q] = Idle
                            /\ Held(q, job[e][q].gen)
                            /\ runs'[q].status = "succeeded" =>
                                  job[e][q].result = "ok" /\ record' = record

SettlesOk(e, r) == job[e][r].pc = "settling" /\ job[e][r].result = "ok"

JobKept(e, r) ==
    SettlesOk(e, r)' => SettlesOk(e, r) /\ job'[e][r].gen = job[e][r].gen

RecordKept(x) == record'[x].status \in Unfinished => record[x].status \in Unfinished

StepFacts ==
    /\ \A q \in Run : RowStep(q)
    /\ \A q \in Run : NotEnded(q) \/ EndedBy(q)
    /\ \/ UNCHANGED <<output, emitClaims>>
       \/ \E e \in Engine, r \in Run, k \in Key : Emit(e, r, k)
    /\ \A e \in Engine : sweep'[e] \subseteq sweep[e] \/ SweepRead(e)
    /\ \A x \in Execution : RecordKept(x)
    /\ \A e \in Engine, r \in Run : JobKept(e, r)

(* The two steps that are not like that: an outcome recorded by an executor *)
(* that holds its lease, and the check of the records.                      *)
Records(e, r) ==
    /\ job[e][r].pc = "executing" /\ Held(r, job[e][r].gen)
    /\ UNCHANGED <<runs, output, emitClaims, job, sweep>>
    /\ \A x \in Execution : x # runs[r].exec => RecordKept(x)

Checks(e, r) ==
    /\ UNCHANGED <<runs, record, output, emitClaims, sweep>>
    /\ \A d \in Engine, q \in Run : JobKept(d, q) \/ (d = e /\ q = r)
    /\ SettlesOk(e, r)' => ~CompletionError(r)

AnyStep ==
    \/ StepFacts
    \/ \E e \in Engine, r \in Run : Records(e, r)
    \/ \E e \in Engine, r \in Run : Checks(e, r)

LEMMA SameRow ==
    ASSUME TypeInv, NEW q \in Run, runs'[q] = runs[q]
    PROVE  RowStep(q) /\ NotEnded(q)
  <1>1. runs[q].gen \in 0 .. MaxLease
    BY DEF TypeInv, TypeOK, RunRow
  <1>2. runs[q].gen <= runs[q].gen
    BY <1>1
  <1>3. QED
    BY <1>2 DEF RowStep, NotEnded

LEMMA SameJobs ==
    ASSUME UNCHANGED job
    PROVE  \A e \in Engine, r \in Run : JobKept(e, r)
  BY DEF JobKept, SettlesOk

LEMMA OneJob ==
    ASSUME TypeInv, NEW e \in Engine, NEW r \in Run, NEW j,
           job' = [job EXCEPT ![e][r] = j],
           j.pc = "settling" /\ j.result = "ok" => SettlesOk(e, r) /\ j.gen = job[e][r].gen
    PROVE  \A d \in Engine, q \in Run : JobKept(d, q)
  BY DEF TypeInv, TypeOK, JobKept, SettlesOk

LEMMA SameRecords ==
    ASSUME UNCHANGED record
    PROVE  \A x \in Execution : RecordKept(x)
  BY DEF RecordKept

LEMMA FailedRecordKeeps ==
    ASSUME TypeInv, NEW r \in Run, record' = FailedRecord(r)
    PROVE  \A x \in Execution : RecordKept(x)
  BY DEF TypeInv, TypeOK, RecordRow, FailedRecord, RecordKept, Unfinished

(* finishRun, whoever calls it. *)
LEMMA FinishFacts ==
    ASSUME TypeInv, NEW r \in Run, runs[r].status = "running",
           NEW status \in EngineOutcome, NEW error \in RunError, NEW retry \in BOOLEAN,
           FinishRun(r, status, error, retry)
    PROVE  /\ \A q \in Run : RowStep(q)
           /\ \A q \in Run \ {r} : NotEnded(q)
           /\ runs'[r].status = status
           /\ UNCHANGED <<output, emitClaims>>
           /\ \A x \in Execution : RecordKept(x)
           /\ status = "succeeded" => record' = record
  <1>1. EndsWith(r, status)
    BY FinishRunEffect, TypeOKSplits DEF TypeInv
  <1>2. \A q \in Run \ {r} : RowStep(q) /\ NotEnded(q)
    <2>1. SUFFICES ASSUME NEW q \in Run \ {r} PROVE RowStep(q) /\ NotEnded(q)
      OBVIOUS
    <2>2. CASE runs'[q] = runs[q]
      BY <2>2, SameRow
    <2>3. CASE Inserted(q)
      BY <2>3 DEF Inserted, RowStep, NotEnded, EngineOutcome
    <2>4. QED
      BY <1>1, <2>2, <2>3 DEF EndsWith
  <1>3. RowStep(r)
    <2>1. runs[r].gen <= runs[r].gen
      BY DEF TypeInv, TypeOK, RunRow
    <2>2. QED
      BY <1>1, <2>1 DEF EndsWith, RowStep, EngineOutcome
  <1>4. record' \in {record, FailedRecord(r)} /\ (status = "succeeded" => record' = record)
        /\ UNCHANGED <<output, emitClaims>>
    BY DEF FinishRun
  <1>5. \A x \in Execution : RecordKept(x)
    BY <1>4, SameRecords, FailedRecordKeeps
  <1>6. QED
    BY <1>1, <1>2, <1>3, <1>4, <1>5 DEF EndsWith

LEMMA QuietStep ==
    ASSUME TypeInv,
           \A q \in Run : RowStep(q) /\ NotEnded(q),
           UNCHANGED <<output, emitClaims>>,
           \A e \in Engine : sweep'[e] \subseteq sweep[e],
           \A x \in Execution : RecordKept(x),
           \A e \in Engine, r \in Run : JobKept(e, r)
    PROVE  StepFacts
  BY DEF StepFacts

(* Steps that leave the rows, the records and the claims alone. *)
LEMMA MemorySteps ==
    ASSUME TypeInv, UNCHANGED <<runs, record, output, emitClaims>>,
           \A e \in Engine : sweep'[e] \subseteq sweep[e] \/ SweepRead(e),
           \A e \in Engine, r \in Run : JobKept(e, r)
    PROVE  StepFacts
  <1>1. \A q \in Run : RowStep(q) /\ NotEnded(q)
    BY SameRow
  <1>2. QED
    BY <1>1, SameRecords DEF StepFacts

(* Steps that write one row, without ending a run, and one job. *)
LEMMA OneRowSteps ==
    ASSUME TypeInv, NEW r \in Run, NEW row, runs' = [runs EXCEPT ![r] = row],
           row.status \in {"queued", "running", "cancelled"},
           row.task = runs[r].task, row.exec = runs[r].exec,
           row.gen \in {runs[r].gen, runs[r].gen + 1},
           row.status = "running" /\ row.gen = runs[r].gen =>
              runs[r].status = "running" /\ row.deadline \in {runs[r].deadline, "passed"},
           UNCHANGED <<output, emitClaims, sweep>>,
           \A x \in Execution : RecordKept(x),
           \A e \in Engine, q \in Run : JobKept(e, q)
    PROVE  StepFacts
  <1>1. runs \in [Run -> RunRow] /\ runs[r].gen \in Nat
    BY RunAssumption DEF TypeInv, TypeOK, RunRow, RunAssumption
  <1>2. runs'[r] = row /\ \A q \in Run \ {r} : runs'[q] = runs[q]
    BY <1>1
  <1>3. row.gen >= runs[r].gen
    BY <1>1
  <1>4. RowStep(r) /\ NotEnded(r)
    BY <1>2, <1>3 DEF RowStep, NotEnded, EngineOutcome
  <1>5. \A q \in Run : RowStep(q) /\ NotEnded(q)
    BY <1>2, <1>4, SameRow
  <1>6. QED
    BY <1>5, QuietStep
LEMMA StartRunFacts ==
    ASSUME TypeInv, NEW e \in Engine, NEW r \in Run, StartRun(e, r)
    PROVE  StepFacts
  <1>1. PICK row \in RunRow, j \in Job :
           /\ runs' = [runs EXCEPT ![r] = row]
           /\ job' = [job EXCEPT ![e][r] = j]
           /\ row.status = "running" /\ row.gen = runs[r].gen + 1
           /\ row.task = runs[r].task /\ row.exec = runs[r].exec
           /\ j.pc \in {"executing", "settling"} /\ j.gen = runs[r].gen + 1
           /\ j.result # "deferred"
    BY StartRunWrites
  <1> DEFINE working == [Idle EXCEPT !.pc = "executing", !.gen = runs[r].gen + 1]
             refused == [Idle EXCEPT !.pc = "settling", !.gen = runs[r].gen + 1,
                                     !.result = "permanent"]
             jj == IF runs[r].task \in Executable THEN working ELSE refused
  <1>2. job' = [job EXCEPT ![e][r] = jj]
    BY DEF StartRun
  <1>3. working.pc = "executing" /\ refused.result = "permanent"
    BY DEF Idle
  <1>4. ~(jj.pc = "settling" /\ jj.result = "ok")
    BY <1>3
  <1> HIDE DEF jj
  <1>5. \A d \in Engine, q \in Run : JobKept(d, q)
    BY <1>2, <1>4, OneJob
  <1>6. UNCHANGED <<output, emitClaims, sweep, record>>
    BY DEF StartRun
  <1>7. ~(row.gen = runs[r].gen)
    <2>1. runs[r].gen \in 0 .. MaxLease
      BY DEF TypeInv, TypeOK, RunRow
    <2>2. QED
      BY <1>1, <2>1
  <1>8. QED
    BY <1>1, <1>5, <1>6, <1>7, SameRecords, OneRowSteps

LEMMA EnderFacts ==
    ASSUME TypeInv, NEW r \in Run, runs[r].status = "running",
           NEW status \in EngineOutcome, NEW error \in RunError, NEW retry \in BOOLEAN,
           FinishRun(r, status, error, retry),
           runs'[r].status = status => EndedBy(r),
           \A e \in Engine : sweep'[e] \subseteq sweep[e],
           \A e \in Engine, q \in Run : JobKept(e, q)
    PROVE  StepFacts
  <1>1. /\ \A q \in Run : RowStep(q)
        /\ \A q \in Run \ {r} : NotEnded(q)
        /\ runs'[r].status = status
        /\ UNCHANGED <<output, emitClaims>>
        /\ \A x \in Execution : RecordKept(x)
    BY FinishFacts
  <1>2. QED
    BY <1>1 DEF StepFacts

LEMMA ReapFacts ==
    ASSUME TypeInv, NEW e \in Engine, NEW r \in Run, NEW g \in 0 .. MaxLease,
           SweepFinish(e, r, g) \/ RecoverRun(e, r, g)
    PROVE  StepFacts
  <1>1. runs[r].status = "running" /\ UNCHANGED job
    BY DEF SweepFinish, RecoverRun, Held, Orphaned
  <1>2. "timed_out" \in EngineOutcome /\ "failed" \in EngineOutcome
        /\ "timeout" \in RunError /\ "browser_outcome_uncertain" \in RunError
        /\ "engine_restart" \in RunError
    BY DEF EngineOutcome, RunError
  <1>3. \A d \in Engine : sweep'[d] \subseteq sweep[d]
    BY DEF SweepFinish, RecoverRun, TypeInv, TypeOK
  <1>4. \A d \in Engine, q \in Run : JobKept(d, q)
    BY <1>1, SameJobs
  <1>5. CASE SweepFinish(e, r, g)
    <2>1. FinishRun(r, "timed_out", "timeout", FALSE)
      BY <1>5 DEF SweepFinish
    <2>2. runs'[r].status = "timed_out" => EndedBy(r)
      BY <1>5 DEF SweepFinish, EndedBy
    <2>3. QED
      BY <1>1, <1>2, <1>3, <1>4, <2>1, <2>2, EnderFacts
  <1>6. CASE RecoverRun(e, r, g)
    <2>1. PICK error \in RunError, retry \in BOOLEAN : FinishRun(r, "failed", error, retry)
      BY <1>2, <1>6 DEF RecoverRun, SafeToRetry
    <2>2. runs'[r].status = "failed" => EndedBy(r)
      BY <1>6 DEF RecoverRun, Orphaned, EndedBy
    <2>3. QED
      BY <1>1, <1>2, <1>3, <1>4, <2>1, <2>2, EnderFacts
  <1>7. QED
    BY <1>5, <1>6

LEMMA SettleFacts ==
    ASSUME TypeInv, NEW e \in Engine, NEW r \in Run, Settle(e, r)
    PROVE  StepFacts
  <1>1. /\ job[e][r].pc = "settling" /\ Held(r, job[e][r].gen)
        /\ runs[r].status = "running"
        /\ job' = [job EXCEPT ![e][r] = Idle]
        /\ UNCHANGED sweep
    BY DEF Settle, Held
  <1>2. job'[e][r] = Idle
    BY <1>1 DEF TypeInv, TypeOK
  <1>3. \A d \in Engine, q \in Run : JobKept(d, q)
    BY <1>1, IdleTyped, OneJob
  <1>4. \A d \in Engine : sweep'[d] \subseteq sweep[d]
    BY <1>1
  <1>5. CASE Requeue(r)
    <2> DEFINE row == [runs[r] EXCEPT !.status = "queued", !.due = FALSE,
                                      !.deadline = "none", !.error = "deferred"]
    <2>0. runs \in [Run -> RunRow]
      BY DEF TypeInv, TypeOK
    <2>1. runs' = [runs EXCEPT ![r] = row] /\ UNCHANGED <<record, output, emitClaims>>
      BY <1>5, <2>0 DEF Requeue
    <2>2. row.status = "queued" /\ row.task = runs[r].task /\ row.exec = runs[r].exec
          /\ row.gen = runs[r].gen
      BY <2>0 DEF RunRow
    <2> HIDE DEF row
    <2>3. QED
      BY <1>1, <1>3, <2>1, <2>2, SameRecords, OneRowSteps
  <1>6. ASSUME NEW status \in {"succeeded", "failed"}, NEW error \in RunError,
               NEW retry \in BOOLEAN, FinishRun(r, status, error, retry),
               status = "succeeded" => job[e][r].result = "ok"
        PROVE  StepFacts
    <2>1. status \in EngineOutcome
      BY DEF EngineOutcome
    <2>2. status = "succeeded" => record' = record
      BY <1>1, <1>6, <2>1, FinishFacts
    <2>3. runs'[r].status = status => EndedBy(r)
      BY <1>1, <1>2, <1>6, <2>2 DEF EndedBy
    <2>4. QED
      BY <1>1, <1>3, <1>4, <1>6, <2>1, <2>3, EnderFacts
  <1>7. "none" \in RunError /\ "executor" \in RunError /\ "permanent" \in RunError
    BY DEF RunError
  <1>8. \/ Requeue(r)
        \/ job[e][r].result = "ok" /\ FinishRun(r, "succeeded", "none", FALSE)
        \/ FinishRun(r, "failed", "executor", TRUE)
        \/ FinishRun(r, "failed", "permanent", FALSE)
    BY DEF Settle
  <1>9. CASE job[e][r].result = "ok" /\ FinishRun(r, "succeeded", "none", FALSE)
    BY <1>6, <1>7, <1>9
  <1>10. CASE FinishRun(r, "failed", "executor", TRUE)
    BY <1>6, <1>7, <1>10
  <1>11. CASE FinishRun(r, "failed", "permanent", FALSE)
    BY <1>6, <1>7, <1>11
  <1>12. QED
    BY <1>5, <1>8, <1>9, <1>10, <1>11

LEMMA ExecuteFacts ==
    ASSUME TypeInv, NEW e \in Engine, NEW r \in Run, Execute(e, r)
    PROVE  AnyStep
  <1>0. runs \in [Run -> RunRow] /\ job \in [Engine -> [Run -> Job]]
        /\ output \in [Run -> [Key -> Nat]]
    BY DEF TypeInv, TypeOK
  <1>1. CASE PrerequisiteBlock(e, r)
    <2> DEFINE row == [runs[r] EXCEPT !.due = FALSE]
    <2>1. runs' = [runs EXCEPT ![r] = row] /\ UNCHANGED <<record, output, emitClaims, sweep>>
      BY <1>0, <1>1 DEF PrerequisiteBlock
    <2>2. row.status = "queued" /\ row.task = runs[r].task /\ row.exec = runs[r].exec
          /\ row.gen = runs[r].gen
      BY <1>0, <1>1 DEF RunRow, PrerequisiteBlock
    <2> HIDE DEF row
    <2>3. \A d \in Engine, q \in Run : JobKept(d, q)
      BY <1>1, IdleTyped, OneJob DEF PrerequisiteBlock
    <2>4. QED
      BY <2>1, <2>2, <2>3, SameRecords, OneRowSteps DEF AnyStep
  <1>2. CASE StartRun(e, r)
    BY <1>2, StartRunFacts DEF AnyStep
  <1>3. CASE StartRefused(e, r) \/ SettleTooLate(e, r)
    <2>1. UNCHANGED <<runs, record, output, emitClaims, sweep>>
      BY <1>3 DEF StartRefused, SettleTooLate, tables
    <2>2. \A d \in Engine, q \in Run : JobKept(d, q)
      BY <1>3, IdleTyped, OneJob DEF StartRefused, SettleTooLate
    <2>3. QED
      BY <2>1, <2>2, MemorySteps DEF AnyStep
  <1>4. ASSUME NEW k \in Key, Emit(e, r, k)
        PROVE  AnyStep
    <2>1. UNCHANGED <<runs, record, job, sweep>>
      BY <1>4 DEF Emit, memory
    <2>2. QED
      BY <1>4, <2>1, SameRow, SameJobs, SameRecords DEF StepFacts, AnyStep
  <1>5. ASSUME NEW outcome \in Outcomes, RecordOutcome(e, r, outcome)
        PROVE  AnyStep
    <2>1. \A x \in Execution : x # runs[r].exec => RecordKept(x)
      BY <1>5 DEF RecordOutcome, RecordKept, TypeInv, TypeOK
    <2>2. Records(e, r)
      BY <1>5, <2>1 DEF RecordOutcome, Records, memory
    <2>3. QED
      BY <2>2 DEF AnyStep
  <1>6. ASSUME NEW result \in {"ok", "executor", "permanent", "deferred"},
               ExecutorReturns(e, r, result)
        PROVE  AnyStep
    <2> DEFINE j == [job[e][r] EXCEPT !.pc = IF result = "ok" THEN "checking" ELSE "settling",
                                      !.result = result]
    <2>1. job' = [job EXCEPT ![e][r] = j]
      BY <1>0, <1>6 DEF ExecutorReturns
    <2>2. ~(j.pc = "settling" /\ j.result = "ok")
      BY <1>0 DEF Job
    <2> HIDE DEF j
    <2>3. \A d \in Engine, q \in Run : JobKept(d, q)
      BY <2>1, <2>2, OneJob
    <2>4. UNCHANGED <<runs, record, output, emitClaims, sweep>>
      BY <1>6 DEF ExecutorReturns, tables
    <2>5. QED
      BY <2>3, <2>4, MemorySteps DEF AnyStep
  <1>7. CASE CheckCompletion(e, r)
    <2>1. UNCHANGED <<runs, record, output, emitClaims, sweep>>
      BY <1>7 DEF CheckCompletion, tables
    <2>2. \A d \in Engine, q \in Run : JobKept(d, q) \/ (d = e /\ q = r)
      BY <1>0, <1>7 DEF CheckCompletion, JobKept, SettlesOk
    <2>3. SettlesOk(e, r)' => ~CompletionError(r)
      BY <1>0, <1>7 DEF CheckCompletion, SettlesOk, Job
    <2>4. Checks(e, r)
      BY <2>1, <2>2, <2>3 DEF Checks
    <2>5. QED
      BY <2>4 DEF AnyStep
  <1>8. CASE Settle(e, r)
    BY <1>8, SettleFacts DEF AnyStep
  <1>9. CASE Heartbeat(e, r)
    <2> DEFINE row == [runs[r] EXCEPT !.stale = FALSE]
    <2>1. runs' = [runs EXCEPT ![r] = row] /\ UNCHANGED <<record, output, emitClaims, sweep, job>>
      BY <1>0, <1>9 DEF Heartbeat, memory
    <2>2. row.status = "running" /\ row.task = runs[r].task /\ row.exec = runs[r].exec
          /\ row.gen = runs[r].gen /\ row.deadline = runs[r].deadline
          /\ runs[r].status = "running"
      BY <1>0, <1>9 DEF RunRow, Heartbeat, Held
    <2> HIDE DEF row
    <2>3. QED
      BY <2>1, <2>2, SameRecords, SameJobs, OneRowSteps DEF AnyStep
  <1>10. CASE HeartbeatLost(e, r)
    <2> DEFINE j == [job[e][r] EXCEPT !.aborted = TRUE]
    <2>1. job' = [job EXCEPT ![e][r] = j]
      BY <1>0, <1>10 DEF HeartbeatLost
    <2>2. j.pc = job[e][r].pc /\ j.result = job[e][r].result /\ j.gen = job[e][r].gen
      BY <1>0 DEF Job
    <2> HIDE DEF j
    <2>3. \A d \in Engine, q \in Run : JobKept(d, q)
      BY <2>1, <2>2, OneJob DEF SettlesOk
    <2>4. UNCHANGED <<runs, record, output, emitClaims, sweep>>
      BY <1>10 DEF HeartbeatLost, tables
    <2>5. QED
      BY <2>3, <2>4, MemorySteps DEF AnyStep
  <1>11. QED
    BY <1>1, <1>2, <1>3, <1>4, <1>5, <1>6, <1>7, <1>8, <1>9, <1>10 DEF Execute

LEMMA EveryStep == TypeInv /\ [Next]_vars => AnyStep
  <1> SUFFICES ASSUME TypeInv, [Next]_vars PROVE AnyStep
    OBVIOUS
  <1>0. runs \in [Run -> RunRow] /\ job \in [Engine -> [Run -> Job]]
        /\ sweep \in [Engine -> SUBSET (Run \X (0 .. MaxLease))]
    BY DEF TypeInv, TypeOK
  <1>1. ASSUME NEW t \in Task, NEW x \in Execution, Trigger(t, x)
        PROVE  AnyStep
    <2>1. PICK n \in Run : n = NewId /\ runs[n].status = "absent"
      BY <1>1, NewIdIsUnused DEF Trigger
    <2>2. QueuedRun(t, x, 0, TRUE).status = "queued"
      BY DEF QueuedRun, NoRun
    <2>3. runs'[n].status = "queued" /\ \A q \in Run \ {n} : runs'[q] = runs[q]
      BY <1>0, <1>1, <2>1, <2>2 DEF Trigger
    <2>4. RowStep(n) /\ NotEnded(n)
      BY <2>1, <2>3 DEF RowStep, NotEnded, EngineOutcome
    <2>5. \A q \in Run : RowStep(q) /\ NotEnded(q)
      BY <2>3, <2>4, SameRow
    <2>6. UNCHANGED <<record, output, emitClaims, sweep, job>>
      BY <1>1 DEF Trigger, memory
    <2>7. QED
      BY <2>5, <2>6, SameRecords, SameJobs, QuietStep DEF AnyStep
  <1>2. ASSUME NEW r \in Run, Cancel(r)
        PROVE  AnyStep
    <2> DEFINE row == [runs[r] EXCEPT !.status = "cancelled", !.error = "cancelled"]
    <2>1. runs' = [runs EXCEPT ![r] = row] /\ UNCHANGED <<output, emitClaims, sweep, job>>
      BY <1>0, <1>2 DEF Cancel, memory
    <2>2. row.status = "cancelled" /\ row.task = runs[r].task /\ row.exec = runs[r].exec
          /\ row.gen = runs[r].gen
      BY <1>0 DEF RunRow
    <2> HIDE DEF row
    <2>3. \A x \in Execution : RecordKept(x)
      BY <1>2, FailedRecordKeeps DEF Cancel
    <2>4. QED
      BY <2>1, <2>2, <2>3, SameJobs, OneRowSteps DEF AnyStep
  <1>3. ASSUME NEW r \in Run, Time(r)
        PROVE  AnyStep
    <2> DEFINE waited == [runs[r] EXCEPT !.due = TRUE]
               overdue == [runs[r] EXCEPT !.deadline = "passed"]
               aged == [runs[r] EXCEPT !.stale = TRUE]
    <2>1. UNCHANGED <<record, output, emitClaims, sweep, job>>
      BY <1>3 DEF Time, WaitElapses, DeadlinePasses, HeartbeatAges, memory
    <2>2. \/ runs' = [runs EXCEPT ![r] = waited]
          \/ runs' = [runs EXCEPT ![r] = overdue]
          \/ runs' = [runs EXCEPT ![r] = aged]
      BY <1>0, <1>3 DEF Time, WaitElapses, DeadlinePasses, HeartbeatAges
    <2>3. runs[r].status \in {"queued", "running"}
      BY <1>3 DEF Time, WaitElapses, DeadlinePasses, HeartbeatAges
    <2>4. \A row \in {waited, overdue, aged} :
             /\ row.status = runs[r].status
             /\ row.task = runs[r].task /\ row.exec = runs[r].exec
             /\ row.gen = runs[r].gen
             /\ row.deadline \in {runs[r].deadline, "passed"}
      BY <1>0 DEF RunRow
    <2> HIDE DEF waited, overdue, aged
    <2>5. PICK row \in {waited, overdue, aged} : runs' = [runs EXCEPT ![r] = row]
      BY <2>2
    <2>6. QED
      BY <2>1, <2>3, <2>4, <2>5, SameRecords, SameJobs, OneRowSteps DEF AnyStep
  <1>4. ASSUME NEW x \in Execution,
               FinalizeExecution(x) \/ \E e \in Engine : SettleExecution(e, x)
        PROVE  AnyStep
    <2>1. UNCHANGED <<runs, record, output, emitClaims, sweep, job>>
      BY <1>4 DEF FinalizeExecution, SettleExecution, memory
    <2>2. QED
      BY <2>1, SameJobs, MemorySteps DEF AnyStep
  <1>5. ASSUME NEW e \in Engine, PickUp(e) \/ Watch(e) \/ ProcessLife(e)
        PROVE  AnyStep
    <2>1. CASE PickUp(e)
      <3>1. [Idle EXCEPT !.pc = "loading"].pc = "loading"
        BY DEF Idle
      <3>2. \A d \in Engine, q \in Run : job'[d][q] = job[d][q] \/ job'[d][q].pc = "loading"
        BY <1>0, <2>1, <3>1 DEF PickUp
      <3>3. \A d \in Engine, q \in Run : JobKept(d, q)
        BY <3>2 DEF JobKept, SettlesOk
      <3>4. UNCHANGED <<runs, record, output, emitClaims, sweep>>
        BY <2>1 DEF PickUp, tables
      <3>5. QED
        BY <3>3, <3>4, MemorySteps DEF AnyStep
    <2>2. CASE SweepRead(e)
      <3>1. UNCHANGED <<runs, record, output, emitClaims, job>>
        BY <2>2 DEF SweepRead, tables
      <3>2. \A d \in Engine : sweep'[d] \subseteq sweep[d] \/ SweepRead(d)
        BY <1>0, <2>2 DEF SweepRead
      <3>3. QED
        BY <3>1, <3>2, SameJobs, MemorySteps DEF AnyStep
    <2>3. CASE \E r \in Run, g \in 0 .. MaxLease : SweepTooLate(e, r, g)
      <3>1. UNCHANGED <<runs, record, output, emitClaims, job>>
        BY <2>3 DEF SweepTooLate, tables
      <3>2. \A d \in Engine : sweep'[d] \subseteq sweep[d]
        BY <1>0, <2>3 DEF SweepTooLate
      <3>3. QED
        BY <3>1, <3>2, SameJobs, MemorySteps DEF AnyStep
    <2>4. CASE \/ Boot(e) \/ Recovered(e) \/ Stop(e)
               \/ \E r \in Run, g \in 0 .. MaxLease : RecoverTooLate(e, r, g)
      <3>1. UNCHANGED <<runs, record, output, emitClaims, job, sweep>>
        BY <2>4 DEF Boot, Recovered, Stop, RecoverTooLate, tables
      <3>2. QED
        BY <3>1, SameJobs, MemorySteps DEF AnyStep
    <2>5. CASE Exit(e) \/ Crash(e)
      <3>1. UNCHANGED <<runs, record, output, emitClaims>>
            /\ job' = [job EXCEPT ![e] = [q \in Run |-> Idle]]
            /\ sweep' = [sweep EXCEPT ![e] = {}]
        BY <2>5 DEF Exit, Crash, Die, tables
      <3>2. \A d \in Engine, q \in Run : job'[d][q] = job[d][q] \/ job'[d][q] = Idle
        BY <1>0, <3>1
      <3>3. \A d \in Engine, q \in Run : JobKept(d, q)
        BY <3>2, IdleTyped DEF JobKept, SettlesOk
      <3>4. \A d \in Engine : sweep'[d] \subseteq sweep[d]
        BY <1>0, <3>1
      <3>5. QED
        BY <3>1, <3>3, <3>4, MemorySteps DEF AnyStep
    <2>6. CASE \E r \in Run, g \in 0 .. MaxLease : SweepFinish(e, r, g) \/ RecoverRun(e, r, g)
      BY <2>6, ReapFacts DEF AnyStep
    <2>7. QED
      BY <1>4, <1>5, <2>1, <2>2, <2>3, <2>4, <2>5, <2>6 DEF Watch, ProcessLife
  <1>6. CASE UNCHANGED vars
    BY <1>6, SameJobs, MemorySteps DEF AnyStep, vars
  <1>7. QED
    BY <1>1, <1>2, <1>3, <1>4, <1>5, <1>6, ExecuteFacts DEF Next
-----------------------------------------------------------------------------
(* Emitted keys.  What a run emitted is claimed, and every claim is of      *)
(* something that a run emitted.                                            *)
EmitsClaimed ==
    \A r \in Run, k \in Key : output[r][k] # 0 =>
        runs[r].status # "absent" /\ EmitClaim(r, k) \in emitClaims

ClaimsEmitted ==
    \A claim \in emitClaims : \E r \in Run, k \in Key :
        runs[r].status # "absent" /\ output[r][k] = 1 /\ claim = EmitClaim(r, k)

(* Two runs have one claim for a key exactly when one repeats the other.    *)
LEMMA ClaimsTellRepeats ==
    ASSUME NEW r \in Run, NEW q \in Run, NEW k \in Key
    PROVE  EmitClaim(r, k) = EmitClaim(q, k) <=> Repeats(r, q, k)
  BY DEF EmitClaim, Repeats, Identified

LEMMA AnyStepRows ==
    ASSUME TypeInv, AnyStep
    PROVE  \A q \in Run : RowStep(q)
  BY SameRow DEF AnyStep, StepFacts, Records, Checks

LEMMA EmitsKept ==
    /\ TypeInv /\ EmitsClaimed /\ ClaimsEmitted /\ KeyEmittedOnce
    /\ [Next]_vars
    => EmitsClaimed' /\ ClaimsEmitted' /\ KeyEmittedOnce'
  <1> SUFFICES ASSUME TypeInv, EmitsClaimed, ClaimsEmitted, KeyEmittedOnce, [Next]_vars
               PROVE  EmitsClaimed' /\ ClaimsEmitted' /\ KeyEmittedOnce'
    OBVIOUS
  <1> DEFINE AtMostOnce ==
                \A k \in Key, r \in Run :
                    /\ output[r][k] <= 1
                    /\ \A q \in Run \ {r} : output[r][k] = 1 /\ output[q][k] = 1 =>
                                               EmitClaim(r, k) # EmitClaim(q, k)
  <1>0. AnyStep /\ \A q \in Run : RowStep(q)
    BY EveryStep, AnyStepRows
  <1>1. output \in [Run -> [Key -> Nat]]
    BY DEF TypeInv, TypeOK
  <1>2. AtMostOnce
    BY ClaimsTellRepeats DEF KeyEmittedOnce
  <1>3. ClaimsEmitted' /\ AtMostOnce' => KeyEmittedOnce'
    <2>1. \A r, q \in Run, k, l \in Key :
             EmitClaim(r, k)' = EmitClaim(q, l)' => k = l /\ Repeats(r, q, k)'
      BY DEF EmitClaim, Repeats, Identified
    <2>2. \A r, q \in Run, k \in Key :
             Repeats(r, q, k)' => EmitClaim(r, k)' = EmitClaim(q, k)'
      BY DEF EmitClaim, Repeats, Identified
    <2>3. QED
      BY <2>1, <2>2 DEF ClaimsEmitted, KeyEmittedOnce
  <1>4. \A r \in Run, k \in Key : runs[r].status # "absent" =>
           runs'[r].status # "absent" /\ EmitClaim(r, k)' = EmitClaim(r, k)
    BY <1>0 DEF RowStep, EmitClaim, Identified
  <1>5. CASE UNCHANGED <<output, emitClaims>>
    <2>1. EmitsClaimed'
      BY <1>4, <1>5 DEF EmitsClaimed
    <2>2. ClaimsEmitted'
      BY <1>4, <1>5 DEF ClaimsEmitted
    <2>3. AtMostOnce'
      BY <1>1, <1>2, <1>4, <1>5 DEF EmitsClaimed
    <2>4. QED
      BY <1>3, <2>1, <2>2, <2>3
  <1>6. ASSUME NEW e \in Engine, NEW r \in Run, NEW k \in Key, Emit(e, r, k)
        PROVE  EmitsClaimed' /\ ClaimsEmitted' /\ KeyEmittedOnce'
    <2>1. /\ runs[r].status # "absent" /\ EmitClaim(r, k) \notin emitClaims
          /\ emitClaims' = emitClaims \cup {EmitClaim(r, k)}
      BY <1>6 DEF Emit, Held
    <2>2. output' = [output EXCEPT ![r] = [output[r] EXCEPT ![k] = output[r][k] + 1]]
      BY <1>1, <1>6 DEF Emit
    <2>3. \A q \in Run, l \in Key : EmitClaim(q, l) = EmitClaim(r, k) => output[q][l] = 0
      BY <2>1 DEF EmitsClaimed
    <2>4. /\ output'[r][k] = 1
          /\ \A q \in Run, l \in Key : q # r \/ l # k => output'[q][l] = output[q][l]
      BY <1>1, <2>2, <2>3
    <2>5. \A q \in Run, l \in Key : EmitClaim(q, l)' = EmitClaim(q, l)
      BY <1>6 DEF Emit, EmitClaim, Identified
    <2>6. EmitsClaimed'
      BY <1>4, <2>1, <2>4, <2>5 DEF EmitsClaimed
    <2>7. ClaimsEmitted'
      <3>1. SUFFICES ASSUME NEW claim \in emitClaims'
                     PROVE  \E q \in Run, l \in Key :
                               /\ runs'[q].status # "absent" /\ output'[q][l] = 1
                               /\ claim = EmitClaim(q, l)'
        BY DEF ClaimsEmitted
      <3>2. CASE claim = EmitClaim(r, k)
        BY <1>4, <2>1, <2>4, <3>2
      <3>3. CASE claim \in emitClaims
        <4>1. PICK q \in Run, l \in Key :
                 runs[q].status # "absent" /\ output[q][l] = 1 /\ claim = EmitClaim(q, l)
          BY <3>3 DEF ClaimsEmitted
        <4>2. output'[q][l] = 1
          BY <2>4, <4>1
        <4>3. QED
          BY <1>4, <4>1, <4>2
      <3>4. QED
        BY <2>1, <3>2, <3>3
    <2>8. AtMostOnce'
      <3>1. SUFFICES ASSUME NEW l \in Key, NEW p \in Run
                     PROVE  /\ output'[p][l] <= 1
                            /\ \A q \in Run \ {p} : output'[p][l] = 1 /\ output'[q][l] = 1 =>
                                                       EmitClaim(p, l) # EmitClaim(q, l)
        BY <2>5
      <3>2. output'[p][l] <= 1
        BY <1>2, <2>4
      <3>3. ASSUME NEW q \in Run \ {p}, output'[p][l] = 1, output'[q][l] = 1
            PROVE  EmitClaim(p, l) # EmitClaim(q, l)
        <4>1. CASE l = k /\ (p = r \/ q = r)
          BY <2>3, <2>4, <3>3, <4>1
        <4>2. CASE ~(l = k /\ (p = r \/ q = r))
          BY <1>2, <2>4, <3>3, <4>2
        <4>3. QED
          BY <4>1, <4>2
      <3>4. QED
        BY <3>2, <3>3
    <2>9. QED
      BY <1>3, <2>6, <2>7, <2>8
  <1>7. QED
    BY <1>0, <1>5, <1>6 DEF AnyStep, StepFacts, Records, Checks

(* The claim of emitFromRun: a dedupe key is the task's for ever, whichever *)
(* run, execution or process emits it; a record's identity is the           *)
(* execution's; and neither holds back an event that no such run emitted.   *)
THEOREM EmittedOnce == Spec => []KeyEmittedOnce
  <1>1. Init => EmitsClaimed /\ ClaimsEmitted /\ KeyEmittedOnce
    BY DEF Init, EmitsClaimed, ClaimsEmitted, KeyEmittedOnce
  <1>2. QED
    BY <1>1, TypesHold, EmitsKept, PTL DEF Spec

-----------------------------------------------------------------------------
(* What a sweep lists is overdue for as long as its lease is the current    *)
(* one: a later lease has a later generation.                               *)
SweepsOverdue ==
    \A e \in Engine : \A r \in Run, g \in 0 .. MaxLease : <<r, g>> \in sweep[e] =>
        /\ runs[r].status # "absent"
        /\ g <= runs[r].gen
        /\ Held(r, g) => runs[r].deadline = "passed"

LEMMA SweepsKept == TypeInv /\ SweepsOverdue /\ [Next]_vars => SweepsOverdue'
  <1> SUFFICES ASSUME TypeInv, SweepsOverdue, [Next]_vars,
                      NEW e \in Engine, NEW r \in Run, NEW g \in 0 .. MaxLease,
                      <<r, g>> \in sweep'[e]
               PROVE  /\ runs'[r].status # "absent"
                      /\ g <= runs'[r].gen
                      /\ Held(r, g)' => runs'[r].deadline = "passed"
    BY DEF SweepsOverdue
  <1>0. AnyStep /\ \A q \in Run : RowStep(q)
    BY EveryStep, AnyStepRows
  <1>1. runs[r].gen \in Nat /\ g \in Nat /\ (runs'[r].gen \in Nat)
    <2>1. TypeInv'
      BY NextTypes
    <2>2. QED
      BY <2>1, RunAssumption DEF TypeInv, TypeOK, RunRow, RunAssumption
  <1>2. CASE <<r, g>> \in sweep[e]
    <2>1. runs[r].status # "absent" /\ g <= runs[r].gen
          /\ (Held(r, g) => runs[r].deadline = "passed")
      BY <1>2 DEF SweepsOverdue
    <2>2. /\ runs'[r].status # "absent" /\ runs'[r].gen >= runs[r].gen
          /\ runs'[r].status = "running" /\ runs'[r].gen = runs[r].gen =>
                /\ runs[r].status = "running"
                /\ runs[r].deadline = "passed" => runs'[r].deadline = "passed"
      BY <1>0, <2>1 DEF RowStep
    <2>3. ASSUME Held(r, g)'
          PROVE  runs'[r].deadline = "passed"
      <3>1. runs'[r].status = "running" /\ runs'[r].gen = g
        BY <2>3 DEF Held
      <3>2. runs[r].gen = g
        BY <1>1, <2>1, <2>2, <3>1
      <3>3. QED
        BY <2>1, <2>2, <3>1, <3>2 DEF Held
    <2>4. g <= runs'[r].gen
      BY <1>1, <2>1, <2>2
    <2>5. QED
      BY <2>2, <2>3, <2>4
  <1>3. CASE <<r, g>> \notin sweep[e] /\ SweepRead(e)
    <2>1. runs[r].status = "running" /\ runs[r].deadline = "passed" /\ g = runs[r].gen
          /\ UNCHANGED runs
      BY <1>3 DEF SweepRead, TypeInv, TypeOK, tables
    <2>2. QED
      BY <1>1, <2>1
  <1>4. QED
    BY <1>0, <1>2, <1>3 DEF AnyStep, StepFacts, Records, Checks

LEMMA SweepsHold == Spec => []SweepsOverdue
  <1>1. Init => SweepsOverdue
    BY DEF Init, SweepsOverdue
  <1>2. QED
    BY <1>1, TypesHold, SweepsKept, PTL DEF Spec

LEMMA KillsAreDue ==
    TypeInv /\ SweepsOverdue /\ [Next]_vars =>
        [\A r \in Run : runs[r].status = "running" =>
          /\ runs'[r].status = "timed_out" => runs[r].deadline = "passed"
          /\ runs'[r].status \in {"succeeded", "failed"} =>
                \/ \E e \in Engine : job[e][r].pc = "settling" /\ job'[e][r] = Idle
                \/ runs[r].stale]_vars
  <1> SUFFICES ASSUME TypeInv, SweepsOverdue, [Next]_vars,
                      NEW r \in Run, runs[r].status = "running"
               PROVE  /\ runs'[r].status = "timed_out" => runs[r].deadline = "passed"
                      /\ runs'[r].status \in {"succeeded", "failed"} =>
                            \/ \E e \in Engine : job[e][r].pc = "settling" /\ job'[e][r] = Idle
                            \/ runs[r].stale
    OBVIOUS
  <1>1. NotEnded(r) \/ EndedBy(r)
    BY EveryStep, SameRow DEF AnyStep, StepFacts, Records, Checks
  <1>2. CASE NotEnded(r)
    BY <1>2 DEF NotEnded, EngineOutcome
  <1>3. CASE EndedBy(r)
    BY <1>3 DEF EndedBy, SweepsOverdue
  <1>4. QED
    BY <1>1, <1>2, <1>3

(* A sweep or a recovery that works from rows read long ago ends no run     *)
(* whose current lease keeps its deadline and its heartbeat.                *)
THEOREM KillsAreRightful == Spec => NoWrongfulKill
  BY TypesHold, SweepsHold, KillsAreDue, PTL DEF Spec, NoWrongfulKill

-----------------------------------------------------------------------------
(* The records of an execution, read before the transaction that ends its   *)
(* run, are still finished when it does: nobody else may write them.        *)
CheckedRecords ==
    \A e \in Engine, r \in Run :
        SettlesOk(e, r) /\ Held(r, job[e][r].gen) => ~CompletionError(r)

(* Two runs of one execution that hold a lease are one run. *)
LEMMA HoldersAreOne ==
    ASSUME TypeInv, ChainInv, NEW r \in Run, NEW q \in Run,
           runs[r].status = "running", runs[q].status = "running",
           runs[r].exec = runs[q].exec
    PROVE  q = r
  BY LiveIsLast, OneLast, TypesGiveTables DEF Live

(* No run of an execution is live beside one that succeeded. *)
LEMMA SuccessIsAlone ==
    ASSUME TypeInv, ChainInv, NEW r \in Run, NEW q \in Run,
           runs[r].status = "succeeded", runs[q].status = "running",
           runs[r].exec = runs[q].exec
    PROVE  FALSE
  <1>1. IsLast(r)
    BY DEF ChainInv, ClosersLast, Closes, IsLast
  <1>2. QED
    BY <1>1, LiveIsLast, OneLast, TypesGiveTables DEF Live

RecordsInv == TypeInv /\ ChainInv /\ OneExecutor /\ CheckedRecords /\ SuccessFinishedItsRecords

LEMMA RecordsKept == RecordsInv /\ [Next]_vars => CheckedRecords' /\ SuccessFinishedItsRecords'
  <1> SUFFICES ASSUME RecordsInv, [Next]_vars
               PROVE  CheckedRecords' /\ SuccessFinishedItsRecords'
    OBVIOUS
  <1>0. /\ TypeInv /\ ChainInv /\ OneExecutor /\ CheckedRecords /\ SuccessFinishedItsRecords
        /\ AnyStep /\ ChainTables
    BY EveryStep, TypesGiveTables DEF RecordsInv
  <1>1. \A q \in Run : RowStep(q)
    BY <1>0, AnyStepRows
  <1>2. \A q \in Run : runs[q].status # "absent" => runs[q].exec \in Execution
    BY <1>0 DEF ChainTables
  <1>3. ASSUME StepFacts
        PROVE  CheckedRecords' /\ SuccessFinishedItsRecords'
    <2>1. ASSUME NEW e \in Engine, NEW r \in Run, SettlesOk(e, r)', Held(r, job[e][r].gen)'
          PROVE  ~CompletionError(r)'
      <3>1. SettlesOk(e, r) /\ job'[e][r].gen = job[e][r].gen
        BY <1>3, <2>1 DEF StepFacts, JobKept
      <3>2. runs[r].gen = job[e][r].gen /\ runs[r].status # "absent"
        BY <1>0, <3>1 DEF OneExecutor, Active, SettlesOk
      <3>3. runs'[r].status = "running" /\ runs'[r].gen = runs[r].gen
        BY <2>1, <3>1, <3>2 DEF Held
      <3>4. runs[r].status = "running" /\ runs'[r].exec = runs[r].exec
        BY <1>1, <3>2, <3>3 DEF RowStep
      <3>5. ~CompletionError(r)
        BY <1>0, <3>1, <3>2, <3>4 DEF CheckedRecords, Held
      <3>6. RecordKept(runs[r].exec)
        BY <1>2, <1>3, <3>2 DEF StepFacts
      <3>7. QED
        BY <3>4, <3>5, <3>6 DEF RecordKept, CompletionError
    <2>2. ASSUME NEW r \in Run, runs'[r].status = "succeeded"
          PROVE  record'[runs'[r].exec].status \notin Unfinished
      <3>1. CASE runs[r].status = "succeeded"
        <4>1. runs'[r].exec = runs[r].exec /\ runs[r].exec \in Execution
          BY <1>1, <1>2, <3>1 DEF RowStep
        <4>2. record[runs[r].exec].status \notin Unfinished
          BY <1>0, <3>1 DEF SuccessFinishedItsRecords, Unfinished
        <4>3. QED
          BY <1>3, <4>1, <4>2 DEF StepFacts, RecordKept
      <3>2. CASE runs[r].status # "succeeded"
        <4>1. EndedBy(r)
          BY <1>3, <2>2, <3>2 DEF StepFacts, NotEnded, EngineOutcome
        <4>2. PICK e \in Engine : SettlesOk(e, r) /\ Held(r, job[e][r].gen) /\ record' = record
          BY <2>2, <4>1 DEF EndedBy, SettlesOk
        <4>3. ~CompletionError(r)
          BY <1>0, <4>2 DEF CheckedRecords
        <4>4. runs'[r].exec = runs[r].exec
          BY <1>1, <4>2 DEF RowStep, Held
        <4>5. QED
          BY <4>2, <4>3, <4>4 DEF CompletionError
      <3>3. QED
        BY <3>1, <3>2
    <2>3. QED
      BY <2>1, <2>2 DEF CheckedRecords, SuccessFinishedItsRecords, Unfinished
  <1>4. ASSUME NEW d \in Engine, NEW q \in Run, Records(d, q)
        PROVE  CheckedRecords' /\ SuccessFinishedItsRecords'
    <2>0. /\ UNCHANGED <<runs, job>>
          /\ job[d][q].pc = "executing" /\ runs[q].status = "running"
          /\ \A x \in Execution : x # runs[q].exec => RecordKept(x)
      BY <1>4 DEF Records, Held
    <2>1. ASSUME NEW e \in Engine, NEW r \in Run, SettlesOk(e, r), Held(r, job[e][r].gen)
          PROVE  record'[runs[r].exec].status \notin Unfinished
      <3>1. runs[r].exec # runs[q].exec
        <4> SUFFICES ASSUME runs[r].exec = runs[q].exec PROVE FALSE
          OBVIOUS
        <4>1. q = r
          BY <1>0, <2>0, <2>1, HoldersAreOne DEF Held
        <4>2. Active(d, r) /\ Active(e, r)
          BY <2>0, <2>1, <4>1 DEF Active, SettlesOk
        <4>3. d = e
          BY <1>0, <4>2 DEF OneExecutor
        <4>4. QED
          BY <2>0, <2>1, <4>1, <4>3 DEF SettlesOk
      <3>2. runs[r].exec \in Execution /\ record[runs[r].exec].status \notin Unfinished
        BY <1>0, <1>2, <2>1 DEF CheckedRecords, Held, CompletionError
      <3>3. QED
        BY <2>0, <3>1, <3>2 DEF RecordKept
    <2>2. ASSUME NEW r \in Run, runs[r].status = "succeeded"
          PROVE  record'[runs[r].exec].status \notin Unfinished
      <3>1. runs[r].exec # runs[q].exec
        BY <1>0, <2>0, <2>2, SuccessIsAlone
      <3>2. runs[r].exec \in Execution /\ record[runs[r].exec].status \notin Unfinished
        BY <1>0, <1>2, <2>2 DEF SuccessFinishedItsRecords, Unfinished
      <3>3. QED
        BY <2>0, <3>1, <3>2 DEF RecordKept
    <2>3. QED
      BY <2>0, <2>1, <2>2
         DEF CheckedRecords, SuccessFinishedItsRecords, Unfinished, SettlesOk, Held, CompletionError
  <1>5. ASSUME NEW d \in Engine, NEW q \in Run, Checks(d, q)
        PROVE  CheckedRecords' /\ SuccessFinishedItsRecords'
    <2>0. /\ UNCHANGED <<runs, record>>
          /\ \A e \in Engine, r \in Run : JobKept(e, r) \/ (e = d /\ r = q)
          /\ SettlesOk(d, q)' => ~CompletionError(q)
      BY <1>5 DEF Checks
    <2>1. SuccessFinishedItsRecords'
      BY <1>0, <2>0 DEF SuccessFinishedItsRecords
    <2>2. ASSUME NEW e \in Engine, NEW r \in Run, SettlesOk(e, r)', Held(r, job[e][r].gen)'
          PROVE  ~CompletionError(r)'
      <3>1. CASE e = d /\ r = q
        BY <2>0, <2>2, <3>1 DEF CompletionError
      <3>2. CASE JobKept(e, r)
        <4>1. SettlesOk(e, r) /\ Held(r, job[e][r].gen)
          BY <2>0, <2>2, <3>2 DEF JobKept, Held
        <4>2. QED
          BY <1>0, <2>0, <4>1 DEF CheckedRecords, CompletionError
      <3>3. QED
        BY <2>0, <3>1, <3>2
    <2>3. QED
      BY <2>1, <2>2 DEF CheckedRecords
  <1>6. QED
    BY <1>0, <1>3, <1>4, <1>5 DEF AnyStep

(* settle reads recordCompletionError outside finishRun's transaction, and  *)
(* that is safe: the only writer of the records is the holder of the lease. *)
THEOREM SuccessIsFinished == Spec => []SuccessFinishedItsRecords
  <1>1. Init => CheckedRecords /\ SuccessFinishedItsRecords
    BY IdleTyped DEF Init, CheckedRecords, SettlesOk, SuccessFinishedItsRecords, NoRun
  <1>2. TypeInv /\ ChainInv /\ OneExecutor /\ CheckedRecords /\ SuccessFinishedItsRecords
        /\ [Next]_vars => CheckedRecords' /\ SuccessFinishedItsRecords'
    BY RecordsKept DEF RecordsInv
  <1>3. QED
    BY <1>1, <1>2, TypesHold, ChainHolds, OneExecutorAlways, PTL DEF Spec
=============================================================================
