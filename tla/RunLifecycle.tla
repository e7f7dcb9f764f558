---------------------------- MODULE RunLifecycle ----------------------------
(***************************************************************************)
(* The runs of packages/engine: the rows of `runs` and                     *)
(* `workflow_executions`, the engine processes that execute them, and the  *)
(* watchdog, crash recovery, retries, cancellation and settlement that act *)
(* on the same rows.                                                       *)
(*                                                                         *)
(* Every database transaction of the code is one action; every await of an *)
(* engine between two transactions is a place where the other processes    *)
(* may act.  What a process keeps in memory across an await (a result, a   *)
(* lease generation, a list of rows read earlier) is in job, sweep and     *)
(* recover, and dies with the process.                                     *)
(*                                                                         *)
(* Clocks are flags set by passage-of-time actions: due is not_before <=   *)
(* now(), deadline "passed" is deadline_at <= now(), stale is a heartbeat  *)
(* older than staleHeartbeatMs.                                            *)
(***************************************************************************)
EXTENDS Integers, FiniteSets

CONSTANTS
    Engine,             \* engine processes
    Task, Execution, Run,
    Key,                \* what an emit is told apart by: its type, and the
                        \* dedupe key or the identity of its record
    RecordEvent,        \* <<t, k>>: emits of the type in t's recordProcessing
    None,               \* SQL null, for a column that names a row
    RetryMax,           \* limits.retry.max of a task; 0: no retry policy
    Timed,              \* tasks whose limits have run_timeout_ms
    Browser,            \* tasks of kind browser whose mode is not stub
    Executable,         \* tasks whose (kind, mode) has an executor
    Scheduled,          \* tasks that have a schedule
    Outcomes,           \* record outcomes an executor may report
    MaxRuns,            \* workflow_executions.max_runs
    MaxLease,           \* bound: leases of one run (deferrals)
    MaxFaults           \* bound: crashes and shutdowns of engines

ASSUME RunAssumption ==
    /\ RecordEvent \subseteq Task \X Key
    /\ RetryMax \in [Task -> Nat]
    /\ Timed \subseteq Task
    /\ Browser \subseteq Task
    /\ Executable \subseteq Task
    /\ Scheduled \subseteq Task
    /\ Outcomes \subseteq {"extracted", "pending", "saved", "skipped", "rejected", "failed"}
    /\ MaxRuns \in Nat \ {0}
    /\ MaxLease \in Nat \ {0}
    /\ MaxFaults \in Nat
    /\ None \notin Task \cup Execution \cup Run

Lifecycle == {"run.completed", "run.failed", "run.timed_out"}
EventType == Lifecycle \cup {"retries_exhausted", "run_budget_exceeded"}
NoEvents == [t \in EventType |-> 0]

Terminal == {"succeeded", "failed", "timed_out", "cancelled"}
Live == {"queued", "running"}
Unfinished == {"extracted", "pending", "failed"}

VARIABLES
    runs,               \* the table of runs
    executions,         \* the table of executions
    record,             \* record[x]: a row of workflow_records of x
    published,          \* events published with source_run_id r, by type
    output,             \* output[r]: keys of the events the executor emitted
    retryClaims,        \* task_state keys "retry:<run>"
    emitClaims,         \* task_state keys "emit:..." and "record:...", by task
    engine,             \* life of an engine process
    job,                \* job[e][r]: what e is doing about r
    sweep,              \* rows a watchdog sweep read and has not finished
    recover,            \* rows crash recovery read and has not finished
    faults

tables == <<runs, executions, record, published, output, retryClaims, emitClaims>>
memory == <<engine, job, sweep, recover, faults>>
vars == <<runs, executions, record, published, output, retryClaims, emitClaims,
          engine, job, sweep, recover, faults>>

Idle == [pc |-> "none", gen |-> 0, result |-> "none", aborted |-> FALSE]
NoRun == [status |-> "absent", gen |-> 0, task |-> None, exec |-> None,
          attempt |-> 0, due |-> FALSE, deadline |-> "none", stale |-> FALSE,
          error |-> "none"]
NoExecution == [status |-> "absent", runtime |-> "none", admitted |-> 0]
NoRecord == [status |-> "none", run |-> None]

RunError == {"none", "executor", "permanent", "deferred", "timeout",
             "engine_restart", "browser_outcome_uncertain", "cancelled"}
RunRow == [status : {"absent"} \cup Live \cup Terminal,
           gen : 0 .. MaxLease,
           task : Task \cup {None},
           exec : Execution \cup {None},
           attempt : Nat,
           due : BOOLEAN,
           deadline : {"none", "armed", "passed"},
           stale : BOOLEAN,
           error : RunError]
ExecutionRow == [status : {"absent", "running", "succeeded", "failed", "cancelled"},
                 runtime : {"none", "succeeded", "failed", "cancelled"},
                 admitted : Nat]
RecordRow == [status : {"none"} \cup Outcomes \cup {"failed"}, run : Run \cup {None}]
Job == [pc : {"none", "loading", "executing", "checking", "settling"},
        gen : 0 .. MaxLease,
        result : {"none", "ok", "executor", "permanent", "deferred"},
        aborted : BOOLEAN]

TypeOK ==
    /\ runs \in [Run -> RunRow]
    /\ executions \in [Execution -> ExecutionRow]
    /\ record \in [Execution -> RecordRow]
    /\ published \in [Run -> [EventType -> Nat]]
    /\ output \in [Run -> [Key -> Nat]]
    /\ retryClaims \subseteq Run
    /\ emitClaims \subseteq Task \X (Execution \cup {None}) \X Key
    /\ engine \in [Engine -> {"down", "recovering", "up", "stopping"}]
    /\ job \in [Engine -> [Run -> Job]]
    /\ sweep \in [Engine -> SUBSET (Run \X (0 .. MaxLease))]
    /\ recover \in [Engine -> SUBSET (Run \X (0 .. MaxLease))]
    /\ faults \in 0 .. MaxFaults

Init ==
    /\ runs = [r \in Run |-> NoRun]
    /\ executions = [x \in Execution |-> NoExecution]
    /\ record = [x \in Execution |-> NoRecord]
    /\ published = [r \in Run |-> NoEvents]
    /\ output = [r \in Run |-> [k \in Key |-> 0]]
    /\ retryClaims = {}
    /\ emitClaims = {}
    /\ engine = [e \in Engine |-> "down"]
    /\ job = [e \in Engine |-> [r \in Run |-> Idle]]
    /\ sweep = [e \in Engine |-> {}]
    /\ recover = [e \in Engine |-> {}]
    /\ faults = 0

-----------------------------------------------------------------------------
(* newId: an id no run has.  Actions that insert a run need one to be left. *)
Unused == {r \in Run : runs[r].status = "absent"}
NewId == CHOOSE r \in Unused : TRUE

QueuedRun(t, x, n, isDue) ==
    [NoRun EXCEPT !.status = "queued", !.task = t, !.exec = x,
                  !.attempt = n, !.due = isDue]

(* admitExecutionRun *)
Budget(x) == executions[x].status = "running" /\ executions[x].admitted < MaxRuns

(* Mutant: the WHERE clause forgets the status. *)
HeldByGeneration(r, g) == runs[r].gen = g /\ runs[r].status # "queued"

(* The lease: a transaction that names (r, g) touches r only while it holds. *)
Held(r, g) == runs[r].status = "running" /\ runs[r].gen = g

-----------------------------------------------------------------------------
(* triggerTask with createWorkflowExecution: a manual or scheduled trigger  *)
(* creates an execution, admits its first run and queues it, in one         *)
(* transaction.                                                             *)
Trigger(t, x) ==
    /\ executions[x].status = "absent"
    /\ Unused # {}
    /\ executions' = [executions EXCEPT ![x] =
                        [status |-> "running", runtime |-> "none", admitted |-> 1]]
    /\ runs' = [runs EXCEPT ![NewId] = QueuedRun(t, x, 0, TRUE)]
    /\ UNCHANGED <<record, published, output, retryClaims, emitClaims, memory>>

(* finishRun: running -> terminal, the event of that outcome, and on a      *)
(* retryable failure the whole decision of scheduleRetry, atomically.  The  *)
(* caller checks the lease.                                                 *)
EventFor(status) ==
    CASE status = "succeeded" -> "run.completed"
      [] status = "failed" -> "run.failed"
      [] status = "timed_out" -> "run.timed_out"

(* recordFailedRun *)
FailedRecord(r) ==
    [x \in Execution |->
        IF record[x].run = r /\ record[x].status \in {"extracted", "pending"}
        THEN [record[x] EXCEPT !.status = "failed"] ELSE record[x]]

(* One durable decision per failed attempt, while its execution runs. *)
Decides(r, retry) ==
    /\ retry
    /\ executions[runs[r].exec].status = "running"
    /\ r \notin retryClaims

Spent(r) == runs[r].attempt + 1 > RetryMax[runs[r].task]

FinishRun(r, status, error, retry) ==
    LET x == runs[r].exec
        t == runs[r].task
        decides == Decides(r, retry)
        again == decides /\ ~Spent(r) /\ Budget(x)
        notices == {EventFor(status)}
                   \cup {n \in {"retries_exhausted"} :
                            decides /\ Spent(r) /\ RetryMax[t] > 0}
                   \cup {n \in {"run_budget_exceeded"} :
                            decides /\ ~Spent(r) /\ ~Budget(x)}
        ended == [runs EXCEPT ![r].status = status, ![r].error = error]
    IN /\ again => Unused # {}
       /\ runs' = IF again
                  THEN [ended EXCEPT ![NewId] =
                          QueuedRun(t, x, runs[r].attempt + 1, FALSE)]
                  ELSE ended
       /\ executions' = IF again
                        THEN [executions EXCEPT ![x].admitted = @ + 1]
                        ELSE executions
       /\ published' = [published EXCEPT ![r] =
                          [n \in EventType |-> IF n \in notices THEN @[n] + 1 ELSE @[n]]]
       /\ retryClaims' = IF decides THEN retryClaims \cup {r} ELSE retryClaims
       /\ record' = IF status = "succeeded" THEN record ELSE FailedRecord(r)
       /\ UNCHANGED <<output, emitClaims>>

(* cancelRun, from the control plane: no lease, no event. *)
Cancel(r) ==
    /\ runs[r].status \in Live
    /\ runs' = [runs EXCEPT ![r].status = "cancelled", ![r].error = "cancelled"]
    /\ record' = FailedRecord(r)
    /\ UNCHANGED <<executions, published, output, retryClaims, emitClaims, memory>>

-----------------------------------------------------------------------------
(* Engine: start, pickup, execution. *)

Claimed(e) == {r \in Run : job[e][r].pc # "none"}

(* dueQueuedRuns: a scheduled task is held back while a run of it is going. *)
DueQueuedRuns ==
    {r \in Run :
        /\ runs[r].status = "queued"
        /\ runs[r].due
        /\ ~(/\ runs[r].task \in Scheduled
             /\ \E q \in Run : runs[q].task = runs[r].task /\ runs[q].status = "running")}

(* The poll launches every row it read that this process has not claimed. *)
PickUp(e) ==
    /\ engine[e] = "up"
    /\ DueQueuedRuns \ Claimed(e) # {}
    /\ job' = [job EXCEPT ![e] =
                 [r \in Run |-> IF r \in DueQueuedRuns \ Claimed(e)
                                THEN [Idle EXCEPT !.pc = "loading"] ELSE @[r]]]
    /\ UNCHANGED <<tables, engine, sweep, recover, faults>>

(* checkWorkflowPrerequisites fails: the run waits 30 more seconds. *)
PrerequisiteBlock(e, r) ==
    /\ job[e][r].pc = "loading"
    /\ runs[r].status = "queued"
    /\ runs' = [runs EXCEPT ![r].due = FALSE]
    /\ job' = [job EXCEPT ![e][r] = Idle]
    /\ UNCHANGED <<executions, record, published, output, retryClaims, emitClaims,
                   engine, sweep, recover, faults>>

(* Mutant: the compare-and-set of startRun accepts a run already taken. *)
StartableUnlessEnded(r) == runs[r].status \in Live /\ runs[r].due

Startable(r) == runs[r].status = "queued" /\ runs[r].due

(* Mutant: the timeout lives in a timer of the process, not in the row. *)
DeadlineInMemory(r) == "none"

DeadlineFor(r) == IF runs[r].task \in Timed \cap Executable THEN "armed" ELSE "none"

(* startRun takes the run if it is queued and due.  Without an executor for *)
(* the task the lease has no deadline and is settled at once.               *)
StartRun(e, r) ==
    /\ job[e][r].pc = "loading"
    /\ Startable(r)
    /\ runs' = [runs EXCEPT ![r] =
                  [@ EXCEPT !.status = "running",
                            !.gen = runs[r].gen + 1,
                            !.stale = FALSE,
                            !.deadline = DeadlineFor(r)]]
    /\ job' = [job EXCEPT ![e][r] =
                 IF runs[r].task \in Executable
                 THEN [Idle EXCEPT !.pc = "executing", !.gen = runs[r].gen + 1]
                 ELSE [Idle EXCEPT !.pc = "settling", !.gen = runs[r].gen + 1,
                                   !.result = "permanent"]]
    /\ UNCHANGED <<executions, record, published, output, retryClaims, emitClaims,
                   engine, sweep, recover, faults>>

(* Taken by another engine, cancelled, or back inside a wait. *)
StartRefused(e, r) ==
    /\ job[e][r].pc = "loading"
    /\ ~Startable(r)
    /\ job' = [job EXCEPT ![e][r] = Idle]
    /\ UNCHANGED <<tables, engine, sweep, recover, faults>>

(* Events of the record-processing type carry an identity derived from the  *)
(* record, always (normalizeRecord); a dedupe key given with them is        *)
(* ignored.                                                                 *)
Identified(r, k) == <<runs[r].task, k>> \in RecordEvent

(* Mutant: every claim is of the execution, as that of a record is. *)
EmitClaimOfExecution(r, k) == <<runs[r].task, runs[r].exec, k>>

(* "record:<execution>:<type>:<identity>" or "emit:<type>:<dedupe key>"     *)
EmitClaim(r, k) == <<runs[r].task, IF Identified(r, k) THEN runs[r].exec ELSE None, k>>

(* emitFromRun: assertRunLease, then the claim, then the event, in one      *)
(* transaction.  A taken key emits nothing.                                 *)
Emit(e, r, k) ==
    /\ job[e][r].pc = "executing"
    /\ Held(r, job[e][r].gen)
    /\ EmitClaim(r, k) \notin emitClaims
    /\ emitClaims' = emitClaims \cup {EmitClaim(r, k)}
    /\ output' = [output EXCEPT ![r][k] = @ + 1]
    /\ UNCHANGED <<runs, executions, record, published, retryClaims, memory>>

(* recordRunOutcome: a saved record is never downgraded, and `extracted`    *)
(* never replaces anything.                                                 *)
RecordOutcome(e, r, outcome) ==
    LET x == runs[r].exec IN
    /\ job[e][r].pc = "executing"
    /\ Held(r, job[e][r].gen)
    /\ \/ record[x].status = "none"
       \/ record[x].status # "saved" /\ outcome # "extracted"
    /\ record' = [record EXCEPT ![x] = [status |-> outcome, run |-> r]]
    /\ UNCHANGED <<runs, executions, published, output, retryClaims, emitClaims, memory>>

(* The executor resolves or throws, whether or not it still owns the run.   *)
ExecutorReturns(e, r, result) ==
    /\ job[e][r].pc = "executing"
    /\ result = "deferred" => job[e][r].gen < MaxLease
    /\ job' = [job EXCEPT ![e][r] =
                 [@ EXCEPT !.pc = IF result = "ok" THEN "checking" ELSE "settling",
                           !.result = result]]
    /\ UNCHANGED <<tables, engine, sweep, recover, faults>>

(* Mutant: only the records this attempt touched are looked at. *)
OwnCompletionError(r) ==
    record[runs[r].exec].run = r /\ record[runs[r].exec].status \in Unfinished

(* recordCompletionError *)
CompletionError(r) == record[runs[r].exec].status \in Unfinished

(* settle reads recordCompletionError before, not inside, finishRun. *)
CheckCompletion(e, r) ==
    /\ job[e][r].pc = "checking"
    /\ job' = [job EXCEPT ![e][r] =
                 [@ EXCEPT !.pc = "settling",
                           !.result = IF CompletionError(r) THEN "permanent"
                                                           ELSE job[e][r].result]]
    /\ UNCHANGED <<tables, engine, sweep, recover, faults>>

(* settle, the lease still held: back to the queue, or finishRun. *)
Requeue(r) ==
    /\ runs' = [runs EXCEPT ![r].status = "queued", ![r].due = FALSE,
                            ![r].deadline = "none", ![r].error = "deferred"]
    /\ UNCHANGED <<executions, record, published, output, retryClaims, emitClaims>>

Settle(e, r) ==
    LET result == job[e][r].result IN
    /\ job[e][r].pc = "settling"
    /\ Held(r, job[e][r].gen)
    /\ \/ result = "deferred" /\ Requeue(r)
       \/ result = "ok" /\ FinishRun(r, "succeeded", "none", FALSE)
       \/ result = "executor" /\ FinishRun(r, "failed", "executor", TRUE)
       \/ result = "permanent" /\ FinishRun(r, "failed", "permanent", FALSE)
    /\ job' = [job EXCEPT ![e][r] = Idle]
    /\ UNCHANGED <<engine, sweep, recover, faults>>

(* settle after the watchdog, recovery or a cancel got there first. *)
SettleTooLate(e, r) ==
    /\ job[e][r].pc = "settling"
    /\ ~Held(r, job[e][r].gen)
    /\ job' = [job EXCEPT ![e][r] = Idle]
    /\ UNCHANGED <<tables, engine, sweep, recover, faults>>

(* heartbeat, every heartbeatIntervalMs while the executor works. *)
Heartbeat(e, r) ==
    /\ job[e][r].pc = "executing"
    /\ Held(r, job[e][r].gen)
    /\ runs[r].stale
    /\ runs' = [runs EXCEPT ![r].stale = FALSE]
    /\ UNCHANGED <<executions, record, published, output, retryClaims, emitClaims, memory>>

(* A heartbeat that no longer finds its lease aborts the executor. *)
HeartbeatLost(e, r) ==
    /\ job[e][r].pc = "executing"
    /\ ~Held(r, job[e][r].gen)
    /\ ~job[e][r].aborted
    /\ job' = [job EXCEPT ![e][r].aborted = TRUE]
    /\ UNCHANGED <<tables, engine, sweep, recover, faults>>

-----------------------------------------------------------------------------
(* The watchdog. *)

(* reapTimedOutRuns reads the overdue rows, then finishes them one by one.  *)
SweepRead(e) ==
    LET overdue == {<<r, runs[r].gen>> : r \in
                      {q \in Run : runs[q].status = "running" /\ runs[q].deadline = "passed"}}
    IN /\ engine[e] = "up"
       /\ ~(overdue \subseteq sweep[e])
       /\ sweep' = [sweep EXCEPT ![e] = @ \cup overdue]
       /\ UNCHANGED <<tables, engine, job, recover, faults>>

SweepFinish(e, r, g) ==
    /\ <<r, g>> \in sweep[e]
    /\ Held(r, g)
    /\ FinishRun(r, "timed_out", "timeout", FALSE)
    /\ sweep' = [sweep EXCEPT ![e] = @ \ {<<r, g>>}]
    /\ UNCHANGED <<engine, job, recover, faults>>

SweepTooLate(e, r, g) ==
    /\ <<r, g>> \in sweep[e]
    /\ ~Held(r, g)
    /\ sweep' = [sweep EXCEPT ![e] = @ \ {<<r, g>>}]
    /\ UNCHANGED <<tables, engine, job, recover, faults>>

(* settleWorkflowExecutions: an execution with runs and none of them live.  *)
RunsOf(x) == {r \in Run : runs[r].status # "absent" /\ runs[r].exec = x}
Latest(x) == CHOOSE r \in RunsOf(x) : \A q \in RunsOf(x) : runs[q].attempt <= runs[r].attempt

(* Mutant: queued retries do not count as live. *)
QuietButQueued(x) ==
    /\ executions[x].status = "running"
    /\ executions[x].runtime = "none"
    /\ RunsOf(x) # {}
    /\ \A r \in RunsOf(x) : runs[r].status # "running"

Quiet(x) ==
    /\ executions[x].status = "running"
    /\ executions[x].runtime = "none"
    /\ RunsOf(x) # {}
    /\ \A r \in RunsOf(x) : runs[r].status \notin Live

RuntimeOutcome(x) ==
    IF \E r \in RunsOf(x) : runs[r].status = "cancelled" THEN "cancelled"
    ELSE IF \/ runs[Latest(x)].status # "succeeded"
            \/ record[x].status \in Unfinished \cup {"rejected"} THEN "failed"
    ELSE "succeeded"

SettleExecution(e, x) ==
    /\ engine[e] = "up"
    /\ Quiet(x)
    /\ executions' = [executions EXCEPT
                        ![x].runtime = RuntimeOutcome(x),
                        ![x].status = IF RuntimeOutcome(x) = "cancelled"
                                      THEN "cancelled" ELSE @]
    /\ UNCHANGED <<runs, record, published, output, retryClaims, emitClaims, memory>>

(* The finalizer ends an execution whose runtime is over: see Finalizer.    *)
FinalizeExecution(x) ==
    /\ executions[x].status = "running"
    /\ executions[x].runtime # "none"
    /\ \E s \in {executions[x].runtime, "failed"} :
          executions' = [executions EXCEPT ![x].status = s]
    /\ UNCHANGED <<runs, record, published, output, retryClaims, emitClaims, memory>>

-----------------------------------------------------------------------------
(* Process life and crash recovery. *)

(* engine.start reads the stale runs once, before it takes any work. *)
Boot(e) ==
    /\ engine[e] = "down"
    /\ engine' = [engine EXCEPT ![e] = "recovering"]
    /\ recover' = [recover EXCEPT ![e] =
                     {<<r, runs[r].gen>> : r \in
                        {q \in Run : runs[q].status = "running" /\ runs[q].stale}}]
    /\ UNCHANGED <<tables, job, sweep, faults>>

(* Mutant: every recovered attempt is retried. *)
AlwaysSafeToRetry(r) == TRUE

SafeToRetry(r) == runs[r].task \notin Browser

(* Mutant: recovery trusts the heartbeat it read. *)
OrphanedWhenRead(r, g) == Held(r, g)

Orphaned(r, g) == Held(r, g) /\ runs[r].stale

(* recoverStaleRuns finishes a row it read only if it is still stale; a     *)
(* browser attempt fails as uncertain and is never retried on its own.      *)
RecoverRun(e, r, g) ==
    /\ <<r, g>> \in recover[e]
    /\ Orphaned(r, g)
    /\ FinishRun(r, "failed",
                 IF runs[r].task \in Browser THEN "browser_outcome_uncertain"
                                             ELSE "engine_restart",
                 SafeToRetry(r))
    /\ recover' = [recover EXCEPT ![e] = @ \ {<<r, g>>}]
    /\ UNCHANGED <<engine, job, sweep, faults>>

RecoverTooLate(e, r, g) ==
    /\ <<r, g>> \in recover[e]
    /\ ~Orphaned(r, g)
    /\ recover' = [recover EXCEPT ![e] = @ \ {<<r, g>>}]
    /\ UNCHANGED <<tables, engine, job, sweep, faults>>

Recovered(e) ==
    /\ engine[e] = "recovering"
    /\ recover[e] = {}
    /\ engine' = [engine EXCEPT ![e] = "up"]
    /\ UNCHANGED <<tables, job, sweep, recover, faults>>

(* stop(): no new work; executions in flight have a grace period. *)
Stop(e) ==
    /\ engine[e] = "up"
    /\ faults < MaxFaults
    /\ engine' = [engine EXCEPT ![e] = "stopping"]
    /\ faults' = faults + 1
    /\ UNCHANGED <<tables, job, sweep, recover>>

Die(e) ==
    /\ engine' = [engine EXCEPT ![e] = "down"]
    /\ job' = [job EXCEPT ![e] = [r \in Run |-> Idle]]
    /\ sweep' = [sweep EXCEPT ![e] = {}]
    /\ recover' = [recover EXCEPT ![e] = {}]
    /\ UNCHANGED tables

(* All executions settled, or the grace period over: the process exits.    *)
Exit(e) ==
    /\ engine[e] = "stopping"
    /\ Die(e)
    /\ UNCHANGED faults

Crash(e) ==
    /\ engine[e] # "down"
    /\ faults < MaxFaults
    /\ Die(e)
    /\ faults' = faults + 1

-----------------------------------------------------------------------------
(* Time. *)
WaitElapses(r) ==
    /\ runs[r].status = "queued" /\ ~runs[r].due
    /\ runs' = [runs EXCEPT ![r].due = TRUE]
    /\ UNCHANGED <<executions, record, published, output, retryClaims, emitClaims, memory>>

DeadlinePasses(r) ==
    /\ runs[r].status = "running" /\ runs[r].deadline = "armed"
    /\ runs' = [runs EXCEPT ![r].deadline = "passed"]
    /\ UNCHANGED <<executions, record, published, output, retryClaims, emitClaims, memory>>

HeartbeatAges(r) ==
    /\ runs[r].status = "running" /\ ~runs[r].stale
    /\ runs' = [runs EXCEPT ![r].stale = TRUE]
    /\ UNCHANGED <<executions, record, published, output, retryClaims, emitClaims, memory>>

Time(r) == WaitElapses(r) \/ DeadlinePasses(r) \/ HeartbeatAges(r)

-----------------------------------------------------------------------------
Execute(e, r) ==
    \/ PrerequisiteBlock(e, r) \/ StartRun(e, r) \/ StartRefused(e, r)
    \/ \E k \in Key : Emit(e, r, k)
    \/ \E outcome \in Outcomes : RecordOutcome(e, r, outcome)
    \/ \E result \in {"ok", "executor", "permanent", "deferred"} :
          ExecutorReturns(e, r, result)
    \/ CheckCompletion(e, r) \/ Settle(e, r) \/ SettleTooLate(e, r)
    \/ Heartbeat(e, r) \/ HeartbeatLost(e, r)

Watch(e) ==
    \/ SweepRead(e)
    \/ \E r \in Run, g \in 0 .. MaxLease : SweepFinish(e, r, g) \/ SweepTooLate(e, r, g)
    \/ \E x \in Execution : SettleExecution(e, x)

ProcessLife(e) ==
    \/ Boot(e) \/ Recovered(e) \/ Stop(e) \/ Exit(e) \/ Crash(e)
    \/ \E r \in Run, g \in 0 .. MaxLease : RecoverRun(e, r, g) \/ RecoverTooLate(e, r, g)

Next ==
    \/ \E t \in Task, x \in Execution : Trigger(t, x)
    \/ \E r \in Run : Cancel(r) \/ Time(r)
    \/ \E x \in Execution : FinalizeExecution(x)
    \/ \E e \in Engine : PickUp(e) \/ Watch(e) \/ ProcessLife(e)
    \/ \E e \in Engine, r \in Run : Execute(e, r)

(* What the code's scheduling gives.  Timers fire, the watchdog interval   *)
(* sweeps, settles and polls, a supervisor restarts a dead process, and an *)
(* async function that started goes on.  Nobody owes an executor's return, *)
(* a cancel or a trigger; a start may be blocked by a missing prerequisite *)
(* but not for ever (strong fairness).                                     *)
Fairness ==
    /\ \A r \in Run : /\ WF_vars(WaitElapses(r)) /\ WF_vars(DeadlinePasses(r))
                      /\ WF_vars(HeartbeatAges(r))
    /\ \A e \in Engine :
          /\ WF_vars(PickUp(e)) /\ WF_vars(SweepRead(e))
          /\ WF_vars(Boot(e)) /\ WF_vars(Recovered(e)) /\ WF_vars(Exit(e))
    /\ \A e \in Engine, x \in Execution : WF_vars(SettleExecution(e, x))
    /\ \A e \in Engine, r \in Run :
          /\ SF_vars(StartRun(e, r)) /\ WF_vars(StartRefused(e, r))
          /\ WF_vars(CheckCompletion(e, r))
          /\ WF_vars(Settle(e, r)) /\ WF_vars(SettleTooLate(e, r))
          /\ WF_vars(Heartbeat(e, r)) /\ WF_vars(HeartbeatLost(e, r))
    /\ \A e \in Engine, r \in Run, g \in 0 .. MaxLease :
          /\ WF_vars(SweepFinish(e, r, g)) /\ WF_vars(SweepTooLate(e, r, g))
          /\ WF_vars(RecoverRun(e, r, g)) /\ WF_vars(RecoverTooLate(e, r, g))

Spec == Init /\ [][Next]_vars
FairSpec == Spec /\ Fairness

-----------------------------------------------------------------------------
(* Safety. *)

Active(e, r) == job[e][r].pc \in {"executing", "checking", "settling"}

(* Two engines that polled the same queued run never both execute it, and  *)
(* the one that does holds the lease generation of the row.                *)
OneExecutor ==
    \A e \in Engine, r \in Run : Active(e, r) =>
        /\ runs[r].gen = job[e][r].gen
        /\ runs[r].status \notin {"absent", "queued"}
        /\ \A d \in Engine \ {e} : ~Active(d, r)

(* A run ended by the engine has exactly one lifecycle event, the one of    *)
(* its status; a run still live, or cancelled, has none: whoever wins of    *)
(* the executor, the watchdog, recovery and the user is the only publisher. *)
OutcomePublishedOnce ==
    \A r \in Run, t \in Lifecycle :
        published[r][t] =
            IF runs[r].status \in {"succeeded", "failed", "timed_out"}
               /\ EventFor(runs[r].status) = t THEN 1 ELSE 0

(* A succeeded run leaves no record of its execution unfinished, not even   *)
(* one an earlier attempt left behind, although the records are read before *)
(* the transaction that makes it succeed.                                   *)
SuccessFinishedItsRecords ==
    \A r \in Run : runs[r].status = "succeeded" =>
        record[runs[r].exec].status \notin {"extracted", "pending", "failed"}

(* A real-browser attempt that a restart cut off is never replayed.         *)
UncertainNeverReplayed ==
    \A r, q \in Run : (/\ runs[r].error = "browser_outcome_uncertain"
                       /\ runs[q].exec = runs[r].exec) =>
                          runs[q].attempt <= runs[r].attempt

(* A run repeats an earlier one if it is of the same task and, where events *)
(* are told apart by their record, of the same execution.                   *)
Repeats(r, q, k) ==
    /\ runs[r].task = runs[q].task
    /\ Identified(r, k) => runs[r].exec = runs[q].exec

(* A dedupe key is spent once for the task, so no retry, no executor that   *)
(* lost its lease and no second execution emits it again.  The identity of  *)
(* a record is spent once for each execution, so its retries and late       *)
(* executors do not emit it again.  And nothing is held back but what such  *)
(* a run did emit: the next execution may emit the same record.             *)
(* Safety of the claims of emitFromRun against retries and late executors.  *)
KeyEmittedOnce ==
    \A k \in Key, r \in Run :
        /\ output[r][k] <= 1
        /\ \A q \in Run \ {r} : output[r][k] = 1 /\ output[q][k] = 1 => ~Repeats(r, q, k)
        /\ EmitClaim(r, k) \in emitClaims =>
              \E q \in Run : output[q][k] = 1 /\ Repeats(r, q, k)

(* Nothing is done to a run after it ended: no second outcome, no output    *)
(* from the executor that has not noticed, no revival.                      *)
EndedIsFinal ==
    [][\A r \in Run : runs[r].status \in Terminal =>
          runs'[r] = runs[r] /\ published'[r] = published[r] /\ output'[r] = output[r]]_vars

(* Nobody but its own executor takes a run from a process that keeps its    *)
(* heartbeat and its deadline: a sweep or a recovery working from rows it   *)
(* read long ago cannot kill a later lease.                                 *)
NoWrongfulKill ==
    [][\A r \in Run : runs[r].status = "running" =>
          /\ runs'[r].status = "timed_out" => runs[r].deadline = "passed"
          /\ runs'[r].status \in {"succeeded", "failed"} =>
                \/ \E e \in Engine : job[e][r].pc = "settling" /\ job'[e][r] = Idle
                \/ runs[r].stale]_vars

(* Liveness. *)

(* A run with a deadline ends, even if its executor hangs or its engine     *)
(* dies (the deadline is in the row); an executor whose run was ended by    *)
(* somebody else is told to stop; and when its runs are over, however they  *)
(* ended, an execution is settled.                                          *)
RunsComeToAnEnd ==
    /\ \A r \in Run : (runs[r].status \in Live /\ runs[r].task \in Timed) ~>
                           (runs[r].status \in Terminal)
    /\ \A e \in Engine, r \in Run :
          (job[e][r].pc = "executing" /\ runs[r].status \in Terminal) ~>
              (job[e][r].pc # "executing" \/ job[e][r].aborted)
    /\ \A x \in Execution :
          (RunsOf(x) # {} /\ \A r \in RunsOf(x) : runs[r].status \in Terminal) ~>
              (executions[x].runtime # "none")

(* What a comment promises and the code does not keep (see README). *)

(* run-state.ts: the runs of a task with a schedule must not overlap.       *)
ScheduledRunsDoNotOverlap ==
    \A r, q \in Run : (/\ r # q
                       /\ runs[r].task = runs[q].task
                       /\ runs[r].task \in Scheduled) =>
                          ~(runs[r].status = "running" /\ runs[q].status = "running")

-----------------------------------------------------------------------------
(* The engines implement the bare chain of attempts of ExecutionAttempts.   *)
Stage(x) ==
    CASE RunsOf(x) = {} -> "none"
      [] \E r \in RunsOf(x) : runs[r].status \in Live -> "live"
      [] OTHER -> runs[Latest(x)].status

Attempts == INSTANCE ExecutionAttempts
                WITH stage <- [x \in Execution |-> Stage(x)],
                     made <- [x \in Execution |-> Cardinality(RunsOf(x))],
                     runtime <- [x \in Execution |-> executions[x].runtime]

ImplementsAttempts == Attempts!AbsSpec
=============================================================================
