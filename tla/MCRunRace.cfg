SPECIFICATION Spec
CONSTANTS
    Engine = {e1, e2}
    Task = {t1}
    Execution = {x1}
    Run <- MCRunBeyondBudget
    Key = {}
    None = None
    RecordEvent <- MCRecordEvent
    RetryMax <- MCRetryBeyondBudget
    Timed = {t1}
    Browser = {}
    Executable = {t1}
    Scheduled = {}
    Outcomes = {}
    MaxRuns = 2
    MaxLease = 1
    MaxFaults = 1
SYMMETRY EngineSymmetry
INVARIANTS OneExecutor OutcomePublishedOnce
PROPERTIES NoWrongfulKill ImplementsAttempts
CHECK_DEADLOCK FALSE
