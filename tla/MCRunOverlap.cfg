SPECIFICATION Spec
CONSTANTS
    Engine = {e1, e2}
    Task = {t1}
    Execution = {x1, x2}
    Run <- MCRun
    Key = {}
    RecordEvent <- MCRecordEvent
    RetryMax <- MCNoPolicy
    Timed = {t1}
    Browser = {}
    Executable = {t1}
    Scheduled = {t1}
    Outcomes = {}
    MaxRuns = 1
    MaxLease = 1
    MaxFaults = 1
    None = None
SYMMETRY EngineSymmetry
INVARIANTS ScheduledRunsDoNotOverlap
CHECK_DEADLOCK FALSE
