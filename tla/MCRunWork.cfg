SPECIFICATION FairSpec
CONSTANTS
    Engine = {e1}
    Task = {t1, t2}
    Execution = {x1, x2}
    Run <- MCRun
    Key = {k1}
    RecordEvent <- MCRecordEvent
    RetryMax <- MCRetryMax
    Timed = {t1}
    Browser = {t2}
    Executable = {t1, t2}
    Scheduled = {}
    Outcomes = {"pending", "saved"}
    MaxRuns = 2
    MaxLease = 2
    MaxFaults = 1
    None = None
INVARIANTS KeyEmittedOnce SuccessFinishedItsRecords UncertainNeverReplayed
PROPERTIES RunsComeToAnEnd
ACTION_CONSTRAINT DeferredOrWorking OneWorksOrTwoEmit
CHECK_DEADLOCK FALSE
