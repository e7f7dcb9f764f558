SPECIFICATION FairSpec
CONSTANTS
    r1 = r1
    r2 = r2
    r3 = r3
    t1 = t1
    t2 = t2
    Run = {r1, r2, r3}
    Trigger = {t1, t2}
    TriggerOf <- MCTrigger
    None = None
    Op = {e1, e2}
    MaxCells = 2
    MaxFaults = 1
INVARIANTS UnknownIsFlagged
PROPERTIES NoBlindReplay HistoryOnlyGrows WaitersServed
CHECK_DEADLOCK FALSE
ACTION_CONSTRAINT Instance
