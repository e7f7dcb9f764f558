SPECIFICATION FairSpec
CONSTANTS
    Worker = {w1, w2}
    Execution = {x1, x2}
    Nobody = Nobody
    Limit = 2
    MaxFaults = 2
INVARIANTS ResultOfLastClaim
PROPERTIES SettledEnds ImplementsResult
CHECK_DEADLOCK FALSE
