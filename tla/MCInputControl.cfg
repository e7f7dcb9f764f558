SPECIFICATION FairSpec
CONSTANTS
    a1 = a1
    a2 = a2
    t1 = t1
    t2 = t2
    Agent = {a1, a2}
    Tab = {t1, t2}
    TabOf <- MCTab
    Nobody = Nobody
    MaxGen = 3
    MaxLoose = 1
    MaxFaults = 1
ACTION_CONSTRAINT Bystander
INVARIANTS OneInputOwner NoActOnStaleEvidence
PROPERTIES ImplementsOwnership HandoversComplete
CHECK_DEADLOCK FALSE
