SPECIFICATION FairSpec
CONSTANTS
    p1 = p1
    a1 = a1
    Session = {s1, s2}
    Profile = {p1}
    ProfileOf <- MCProfile
    Account = {a1}
    AccountOf <- MCAccount
    Worker = {w1, w2}
    NoSession = NoSession
    MaxAllocated = 2
    WarmSlots = 0
    PlanLimit <- MCLimit
    MaxFaults = 1
INVARIANTS SnapshotsFollowEachOther NothingLeftBehind
PROPERTIES ImplementsCustody RequestsSettle
