SPECIFICATION FairSpec
CONSTANTS
    Run = {r1, r2}
    Script = {s1, s2}
    None = None
    Definition = {d1, d2}
    Learner = {l1, l2}
    Compiler = {c1, c2}
    LearnAttempts = 2
    CompileAttempts = 2
    DemoteDeopts = 1
    DeoptWindow = 2
    MaxFaults = 1
INVARIANTS ServedFitsTask LearnedOnce
PROPERTIES RetiredOnOwnEvidence QueuesDrain
CHECK_DEADLOCK FALSE
