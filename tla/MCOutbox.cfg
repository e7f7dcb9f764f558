SPECIFICATION FairSpec
CONSTANTS
    Dispatcher = {d1, d2}
    Subscriber = {s1}
    MaxEvents = 2
    BatchSize = 2
    MaxAttempts = 2
    MaxFaults = 1
INVARIANTS DispatchedWasHandled DeadLettersNoticed
PROPERTIES ImplementsDelivery EveryEventSettles
CHECK_DEADLOCK FALSE
