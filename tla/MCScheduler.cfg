SPECIFICATION SchedulerFairSpec
CONSTANTS
    Engine = {e1, e2}
    Period = 2
    Never = Never
    MaxTime = 4
    MaxFaults = 1
INVARIANTS OverlapBounded
PROPERTIES TicksConsumed TickFiredOnceUnlessPinnedBack
CHECK_DEADLOCK FALSE
