SPECIFICATION FairSpec
CONSTANTS
    r1 = r1
    r2 = r2
    a1 = a1
    a2 = a2
    tx = tx
    s1 = s1
    s2 = s2
    Nobody = Nobody
    Transaction = tx
    Adjustment = {a1, a2}
    Event <- MCEvent
    Scenario <- MCScenario
    Amount <- MCAmount
    Total = 3
    Units = 5
    Batch = 2
    MaxDeaths = 1
    Reservation = {r1, r2}
    Owned = {r2}
    Hold <- MCHold
    Movement <- MCMovement
INVARIANTS HoldsAccounted NoOverspend CreditedOnce RefundExact OutcomeOfAll
PROPERTIES AppliedUnlessJammed
CHECK_DEADLOCK FALSE
