CONSTANTS
    k1 = k1
    e1 = e1
    e2 = e2
    e3 = e3
    Keys = {k1}
    Events = {e1, e2, e3}
    Workers = {1, 2}
    KeyOf <- MCKeyOf
    EstimateOf <- MCEstimateOf
    CostOf <- MCCostOf
    Limits = {0, 3}
    MaxTicks = 3
    MaxBatch = 2
SPECIFICATION FairSpec
INVARIANTS ReservedIsSumOfOpen BilledIsSumOfAudited BilledAtMostOnce AuditedHoldsNothing
PROPERTIES NeverOvercommits ImplementsLedger AbandonedReservationReleased
CHECK_DEADLOCK FALSE
