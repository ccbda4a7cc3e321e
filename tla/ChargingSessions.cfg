SPECIFICATION FairSpec
CONSTANTS
    alice = alice
    family = family
    w1 = w1
    w2 = w2
    Bucket = {alice}
    Subscriber = {alice}
    Worker <- MCWorkers
    Ref = {1, 2}
    TopupAmount = {4}
    AdjustAmount <- MCAmounts
    ReserveAmount <- MCAmounts
    MaxMoney = 4
    Offer <- MCPair
    UsedUnits = {1}
    UsageCount = {1}
    ReleaseReports = TRUE
    SerialConsumer = FALSE
    FaultKind = {"lost", "crash"}
    MaxFaults = 1
    MaxInvocations = 1
    NoBucket = NoBucket
CHECK_DEADLOCK FALSE
INVARIANTS
    RefusedOnlyWhenRerouted
PROPERTIES
    EventuallyReleased
