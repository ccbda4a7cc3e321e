SPECIFICATION Spec
CONSTANTS
    alice = alice
    family = family
    w1 = w1
    w2 = w2
    Bucket = {alice, family}
    Subscriber = {alice}
    Worker <- MCWorkers
    Ref = {1}
    TopupAmount = {4}
    AdjustAmount <- MCAmounts
    ReserveAmount <- MCAmounts
    MaxMoney = 4
    Offer <- MCOffer
    UsedUnits = {1}
    UsageCount = {1}
    ReleaseReports = TRUE
    SerialConsumer = TRUE
    FaultKind = {"lookup", "move"}
    MaxFaults = 1
    MaxInvocations = 1
    NoBucket = NoBucket
CHECK_DEADLOCK FALSE
INVARIANTS
    UnreserveAlwaysSucceeds
