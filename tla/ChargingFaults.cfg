SPECIFICATION Spec
CONSTANTS
    alice = alice
    family = family
    w1 = w1
    w2 = w2
    Bucket = {alice, family}
    Subscriber = {alice}
    Worker <- MCWorkers
    Ref = {1}
    TopupAmount = {4}
    AdjustAmount <- MCAmounts
    ReserveAmount <- MCAmounts
    MaxMoney = 8
    Offer <- MCPromotion
    UsedUnits = {2}
    UsageCount = {1}
    ReleaseReports = TRUE
    SerialConsumer = FALSE
    FaultKind = {"lost", "lookup", "move", "crash"}
    MaxFaults = 1
    MaxInvocations = 2
    NoBucket = NoBucket
SYMMETRY MCSymmetry
CHECK_DEADLOCK FALSE
INVARIANTS
    OneSettlement
    HeldCoversRecorded
    DebitedWithinRecorded
    CompletedRowsMatchSession
    StrandedOnlyWhenDisturbed
PROPERTIES
    KeepsPromise
