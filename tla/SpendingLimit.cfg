SPECIFICATION SpendingSpec
CONSTANTS
    w1 = w1
    w2 = w2
    Subscription = {1, 2}
    Worker = {w1, w2}
    Status = {"active", "exceeded"}
    Context <- MCContexts
    MaxPuts = 3
    MaxUpdates = 2
    MaxLost = 1
SYMMETRY MCSymmetry
CHECK_DEADLOCK FALSE
INVARIANTS
    UnsubscribeIsFinal
    ConsumersKnowStatus
    NoOrphanContent
