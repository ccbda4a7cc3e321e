SPECIFICATION BalanceSpec
CONSTANTS
    b1 = b1
    b2 = b2
    r1 = r1
    r2 = r2
    Bucket <- MCBucket
    Ref <- MCRef
    TopupAmount = {1, 2}
    AdjustAmount <- MCAdjustAmount
    ReserveAmount <- MCReserveAmount
    MaxMoney = 2
SYMMETRY MCSymmetry
INVARIANTS
    NeverOverdrawn
    LedgerReconciles
