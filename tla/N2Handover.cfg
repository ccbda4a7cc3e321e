SPECIFICATION HandoverSpec
CONSTANTS
    g1 = g1
    g2 = g2
    g3 = g3
    u1 = u1
    u2 = u2
    None = None
    Gnb = {g1, g2, g3}
    Ue = {u1, u2}
    Session = {"s"}
    Home <- MCHome
    Crashing = {g3}
    MaxLinks = 2
    MaxHandovers = 2
    MaxMishaps = 1
    MaxParties = 2
CHECK_DEADLOCK FALSE
INVARIANTS
    RepliesReachTheirRelay
    EntryLeadsToUe
    ReleasedOnlyWhenCancelled
    CancelFreesTarget
