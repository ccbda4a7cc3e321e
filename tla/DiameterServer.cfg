SPECIFICATION DiameterSpec
CONSTANTS
    c1 = c1
    c2 = c2
    t1 = t1
    t2 = t2
    None = None
    Connection = {c1, c2}
    Session = {"s"}
    Caller = {t1}
    MaxRefs = 3
    MaxCalls = 1
    MaxCrashes = 1
CHECK_DEADLOCK FALSE
INVARIANTS
    RegistryLeadsToSession
    StoredIsReachable
    FinalizedOnce
PROPERTIES
    CallsReturn
