SPECIFICATION DiameterSpec
CONSTANTS
    c1 = c1
    c2 = c2
    t1 = t1
    t2 = t2
    None = None
    Connection = {c1}
    Session = {"s"}
    Caller = {t1, t2}
    MaxRefs = 1
    MaxCalls = 2
    MaxCrashes = 0
CHECK_DEADLOCK FALSE
INVARIANTS
    AnswersOwnRequest
