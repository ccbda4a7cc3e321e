SPECIFICATION DupSpec
CONSTANTS
    create = create
    release = release
    bad = bad
    w1 = w1
    w2 = w2
    w3 = w3
    Key = {create, release, bad}
    ReleaseKey = {release}
    MalformedKey = {bad}
    Worker = {w1, w2, w3}
    MaxPolls = 2
    MaxDeliveries = 4
    MaxLapses = 1
    MaxCrashes = 1
CHECK_DEADLOCK FALSE
INVARIANTS
    ExtraSessionsAccountedFor
    RepliesNameASession
    ReleaseReplayed
PROPERTIES
    WaitsEnd
