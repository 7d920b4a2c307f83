\* Two workers on one request and four pairs: the lock is always released, and a
\* capability is accepted only for the pair it is bound to.
SPECIFICATION FairSpec
CONSTANTS
    w1 = w1
    w2 = w2
    a1 = a1
    a2 = a2
    c1 = c1
    c2 = c2
    Workers = {w1, w2}
    Approvals = {a1}
    Capabilities = {c1}
    Incidents = {"inc", "other"}
    Actions = {"restart", "scale"}
    RecordIds = {"ACT"}
    TTL = 1
    MaxTime = 1
    MaxAttempts = 1
    Free = Free
    NoCall = NoCall
    NoAnswer = NoAnswer
    NoEntry = NoEntry
    NoCapability = NoCapability
    NoRecord = NoRecord
PROPERTY
    LockReleased
    AcceptedIsCurrent
