\* Two workers on two requests for one pair: safety and refinement of the lifecycle.
SPECIFICATION Spec
CONSTANTS
    w1 = w1
    w2 = w2
    a1 = a1
    a2 = a2
    c1 = c1
    c2 = c2
    Workers = {w1, w2}
    Approvals = {a1, a2}
    Capabilities = {c1, c2}
    Incidents = {"inc"}
    Actions = {"restart"}
    RecordIds = {"ACT"}
    TTL = 1
    MaxTime = 1
    MaxAttempts = 1
    Free = Free
    NoCall = NoCall
    NoAnswer = NoAnswer
    NoEntry = NoEntry
    NoCapability = NoCapability
    NoRecord = NoRecord
SYMMETRY Symmetry
INVARIANTS
    TypeOK
    OneGrant
PROPERTIES
    TerminalStays
    AcceptedIsCurrent
    ImplementsLifecycle
