\* Calls for two actions, an operator and direct callers with any key, and expiry.
SPECIFICATION Spec
CONSTANTS
    r1 = r1
    r2 = r2
    a1 = a1
    a2 = a2
    direct = direct
    Incidents = {"inc"}
    Forged = Forged
    NoEntry = NoEntry
    NoCapability = NoCapability
    NoRecord = NoRecord
    NoApproval = NoApproval
    NoPair = NoPair
    NoAnswer = NoAnswer
    Runs = {r1, r2}
    Approvals = {a1}
    Actions = {"restart", "scale"}
    RunbookPairs <- AllPairs
    GrantedFor <- FirstGranted
    DirectKeys <- AnyKeys
    TTL = 1
    MaxTime = 1
    MaxCalls = 3
    MaxResets = 0
SYMMETRY RunSymmetry
INVARIANTS
    AppliedForItsRecord
    NoEffectWithoutGrant
PROPERTIES
    GrantOutlivesFailure
