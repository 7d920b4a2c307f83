\* Concurrent calls on a granted and a new request, a direct caller and a reset.
SPECIFICATION FairSpec
CONSTANTS
    r1 = r1
    r2 = r2
    a1 = a1
    a2 = a2
    direct = direct
    Incidents = {"inc"}
    Forged = Forged
    NoEntry = NoEntry
    NoCapability = NoCapability
    NoRecord = NoRecord
    NoApproval = NoApproval
    NoPair = NoPair
    NoAnswer = NoAnswer
    Runs = {r1, r2}
    Approvals = {a1, a2}
    Actions = {"restart"}
    RunbookPairs <- OnePair
    GrantedFor <- FirstGranted
    DirectKeys <- MadeUpKeys
    TTL = 1
    MaxTime = 0
    MaxCalls = 3
    MaxResets = 1
INVARIANTS
    TypeOK
    NoEffectWithoutGrant
    OneEffectPerReset
    AppliedForItsRecord
    AuditTruthful
PROPERTY
    RunEnds
