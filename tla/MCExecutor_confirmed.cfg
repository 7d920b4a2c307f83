\* ADR 005: a confirmed apply or replay makes the grant applied.
SPECIFICATION Spec
CONSTANTS
    r1 = r1
    r2 = r2
    a1 = a1
    a2 = a2
    direct = direct
    Incidents = {"inc"}
    Forged = Forged
    NoEntry = NoEntry
    NoCapability = NoCapability
    NoRecord = NoRecord
    NoApproval = NoApproval
    NoPair = NoPair
    NoAnswer = NoAnswer
    Runs = {r1, r2}
    Approvals = {a1}
    Actions = {"restart"}
    RunbookPairs <- OnePair
    GrantedFor <- NoneGranted
    DirectKeys <- NoKeys
    TTL = 1
    MaxTime = 1
    MaxCalls = 2
    MaxResets = 0
INVARIANTS
    ConfirmedIsApplied
