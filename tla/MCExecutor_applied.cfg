\* approvals.py: an applied approval cannot dispatch another request.
SPECIFICATION Spec
CONSTANTS
    r1 = r1
    r2 = r2
    a1 = a1
    a2 = a2
    direct = direct
    Incidents = {"inc"}
    Forged = Forged
    NoEntry = NoEntry
    NoCapability = NoCapability
    NoRecord = NoRecord
    NoApproval = NoApproval
    NoPair = NoPair
    NoAnswer = NoAnswer
    Runs = {r1, r2}
    Approvals = {a1}
    Actions = {"restart"}
    RunbookPairs <- OnePair
    GrantedFor <- NoneGranted
    DirectKeys <- NoKeys
    TTL = 1
    MaxTime = 0
    MaxCalls = 3
    MaxResets = 0
PROPERTIES
    AppliedNeverDispatches
