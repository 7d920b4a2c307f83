\* Two processes, three threads, one file: safety, refinement and both locks.
SPECIFICATION FairSpec
CONSTANTS
    w1 = w1
    w2 = w2
    w3 = w3
    Workers = {w1, w2, w3}
    Procs = {"api_1", "api_2"}
    ProcOf <- TwoProcesses
    Pairs = {"restart", "rollback"}
    Keys = {"k1", "k2"}
    Commits <- ReplayedAndClashing
    MaxRecords = 2
    FileBacked = TRUE
    Free = Free
    NoRequest = NoRequest
    NoReply = NoReply
    NoContents = NoContents
INVARIANTS
    TypeOK
    LedgerWellFormed
    NoPhantom
PROPERTIES
    AppendOnly
    ImplementsLedger
    LocksReleased
