\* Two demos on one API and one approval file, one of which may be killed.  The
\* system stops when both have ended.
SPECIFICATION FairSpec
CHECK_DEADLOCK FALSE
CONSTANTS
    Demos = {d1, d2}
    MaxKills = 1
    NoEntry = NoEntry
    NoCapability = NoCapability
    NoRecord = NoRecord
INVARIANTS
    TypeOK
    PassedIsTrue
    VerdictExplained
PROPERTY
    DemoEnds
