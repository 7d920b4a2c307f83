\* audit.py: every event is one JSON object on one line.
SPECIFICATION Spec
CONSTANTS
    t1 = t1
    t2 = t2
    t3 = t3
    server = server
    operator = operator
    Writers = {t1, t2, t3}
    Processes = {server, operator}
    ProcessOf <- TwoProcesses
    MaxPieces = 2
    Free = Free
INVARIANTS
    OneEventPerLine
