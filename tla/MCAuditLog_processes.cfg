\* The server's threads and the operator's command append to one file.
SPECIFICATION Spec
CONSTANTS
    t1 = t1
    t2 = t2
    t3 = t3
    server = server
    operator = operator
    Writers = {t1, t2, t3}
    Processes = {server, operator}
    ProcessOf <- TwoProcesses
    MaxPieces = 4
    Free = Free
INVARIANTS
    TypeOK
    OrderWithinProcess
    ReturnedIsLogged
