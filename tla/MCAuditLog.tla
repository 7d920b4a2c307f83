------------------------------ MODULE MCAuditLog -------------------------------
\* Instances of AuditLog for TLC.
EXTENDS AuditLog

CONSTANTS t1, t2, t3, server, operator

\* Threads of the MCP server, and the operator's command beside them.
TwoProcesses == [w \in {t1, t2, t3} |-> IF w = t3 THEN operator ELSE server]
===============================================================================
