--------------------------- MODULE MCApprovalStore ----------------------------
\* Instances of ApprovalStore for TLC.
EXTENDS ApprovalStore, TLC

CONSTANTS w1, w2, a1, a2, c1, c2

\* Approval ids and capabilities are interchangeable, and so are the workers.
IdSymmetry == Permutations({a1, a2}) \cup Permutations({c1, c2})
Symmetry == IdSymmetry \cup Permutations({w1, w2})
===============================================================================
