------------------------------- MODULE MCTracing -------------------------------
\* Instances of Tracing for TLC.
EXTENDS Tracing, TLC

CONSTANTS u1, u2

UserSymmetry == Permutations({u1, u2})
===============================================================================
