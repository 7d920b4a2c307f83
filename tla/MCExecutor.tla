------------------------------ MODULE MCExecutor ------------------------------
\* Instances of Executor for TLC.
EXTENDS Executor, TLC

CONSTANTS r1, r2, a1, a2, direct

\* Direct callers with a key of their own, or with the key the workflow uses
\* for some pair.
MadeUpKeys == {direct}
AnyKeys == {direct} \cup Pairs
NoKeys == {}

OnePair == {<<"inc", "restart">>}
AllPairs == Incidents \X Actions

\* One approval is granted at the start, or none.
FirstGranted == a1 :> <<"inc", "restart">>
NoneGranted == << >>

RunSymmetry == Permutations({r1, r2})
===============================================================================
