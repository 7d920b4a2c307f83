---------------------------- MODULE MCActionStore -----------------------------
\* Instances of ActionStore for TLC.
EXTENDS ActionStore, TLC

CONSTANTS w1, w2, w3

\* Two threads of one API process and one of another.
TwoProcesses == w1 :> "api_1" @@ w2 :> "api_1" @@ w3 :> "api_2"

\* One pair with two keys, and one key with two pairs: a call may replay either of
\* the records or clash with it, by its key or by its pair.
ReplayedAndClashing ==
    {<<"restart", "k1">>, <<"restart", "k2">>, <<"rollback", "k1">>}
===============================================================================
