----------------------------- MODULE ActionLedger -----------------------------
(***************************************************************************)
(* What the action store promises its callers, with no locks, files or     *)
(* processes: one ledger, on which every call takes effect at one instant  *)
(* between the call and its return, or fails without effect.  A caller may *)
(* be cut off at any time; the ledger keeps whatever had taken effect.     *)
(***************************************************************************)
EXTENDS LedgerOps

CONSTANTS
    Workers,      \* the threads that call the store
    Pairs,        \* <<incident, action>> pairs
    Keys,         \* idempotency keys
    RecordIds,    \* record ids a uuid may produce
    NoRequest,    \* a worker that has no call under way
    NoReply       \* a call that has no answer yet

VARIABLES
    ledger,       \* the records, in commit order
    issued,       \* ids of every record that was ever in the ledger
    call,         \* call[w]: the request of w, or NoRequest
    answer        \* answer[w]: what the call of w will return, or NoReply

vars == <<ledger, issued, call, answer>>

CommitRequests == [op : {"commit"}, pair : Pairs, key : Keys]
Requests == CommitRequests \cup [op : {"reset", "read"}]

Init ==
    /\ ledger = << >>
    /\ issued = {}
    /\ call = [w \in Workers |-> NoRequest]
    /\ answer = [w \in Workers |-> NoReply]

Invoke(w) ==
    /\ call[w] = NoRequest
    /\ \E r \in Requests : call' = [call EXCEPT ![w] = r]
    /\ UNCHANGED <<ledger, issued, answer>>

Pending(w) == call[w] # NoRequest /\ answer[w] = NoReply

\* commit() of a new key for a new pair.
Create(w) ==
    /\ Pending(w)
    /\ call[w].op = "commit"
    /\ IsFresh(ledger, call[w].pair, call[w].key)
    /\ \E id \in RecordIds \ issued :
         LET record == NewRecord(ledger, call[w].pair, call[w].key, id) IN
         /\ ledger' = Append(ledger, record)
         /\ issued' = issued \cup {id}
         /\ answer' = [answer EXCEPT ![w] =
                         [kind |-> "created", record |-> record]]
    /\ UNCHANGED call

\* commit() of a key or a pair that is already in the ledger.
Settle(w) ==
    /\ Pending(w)
    /\ call[w].op = "commit"
    /\ ~IsFresh(ledger, call[w].pair, call[w].key)
    /\ answer' = [answer EXCEPT ![w] =
                    SettledAnswer(ledger, call[w].pair, call[w].key)]
    /\ UNCHANGED <<ledger, issued, call>>

Clear(w) ==
    /\ Pending(w)
    /\ call[w].op = "reset"
    /\ ledger' = << >>
    /\ answer' = [answer EXCEPT ![w] =
                    [kind |-> "cleared", count |-> Len(ledger)]]
    /\ UNCHANGED <<issued, call>>

Read(w) ==
    /\ Pending(w)
    /\ call[w].op = "read"
    /\ answer' = [answer EXCEPT ![w] = [kind |-> "read", records |-> ledger]]
    /\ UNCHANGED <<ledger, issued, call>>

\* An I/O error: the caller gets an exception and nothing has changed.
Fail(w) ==
    /\ Pending(w)
    /\ answer' = [answer EXCEPT ![w] = [kind |-> "error"]]
    /\ UNCHANGED <<ledger, issued, call>>

Return(w) ==
    /\ answer[w] # NoReply
    /\ call' = [call EXCEPT ![w] = NoRequest]
    /\ answer' = [answer EXCEPT ![w] = NoReply]
    /\ UNCHANGED <<ledger, issued>>

\* The processes of some workers die: their callers never learn the answer.
CutOff ==
    /\ \E dead \in SUBSET Workers :
         /\ call' = [w \in Workers |->
                       IF w \in dead THEN NoRequest ELSE call[w]]
         /\ answer' = [w \in Workers |->
                         IF w \in dead THEN NoReply ELSE answer[w]]
    /\ UNCHANGED <<ledger, issued>>

Next ==
    \/ \E w \in Workers :
         Invoke(w) \/ Create(w) \/ Settle(w) \/ Clear(w) \/ Read(w)
           \/ Fail(w) \/ Return(w)
    \/ CutOff

Spec == Init /\ [][Next]_vars
===============================================================================
