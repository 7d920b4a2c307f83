--------------------------- MODULE ApprovalLifecycle ---------------------------
(***************************************************************************)
(* What the approval store promises: every request runs through one small  *)
(* lifecycle, and the capability that its one grant stores is handed out   *)
(* at most once.                                                           *)
(*                                                                         *)
(*     none --> pending --> approved --> applied                           *)
(*                 |            |                                          *)
(*                 +------------+------> expired                           *)
(***************************************************************************)
CONSTANTS Approvals, Capabilities, NoCapability

VARIABLES
    status,      \* status[a]: where request a is in its lifecycle
    grant,       \* grant[a]: the capability stored for a, or NoCapability
    handed       \* requests whose capability reached an operator

vars == <<status, grant, handed>>

Init ==
    /\ status = [a \in Approvals |-> "none"]
    /\ grant = [a \in Approvals |-> NoCapability]
    /\ handed = {}

Move(a, from, to) == status[a] \in from /\ status' = [status EXCEPT ![a] = to]

Request(a) == Move(a, {"none"}, "pending") /\ UNCHANGED <<grant, handed>>

\* A grant stores a capability no other request holds.
Approve(a) ==
    /\ Move(a, {"pending"}, "approved")
    /\ \E c \in Capabilities \ {grant[b] : b \in Approvals} :
         grant' = [grant EXCEPT ![a] = c]
    /\ UNCHANGED handed

\* The operator receives the capability, once.
HandOut(a) ==
    /\ grant[a] # NoCapability
    /\ a \notin handed
    /\ handed' = handed \cup {a}
    /\ UNCHANGED <<status, grant>>

Apply(a) == Move(a, {"approved"}, "applied") /\ UNCHANGED <<grant, handed>>

\* Requests expire when somebody looks at them, several at a time.
Expire ==
    /\ \E lapsed \in SUBSET {a \in Approvals :
                               status[a] \in {"pending", "approved"}} :
         status' = [a \in Approvals |->
                      IF a \in lapsed THEN "expired" ELSE status[a]]
    /\ UNCHANGED <<grant, handed>>

Next ==
    \/ \E a \in Approvals : Request(a) \/ Approve(a) \/ HandOut(a) \/ Apply(a)
    \/ Expire

Spec == Init /\ [][Next]_vars
===============================================================================
