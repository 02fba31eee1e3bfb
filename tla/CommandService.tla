--------------------------- MODULE CommandService ---------------------------
(***************************************************************************)
(* What sending a device command promises an HTTP client, without          *)
(* sockets, futures or handlers: a request is taken once, the device may   *)
(* carry its command out while the request is open or afterwards, and the  *)
(* request is answered exactly once.  "ok" is only said of a command that  *)
(* was carried out; every other answer leaves that question open, and a    *)
(* request that finds no gateway never reaches the device.                 *)
(***************************************************************************)

CONSTANTS
    Command,    \* device commands ever requested
    Reply,      \* what a request can be answered
    Refusal     \* the answers given without trying, a subset of Reply

VARIABLES
    request,    \* "new", "open" or "closed", per command
    answer,     \* the answer of a closed request, "none" before
    executed    \* commands the device has carried out

vars == <<request, answer, executed>>

Init ==
    /\ request = [c \in Command |-> "new"]
    /\ answer = [c \in Command |-> "none"]
    /\ executed = {}

Take(c) ==
    /\ request[c] = "new"
    /\ request' = [request EXCEPT ![c] = "open"]
    /\ UNCHANGED <<answer, executed>>

TurnAway(c) ==
    /\ request[c] = "new"
    /\ \E a \in Refusal : answer' = [answer EXCEPT ![c] = a]
    /\ request' = [request EXCEPT ![c] = "closed"]
    /\ UNCHANGED executed

CarryOut(c) ==
    /\ request[c] # "new"
    /\ answer[c] \notin Refusal
    /\ executed' = executed \cup {c}
    /\ UNCHANGED <<request, answer>>

Close(c) ==
    /\ request[c] = "open"
    /\ \E a \in Reply \ Refusal :
          /\ a = "ok" => c \in executed
          /\ answer' = [answer EXCEPT ![c] = a]
    /\ request' = [request EXCEPT ![c] = "closed"]
    /\ UNCHANGED executed

Next == \E c \in Command : Take(c) \/ TurnAway(c) \/ CarryOut(c) \/ Close(c)

Spec == Init /\ [][Next]_vars

\* Every request that was taken is closed.
FairSpec == Spec /\ \A c \in Command : WF_vars(Close(c))
=============================================================================
