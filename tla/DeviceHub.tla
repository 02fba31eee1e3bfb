----------------------------- MODULE DeviceHub -----------------------------
(***************************************************************************)
(* One user's slice of DeviceConnectionHub (device_connection_hub.py) and  *)
(* the /ws/sensors handlers that feed it (routers/realtime_router.py).     *)
(*                                                                         *)
(* The hub keeps at most one gateway WebSocket per user and a table of     *)
(* commands waiting for their result.  Handlers of several sockets, HTTP   *)
(* requests sending commands and the reading worker all call it from one   *)
(* event loop, so a step below is the code between two awaits that really  *)
(* suspend.  The registry lock is never held across such an await, so each *)
(* registry section is part of one step.                                   *)
(*                                                                         *)
(* A socket s is the life of one handler invocation.  A gateway that       *)
(* reconnects opens another socket.                                        *)
(***************************************************************************)

CONSTANTS
    Socket,     \* gateway WebSockets ever opened
    Command,    \* device commands ever requested over HTTP
    None        \* no connection

ASSUME NoneAssumption == None \notin Socket

VARIABLES
    current,    \* _connections[user]: the registered socket or None
    pending,    \* keys of _pending_commands
    future,     \* the result future of each command
    via,        \* the connection each send_command call captured
    call,       \* where each send_command call is
    reply,      \* what each send_command call gave back
    handler,    \* where each sensors_websocket handler is
    worker,     \* sockets whose _drain_readings task runs
    dead,       \* sockets on which a further send raises
    first,      \* the first message written to each socket
    handed,     \* commands written to their socket
    latest,     \* reading_hub's cached device state: its source
    executed    \* commands the physical device has carried out

hubVars    == <<current, pending, future>>
callVars   == <<via, call, reply, handed>>
socketVars == <<handler, worker, dead, first>>
vars == <<hubVars, callVars, socketVars, latest, executed>>

Result  == {"ok", "failed", "mismatch"}
Outcome == Result \cup {"unset", "replaced", "disconnected", "cancelled"}
Reply   == Result \cup {"none", "replaced", "disconnected", "timeout",
                        "not_connected", "send_error"}

\* Handler positions that await something while the socket may be registered.
Registered == {"replacing", "greeting", "receiving", "broadcasting",
               "replying", "stopping"}

TypeOK ==
    /\ current \in Socket \cup {None}
    /\ pending \subseteq Command
    /\ future \in [Command -> Outcome]
    /\ via \in [Command -> Socket \cup {None}]
    /\ call \in [Command -> {"idle", "queued", "writing", "waiting", "answered"}]
    /\ reply \in [Command -> Reply]
    /\ handler \in [Socket -> Registered \cup {"auth", "done"}]
    /\ worker \subseteq Socket
    /\ dead \subseteq Socket
    /\ first \in [Socket -> {"none", "connected", "device_command"}]
    /\ handed \subseteq Command
    /\ latest \in Socket \cup {"unknown", "disconnected"}
    /\ executed \subseteq Command

Init ==
    /\ current = None
    /\ pending = {}
    /\ future = [c \in Command |-> "unset"]
    /\ via = [c \in Command |-> None]
    /\ call = [c \in Command |-> "idle"]
    /\ reply = [c \in Command |-> "none"]
    /\ handler = [s \in Socket |-> "auth"]
    /\ worker = {}
    /\ dead = {}
    /\ first = [s \in Socket |-> "none"]
    /\ handed = {}
    /\ latest = "unknown"
    /\ executed = {}

-----------------------------------------------------------------------------
(* The registry *)

(***************************************************************************)
(* An operator named Faulty... is a variant with one plausible mistake.  It *)
(* is no part of the specification: it stands before the operator it would *)
(* replace and shows that a property can tell the two apart.               *)
(***************************************************************************)

\* Without the done() checks.
FaultySettleTwice(cs, outcome) ==
    [c \in Command |-> IF c \in cs THEN outcome ELSE future[c]]

\* set_result on every future of cs that is not done yet.
Settle(cs, outcome) ==
    [c \in Command |-> IF c \in cs /\ future[c] = "unset"
                         THEN outcome ELSE future[c]]

\* The table keeps the entries of the replaced connection.
FaultyReplaceKeeps(s) ==
    /\ current' = s
    /\ dead' = dead \cup ({current} \ {None, s})
    /\ UNCHANGED <<pending, future>>

\* The entries are dropped and their callers are not told.
FaultyReplaceMute(s) ==
    /\ current' = s
    /\ dead' = dead \cup ({current} \ {None, s})
    /\ pending' = {}
    /\ UNCHANGED future

\* connect(): register s; a different previous socket loses its waiters and
\* is closed, which makes every later send on it raise.
Replace(s) ==
    LET previous == {current} \ {None, s}
    IN  /\ current' = s
        /\ pending' = IF previous = {} THEN pending ELSE {}
        /\ future'  = IF previous = {} THEN future
                                       ELSE Settle(pending, "replaced")
        /\ dead'    = dead \cup previous

\* Without the comparison of the sockets.
FaultyRemoveAny(s) ==
    /\ current' = None
    /\ pending' = {}
    /\ future'  = Settle(pending, "disconnected")

\* disconnect(): only the registered socket is removed, with its waiters.
Remove(s) ==
    IF current = s
      THEN /\ current' = None
           /\ pending' = {}
           /\ future'  = Settle(pending, "disconnected")
      ELSE UNCHANGED hubVars

-----------------------------------------------------------------------------
(* send_command(), one call per command *)

\* No gateway registered: DeviceNotConnectedError before anything is stored.
Refuse(c) ==
    /\ call[c] = "idle"
    /\ current = None
    /\ call' = [call EXCEPT ![c] = "answered"]
    /\ reply' = [reply EXCEPT ![c] = "not_connected"]
    /\ UNCHANGED <<hubVars, via, handed, socketVars, latest, executed>>

\* The command is registered as pending, then queues for the send lock.
Submit(c) ==
    /\ call[c] = "idle"
    /\ current # None
    /\ pending' = pending \cup {c}
    /\ via' = [via EXCEPT ![c] = current]
    /\ call' = [call EXCEPT ![c] = "queued"]
    /\ UNCHANGED <<current, future, reply, handed, socketVars, latest,
                   executed>>

\* The command is written on the captured connection.
Write(c) ==
    /\ call[c] = "queued"
    /\ via[c] \notin dead
    /\ call' = [call EXCEPT ![c] = "writing"]
    /\ handed' = handed \cup {c}
    /\ first' = [first EXCEPT ![via[c]] =
                    IF @ = "none" THEN "device_command" ELSE @]
    /\ UNCHANGED <<hubVars, via, reply, handler, worker, dead, latest,
                   executed>>

\* send_json() returns; the caller starts waiting for the result.
Written(c) ==
    /\ call[c] = "writing"
    /\ via[c] \notin dead
    /\ call' = [call EXCEPT ![c] = "waiting"]
    /\ UNCHANGED <<hubVars, via, reply, handed, socketVars, latest, executed>>

\* send_json() raises: _send() disconnects the captured connection, the
\* finally block drops the caller's own entry and DeviceSendError is raised.
WriteFails(c) ==
    LET evicts == current = via[c]
    IN  /\ call[c] \in {"queued", "writing"}
        /\ current' = IF evicts THEN None ELSE current
        /\ pending' = IF evicts THEN {} ELSE pending \ {c}
        /\ future'  = IF evicts THEN Settle(pending, "disconnected")
                                ELSE Settle(pending \cap {c}, "cancelled")
        /\ dead' = dead \cup {via[c]}
        /\ call' = [call EXCEPT ![c] = "answered"]
        /\ reply' = [reply EXCEPT ![c] = "send_error"]
        /\ UNCHANGED <<via, handed, handler, worker, first, latest, executed>>

\* The finally block of a call that waited, with the answer it returns.
Answer(c, r) ==
    /\ pending' = pending \ {c}
    /\ future' = Settle(pending \cap {c}, "cancelled")
    /\ call' = [call EXCEPT ![c] = "answered"]
    /\ reply' = [reply EXCEPT ![c] = r]
    /\ UNCHANGED <<current, via, handed, socketVars, latest, executed>>

\* Gives back the future's content without waiting for it.
FaultyReturnEarly(c) ==
    /\ call[c] = "waiting"
    /\ Answer(c, future[c])

Return(c) ==
    /\ call[c] = "waiting"
    /\ future[c] # "unset"
    /\ Answer(c, future[c])

\* No deadline.
FaultyTimeoutNever(c) == FALSE /\ Answer(c, "timeout")

\* An unconfirmed command is reported as done.
FaultyTimeoutIsOk(c) ==
    /\ call[c] = "waiting"
    /\ Answer(c, "ok")

\* wait_for() gives up.  The deadline may also fall between the moment the
\* future is set and the moment the caller runs again.
Timeout(c) ==
    /\ call[c] = "waiting"
    /\ Answer(c, "timeout")

-----------------------------------------------------------------------------
(* sensors_websocket(), one handler per socket *)

Goto(s, position) == handler' = [handler EXCEPT ![s] = position]

\* Back to receive_json(), which refuses a socket the server has closed.
Loop(s) == Goto(s, IF s \in dead THEN "stopping" ELSE "receiving")

\* send_to_connection() first checks that s is still the registered socket.
AnswerGateway(s) == Goto(s, IF current = s THEN "replying" ELSE "stopping")

\* Token refused, place not owned, or no auth message in time.
AuthenticationFails(s) ==
    /\ handler[s] = "auth"
    /\ Goto(s, "done")
    /\ dead' = dead \cup {s}
    /\ UNCHANGED <<hubVars, callVars, worker, first, latest, executed>>

\* "connected" is written to s and the handler awaits the end of the write.
StartGreeting(s) ==
    /\ Goto(s, "greeting")
    /\ first' = [first EXCEPT ![s] = IF @ = "none" THEN "connected" ELSE @]

\* Authenticated: register.  With a previous socket the handler awaits that
\* socket's close() before it greets its own gateway.
Register(s) ==
    /\ handler[s] = "auth"
    /\ Replace(s)
    /\ IF current = None
         THEN StartGreeting(s)
         ELSE Goto(s, "replacing") /\ UNCHANGED first
    /\ UNCHANGED <<callVars, worker, latest, executed>>

PreviousClosed(s) ==
    /\ handler[s] = "replacing"
    /\ IF current = s
         THEN StartGreeting(s)
         ELSE Goto(s, "stopping") /\ UNCHANGED first
    /\ UNCHANGED <<hubVars, callVars, worker, dead, latest, executed>>

\* The greeting is out; the reading worker starts.
Greeted(s) ==
    /\ handler[s] = "greeting"
    /\ s \notin dead
    /\ worker' = worker \cup {s}
    /\ Loop(s)
    /\ UNCHANGED <<hubVars, callVars, dead, first, latest, executed>>

\* ping, or a message the handler answers with an error.
ReceiveRequest(s) ==
    /\ handler[s] = "receiving"
    /\ AnswerGateway(s)
    /\ UNCHANGED <<hubVars, callVars, worker, dead, first, latest, executed>>

\* pong, or a sensor reading that only goes to the reading slot.
ReceiveSilently(s) ==
    /\ handler[s] = "receiving"
    /\ Loop(s)
    /\ UNCHANGED <<hubVars, callVars, worker, dead, first, latest, executed>>

\* Without the comparison of the actions.
FaultyResolveAnyAction(s, c, r) ==
    future' = IF current = s /\ c \in pending
                THEN Settle({c}, IF r = "mismatch" THEN "ok" ELSE r)
                ELSE future

\* resolve_command_result(): accepted only from the registered socket and for
\* a command that still waits; the entry stays until the caller removes it.
Resolve(s, c, r) ==
    future' = IF current = s /\ c \in pending
                THEN Settle({c}, r) ELSE future

\* A command_result naming c.  "mismatch" names an action other than c's.
ReceiveResult(s, c, r) ==
    /\ handler[s] = "receiving"
    /\ c \in handed
    /\ r = "ok" => c \in executed
    /\ Resolve(s, c, r)
    /\ Loop(s)
    /\ UNCHANGED <<current, pending, callVars, worker, dead, first, latest,
                   executed>>

\* device_state: broadcast_device_state() caches it before the first await,
\* whoever the registered socket is.
ReceiveState(s) ==
    /\ handler[s] = "receiving"
    /\ latest' = s
    /\ Goto(s, "broadcasting")
    /\ UNCHANGED <<hubVars, callVars, worker, dead, first, executed>>

\* The browsers have it; the handler acknowledges to the gateway.
Broadcast(s) ==
    /\ handler[s] = "broadcasting"
    /\ AnswerGateway(s)
    /\ UNCHANGED <<hubVars, callVars, worker, dead, first, latest, executed>>

SendReply(s) ==
    /\ handler[s] = "replying"
    /\ s \notin dead
    /\ Loop(s)
    /\ UNCHANGED <<hubVars, callVars, worker, dead, first, latest, executed>>

\* A greeting or reply cannot be written: _send() disconnects the socket.
SendReplyFails(s) ==
    /\ handler[s] \in {"greeting", "replying"}
    /\ Remove(s)
    /\ dead' = dead \cup {s}
    /\ Goto(s, "stopping")
    /\ UNCHANGED <<callVars, worker, first, latest, executed>>

\* The worker's reading_saved cannot be written, with the same effect on the
\* hub; the worker returns and the handler keeps receiving.
WorkerSendFails(s) ==
    /\ s \in worker
    /\ current = s
    /\ Remove(s)
    /\ dead' = dead \cup {s}
    /\ worker' = worker \ {s}
    /\ UNCHANGED <<callVars, handler, first, latest, executed>>

\* receive_json() raises WebSocketDisconnect.
ReceiveDisconnect(s) ==
    /\ handler[s] = "receiving"
    /\ dead' = dead \cup {s}
    /\ Goto(s, "stopping")
    /\ UNCHANGED <<hubVars, callVars, worker, first, latest, executed>>

\* The handler ends without leaving the hub.
FaultyStopStays(s) ==
    /\ handler[s] = "stopping"
    /\ worker' = worker \ {s}
    /\ dead' = dead \cup {s}
    /\ Goto(s, "done")
    /\ UNCHANGED <<hubVars, callVars, first, latest, executed>>

\* Awaits the worker without cancelling it first.
FaultyStopAwaitsWorker(s) ==
    /\ handler[s] = "stopping"
    /\ s \notin worker
    /\ Remove(s)
    /\ latest' = IF current = s THEN "disconnected" ELSE latest
    /\ Goto(s, "done")
    /\ UNCHANGED <<callVars, worker, dead, first, executed>>

\* The finally block: stop the worker, leave the hub and, only if this call
\* removed the registration, cache and broadcast "disconnected".
Stop(s) ==
    /\ handler[s] = "stopping"
    /\ worker' = worker \ {s}
    /\ Remove(s)
    /\ latest' = IF current = s THEN "disconnected" ELSE latest
    /\ dead' = dead \cup {s}
    /\ Goto(s, "done")
    /\ UNCHANGED <<callVars, first, executed>>

-----------------------------------------------------------------------------
(* The gateway and the device behind it *)

\* The device performs a command its gateway was handed.  A gateway whose
\* first message is not "connected" gives the connection up.
Execute(c) ==
    /\ c \in handed \ executed
    /\ first[via[c]] = "connected"
    /\ executed' = executed \cup {c}
    /\ UNCHANGED <<hubVars, callVars, socketVars, latest>>

-----------------------------------------------------------------------------

CallStep(c) ==
    \/ Refuse(c)     \/ Submit(c)  \/ Write(c)  \/ Written(c)
    \/ WriteFails(c) \/ Return(c)  \/ Timeout(c)

HandlerStep(s) ==
    \/ AuthenticationFails(s) \/ Register(s)        \/ PreviousClosed(s)
    \/ Greeted(s)             \/ ReceiveRequest(s)  \/ ReceiveSilently(s)
    \/ ReceiveState(s)        \/ Broadcast(s)       \/ SendReply(s)
    \/ SendReplyFails(s)      \/ WorkerSendFails(s) \/ ReceiveDisconnect(s)
    \/ Stop(s)

Next ==
    \/ \E c \in Command : CallStep(c) \/ Execute(c)
    \/ \E s \in Socket : HandlerStep(s)
    \/ \E s \in Socket, c \in Command, r \in Result : ReceiveResult(s, c, r)

Spec == Init /\ [][Next]_vars

(***************************************************************************)
(* Fairness.  The event loop runs every ready task.  A write or a close    *)
(* always ends, with success or with an error, because uvicorn pings the   *)
(* peer and aborts a dead transport; wait_for ends by its deadline; and    *)
(* receive_json on a dead socket raises.  Nothing makes a client connect,  *)
(* a user press a button, or a device answer.                              *)
(***************************************************************************)
Fairness ==
    /\ \A c \in Command :
          /\ WF_vars(Write(c) \/ Written(c) \/ WriteFails(c))
          /\ WF_vars(Return(c) \/ Timeout(c))
    /\ \A s \in Socket :
          /\ WF_vars(PreviousClosed(s))
          /\ WF_vars(Greeted(s) \/ SendReplyFails(s))
          /\ WF_vars(Broadcast(s))
          /\ WF_vars(SendReply(s) \/ SendReplyFails(s))
          /\ WF_vars(s \in dead /\ ReceiveDisconnect(s))
          /\ WF_vars(Stop(s))

FairSpec == Spec /\ Fairness

-----------------------------------------------------------------------------
(* Refinement of CommandService *)

request ==
    [c \in Command |-> CASE call[c] = "idle"     -> "new"
                         [] call[c] = "answered" -> "closed"
                         [] OTHER                -> "open"]

Promise == INSTANCE CommandService
             WITH Reply <- Reply \ {"none"}, Refusal <- {"not_connected"},
                  answer <- reply

\* send_command() keeps the promise of CommandService: one answer per
\* request, success only for what the device did, nothing sent for a refused
\* request.
CommandPromise == Promise!Spec

\* With fairness, also that every request taken is answered.
FairCommandPromise == Promise!FairSpec

-----------------------------------------------------------------------------
(* Properties *)

\* Every entry of _pending_commands was sent over the connection registered
\* now, and the request that made it is still running: no entry outlives its
\* connection or its caller.
PendingOnCurrent ==
    \A c \in pending : /\ current # None /\ via[c] = current
                       /\ call[c] \in {"queued", "writing", "waiting"}

\* A request whose entry was taken away by a replacement, a disconnection or
\* a failed send has been given its answer: it does not sit out the timeout.
NoWaiterForgotten ==
    \A c \in Command :
        call[c] \in {"queued", "writing", "waiting"} /\ c \notin pending
            => future[c] # "unset"

\* HTTP reports success only for a command the device really carried out,
\* whatever results arrive late, twice, for another action or on another
\* socket.
SuccessMeansExecuted == \A c \in Command : reply[c] = "ok" => c \in executed

\* The registered socket always has a handler that will still run its
\* finally block: no registration is left behind without an owner.
CurrentHasHandler == current # None => handler[current] \in Registered

\* A future is set once: a late result, a replacement and a disconnection
\* never overwrite each other (set_result on a done future would raise).
SettledOnce ==
    [][\A c \in Command : future[c] # "unset" => future'[c] = future[c]]_vars

\* The registration of a socket that still works is never removed: the
\* handler of an old connection does not evict the new one.
LiveSocketKeepsRegistration ==
    [][current # None /\ current' # current => current \in dead']_vars

\* The handler of a replaced or broken socket comes to its end.
DeadHandlersEnd == \A s \in Socket : s \in dead ~> handler[s] = "done"

\* What the gateway asserts of its first message after "auth"
\* (_authenticate_websocket in gateway.py).
FirstMessageIsConnected == \A s \in Socket : first[s] # "device_command"

\* What broadcast_device_disconnected() says it does: once no handler is
\* left, the browsers are not told that a gateway is connected.
DisconnectionShown ==
    (\A s \in Socket : handler[s] \in {"auth", "done"})
        => latest \notin Socket
=============================================================================
