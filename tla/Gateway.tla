------------------------------ MODULE Gateway ------------------------------
(***************************************************************************)
(* DudeojiGateway (dudeoji-gateway/gateway.py): the process that bridges   *)
(* the BLE boards and the server's /ws/sensors WebSocket.  This module is  *)
(* its middle: the outbound queue, the WebSocket session with its sender,  *)
(* receiver and heartbeat, and the way of a command to the control board.  *)
(*                                                                         *)
(* Notifications put messages on one queue, where a newer state replaces   *)
(* the older one of the same board and kind while a command result is      *)
(* never replaced.  Everything runs on one event loop, so a step is the    *)
(* code between two awaits.  A notification and the enqueueing it          *)
(* schedules are one step: the loop runs scheduled calls in order.         *)
(***************************************************************************)
EXTENDS Integers, Sequences, FiniteSets

CONSTANTS
    Command,         \* device_command messages the server ever sends
    None,            \* no message in the sender's hands
    MaxQueue,        \* capacity of outbound_queue (200 in the code)
    MaxDelay,        \* cap of the reconnection delay (15 in the code)
    MaxEmissions     \* bound: messages per state kind

ASSUME BoundsAssumption ==
    {MaxQueue, MaxDelay, MaxEmissions} \subseteq Nat \ {0}

VARIABLES
    usable,     \* the control board has a subscribed, live BLE connection
    outbound,   \* outbound_queue
    inflight,   \* the message _websocket_sender took, or None
    emitted,    \* messages of each state kind made so far
    session,    \* where _run_websocket_forever is
    ended,      \* tasks of the session that have ended
    retryDelay, \* retry_delay
    command,    \* what the receiver did with each command
    delivered,  \* commands that reached the control board
    replied,    \* commands whose result the board notified
    sent,       \* results that reached the server
    shown,      \* per state kind, the message that reached the server last
    dropped     \* messages lost because the queue was full

queueVars   == <<outbound, emitted, dropped>>
sessionVars == <<session, ended, retryDelay>>
commandVars == <<command, delivered, replied>>
serverVars  == <<sent, shown>>
ioVars      == <<queueVars, inflight, serverVars>>
vars == <<usable, ioVars, sessionVars, commandVars>>

StateKind  == {"device_state", "sensor_reading"}
ResultKind == {"result", "refused", "write_failed"}
Message == (StateKind \X (1 .. MaxEmissions)) \cup (ResultKind \X Command)

ASSUME NoneAssumption == None \notin Message

Task == {"sender", "receiver", "heartbeat"}

\* What the receiver does with a command it is busy with.
Busy == {"writing", "refusing", "failing"}
Idle == \A c \in Command : command[c] \notin Busy

TypeOK ==
    /\ usable \in BOOLEAN
    /\ outbound \in Seq(Message) /\ Len(outbound) =< MaxQueue
    /\ inflight \in Message \cup {None}
    /\ emitted \in [StateKind -> 0 .. MaxEmissions]
    /\ session \in {"sleeping", "connecting", "open"}
    /\ ended \subseteq Task
    /\ retryDelay \in 1 .. MaxDelay
    /\ command \in [Command -> Busy \cup {"unsent", "written", "answered",
                                          "abandoned"}]
    /\ {delivered, replied} \subseteq SUBSET Command
    /\ sent \subseteq Message
    /\ shown \in [StateKind -> 0 .. MaxEmissions]
    /\ dropped \subseteq Message

Init ==
    /\ usable = FALSE
    /\ outbound = <<>>
    /\ inflight = None
    /\ emitted = [k \in StateKind |-> 0]
    /\ session = "connecting"
    /\ ended = {}
    /\ retryDelay = 1
    /\ command = [c \in Command |-> "unsent"]
    /\ delivered = {} /\ replied = {} /\ sent = {} /\ dropped = {}
    /\ shown = [k \in StateKind |-> 0]

-----------------------------------------------------------------------------
(* The outbound queue.  Faulty... operators are variants with one mistake;  *)
(* each stands before the operator it would replace and is not part of the  *)
(* specification.                                                          *)

\* The positions of S from the first to the last.
InOrder(S) ==
    CHOOSE f \in [1 .. Cardinality(S) -> S] :
        \A i, j \in 1 .. Cardinality(S) : i < j => f[i] < f[j]

\* What stands at the positions of S in queue q, in its order.
Kept(q, S) == [n \in 1 .. Cardinality(S) |-> q[InOrder(S)[n]]]

\* A device_state clears the queue.
FaultyRetainedNothing(q, item) == IF item[1] = "device_state" THEN <<>> ELSE q

\* Results are coalesced too.
FaultyRetainedStates(q, item) ==
    Kept(q, {i \in 1 .. Len(q) : q[i][1] \in StateKind \ {item[1]}})

\* What an enqueue leaves of queue q: a state message evicts those of its
\* kind, a result evicts nothing.
Retained(q, item) ==
    IF item[1] \in StateKind
      THEN Kept(q, {i \in 1 .. Len(q) : q[i][1] # item[1]}) ELSE q

\* put_nowait(): a full queue refuses the message.
PutNowait(box, item) ==
    IF Len(box.queue) < MaxQueue
      THEN [box EXCEPT !.queue = Append(@, item)]
      ELSE [box EXCEPT !.dropped = @ \cup {item}]

\* _enqueue_nowait()
EnqueueNowait(box, item) ==
    PutNowait([box EXCEPT !.queue = Retained(@, item)], item)

Box == [queue |-> outbound, dropped |-> dropped]
Becomes(box) == outbound' = box.queue /\ dropped' = box.dropped

Enqueue(item) == Becomes(EnqueueNowait(Box, item)) /\ UNCHANGED emitted

\* _emit_dual_state_messages() on a notification of a board or the loss of
\* the sense board: the state of a fresh control board, then, with a fresh
\* sense board and a BME280, the reading that joins the two.
Emit(kinds) ==
    LET put(box, k) == IF k \in kinds
                         THEN EnqueueNowait(box, <<k, emitted[k] + 1>>)
                         ELSE box
    IN  /\ \A k \in kinds : emitted[k] < MaxEmissions
        /\ Becomes(put(put(Box, "device_state"), "sensor_reading"))
        /\ emitted' = [k \in StateKind |->
                          emitted[k] + IF k \in kinds THEN 1 ELSE 0]
        /\ UNCHANGED <<usable, inflight, serverVars, sessionVars, commandVars>>

StateNotification == Emit({"device_state"}) \/ Emit(StateKind)

-----------------------------------------------------------------------------
(* The WebSocket session *)

\* Connecting or authenticating fails; the delay doubles.
Doubled(delay) == IF 2 * delay < MaxDelay THEN 2 * delay ELSE MaxDelay

ConnectFails ==
    /\ session = "connecting"
    /\ session' = "sleeping"
    /\ retryDelay' = Doubled(retryDelay)
    /\ UNCHANGED <<usable, ioVars, ended, commandVars>>

\* "connected" was received; sender, receiver and heartbeat start.
Authenticated ==
    /\ session = "connecting"
    /\ session' = "open"
    /\ UNCHANGED <<usable, ioVars, ended, retryDelay, commandVars>>

\* _websocket_sender takes the oldest message and starts to write it.
Take ==
    /\ session = "open" /\ "sender" \notin ended
    /\ inflight = None
    /\ outbound # <<>>
    /\ inflight' = Head(outbound)
    /\ outbound' = Tail(outbound)
    /\ UNCHANGED <<usable, emitted, dropped, serverVars, sessionVars,
                   commandVars>>

\* The server gets the message in hand.
Arrive ==
    IF inflight[1] \in StateKind
      THEN /\ shown' = [shown EXCEPT ![inflight[1]] = inflight[2]]
           /\ UNCHANGED sent
      ELSE sent' = sent \cup {inflight} /\ UNCHANGED shown

\* The message in hand is forgotten.
FaultyPutBack ==
    /\ inflight' = None
    /\ UNCHANGED <<outbound, dropped, emitted>>

\* The message in hand goes to the back of the queue, whatever has been
\* queued since; it may have reached the server all the same.
PutBack ==
    /\ inflight' = None
    /\ IF inflight = None
         THEN UNCHANGED queueVars
         ELSE Becomes(PutNowait(Box, inflight)) /\ UNCHANGED emitted

\* Every message is put back, written or not.
FaultySentBack ==
    /\ session = "open"
    /\ inflight # None
    /\ Arrive
    /\ PutBack
    /\ UNCHANGED <<usable, sessionVars, commandVars>>

Sent ==
    /\ session = "open"
    /\ inflight # None
    /\ Arrive
    /\ inflight' = None
    /\ UNCHANGED <<usable, queueVars, sessionVars, commandVars>>

PerhapsArrive ==
    \/ inflight # None /\ Arrive
    \/ UNCHANGED serverVars

\* A write raises: the sender puts its message back and ends.
SendFails ==
    /\ session = "open"
    /\ inflight # None
    /\ PutBack
    /\ PerhapsArrive
    /\ ended' = ended \cup {"sender"}
    /\ UNCHANGED <<usable, session, retryDelay, commandVars>>

\* The heartbeat's ping fails, or the receiver's iteration over the socket is
\* at its end.  The other tasks go on until the session task notices.
TaskEnds(t) ==
    /\ session = "open"
    /\ t = "receiver" => Idle
    /\ ended' = ended \cup {t}
    /\ UNCHANGED <<usable, ioVars, session, retryDelay, commandVars>>

\* The session task cancels the others and raises: a message in hand is put
\* back, a command in work is abandoned, and the delay doubles.
SessionEnds ==
    /\ session = "open" /\ ended # {}
    /\ PutBack
    /\ PerhapsArrive
    /\ command' = [c \in Command |-> IF command[c] \in Busy THEN "abandoned"
                                                            ELSE command[c]]
    /\ session' = "sleeping"
    /\ retryDelay' = Doubled(retryDelay)
    /\ ended' = {}
    /\ UNCHANGED <<usable, delivered, replied>>

Wake ==
    /\ session = "sleeping"
    /\ session' = "connecting"
    /\ UNCHANGED <<usable, ioVars, ended, retryDelay, commandVars>>

-----------------------------------------------------------------------------
(* Commands.  The receiver handles one at a time and awaits its BLE write.  *)

\* The board's own task connects, subscribes and loses the connection.
ControlConnects ==
    /\ ~usable
    /\ usable' = TRUE
    /\ UNCHANGED <<ioVars, sessionVars, commandVars>>

ControlDisconnects ==
    /\ usable
    /\ usable' = FALSE
    /\ UNCHANGED <<ioVars, sessionVars, commandVars>>

Set(c, status) == command' = [command EXCEPT ![c] = status]

\* A device_command arrives.  It is refused when it is malformed or the control
\* board cannot be written to.
ReceiveCommand(c) ==
    /\ session = "open" /\ "receiver" \notin ended
    /\ Idle
    /\ command[c] = "unsent"
    /\ \/ usable /\ Set(c, "writing")
       \/ Set(c, "refusing")
    /\ UNCHANGED <<usable, ioVars, sessionVars, delivered, replied>>

\* The board receives the write; the acknowledgement is still to come.
BoardReceives(c) ==
    /\ command[c] = "writing"
    /\ usable
    /\ delivered' = delivered \cup {c}
    /\ UNCHANGED <<usable, ioVars, sessionVars, command, replied>>

WriteAcknowledged(c) ==
    /\ command[c] = "writing"
    /\ c \in delivered
    /\ Set(c, "written")
    /\ UNCHANGED <<usable, ioVars, sessionVars, delivered, replied>>

\* A failed write is answered as if nothing had been tried.
FaultyWriteFails(c) ==
    /\ command[c] = "writing"
    /\ Set(c, "refusing")
    /\ UNCHANGED <<usable, ioVars, sessionVars, delivered, replied>>

\* The error of a write is not caught.
FaultyWriteHangs(c) == FALSE /\ Set(c, "failing")

WriteFails(c) ==
    /\ command[c] = "writing"
    /\ Set(c, "failing")
    /\ UNCHANGED <<usable, ioVars, sessionVars, delivered, replied>>

\* _put_command_result(): waits for room in the queue.
PutCommandResult(c) ==
    /\ command[c] \in {"refusing", "failing"}
    /\ Len(outbound) < MaxQueue
    /\ outbound' = Append(outbound,
                          <<IF command[c] = "refusing" THEN "refused"
                                                       ELSE "write_failed", c>>)
    /\ Set(c, "answered")
    /\ UNCHANGED <<usable, emitted, dropped, inflight, serverVars, sessionVars,
                   delivered, replied>>

\* The board notifies the result of a command it received.
ResultNotification(c) ==
    /\ c \in delivered \ replied
    /\ usable
    /\ replied' = replied \cup {c}
    /\ Enqueue(<<"result", c>>)
    /\ UNCHANGED <<usable, inflight, serverVars, sessionVars, command,
                   delivered>>

-----------------------------------------------------------------------------

SessionStep ==
    \/ ConnectFails \/ Authenticated \/ Take \/ Sent
    \/ SendFails    \/ SessionEnds   \/ Wake
    \/ \E t \in {"receiver", "heartbeat"} : TaskEnds(t)

CommandStep(c) ==
    \/ ReceiveCommand(c) \/ BoardReceives(c) \/ WriteAcknowledged(c)
    \/ WriteFails(c) \/ PutCommandResult(c) \/ ResultNotification(c)

Next ==
    \/ ControlConnects \/ ControlDisconnects \/ StateNotification
    \/ SessionStep
    \/ \E c \in Command : CommandStep(c)

Spec == Init /\ [][Next]_vars

(***************************************************************************)
(* Fairness.  The event loop runs every ready task.  A WebSocket write and *)
(* a BLE write end, with success or an error: websockets pings the server  *)
(* (ping_timeout=20) and the BLE stack supervises the link.  Nothing makes *)
(* the server accept a connection, send a command, or the board answer.    *)
(***************************************************************************)
Fairness ==
    /\ WF_vars(Take)
    /\ WF_vars(Sent \/ SendFails)
    /\ WF_vars(SessionEnds)
    /\ WF_vars(Wake)
    /\ \A c \in Command :
          /\ WF_vars(WriteAcknowledged(c) \/ WriteFails(c))
          /\ WF_vars(PutCommandResult(c))

FairSpec == Spec /\ Fairness

-----------------------------------------------------------------------------
(* Properties *)

InQueue == {outbound[i] : i \in 1 .. Len(outbound)}
Held == InQueue \cup ({inflight} \ {None})

\* A command result the gateway made or received is never lost: it waits in
\* the queue or in the sender's hands until the server has it, through any
\* number of broken sessions.  Only a full queue may refuse it.
ResultsKept ==
    \A c \in Command :
        /\ command[c] = "answered" =>
              \E k \in {"refused", "write_failed"} :
                  <<k, c>> \in Held \cup sent \cup dropped
        /\ c \in replied => <<"result", c>> \in Held \cup sent \cup dropped

\* A command answered with "not connected", "not configured" or "unsupported"
\* never reached the board, whatever the board and the session do later.
RefusedNeverDelivered ==
    \A c \in Command :
        <<"refused", c>> \in Held \cup sent => c \notin delivered

\* A state message leaves the gateway only because the server got it, a newer
\* one of its kind was made, or the queue was full: the newest state of each
\* kind survives a broken session.
StatesSuperseded ==
    [][\A m \in Held \ Held' :
          m[1] \in StateKind =>
              \/ shown'[m[1]] = m[2]
              \/ emitted'[m[1]] > emitted[m[1]]
              \/ m \in dropped']_vars

\* State messages never cost a result its place: a result is dropped only
\* when it is itself put on a full queue.
ResultsNotEvicted ==
    [][\A m \in InQueue :
          m[1] \in ResultKind => m \in InQueue' \/ m = inflight']_vars

\* The receiver never stays with one command: each ends written, answered or
\* abandoned with its session, even when the queue is full.
CommandsSettle ==
    \A c \in Command : command[c] \in Busy ~> command[c] \notin Busy

\* A session that stays up empties the queue.
QueueDrains ==
    <>[](session = "open" /\ ended = {}) => []<>(outbound = <<>>)

\* The README: while the server is away the queue keeps "the newest value per
\* device and kind of data".  Once everything is sent, the server shows the
\* newest state.
NewestShown ==
    Held = {} => \A k \in StateKind :
        shown[k] = emitted[k] \/ <<k, emitted[k]>> \in dropped

\* The comment of _run_websocket_forever(): a session that had connected
\* resets the delay, as _run_ble_forever() does.
SuccessResetsDelay ==
    [][session = "open" /\ session' = "sleeping" => retryDelay' = 1]_vars
=============================================================================
