---------------------------- MODULE ControlBoard ----------------------------
(***************************************************************************)
(* The firmware of the control board (dudeoji_control.ino): the Arduino    *)
(* loop() and the callbacks of the BLE stack, which run in a task of their *)
(* own and share fanOn, the relay pin, bleConnected and forcePublish with  *)
(* it, without a lock.  A step is one access to what they share.           *)
(*                                                                         *)
(* Time is abstract: an interval that has not passed may pass at any time. *)
(* dudeoji_sense.ino and dudeoji_xiao.ino have the same connection logic.  *)
(***************************************************************************)
EXTENDS Naturals, Sequences

CONSTANT MaxEvents    \* bound: link events and writes the BLE task has to do

ASSUME MaxEventsAssumption == MaxEvents \in Nat \ {0}

VARIABLES
    link,             \* the gateway and the board hold a radio link
    advertising,      \* the board can be found
    events,           \* what the stack still has to call back, oldest first
    ble,              \* where the BLE task is
    loop,             \* where loop() is
    bleConnected, wasBleConnected, forcePublish,
    publishDue,       \* PUBLISH_INTERVAL_MS has passed since lastPublishAt
    delayOver,        \* BLE_READVERTISE_DELAY_MS since disconnectedAt
    fanOn,            \* what the firmware believes of the fan
    relay,            \* what the relay pin is set to
    toggle,           \* loop(): the value handleManualButton() computed
    document,         \* loop(): the fan_on of the state being published
    reported          \* the fan_on the gateway was notified of last

linkVars == <<link, advertising>>
flagVars == <<bleConnected, forcePublish>>
timeVars == <<publishDue, delayOver>>
fanVars  == <<fanOn, relay>>
loopVars == <<loop, wasBleConnected, toggle, document>>
vars == <<linkVars, events, ble, loopVars, flagVars, timeVars, fanVars,
          reported>>

FanCommand   == {"TURN_ON_AIRCON", "TURN_OFF_AIRCON"}
OtherCommand == {"OPEN_WINDOW", "unsupported"}    \* CLOSE_WINDOW is alike
Event == {"connect", "disconnect"} \cup FanCommand \cup OtherCommand

TypeOK ==
    /\ {link, advertising, bleConnected, wasBleConnected, forcePublish,
        publishDue, delayOver, fanOn, relay, toggle, document, reported}
          \subseteq BOOLEAN
    /\ events \in Seq(Event) /\ Len(events) =< MaxEvents
    /\ ble \in {"idle", "connected", "disconnected", "on", "off", "changed"}
    /\ loop \in {"button", "toggle", "drive", "ask", "publish", "due", "read",
                 "notify", "clear", "readvertise", "elapsed", "restart",
                 "remember"}

\* After setup(): the fan is off, the board advertises.
Init ==
    /\ link = FALSE /\ advertising = TRUE
    /\ events = <<>> /\ ble = "idle" /\ loop = "button"
    /\ bleConnected = FALSE /\ wasBleConnected = FALSE /\ forcePublish = TRUE
    /\ publishDue = FALSE /\ delayOver = FALSE
    /\ fanOn = FALSE /\ relay = FALSE
    /\ toggle = FALSE /\ document = FALSE /\ reported = FALSE

-----------------------------------------------------------------------------
(* The gateway and time *)

Post(event) == Len(events) < MaxEvents /\ events' = Append(events, event)

\* The gateway finds the board and connects, which ends the advertising.
GatewayConnects ==
    /\ advertising
    /\ link' = TRUE
    /\ advertising' = FALSE
    /\ Post("connect")
    /\ UNCHANGED <<ble, loopVars, flagVars, timeVars, fanVars, reported>>

\* Either side loses the link, or the gateway gives it up: a subscription
\* that failed, a process that ended.
LinkEnds ==
    /\ link
    /\ link' = FALSE
    /\ Post("disconnect")
    /\ UNCHANGED <<advertising, ble, loopVars, flagVars, timeVars, fanVars,
                   reported>>

GatewayWrites ==
    /\ link
    /\ \E c \in FanCommand \cup OtherCommand : Post(c)
    /\ UNCHANGED <<linkVars, ble, loopVars, flagVars, timeVars, fanVars,
                   reported>>

IntervalPasses ==
    /\ ~publishDue
    /\ publishDue' = TRUE
    /\ UNCHANGED <<linkVars, events, ble, loopVars, flagVars, delayOver,
                   fanVars, reported>>

DelayPasses ==
    /\ ~delayOver
    /\ delayOver' = TRUE
    /\ UNCHANGED <<linkVars, events, ble, loopVars, flagVars, publishDue,
                   fanVars, reported>>

-----------------------------------------------------------------------------
(* The BLE task.  A Faulty... operator is a variant with one mistake that    *)
(* stands before the operator it would replace; it is not part of Next.     *)

\* onConnect(), onDisconnect() and onWrite(), first access.  A command that
\* moves the servo or is refused touches nothing the tasks share but the
\* publish flag, and a refused one not even that.
Callback ==
    /\ ble = "idle"
    /\ events # <<>>
    /\ events' = Tail(events)
    /\ LET event == Head(events) IN
          /\ ble' = CASE event = "connect"         -> "connected"
                      [] event = "disconnect"      -> "disconnected"
                      [] event = "TURN_ON_AIRCON"  -> "on"
                      [] event = "TURN_OFF_AIRCON" -> "off"
                      [] event = "unsupported"     -> "idle"
                      [] OTHER                     -> "changed"
          /\ bleConnected' = CASE event = "connect"    -> TRUE
                               [] event = "disconnect" -> FALSE
                               [] OTHER                -> bleConnected
          /\ fanOn' = IF event \in FanCommand THEN event = "TURN_ON_AIRCON"
                                              ELSE fanOn
    /\ UNCHANGED <<linkVars, loopVars, forcePublish, timeVars, relay, reported>>

\* setFan(): the pin follows.
BleDrivesRelay ==
    /\ ble \in {"on", "off"}
    /\ relay' = (ble = "on")
    /\ ble' = "changed"
    /\ UNCHANGED <<linkVars, events, loopVars, flagVars, timeVars, fanOn,
                   reported>>

\* onConnect() and a command that was carried out ask for a state at once.
BleAsksToPublish ==
    /\ ble \in {"connected", "changed"}
    /\ forcePublish' = TRUE
    /\ ble' = "idle"
    /\ UNCHANGED <<linkVars, events, loopVars, bleConnected, timeVars, fanVars,
                   reported>>

BleStampsDisconnect ==
    /\ ble = "disconnected"
    /\ delayOver' = FALSE
    /\ ble' = "idle"
    /\ UNCHANGED <<linkVars, events, loopVars, flagVars, publishDue, fanVars,
                   reported>>

-----------------------------------------------------------------------------
(* loop() *)

\* handleManualButton(): nothing pressed, or the debounced press reads fanOn.
Button ==
    /\ loop = "button"
    /\ \/ loop' = "publish" /\ UNCHANGED toggle
       \/ loop' = "toggle" /\ toggle' = ~fanOn
    /\ UNCHANGED <<linkVars, events, ble, wasBleConnected, document, flagVars,
                   timeVars, fanVars, reported>>

Toggle ==
    /\ loop = "toggle"
    /\ fanOn' = toggle
    /\ loop' = "drive"
    /\ UNCHANGED <<linkVars, events, ble, wasBleConnected, toggle, document,
                   flagVars, timeVars, relay, reported>>

LoopDrivesRelay ==
    /\ loop = "drive"
    /\ relay' = toggle
    /\ loop' = "ask"
    /\ UNCHANGED <<linkVars, events, ble, wasBleConnected, toggle, document,
                   flagVars, timeVars, fanOn, reported>>

LoopAsksToPublish ==
    /\ loop = "ask"
    /\ forcePublish' = TRUE
    /\ loop' = "publish"
    /\ UNCHANGED <<linkVars, events, ble, wasBleConnected, toggle, document,
                   bleConnected, timeVars, fanVars, reported>>

\* Is there anybody to publish to, ...
Publish ==
    /\ loop = "publish"
    /\ loop' = IF bleConnected THEN "due" ELSE "readvertise"
    /\ UNCHANGED <<linkVars, events, ble, wasBleConnected, toggle, document,
                   flagVars, timeVars, fanVars, reported>>

\* States are published on request only.
FaultyDue ==
    /\ loop = "due"
    /\ loop' = IF forcePublish THEN "read" ELSE "readvertise"
    /\ UNCHANGED <<linkVars, events, ble, wasBleConnected, toggle, document,
                   flagVars, timeVars, fanVars, reported>>

\* ... and is it time?
Due ==
    /\ loop = "due"
    /\ loop' = IF forcePublish \/ publishDue THEN "read" ELSE "readvertise"
    /\ UNCHANGED <<linkVars, events, ble, wasBleConnected, toggle, document,
                   flagVars, timeVars, fanVars, reported>>

\* publishControlState() fills the document ...
ReadState ==
    /\ loop = "read"
    /\ document' = fanOn
    /\ loop' = "notify"
    /\ UNCHANGED <<linkVars, events, ble, wasBleConnected, toggle, flagVars,
                   timeVars, fanVars, reported>>

\* ... notifies it if still connected; without a link nobody gets it ...
NotifyState ==
    /\ loop = "notify"
    /\ reported' = IF bleConnected /\ link THEN document ELSE reported
    /\ loop' = "clear"
    /\ UNCHANGED <<linkVars, events, ble, wasBleConnected, toggle, document,
                   flagVars, timeVars, fanVars>>

\* ... and clears the request, also one made since the document was filled.
ClearRequest ==
    /\ loop = "clear"
    /\ publishDue' = FALSE
    /\ forcePublish' = FALSE
    /\ loop' = "readvertise"
    /\ UNCHANGED <<linkVars, events, ble, wasBleConnected, toggle, document,
                   bleConnected, delayOver, fanVars, reported>>

\* Whenever there is no connection.
FaultyReadvertise ==
    /\ loop = "readvertise"
    /\ loop' = IF bleConnected THEN "remember" ELSE "elapsed"
    /\ UNCHANGED <<linkVars, events, ble, wasBleConnected, toggle, document,
                   flagVars, timeVars, fanVars, reported>>

\* A connection that loop() has seen is gone, ...
Readvertise ==
    /\ loop = "readvertise"
    /\ loop' = IF ~bleConnected /\ wasBleConnected THEN "elapsed" ELSE "remember"
    /\ UNCHANGED <<linkVars, events, ble, wasBleConnected, toggle, document,
                   flagVars, timeVars, fanVars, reported>>

\* The flag is forgotten before the delay is over.
FaultyElapsed ==
    /\ loop = "elapsed"
    /\ loop' = IF delayOver THEN "restart" ELSE "remember"
    /\ wasBleConnected' = FALSE
    /\ UNCHANGED <<linkVars, events, ble, toggle, document, flagVars, timeVars,
                   fanVars, reported>>

\* ... for long enough by the time onDisconnect() has stamped, or by an older
\* one while it has yet to ...
Elapsed ==
    /\ loop = "elapsed"
    /\ loop' = IF delayOver THEN "restart" ELSE "remember"
    /\ UNCHANGED <<linkVars, events, ble, wasBleConnected, toggle, document,
                   flagVars, timeVars, fanVars, reported>>

\* ... so startAdvertising(), whatever has become of the link since.
Restart ==
    /\ loop = "restart"
    /\ advertising' = TRUE
    /\ wasBleConnected' = FALSE
    /\ loop' = "remember"
    /\ UNCHANGED <<link, events, ble, toggle, document, flagVars, timeVars,
                   fanVars, reported>>

Remember ==
    /\ loop = "remember"
    /\ wasBleConnected' = (wasBleConnected \/ bleConnected)
    /\ loop' = "button"
    /\ UNCHANGED <<linkVars, events, ble, toggle, document, flagVars, timeVars,
                   fanVars, reported>>

-----------------------------------------------------------------------------

Environment ==
    \/ GatewayConnects \/ LinkEnds \/ GatewayWrites
    \/ IntervalPasses  \/ DelayPasses

BleTask ==
    \/ Callback \/ BleDrivesRelay \/ BleAsksToPublish \/ BleStampsDisconnect

Loop ==
    \/ Button  \/ Toggle    \/ LoopDrivesRelay \/ LoopAsksToPublish
    \/ Publish \/ Due \/ ReadState \/ NotifyState \/ ClearRequest
    \/ Readvertise \/ Elapsed \/ Restart \/ Remember

Next == Environment \/ BleTask \/ Loop

Spec == Init /\ [][Next]_vars

\* Both tasks are scheduled, time passes, and the gateway, which searches for
\* ever, finds a board that advertises.  The button may be left alone.
Fairness ==
    /\ WF_vars(BleTask) /\ WF_vars(Loop)
    /\ WF_vars(IntervalPasses) /\ WF_vars(DelayPasses)
    /\ WF_vars(GatewayConnects)

FairSpec == Spec /\ Fairness

-----------------------------------------------------------------------------
(* Properties *)

\* The board never advertises while it holds a link: the second client that
\* would let in shares the notifications and the two flags with the first.
AdvertisesOnlyAlone == ~(advertising /\ link)

\* While the link lasts, the gateway is told of the fan's last state, even
\* when a request to publish is cleared together with an older one.
ReportCatchesUp ==
    \A v \in BOOLEAN :
        <>[](link /\ events = <<>> /\ fanOn = v) => <>[](reported = v)

\* After a connection loop() has noticed, the board can be found again.
SeenLinkResumes == wasBleConnected /\ ~link ~> advertising

\* The gateway's README: the two boards are searched, connected and
\* reconnected independently.  A board that lost its gateway can be found.
LostLinkResumes == ~link ~> advertising

\* The state the board reports is that of its relay: outside setFan() the
\* belief and the pin agree.
RelayFollowsFan ==
    ble \notin {"on", "off"} /\ loop # "drive" => relay = fanOn
=============================================================================
