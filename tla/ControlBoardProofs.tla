-------------------------- MODULE ControlBoardProofs --------------------------
(***************************************************************************)
(* The control board never advertises while it holds a link, however many  *)
(* link events the BLE stack has still to call back.  A link goes through  *)
(* phases: the board advertises; the gateway has connected and onConnect() *)
(* is still to come; the board knows of the link; the link has ended and   *)
(* onDisconnect() is still to come; it has come.  loop() starts the        *)
(* advertising anew only in the last one, because wasBleConnected without  *)
(* bleConnected tells it from the others; between its tests and the call   *)
(* the phase does not change, as nobody can connect.  And it comes to that *)
(* phase after every link, as the end of a link is told.                   *)
(***************************************************************************)
EXTENDS ControlBoard, TLAPS

Waits(event) == \E i \in 1..Len(events) : events[i] = event

\* The two callbacks of one link come once each, and in their order.
CallbacksInOrder ==
    \A i, j \in 1..Len(events) :
        /\ events[i] = "connect" /\ events[j] = "connect" => i = j
        /\ events[i] = "disconnect" /\ events[j] = "disconnect" => i = j
        /\ events[i] = "connect" /\ events[j] = "disconnect" => i < j

LinkInv ==
    /\ advertising => /\ ~link /\ ~bleConnected /\ ~wasBleConnected
                      /\ ~Waits("connect") /\ ~Waits("disconnect")
    /\ link => bleConnected \/ Waits("connect")
    /\ Waits("connect") => ~bleConnected /\ ~wasBleConnected
    /\ Waits("disconnect") => ~link /\ (bleConnected \/ Waits("connect"))
    /\ CallbacksInOrder
    /\ loop \in {"elapsed", "restart"} => ~bleConnected /\ wasBleConnected

BoardInv == TypeOK /\ LinkInv

----------------------------------------------------------------------------
(* The queue of callbacks *)

LEMMA Posted ==
    ASSUME TypeOK, NEW event \in Event, Post(event)
    PROVE  /\ events' \in Seq(Event) /\ Len(events') = Len(events) + 1
           /\ Len(events') =< MaxEvents
           /\ \A i \in 1..Len(events) : events'[i] = events[i]
           /\ events'[Len(events) + 1] = event
  BY MaxEventsAssumption DEF TypeOK, Post

LEMMA Called ==
    ASSUME TypeOK, events # <<>>, events' = Tail(events)
    PROVE  /\ Head(events) \in Event /\ Head(events) = events[1]
           /\ events' \in Seq(Event) /\ Len(events') = Len(events) - 1
           /\ Len(events') =< MaxEvents
           /\ \A i \in 1..Len(events') : events'[i] = events[i + 1]
  BY MaxEventsAssumption DEF TypeOK

LEMMA WaitsAfterPost ==
    ASSUME TypeOK, NEW event \in Event, Post(event), NEW other
    PROVE  Waits(other)' <=> Waits(other) \/ other = event
<1> USE Posted
<1>1. ASSUME Waits(other) PROVE Waits(other)'
  <2>1. PICK i \in 1..Len(events) : events[i] = other
    BY <1>1 DEF Waits
  <2>2. i \in 1..Len(events') /\ events'[i] = other
    BY <2>1
  <2> QED BY <2>2 DEF Waits
<1>2. ASSUME other = event PROVE Waits(other)'
  <2>1. Len(events) + 1 \in 1..Len(events') /\ events'[Len(events) + 1] = other
    BY <1>2 DEF TypeOK
  <2> QED BY <2>1 DEF Waits
<1>3. ASSUME Waits(other)', other # event PROVE Waits(other)
  <2>1. PICK i \in 1..Len(events') : events'[i] = other
    BY <1>3 DEF Waits
  <2>2. i \in 1..Len(events) /\ events[i] = other
    BY <2>1, <1>3 DEF TypeOK
  <2> QED BY <2>2 DEF Waits
<1> QED BY <1>1, <1>2, <1>3

LEMMA WaitsAfterCall ==
    ASSUME TypeOK, events # <<>>, events' = Tail(events), NEW other
    PROVE  /\ Waits(other)' => Waits(other)
           /\ Waits(other) => Waits(other)' \/ other = Head(events)
<1> USE Called
<1>1. ASSUME Waits(other)' PROVE Waits(other)
  <2>1. PICK i \in 1..Len(events') : events'[i] = other
    BY <1>1 DEF Waits
  <2>2. i + 1 \in 1..Len(events) /\ events[i + 1] = other
    BY <2>1 DEF TypeOK
  <2> QED BY <2>2 DEF Waits
<1>2. ASSUME Waits(other), other # Head(events) PROVE Waits(other)'
  <2>1. PICK i \in 1..Len(events) : events[i] = other
    BY <1>2 DEF Waits
  <2>2. i # 1
    BY <1>2, <2>1
  <2>3. i - 1 \in 1..Len(events')
    BY <2>1, <2>2 DEF TypeOK
  <2>4. events'[i - 1] = other
    BY <2>1, <2>3
  <2> QED BY <2>3, <2>4 DEF Waits
<1> QED BY <1>1, <1>2

\* What is taken from the head does not come again.
LEMMA HeadWaitsOnce ==
    ASSUME TypeOK, CallbacksInOrder, events # <<>>, events' = Tail(events)
    PROVE  /\ CallbacksInOrder'
           /\ Waits(Head(events))
           /\ Head(events) = "connect" => ~Waits("connect")'
           /\ Head(events) = "disconnect" => ~Waits("disconnect")' /\ ~Waits("connect")
<1> USE Called
<1>0. 1 \in 1..Len(events) /\ \A i \in 1..Len(events') : i + 1 \in 1..Len(events) /\ i + 1 # 1
  BY DEF TypeOK
<1>1. CallbacksInOrder'
  <2> SUFFICES ASSUME NEW i \in 1..Len(events'), NEW j \in 1..Len(events')
               PROVE  /\ events'[i] = "connect" /\ events'[j] = "connect" => i = j
                      /\ events'[i] = "disconnect" /\ events'[j] = "disconnect" => i = j
                      /\ events'[i] = "connect" /\ events'[j] = "disconnect" => i < j
    BY DEF CallbacksInOrder
  <2>1. events'[i] = events[i + 1] /\ events'[j] = events[j + 1]
    OBVIOUS
  <2> QED BY <2>1, <1>0 DEF CallbacksInOrder
<1>2. Waits(Head(events))
  BY <1>0 DEF Waits
<1>3. Head(events) = "connect" => ~Waits("connect")'
  BY <1>0 DEF Waits, CallbacksInOrder
<1>4. Head(events) = "disconnect" => ~Waits("disconnect")' /\ ~Waits("connect")
  BY <1>0 DEF Waits, CallbacksInOrder
<1> QED BY <1>1, <1>2, <1>3, <1>4

LEMMA OrderAfterPost ==
    ASSUME TypeOK, CallbacksInOrder, NEW event \in Event, Post(event),
           event = "connect" => ~Waits("connect") /\ ~Waits("disconnect"),
           event = "disconnect" => ~Waits("disconnect")
    PROVE  CallbacksInOrder'
<1> USE Posted
<1> SUFFICES ASSUME NEW i \in 1..Len(events'), NEW j \in 1..Len(events')
             PROVE  /\ events'[i] = "connect" /\ events'[j] = "connect" => i = j
                    /\ events'[i] = "disconnect" /\ events'[j] = "disconnect" => i = j
                    /\ events'[i] = "connect" /\ events'[j] = "disconnect" => i < j
  BY DEF CallbacksInOrder
<1>1. i \in 1..Len(events) \/ i = Len(events) + 1
  BY DEF TypeOK
<1>2. j \in 1..Len(events) \/ j = Len(events) + 1
  BY DEF TypeOK
<1>3. CASE i \in 1..Len(events) /\ j \in 1..Len(events)
  BY <1>3 DEF CallbacksInOrder
<1>4. CASE i = Len(events) + 1
  BY <1>2, <1>4 DEF Waits, TypeOK
<1>5. CASE i \in 1..Len(events) /\ j = Len(events) + 1
  BY <1>5 DEF Waits, TypeOK
<1> QED BY <1>1, <1>2, <1>3, <1>4, <1>5

----------------------------------------------------------------------------
(* Types *)

LEMMA TypesKept ==
    ASSUME TypeOK, [Next]_vars
    PROVE  TypeOK'
<1> USE DEF TypeOK, linkVars, flagVars, timeVars, fanVars, loopVars, FanCommand, OtherCommand, Event
<1>1. CASE GatewayConnects
  BY <1>1, Posted DEF GatewayConnects
<1>2. CASE LinkEnds
  BY <1>2, Posted DEF LinkEnds
<1>3. CASE GatewayWrites
  BY <1>3, Posted DEF GatewayWrites
<1>4. CASE IntervalPasses \/ DelayPasses
  BY <1>4 DEF IntervalPasses, DelayPasses
<1>5. CASE Callback
  BY <1>5, Called DEF Callback
<1>6. CASE BleDrivesRelay \/ BleAsksToPublish \/ BleStampsDisconnect
  BY <1>6 DEF BleDrivesRelay, BleAsksToPublish, BleStampsDisconnect
<1>7. CASE Button \/ Toggle \/ LoopDrivesRelay \/ LoopAsksToPublish
  BY <1>7 DEF Button, Toggle, LoopDrivesRelay, LoopAsksToPublish
<1>8. CASE Publish \/ Due \/ ReadState \/ NotifyState \/ ClearRequest
  BY <1>8 DEF Publish, Due, ReadState, NotifyState, ClearRequest
<1>9. CASE Readvertise \/ Elapsed \/ Restart \/ Remember
  BY <1>9 DEF Readvertise, Elapsed, Restart, Remember
<1>10. CASE UNCHANGED vars
  BY <1>10 DEF vars
<1> QED BY <1>1, <1>2, <1>3, <1>4, <1>5, <1>6, <1>7, <1>8, <1>9, <1>10
        DEF Next, Environment, BleTask, Loop

----------------------------------------------------------------------------
(* The link *)

LinkState == <<link, advertising, events, bleConnected, wasBleConnected>>

LEMMA LinkUntouched ==
    ASSUME LinkInv, UNCHANGED LinkState,
           loop' = loop \/ loop' \notin {"elapsed", "restart"}
    PROVE  LinkInv'
  BY DEF LinkInv, LinkState, Waits, CallbacksInOrder

LEMMA ConnectingKeepsLink ==
    ASSUME BoardInv, GatewayConnects
    PROVE  LinkInv'
<1>1. "connect" \in Event /\ Post("connect")
  BY DEF GatewayConnects, Event
<1>2. CallbacksInOrder'
  BY <1>1, OrderAfterPost DEF BoardInv, LinkInv, GatewayConnects
<1>3. Waits("connect")' /\ (Waits("disconnect")' <=> Waits("disconnect"))
  BY <1>1, WaitsAfterPost DEF BoardInv
<1> QED BY <1>2, <1>3 DEF BoardInv, LinkInv, GatewayConnects, flagVars, loopVars

LEMMA EndingKeepsLink ==
    ASSUME BoardInv, LinkEnds
    PROVE  LinkInv'
<1>1. "disconnect" \in Event /\ Post("disconnect")
  BY DEF LinkEnds, Event
<1>2. CallbacksInOrder'
  BY <1>1, OrderAfterPost DEF BoardInv, LinkInv, LinkEnds
<1>3. Waits("disconnect")' /\ (Waits("connect")' <=> Waits("connect"))
  BY <1>1, WaitsAfterPost DEF BoardInv
<1> QED BY <1>2, <1>3 DEF BoardInv, LinkInv, LinkEnds, flagVars, loopVars

LEMMA WritingKeepsLink ==
    ASSUME BoardInv, GatewayWrites
    PROVE  LinkInv'
<1>1. PICK c \in FanCommand \cup OtherCommand : Post(c)
  BY DEF GatewayWrites
<1>2. c \in Event /\ c # "connect" /\ c # "disconnect"
  BY <1>1 DEF Event, FanCommand, OtherCommand
<1>3. CallbacksInOrder'
  BY <1>1, <1>2, OrderAfterPost DEF BoardInv, LinkInv
<1>4. (Waits("disconnect")' <=> Waits("disconnect")) /\ (Waits("connect")' <=> Waits("connect"))
  BY <1>1, <1>2, WaitsAfterPost DEF BoardInv
<1> QED BY <1>3, <1>4 DEF BoardInv, LinkInv, GatewayWrites, linkVars, flagVars, loopVars

LEMMA CallbackKeepsLink ==
    ASSUME BoardInv, Callback
    PROVE  LinkInv'
<1>1. TypeOK /\ LinkInv /\ CallbacksInOrder /\ events # <<>> /\ events' = Tail(events)
  BY DEF BoardInv, LinkInv, Callback
<1>2. UNCHANGED <<link, advertising, loop, wasBleConnected>>
  BY DEF Callback, linkVars, loopVars
<1>3. CallbacksInOrder' /\ Waits(Head(events))
  BY <1>1, HeadWaitsOnce
<1>4. CASE Head(events) = "connect"
  <2>1. bleConnected' = TRUE /\ ~Waits("connect")' /\ Waits("connect")
    BY <1>1, <1>3, <1>4, HeadWaitsOnce DEF Callback
  <2>2. Waits("disconnect")' <=> Waits("disconnect")
    BY <1>1, <1>4, WaitsAfterCall
  <2> QED BY <1>1, <1>2, <1>3, <2>1, <2>2 DEF LinkInv
<1>5. CASE Head(events) = "disconnect"
  <2>1. bleConnected' = FALSE /\ ~Waits("disconnect")' /\ ~Waits("connect") /\ Waits("disconnect")
    BY <1>1, <1>3, <1>5, HeadWaitsOnce DEF Callback
  <2>2. ~Waits("connect")'
    BY <1>1, <2>1, WaitsAfterCall
  <2> QED BY <1>1, <1>2, <1>3, <2>1, <2>2 DEF LinkInv
<1>6. CASE Head(events) \notin {"connect", "disconnect"}
  <2>1. bleConnected' = bleConnected
    BY <1>6 DEF Callback
  <2>2. (Waits("disconnect")' <=> Waits("disconnect")) /\ (Waits("connect")' <=> Waits("connect"))
    BY <1>1, <1>6, WaitsAfterCall
  <2> QED BY <1>1, <1>2, <1>3, <2>1, <2>2 DEF LinkInv
<1> QED BY <1>4, <1>5, <1>6

\* loop() restarts the advertising when its link is known to be over.  What it
\* has tested by then stays so: no onConnect() is to come (LinkInv).
LEMMA LoopKeepsLink ==
    ASSUME BoardInv, Readvertise \/ Elapsed \/ Restart \/ Remember
    PROVE  LinkInv'
<1> USE DEF linkVars, flagVars
<1>1. UNCHANGED <<link, events, bleConnected>>
  BY DEF Readvertise, Elapsed, Restart, Remember
<1>2. /\ Waits("connect")' <=> Waits("connect")
      /\ Waits("disconnect")' <=> Waits("disconnect")
      /\ CallbacksInOrder' <=> CallbacksInOrder
  BY <1>1 DEF Waits, CallbacksInOrder
<1>3. CASE Readvertise
  BY <1>1, <1>2, <1>3 DEF BoardInv, LinkInv, Readvertise
<1>4. CASE Elapsed
  BY <1>1, <1>2, <1>4 DEF BoardInv, LinkInv, Elapsed
<1>5. CASE Restart
  BY <1>1, <1>2, <1>5 DEF BoardInv, LinkInv, Restart
<1>6. CASE Remember
  BY <1>1, <1>2, <1>6 DEF BoardInv, LinkInv, Remember, TypeOK
<1> QED BY <1>3, <1>4, <1>5, <1>6

LEMMA LinkKept ==
    ASSUME BoardInv, [Next]_vars
    PROVE  LinkInv'
<1> USE DEF LinkState, linkVars, flagVars, timeVars, fanVars, loopVars
<1>1. CASE GatewayConnects \/ LinkEnds \/ GatewayWrites
  BY <1>1, ConnectingKeepsLink, EndingKeepsLink, WritingKeepsLink
<1>2. CASE IntervalPasses \/ DelayPasses
  BY <1>2, LinkUntouched DEF BoardInv, IntervalPasses, DelayPasses
<1>3. CASE Callback
  BY <1>3, CallbackKeepsLink
<1>4. CASE BleDrivesRelay \/ BleAsksToPublish \/ BleStampsDisconnect
  BY <1>4, LinkUntouched DEF BoardInv, BleDrivesRelay, BleAsksToPublish, BleStampsDisconnect
<1>5. CASE Button \/ Toggle \/ LoopDrivesRelay \/ LoopAsksToPublish
  BY <1>5, LinkUntouched DEF BoardInv, Button, Toggle, LoopDrivesRelay, LoopAsksToPublish
<1>6. CASE Publish \/ Due \/ ReadState \/ NotifyState \/ ClearRequest
  BY <1>6, LinkUntouched DEF BoardInv, Publish, Due, ReadState, NotifyState, ClearRequest
<1>7. CASE Readvertise \/ Elapsed \/ Restart \/ Remember
  BY <1>7, LoopKeepsLink
<1>8. CASE UNCHANGED vars
  BY <1>8, LinkUntouched DEF BoardInv, vars
<1> QED BY <1>1, <1>2, <1>3, <1>4, <1>5, <1>6, <1>7, <1>8
        DEF Next, Environment, BleTask, Loop

LEMMA BoardInvHolds == Spec => []BoardInv
<1>1. Init => BoardInv
  <2> SUFFICES ASSUME Init PROVE BoardInv
    OBVIOUS
  <2>1. TypeOK
    <3>1. events \in Seq(Event) /\ Len(events) =< MaxEvents
      BY MaxEventsAssumption DEF Init
    <3> QED BY <3>1 DEF Init, TypeOK
  <2>2. LinkInv
    BY DEF Init, LinkInv, Waits, CallbacksInOrder
  <2> QED BY <2>1, <2>2 DEF BoardInv
<1>2. BoardInv /\ [Next]_vars => BoardInv'
  BY TypesKept, LinkKept DEF BoardInv
<1> QED BY <1>1, <1>2, PTL DEF Spec

----------------------------------------------------------------------------
(* The board's state keeps its types, and no more callbacks wait than the  *)
(* stack can hold (the globals of dudeoji_control.ino:64-79).              *)
THEOREM BoardTypes == Spec => []TypeOK
  BY BoardInvHolds, PTL DEF BoardInv

(* The board never advertises while it holds a link, however late the      *)
(* callbacks run and wherever loop() is between its reads of their flags   *)
(* (dudeoji_control.ino:393-406).                                          *)
THEOREM AdvertisingIsAlone == Spec => []AdvertisesOnlyAlone
  BY BoardInvHolds, PTL DEF BoardInv, LinkInv, AdvertisesOnlyAlone

----------------------------------------------------------------------------
(* What SeenLinkResumes needs beside fairness: the end of a link is told.  *)

\* The board takes itself for connected, or is going to, without a link only
\* while onDisconnect() is still to come.
EndIsTold == ~link /\ (bleConnected \/ Waits("connect")) => Waits("disconnect")

LEMMA PostsAreTold ==
    ASSUME TypeOK, EndIsTold, GatewayConnects \/ LinkEnds \/ GatewayWrites
    PROVE  EndIsTold'
<1> USE DEF linkVars, flagVars, loopVars
<1>1. CASE GatewayConnects
  BY <1>1 DEF GatewayConnects, EndIsTold
<1>2. CASE LinkEnds
  <2>1. "disconnect" \in Event /\ Post("disconnect")
    BY <1>2 DEF LinkEnds, Event
  <2> QED BY <2>1, WaitsAfterPost DEF EndIsTold
<1>3. CASE GatewayWrites
  <2>1. PICK c \in FanCommand \cup OtherCommand : Post(c)
    BY <1>3 DEF GatewayWrites
  <2>2. c \in Event /\ c # "connect" /\ c # "disconnect"
    BY <2>1 DEF Event, FanCommand, OtherCommand
  <2>3. (Waits("disconnect")' <=> Waits("disconnect")) /\ (Waits("connect")' <=> Waits("connect"))
    BY <2>1, <2>2, WaitsAfterPost
  <2> QED BY <1>3, <2>3 DEF EndIsTold, GatewayWrites
<1> QED BY <1>1, <1>2, <1>3

LEMMA CallbackIsTold ==
    ASSUME BoardInv, EndIsTold, Callback
    PROVE  EndIsTold'
<1>1. TypeOK /\ CallbacksInOrder /\ events # <<>> /\ events' = Tail(events) /\ UNCHANGED link
  BY DEF BoardInv, LinkInv, Callback, linkVars
<1>2. CASE Head(events) = "connect"
  <2>1. Waits("connect") /\ (Waits("disconnect")' <=> Waits("disconnect"))
    BY <1>1, <1>2, HeadWaitsOnce, WaitsAfterCall
  <2> QED BY <1>1, <2>1 DEF EndIsTold
<1>3. CASE Head(events) = "disconnect"
  <2>1. bleConnected' = FALSE /\ ~Waits("connect")
    BY <1>1, <1>3, HeadWaitsOnce DEF Callback
  <2>2. ~Waits("connect")'
    BY <1>1, <2>1, WaitsAfterCall
  <2> QED BY <2>1, <2>2 DEF EndIsTold
<1>4. CASE Head(events) \notin {"connect", "disconnect"}
  <2>1. bleConnected' = bleConnected
    BY <1>4 DEF Callback
  <2>2. (Waits("disconnect")' <=> Waits("disconnect")) /\ (Waits("connect")' <=> Waits("connect"))
    BY <1>1, <1>4, WaitsAfterCall
  <2> QED BY <1>1, <2>1, <2>2 DEF EndIsTold
<1> QED BY <1>2, <1>3, <1>4

(* Whatever the link does while callbacks are queued, the board never      *)
(* takes a link that is over for one that lasts, but for the time until    *)
(* onDisconnect() runs: then loop(), which has seen it, can advertise      *)
(* again (dudeoji_control.ino:262-275, 393-406).                           *)
THEOREM LinkEndsAreTold == Spec => []EndIsTold
<1>1. Init => EndIsTold
  BY DEF Init, EndIsTold, Waits
<1>2. BoardInv /\ EndIsTold /\ [Next]_vars => EndIsTold'
  <2> SUFFICES ASSUME BoardInv, EndIsTold, [Next]_vars PROVE EndIsTold'
    OBVIOUS
  <2>1. CASE GatewayConnects \/ LinkEnds \/ GatewayWrites
    BY <2>1, PostsAreTold DEF BoardInv
  <2>2. CASE Callback
    BY <2>2, CallbackIsTold
  <2>3. CASE \/ IntervalPasses \/ DelayPasses \/ BleDrivesRelay \/ BleAsksToPublish
             \/ BleStampsDisconnect \/ Loop \/ UNCHANGED vars
    <3>1. UNCHANGED <<link, events, bleConnected>>
      BY <2>3 DEF IntervalPasses, DelayPasses, BleDrivesRelay, BleAsksToPublish,
                  BleStampsDisconnect, Loop, Button, Toggle, LoopDrivesRelay,
                  LoopAsksToPublish, Publish, Due, ReadState, NotifyState, ClearRequest,
                  Readvertise, Elapsed, Restart, Remember, vars, linkVars, flagVars
    <3> QED BY <3>1 DEF EndIsTold, Waits
  <2> QED BY <2>1, <2>2, <2>3 DEF Next, Environment, BleTask
<1> QED BY <1>1, <1>2, BoardInvHolds, PTL DEF Spec
=============================================================================
