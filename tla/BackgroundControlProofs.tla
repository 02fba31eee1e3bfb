----------------------- MODULE BackgroundControlProofs -----------------------
(***************************************************************************)
(* Proofs about the unattended control of a place, for any number of       *)
(* tasks, pages and hours and any learned pattern.                         *)
(*                                                                         *)
(* First the engine, for every room.  It keeps no state, so these are      *)
(* facts about its result: Decision says of each command why it is         *)
(* recommended; following it changes one device and nothing else (Effect), *)
(* and the reasons that led to it exclude those for the opposite command.  *)
(*                                                                         *)
(* What BackgroundControl promises is not inductive.  That background      *)
(* control carries out a transition once rests on the row of the           *)
(* transition never becoming PENDING again (RowsStep), on one task being   *)
(* at work at a time (TasksStep), which needs a task to do one thing after *)
(* the other, and on the task at work having seen the row PENDING before   *)
(* anything was carried out (OnceStep).  ControlInv is the conjunction.    *)
(***************************************************************************)
EXTENDS BackgroundControl, TLAPS

(* The parts of a room are of their types.                                 *)
LEMMA Types ==
    ASSUME NEW r \in Rooms
    PROVE  /\ r.window \in Windows /\ r.ac \in Aircons /\ r.presence \in Presences
           /\ r.plausible \in BOOLEAN /\ r.outsideBad \in BOOLEAN /\ r.hot \in BOOLEAN
           /\ r.humid \in BOOLEAN /\ r.breeze \in BOOLEAN /\ r.cooler \in BOOLEAN
           /\ r.cold \in BOOLEAN /\ r.hold \in BOOLEAN
  BY DEF Rooms

(* The engine without its early returns: what each action it returns says  *)
(* of the room.                                                            *)
LEMMA Decision ==
    ASSUME NEW r \in Rooms, NEW a, a = DetermineAction(r)
    PROVE  /\ a \in Actions
           /\ a = "USE_AIRCON" =>
                /\ r.ac = "off" /\ r.presence # "empty" /\ r.hot
                /\ r.outsideBad \/ ~AirFromOutside(r)
           /\ a = "TURN_OFF_AIRCON" =>
                /\ r.ac = "on" /\ ~r.outsideBad
                /\ \/ r.presence = "empty"
                   \/ r.window = "open" /\ ~r.hot
                   \/ r.hot /\ AirFromOutside(r)
           /\ a = "OPEN_WINDOW" =>
                /\ r.window = "closed" /\ r.ac = "off" /\ ~r.outsideBad
                /\ r.hot /\ AirFromOutside(r)
           /\ a = "CLOSE_WINDOW" =>
                /\ r.window = "open"
                /\ \/ r.outsideBad
                   \/ r.ac = "on" /\ r.presence # "empty" /\ r.hot /\ ~AirFromOutside(r)
                   \/ r.ac = "off" /\ ~r.hot
  BY Types DEF DetermineAction, SensorProblem, ShutOut, Wasteful, ByTemperature, Cooling,
               Ventilating, Windows, Aircons, Actions

(* The engine always returns one of its named actions: no combination of   *)
(* sensors, weather and presence falls through its branches.               *)
THEOREM ActionIsKnown ==
    ASSUME NEW r \in Rooms
    PROVE  DetermineAction(r) \in Actions
  BY Decision

(* What a recommendation asks for is never what the device already does,   *)
(* so that the condition control sends a command for every action that     *)
(* has one, and never a repeated one.                                      *)
THEOREM CommandsChangeSomething ==
    ASSUME NEW r \in Rooms
    PROVE  ConditionCommand(DetermineAction(r), r.window, r.ac)
             = CommandOf(DetermineAction(r))
  <1>1. DetermineAction(r) \in Actions \ {"USE_AIRCON", "TURN_OFF_AIRCON", "OPEN_WINDOW",
                                          "CLOSE_WINDOW"}
           => CommandOf(DetermineAction(r)) = NoCommand
    BY DEF Actions, CommandOf, Commands, NoCommand
  <1>2. CommandOf(DetermineAction(r)) # NoCommand
           => Changes(CommandOf(DetermineAction(r)), r.window, r.ac)
    BY <1>1, Decision DEF Changes, CommandOf, Commands, NoCommand
  <1> QED BY <1>2 DEF ConditionCommand

-----------------------------------------------------------------------------

(* The weather, the presence and the measurements are left alone.          *)
SameRest(r, s) ==
    /\ s.presence = r.presence /\ s.plausible = r.plausible /\ s.outsideBad = r.outsideBad
    /\ s.hot = r.hot /\ s.humid = r.humid /\ s.breeze = r.breeze /\ s.cooler = r.cooler
    /\ s.cold = r.cold /\ s.hold = r.hold

(* What following the recommendation makes of the room.                    *)
LEMMA Effect ==
    ASSUME NEW r \in Rooms, NEW a, a = DetermineAction(r), NEW s, s = Followed(r)
    PROVE  /\ s \in Rooms /\ SameRest(r, s)
           /\ a = "USE_AIRCON" => s.ac = "on" /\ s.window = r.window
           /\ a = "TURN_OFF_AIRCON" => s.ac = "off" /\ s.window = r.window
           /\ a = "OPEN_WINDOW" => s.window = "open" /\ s.ac = r.ac
           /\ a = "CLOSE_WINDOW" => s.window = "closed" /\ s.ac = r.ac
           /\ a \notin {"USE_AIRCON", "TURN_OFF_AIRCON", "OPEN_WINDOW", "CLOSE_WINDOW"}
                => s = r
  <1> DEFINE c == ConditionCommand(DetermineAction(r), r.window, r.ac)
  <1>1. /\ a = "USE_AIRCON" => c = "TURN_ON_AIRCON"
        /\ a \in {"TURN_OFF_AIRCON", "OPEN_WINDOW", "CLOSE_WINDOW"} => c = a
        /\ a \notin {"USE_AIRCON", "TURN_OFF_AIRCON", "OPEN_WINDOW", "CLOSE_WINDOW"}
             => c = NoCommand
    BY CommandsChangeSomething, ActionIsKnown DEF CommandOf, Commands, Actions, NoCommand
  <1>2. s = [r EXCEPT !.window = WindowAfter(c, r.window), !.ac = AirconAfter(c, r.ac)]
    BY DEF Followed
  <1>3. WindowAfter(c, r.window) \in Windows /\ AirconAfter(c, r.ac) \in Aircons
    BY Types DEF WindowAfter, AirconAfter, Windows, Aircons
  <1> HIDE DEF c
  <1>4. /\ s \in Rooms /\ SameRest(r, s)
        /\ s.window = WindowAfter(c, r.window) /\ s.ac = AirconAfter(c, r.ac)
    BY <1>2, <1>3 DEF Rooms, SameRest
  <1>5. c = NoCommand => s = r
    BY <1>2 DEF Rooms, WindowAfter, AirconAfter, NoCommand
  <1> QED BY <1>1, <1>4, <1>5 DEF WindowAfter, AirconAfter

(* An air conditioner that is off stays off in a room known to be empty,   *)
(* whatever is recommended and followed there ("빈 방에서는 꺼진 상태로    *)
(* 안정된다", tests/test_recommendation_engine.py:18).                     *)
THEOREM EmptyRoomStaysOff ==
    ASSUME NEW r \in Rooms, r.presence = "empty", r.ac = "off"
    PROVE  Followed(r).ac = "off"
  BY Decision, Effect

(* A device that was just switched by a recommendation is not switched     *)
(* back by the next one while nothing else changes.                        *)
THEOREM NoFlipBack ==
    ASSUME NEW r \in Rooms
    PROVE  /\ Followed(r).ac # r.ac => Followed(Followed(r)).ac = Followed(r).ac
           /\ Followed(r).window # r.window
                => Followed(Followed(r)).window = Followed(r).window
  <1> DEFINE s == Followed(r)
  <1>1. s \in Rooms /\ SameRest(r, s) BY Effect
  <1>2. AirFromOutside(s) = AirFromOutside(r) BY <1>1 DEF AirFromOutside, SameRest
  <1>3. ASSUME s.ac # r.ac PROVE Followed(s).ac = s.ac
    BY <1>1, <1>2, <1>3, Decision, Effect, Types DEF SameRest
  <1>4. ASSUME s.window # r.window PROVE Followed(s).window = s.window
    BY <1>1, <1>2, <1>4, Decision, Effect, Types DEF SameRest
  <1> QED BY <1>3, <1>4

(* Two recommendations settle any room: the third finds nothing to do.     *)
THEOREM SettlesInTwo ==
    ASSUME NEW r \in Rooms
    PROVE  Followed(Followed(Followed(r))) = Followed(Followed(r))
  <1> DEFINE s == Followed(r)
             t == Followed(s)
  <1>1. s \in Rooms /\ t \in Rooms /\ SameRest(r, s) /\ SameRest(s, t) BY Effect
  <1>2. AirFromOutside(s) = AirFromOutside(r) /\ AirFromOutside(t) = AirFromOutside(r)
    BY <1>1 DEF AirFromOutside, SameRest
  <1>3. DetermineAction(t) \notin {"USE_AIRCON", "TURN_OFF_AIRCON", "OPEN_WINDOW",
                                   "CLOSE_WINDOW"}
    BY <1>1, <1>2, Decision, Effect, Types DEF SameRest
  <1> QED BY <1>1, <1>3, Effect

-----------------------------------------------------------------------------
(* Background control *)

(* A caller is idle or knows what its step is about.                       *)
QueryOk(q) ==
    /\ q.at = "idle" => q = Idle
    /\ q.at \in {"look", "insert"} => q.key \in Transitions
    /\ q.at = "insert" => q.action \in Actions
AnswerOk(x) ==
    /\ x.at = "idle" => x = Quiet
    /\ x.at # "idle" => x.key \in Transitions
Phases == \A a \in Callers : QueryOk(query[a]) /\ AnswerOk(answer[a])

(* A task does one thing after the other.                                  *)
Sequential(t) ==
    /\ condition[t] # NoCommand => query[t] = Idle /\ answer[t] = Quiet
    /\ query[t] # Idle => answer[t] = Quiet
OneAtATime == \A t \in Tasks : Sequential(t)

(* Whatever is shown or being answered is a row that was once offered.     *)
Offerable(k) == row[k] # None /\ row[k].status # "EXPIRED"
Offered ==
    /\ \A p \in Pages : popup[p] # None => Offerable(popup[p])
    /\ \A a \in Callers : answer[a].at # "idle" => Offerable(answer[a].key)

(* A transition that background control has carried out is not pending any *)
(* more, and no task that has yet to carry it out is too late to know.     *)
Unrepeated ==
    /\ \A k \in Transitions : unattended[k] # 0 => row[k] # None /\ row[k].status # "PENDING"
    /\ \A t \in Tasks :
         /\ answer[t].at \in {"record", "command"} => unattended[answer[t].key] = 0
         /\ answer[t].at = "command" => row[answer[t].key].status # "PENDING"

ControlInv ==
    /\ TypeOK /\ Phases /\ OneAtATime /\ OneTaskAtWork /\ Offered /\ Unrepeated
    /\ BackgroundOnce

(* An action of the engine becomes a command of the board, or none         *)
(* (_ACTION_TO_CONTROL).                                                   *)
LEMMA CommandType ==
    ASSUME NEW action
    PROVE  CommandOf(action) \in Commands \cup {NoCommand}
  BY DEF CommandOf, Commands, NoCommand

(* So does what condition control sends.                                   *)
LEMMA ConditionCommandType ==
    ASSUME NEW action, NEW w, NEW c
    PROVE  ConditionCommand(action, w, c) \in Commands \cup {NoCommand}
  BY CommandType DEF ConditionCommand

(* The action a new prediction is given is one of the engine's             *)
(* (compute_prediction_preview).                                           *)
LEMMA PreviewType ==
    ASSUME TypeOK, NEW k \in Transitions
    PROVE  PreviewAction(k) \in Actions
  <1>1. CASE latest = None BY <1>1 DEF PreviewAction, Actions
  <1>2. CASE latest # None
    <2>1. latest \in Readings BY <1>2 DEF TypeOK
    <2>2. ASSUME NEW presence \in {"unknown", "empty"}
          PROVE  Room(latest.climate, latest.window, latest.ac, presence,
                      latest.climate.hotByDefault, FALSE) \in Rooms
      BY <2>1 DEF Readings, Measurements, Room, Rooms, Windows, Aircons, Presences
    <2> QED BY <1>2, <2>2, ActionIsKnown DEF PreviewAction
  <1> QED BY <1>1, <1>2

(* A task that is started is not at work already.                          *)
LEMMA NewTaskIsFree ==
    ASSUME \E u \in Tasks : ~Working(u)
    PROVE  NewTask \in Tasks /\ ~Working(NewTask)
  BY DEF NewTask

(* The records of a caller that does nothing are of their types.           *)
LEMMA IdleTypes == Idle \in Queries /\ Asking \in Queries /\ Quiet \in Answers
  BY DEF Idle, Asking, Queries, Quiet, Answers, Commands, NoCommand

(* The invariant holds before anything has happened.                       *)
LEMMA InitControlInv == Init => ControlInv
  <1> SUFFICES ASSUME Init PROVE ControlInv OBVIOUS
  <1>1. pattern \in [0..Hours -> Learned] /\ climate \in Measurements
    BY BackgroundAssumption DEF Init
  <1>2. hour \in 0..Hours
    BY BackgroundAssumption DEF Init
  <1>3. TypeOK
    BY <1>1, <1>2, IdleTypes DEF Init, TypeOK, Presences, NoCommand
  <1> QED
    BY <1>3, BackgroundAssumption
       DEF Init, ControlInv, Phases, QueryOk, AnswerOk, OneAtATime, Sequential, OneTaskAtWork,
           Offered, Unrepeated, BackgroundOnce, Working, Idle, Quiet, Callers

-----------------------------------------------------------------------------

(* Every step keeps the state of its type.                                 *)
LEMMA TypeStep == TypeOK /\ Phases /\ Offered /\ [Next]_vars => TypeOK'
  <1> SUFFICES ASSUME TypeOK, Phases, Offered, [Next]_vars PROVE TypeOK'
    OBVIOUS
  <1> USE DEF TypeOK, timeVars, roomVars, history, Finish
  <1>1. CASE Tick
    <2>1. hour' \in 0..Hours BY <1>1, BackgroundAssumption DEF Tick
    <2> QED BY <1>1, <2>1 DEF Tick
  <1>2. CASE Detect BY <1>2, BackgroundAssumption DEF Detect
  <1>3. CASE Button BY <1>3 DEF Button
  <1>4. CASE SaveReading
    <2>1. latest' \in Readings
      BY <1>4 DEF SaveReading, Stored, SeenWindow, SeenAircon, Readings, Aircons
    <2>2. CASE StartTask(NewTask)
      <3>1. NewTask \in Tasks BY <2>2, NewTaskIsFree DEF StartTask
      <3>2. /\ condition' \in [Tasks -> Commands \cup {NoCommand}]
            /\ query' \in [Callers -> Queries]
        BY <2>2, <3>1, ConditionCommandType, IdleTypes DEF StartTask, Callers
      <3> QED BY <1>4, <2>1, <2>2, <3>1, <3>2 DEF SaveReading, StartTask
    <2>3. CASE UNCHANGED <<current, condition, query>>
      BY <1>4, <2>1, <2>3 DEF SaveReading
    <2> QED BY <1>4, <2>2, <2>3 DEF SaveReading
  <1>5. ASSUME NEW t \in Tasks, ControlCondition(t) PROVE TypeOK'
    BY <1>5, IdleTypes DEF ControlCondition, Carried, NotCarried, WindowAfter, AirconAfter,
                           Callers, NoCommand
  <1>6. ASSUME NEW p \in Pages, Poll(p) PROVE TypeOK'
    BY <1>6, IdleTypes DEF Poll, Proceed, Callers
  <1>7. ASSUME NEW p \in Pages, NEW accept \in BOOLEAN, Press(p, accept) PROVE TypeOK'
    <2>1. Reply(popup[p], accept) \in Answers
      BY <1>7 DEF Press, Reply, Answers, NoCommand
    <2> QED BY <1>7, <2>1 DEF Press, Callers
  <1>8. ASSUME NEW a \in Callers, NEW offer \in Transitions \cup {None}, Deliver(a, offer)
        PROVE  /\ query' \in [Callers -> Queries] /\ answer' \in [Callers -> Answers]
               /\ popup' \in [Pages -> Transitions \cup {None}]
               /\ current' \in Tasks \cup {None}
    <2>1. Reply(offer, TRUE) \in Answers
      BY DEF Reply, Answers, NoCommand
    <2> QED BY <1>8, <2>1, IdleTypes DEF Deliver
  <1>9. ASSUME NEW a \in Callers, Predict(a) PROVE TypeOK'
    <2>1. Upcoming \in Transitions \cup {None} BY DEF Upcoming
    <2>2. Upcoming # None =>
            [at |-> "look", key |-> Upcoming, action |-> NoCommand] \in Queries
      BY <2>1 DEF Queries
    <2> QED BY <1>8, <1>9, <2>2 DEF Predict, Proceed
  <1>10. ASSUME NEW a \in Callers, Look(a) PROVE TypeOK'
    <2> DEFINE k == query[a].key
    <2>1. k \in Transitions BY <1>10 DEF Look, Phases, QueryOk
    <2>2. [at |-> "insert", key |-> k, action |-> PreviewAction(k)] \in Queries
      BY <2>1, PreviewType DEF Queries
    <2>3. Offer(k) \in Transitions \cup {None} BY <2>1 DEF Offer
    <2> QED BY <1>8, <1>10, <2>2, <2>3 DEF Look, Proceed
  <1>11. ASSUME NEW a \in Callers, Insert(a) PROVE TypeOK'
    <2> DEFINE k == query[a].key
    <2>1. k \in Transitions /\ query[a].action \in Actions BY <1>11 DEF Insert, Phases, QueryOk
    <2>2. NewRow(query[a].action) \in Rows BY <2>1 DEF NewRow, Rows
    <2>3. /\ Offer(k) \in Transitions \cup {None}
          /\ NewOffer(k, query[a].action) \in Transitions \cup {None}
      BY <2>1 DEF Offer, NewOffer
    <2> QED BY <1>8, <1>11, <2>1, <2>2, <2>3 DEF Insert
  <1>12. ASSUME NEW a \in Callers, QueryFails(a) PROVE TypeOK'
    BY <1>12, IdleTypes DEF QueryFails
  <1>13. ASSUME NEW a \in Callers, NEW closes \in BOOLEAN, Answered(a, closes)
         PROVE  /\ answer' \in [Callers -> Answers] /\ current' \in Tasks \cup {None}
                /\ popup' \in [Pages -> Transitions \cup {None}]
    BY <1>13, IdleTypes DEF Answered
  <1>14. ASSUME NEW a \in Callers, CheckPending(a) PROVE TypeOK'
    <2>1. [answer EXCEPT ![a].at = "record"] \in [Callers -> Answers]
      BY DEF Answers
    <2> QED BY <1>13, <1>14, <2>1 DEF CheckPending
  <1>15. ASSUME NEW a \in Callers, Record(a) PROVE TypeOK'
    <2> DEFINE k == answer[a].key
    <2>1. k \in Transitions BY <1>15 DEF Record, Phases, AnswerOk
    <2>2. row' \in [Transitions -> Rows \cup {None}]
      <3>1. row[k] \in Rows BY <1>15, <2>1 DEF Record, Offered, Offerable
      <3>2. [row[k] EXCEPT !.status = IF answer[a].accept THEN "ACCEPTED" ELSE "DECLINED"]
              \in Rows
        BY <3>1 DEF Rows
      <3> QED BY <1>15, <2>1, <3>2 DEF Record
    <2>3. [at |-> "command", key |-> k, accept |-> TRUE, command |-> CommandOf(row[k].action)]
            \in Answers
      BY <2>1, CommandType DEF Answers
    <2> QED BY <1>13, <1>15, <2>2, <2>3 DEF Record
  <1>16. ASSUME NEW a \in Callers, NEW closes \in BOOLEAN, ControlOccupancy(a, closes)
         PROVE  TypeOK'
    <2>1. answer[a].key \in Transitions BY <1>16 DEF ControlOccupancy, Phases, AnswerOk
    <2>2. window' \in {"open", "closed"} /\ aircon' \in {"on", "off"}
      BY <1>16 DEF ControlOccupancy, Carried, NotCarried, WindowAfter, AirconAfter
    <2>3. executions' \in [Transitions -> Nat] /\ unattended' \in [Transitions -> Nat]
      <3>1. \A k \in Transitions : executions[k] + 1 \in Nat /\ unattended[k] + 1 \in Nat
        OBVIOUS
      <3> QED BY <1>16, <2>1, <3>1 DEF ControlOccupancy, Count
    <2> QED BY <1>13, <1>16, <2>2, <2>3 DEF ControlOccupancy
  <1>17. ASSUME NEW a \in Callers, AnswerFails(a) PROVE TypeOK'
    BY <1>13, <1>17 DEF AnswerFails
  <1>18. CASE UNCHANGED vars BY <1>18 DEF vars
  <1> QED
    BY <1>1, <1>2, <1>3, <1>4, <1>5, <1>6, <1>7, <1>9, <1>10, <1>11, <1>12, <1>14, <1>15,
       <1>16, <1>17, <1>18 DEF Next, Environment, QueryStep, AnswerStep

-----------------------------------------------------------------------------

(* The records a caller starts and ends with say what they must.           *)
LEMMA OkFacts ==
    /\ QueryOk(Idle) /\ QueryOk(Asking) /\ AnswerOk(Quiet)
    /\ \A k \in Transitions : \A accept \in BOOLEAN : AnswerOk(Reply(k, accept))
  BY DEF QueryOk, AnswerOk, Idle, Asking, Quiet, Reply

(* A caller always knows the row its next call is about.                   *)
LEMMA PhasesStep == ControlInv /\ TypeOK' /\ [Next]_vars => Phases'
  <1> SUFFICES ASSUME TypeOK, Phases, Offered, TypeOK', [Next]_vars, NEW b \in Callers
               PROVE  (QueryOk(query[b]) /\ AnswerOk(answer[b]))'
    BY DEF ControlInv, Phases
  <1> DEFINE Ok == QueryOk(query[b]) /\ AnswerOk(answer[b])
  <1>0. Ok BY DEF Phases
  <1> USE <1>0, OkFacts DEF TypeOK
  <1>1. CASE Environment \/ UNCHANGED vars
    BY <1>1 DEF Environment, Tick, Detect, Button, vars
  <1>2. CASE SaveReading
    BY <1>2 DEF SaveReading, StartTask
  <1>3. ASSUME NEW t \in Tasks, ControlCondition(t) PROVE Ok'
    BY <1>3 DEF ControlCondition
  <1>4. ASSUME NEW p \in Pages, Poll(p) PROVE Ok'
    BY <1>4 DEF Poll, Proceed
  <1>5. ASSUME NEW p \in Pages, NEW accept \in BOOLEAN, Press(p, accept) PROVE Ok'
    BY <1>5 DEF Press
  <1>6. ASSUME NEW a \in Callers, NEW offer \in Transitions \cup {None}, Deliver(a, offer)
        PROVE  Ok'
    BY <1>6 DEF Deliver
  <1>7. ASSUME NEW a \in Callers, Predict(a) PROVE Ok'
    <2>1. Upcoming \in Transitions \cup {None} BY DEF Upcoming
    <2>2. Upcoming # None =>
            QueryOk([at |-> "look", key |-> Upcoming, action |-> NoCommand])
      BY <2>1 DEF QueryOk
    <2> QED BY <1>6, <1>7, <2>2 DEF Predict, Proceed
  <1>8. ASSUME NEW a \in Callers, Look(a) PROVE Ok'
    <2> DEFINE k == query[a].key
    <2>1. k \in Transitions BY <1>8 DEF Look, Phases, QueryOk
    <2>2. QueryOk([at |-> "insert", key |-> k, action |-> PreviewAction(k)])
      BY <2>1, PreviewType DEF QueryOk
    <2>3. Offer(k) \in Transitions \cup {None} BY <2>1 DEF Offer
    <2> QED BY <1>6, <1>8, <2>1, <2>2, <2>3 DEF Look, Proceed
  <1>9. ASSUME NEW a \in Callers, Insert(a) PROVE Ok'
    <2> DEFINE k == query[a].key
    <2>1. k \in Transitions BY <1>9 DEF Insert, Phases, QueryOk
    <2>2. /\ Offer(k) \in Transitions \cup {None}
          /\ NewOffer(k, query[a].action) \in Transitions \cup {None}
      BY <2>1 DEF Offer, NewOffer
    <2> QED BY <1>6, <1>9, <2>2 DEF Insert
  <1>10. ASSUME NEW a \in Callers, QueryFails(a) PROVE Ok'
    BY <1>10 DEF QueryFails
  <1>11. ASSUME NEW a \in Callers, NEW closes \in BOOLEAN, Answered(a, closes)
         PROVE  AnswerOk(answer'[b])
    BY <1>11 DEF Answered
  <1>12. ASSUME NEW a \in Callers, CheckPending(a) PROVE Ok'
    <2>1. AnswerOk([answer[a] EXCEPT !.at = "record"])
      BY <1>12 DEF CheckPending, Phases, AnswerOk, Answers
    <2> QED BY <1>11, <1>12, <2>1 DEF CheckPending
  <1>13. ASSUME NEW a \in Callers, Record(a) PROVE Ok'
    <2> DEFINE k == answer[a].key
    <2>1. k \in Transitions BY <1>13 DEF Record, Phases, AnswerOk
    <2>2. AnswerOk([at |-> "command", key |-> k, accept |-> TRUE,
                    command |-> CommandOf(row[k].action)])
      BY <2>1 DEF AnswerOk
    <2> QED BY <1>11, <1>13, <2>2 DEF Record
  <1>14. ASSUME NEW a \in Callers, NEW closes \in BOOLEAN, ControlOccupancy(a, closes)
         PROVE  Ok'
    BY <1>11, <1>14 DEF ControlOccupancy
  <1>15. ASSUME NEW a \in Callers, AnswerFails(a) PROVE Ok'
    BY <1>11, <1>15 DEF AnswerFails
  <1> QED
    BY <1>1, <1>2, <1>3, <1>4, <1>5, <1>7, <1>8, <1>9, <1>10, <1>12, <1>13, <1>14, <1>15
       DEF Next, QueryStep, AnswerStep

(* Every step leaves one task at work at most, and that one busy with one  *)
(* thing: _schedule_background_control starts none while one runs, and a   *)
(* task that ends its last call is the one that is recorded.               *)
LEMMA TasksStep == ControlInv /\ [Next]_vars => (OneAtATime /\ OneTaskAtWork)'
  <1> SUFFICES ASSUME TypeOK, Phases, OneAtATime, OneTaskAtWork, [Next]_vars, NEW u \in Tasks
               PROVE  (Sequential(u) /\ (Working(u) => current = u))'
    BY DEF ControlInv, OneAtATime, OneTaskAtWork
  <1> DEFINE Ok == Sequential(u) /\ (Working(u) => current = u)
  <1>a. \A t \in Tasks : Sequential(t) /\ (Working(t) => current = t)
    BY DEF OneAtATime, OneTaskAtWork
  <1> USE <1>a, BackgroundAssumption DEF TypeOK, Callers, Sequential, Working, Finish
  <1>1. CASE Environment \/ UNCHANGED vars
    BY <1>1 DEF Environment, Tick, Detect, Button, vars
  <1>2. CASE SaveReading
    BY <1>2, NewTaskIsFree DEF SaveReading, StartTask
  <1>3. ASSUME NEW t \in Tasks, ControlCondition(t) PROVE Ok'
    BY <1>3 DEF ControlCondition
  <1>4. ASSUME NEW p \in Pages, Poll(p) PROVE Ok'
    BY <1>4 DEF Poll, Proceed
  <1>5. ASSUME NEW p \in Pages, NEW accept \in BOOLEAN, Press(p, accept) PROVE Ok'
    BY <1>5 DEF Press
  <1>6. ASSUME NEW a \in Callers, NEW offer, Deliver(a, offer), query[a] # Idle,
               UNCHANGED condition
        PROVE  Ok'
    BY <1>6 DEF Deliver
  <1>7. ASSUME NEW a \in Callers, NEW progress, Proceed(a, progress), query[a] # Idle,
               UNCHANGED condition
        PROVE  Ok'
    BY <1>7 DEF Proceed
  <1>8. ASSUME NEW a \in Callers, QueryStep(a) PROVE Ok'
    <2>1. query[a] # Idle BY <1>8 DEF QueryStep, Predict, Look, Insert, Idle
    <2>2. CASE Predict(a) BY <1>6, <1>7, <2>1, <2>2 DEF Predict
    <2>3. CASE Look(a) BY <1>6, <1>7, <2>1, <2>3 DEF Look
    <2>4. CASE Insert(a) BY <1>6, <2>1, <2>4 DEF Insert
    <2> QED BY <1>8, <2>2, <2>3, <2>4 DEF QueryStep
  <1>9. ASSUME NEW a \in Callers, QueryFails(a) PROVE Ok'
    BY <1>9 DEF QueryFails
  <1>10. ASSUME NEW a \in Callers, NEW closes \in BOOLEAN, Answered(a, closes),
                answer[a] # Quiet, UNCHANGED <<query, condition>>
         PROVE  Ok'
    BY <1>10 DEF Answered
  <1>11. ASSUME NEW a \in Callers, NEW x, answer' = [answer EXCEPT ![a] = x],
                answer[a] # Quiet, UNCHANGED <<query, condition, current>>
         PROVE  Ok'
    BY <1>11
  <1>12. ASSUME NEW a \in Callers, CheckPending(a) PROVE Ok'
    <2>1. answer[a] # Quiet BY <1>12 DEF CheckPending, Quiet
    <2> QED BY <1>10, <1>11, <1>12, <2>1 DEF CheckPending
  <1>13. ASSUME NEW a \in Callers, Record(a) PROVE Ok'
    <2>1. answer[a] # Quiet BY <1>13 DEF Record, Quiet
    <2> QED BY <1>10, <1>11, <1>13, <2>1 DEF Record
  <1>14. ASSUME NEW a \in Callers, NEW closes \in BOOLEAN, ControlOccupancy(a, closes)
         PROVE  Ok'
    <2>1. answer[a] # Quiet BY <1>14 DEF ControlOccupancy, Quiet
    <2> QED BY <1>10, <1>14, <2>1 DEF ControlOccupancy
  <1>15. ASSUME NEW a \in Callers, AnswerFails(a) PROVE Ok'
    <2>1. answer[a] # Quiet BY <1>15 DEF AnswerFails, Quiet
    <2> QED BY <1>10, <1>15, <2>1 DEF AnswerFails
  <1> QED
    BY <1>1, <1>2, <1>3, <1>4, <1>5, <1>8, <1>9, <1>12, <1>13, <1>14, <1>15
       DEF Next, AnswerStep

-----------------------------------------------------------------------------

Decided(k) == row[k] # None /\ row[k].status # "PENDING"

(* A row is inserted only where there was none, and an answer overwrites   *)
(* only what was offered: what was offered stays so, and what was answered *)
(* is never pending again.                                                 *)
LEMMA RowsStep ==
    ASSUME ControlInv, [Next]_vars, NEW k \in Transitions
    PROVE  /\ Offerable(k) => Offerable(k)'
           /\ Decided(k) => Decided(k)'
  <1> USE BackgroundAssumption DEF Offerable, Decided
  <1>1. ASSUME NEW a \in Callers, Insert(a)
        PROVE  row[k] # None => row'[k] = row[k]
    BY <1>1 DEF Insert, ControlInv, TypeOK
  <1>2. ASSUME NEW a \in Callers, Record(a)
        PROVE  \/ row'[k] = row[k]
               \/ row'[k] # None /\ row'[k].status \in {"ACCEPTED", "DECLINED"}
    <2> DEFINE j == answer[a].key
    <2>1. j \in Transitions /\ row[j] \in Rows
      BY <1>2 DEF Record, ControlInv, TypeOK, Phases, AnswerOk, Offered
    <2>2. [row[j] EXCEPT !.status = IF answer[a].accept THEN "ACCEPTED" ELSE "DECLINED"]
            \in [status : {"ACCEPTED", "DECLINED"}, action : Actions]
      BY <2>1 DEF Rows
    <2>3. row'[k] = IF k = j THEN [row[j] EXCEPT !.status = IF answer[a].accept
                                       THEN "ACCEPTED" ELSE "DECLINED"] ELSE row[k]
      BY <1>2, <2>1 DEF Record, ControlInv, TypeOK
    <2> QED BY <2>2, <2>3 DEF Rows
  <1>3. CASE UNCHANGED row BY <1>3
  <1> QED
    BY <1>1, <1>2, <1>3
       DEF Next, vars, Environment, Tick, Detect, Button, SaveReading, ControlCondition, Poll,
           Press, QueryStep, Predict, Look, QueryFails, AnswerStep, CheckPending,
           ControlOccupancy, AnswerFails

(* What OfferedStep has to show of a popup and of an answer after the step. *)
StillOfferable(k) == row'[k] # None /\ row'[k].status # "EXPIRED"
PopupFine(x) == x # None => StillOfferable(x)
AnswerFine(x) == x.at # "idle" => StillOfferable(x.key)

(* Every step leaves popups and answers about rows that are offerable.     *)
LEMMA OfferedStep == ControlInv /\ TypeOK' /\ [Next]_vars => Offered'
  <1> SUFFICES ASSUME ControlInv, TypeOK', [Next]_vars PROVE Offered'
    OBVIOUS
  <1> DEFINE Goal == /\ \A p \in Pages : PopupFine(popup'[p])
                     /\ \A b \in Callers : AnswerFine(answer'[b])
  <1>a. \A k \in Transitions : Offerable(k) => StillOfferable(k)
    BY RowsStep DEF Offerable, StillOfferable
  <1>b. /\ \A p \in Pages : PopupFine(popup[p])
        /\ \A b \in Callers : AnswerFine(answer[b])
    BY <1>a DEF ControlInv, TypeOK, Offered, Phases, AnswerOk, PopupFine, AnswerFine
  <1>c. AnswerFine(Quiet) /\ PopupFine(None) BY DEF Quiet, AnswerFine, PopupFine
  <1>d. ASSUME NEW k, NEW accept, StillOfferable(k)
        PROVE  PopupFine(k) /\ AnswerFine(Reply(k, accept))
    BY <1>d DEF Reply, PopupFine, AnswerFine
  <1>e. TypeOK BY DEF ControlInv
  <1> USE <1>b, <1>c, <1>e, BackgroundAssumption DEF TypeOK
  <1>1. ASSUME UNCHANGED <<popup, answer>> PROVE Goal BY <1>1
  <1>2. ASSUME NEW p \in Pages, NEW accept \in BOOLEAN, Press(p, accept) PROVE Goal
    <2>1. StillOfferable(popup[p]) BY <1>2 DEF Press, PopupFine
    <2> QED BY <1>2, <1>d, <2>1 DEF Press, Callers
  <1>3. ASSUME NEW a \in Callers, NEW offer, Deliver(a, offer),
               offer # None => StillOfferable(offer)
        PROVE  Goal
    <2>1. offer # None => PopupFine(offer) /\ AnswerFine(Reply(offer, TRUE)) BY <1>3, <1>d
    <2> QED BY <1>3, <2>1 DEF Deliver, Callers
  <1>4. ASSUME NEW a \in Callers, Predict(a) PROVE Goal
    BY <1>1, <1>3, <1>4 DEF Predict, Proceed
  <1>5. ASSUME NEW a \in Callers, Look(a) PROVE Goal
    <2>1. query[a].key \in Transitions BY <1>5 DEF Look, ControlInv, Phases, QueryOk
    <2>2. row[query[a].key] # None /\ Offer(query[a].key) # None
            => StillOfferable(Offer(query[a].key))
      BY <1>a, <2>1 DEF Offer, Offerable
    <2> QED BY <1>1, <1>3, <1>5, <2>2 DEF Look, Proceed
  <1>6. ASSUME NEW a \in Callers, Insert(a) PROVE Goal
    <2> DEFINE k == query[a].key
               action == query[a].action
    <2>1. k \in Transitions /\ action \in Actions
      BY <1>6 DEF Insert, ControlInv, Phases, QueryOk
    <2>2. row[k] # None /\ Offer(k) # None => StillOfferable(Offer(k))
      BY <1>a, <2>1 DEF Offer, Offerable
    <2>3. ASSUME row' = [row EXCEPT ![k] = NewRow(action)], NewOffer(k, action) # None
          PROVE  StillOfferable(NewOffer(k, action))
      <3>1. NewRow(action) \in Rows /\ NewRow(action).status = "PENDING"
        BY <2>1, <2>3 DEF NewOffer, NewRow, Rows
      <3> QED BY <2>1, <2>3, <3>1 DEF NewOffer, StillOfferable
    <2> QED BY <1>3, <1>6, <2>2, <2>3 DEF Insert
  <1>7. ASSUME NEW a \in Callers, NEW closes \in BOOLEAN, Answered(a, closes) PROVE Goal
    BY <1>7 DEF Answered, Callers
  <1>8. ASSUME NEW a \in Callers, NEW x, answer' = [answer EXCEPT ![a] = x], UNCHANGED popup,
               answer[a].at # "idle", x.key = answer[a].key
        PROVE  Goal
    <2>1. AnswerFine(x) BY <1>8 DEF AnswerFine
    <2> QED BY <1>8, <2>1
  <1>9. ASSUME NEW a \in Callers, CheckPending(a) PROVE Goal
    <2>1. [answer[a] EXCEPT !.at = "record"].key = answer[a].key BY DEF Answers
    <2> QED BY <1>7, <1>8, <1>9, <2>1 DEF CheckPending
  <1>10. ASSUME NEW a \in Callers, Record(a) PROVE Goal
    BY <1>7, <1>8, <1>10 DEF Record
  <1>11. ASSUME NEW a \in Callers, NEW closes \in BOOLEAN, ControlOccupancy(a, closes)
         PROVE  Goal
    BY <1>7, <1>11 DEF ControlOccupancy
  <1>12. ASSUME NEW a \in Callers, AnswerFails(a) PROVE Goal
    BY <1>7, <1>12 DEF AnswerFails
  <1>13. Goal
    BY <1>1, <1>2, <1>4, <1>5, <1>6, <1>9, <1>10, <1>11, <1>12
       DEF Next, vars, Environment, Tick, Detect, Button, SaveReading, ControlCondition, Poll,
           Proceed, QueryStep, QueryFails, AnswerStep
  <1>14. ASSUME NEW p \in Pages, popup'[p] # None PROVE Offerable(popup[p])'
    BY <1>13, <1>14 DEF Offerable, PopupFine, StillOfferable
  <1>15. ASSUME NEW b \in Callers, answer'[b].at # "idle" PROVE Offerable(answer[b].key)'
    BY <1>13, <1>15 DEF Offerable, AnswerFine, StillOfferable
  <1> QED BY <1>14, <1>15, Zenon DEF Offered

-----------------------------------------------------------------------------
(* What OnceStep has to show of the answer of a task after the step.       *)
Early(x) ==
    /\ x.at \in {"record", "command"} => unattended'[x.key] = 0
    /\ x.at = "command" => row'[x.key].status # "PENDING"

(* Every step keeps a carried out transition decided, and a task that has  *)
(* seen the row PENDING finds it not yet carried out.                      *)
LEMMA OnceStep ==
    ControlInv /\ TypeOK' /\ [Next]_vars => (Unrepeated /\ BackgroundOnce)'
  <1> SUFFICES ASSUME ControlInv, TypeOK', [Next]_vars PROVE (Unrepeated /\ BackgroundOnce)'
    OBVIOUS
  <1> DEFINE Goal == /\ \A k \in Transitions : unattended'[k] <= 1
                     /\ \A k \in Transitions :
                          unattended'[k] # 0 => row'[k] # None /\ row'[k].status # "PENDING"
                     /\ \A t \in Tasks : Early(answer'[t])
  <1>a. \A k \in Transitions : Decided(k) => row'[k] # None /\ row'[k].status # "PENDING"
    BY RowsStep DEF Decided
  <1>b. \A t \in Tasks : answer[t].at # "idle" =>
             answer[t].key \in Transitions /\ row[answer[t].key] # None
    BY DEF ControlInv, Phases, AnswerOk, Offered, Offerable, Callers
  <1>c. \A k \in Transitions : (unattended[k] # 0 => Decided(k)) /\ unattended[k] <= 1
    BY DEF ControlInv, Unrepeated, BackgroundOnce, Decided
  <1>d. \A t \in Tasks :
           /\ answer[t].at \in {"record", "command"} => unattended[answer[t].key] = 0
           /\ answer[t].at = "command" => Decided(answer[t].key)
    BY <1>b DEF ControlInv, Unrepeated, Decided
  <1>e. TypeOK BY DEF ControlInv
  <1>f. Early(Quiet) /\ \A k, accept : Early(Reply(k, accept)) BY DEF Early, Quiet, Reply
  <1>1. ASSUME UNCHANGED unattended, \A t \in Tasks : answer'[t] = answer[t] \/ Early(answer'[t])
        PROVE  Goal
    <2>1. \A t \in Tasks : Early(answer[t]) BY <1>1, <1>a, <1>b, <1>d DEF Early
    <2> QED BY <1>1, <1>a, <1>c, <2>1
  <1> USE <1>e, <1>f, BackgroundAssumption DEF TypeOK, Callers, history
  <1>2. ASSUME UNCHANGED <<answer, unattended>> PROVE Goal BY <1>1, <1>2
  <1>3. ASSUME NEW p \in Pages, NEW accept \in BOOLEAN, Press(p, accept) PROVE Goal
    BY <1>1, <1>3 DEF Press
  <1>4. ASSUME NEW a \in Callers, NEW offer, Deliver(a, offer), UNCHANGED unattended PROVE Goal
    <2>1. ASSUME NEW t \in Tasks PROVE answer'[t] = answer[t] \/ Early(answer'[t])
      <3>1. CASE UNCHANGED answer BY <3>1
      <3>2. CASE answer' = [answer EXCEPT ![a] = Reply(offer, TRUE)] BY <3>2
      <3> QED BY <1>4, <3>1, <3>2 DEF Deliver
    <2> QED BY <1>1, <1>4, <2>1
  <1>5. ASSUME NEW a \in Callers, QueryStep(a) PROVE Goal
    BY <1>2, <1>4, <1>5 DEF QueryStep, Predict, Look, Insert, Proceed
  <1>6. ASSUME NEW a \in Callers, NEW closes, Answered(a, closes)
        PROVE  \A t \in Tasks : answer'[t] = answer[t] \/ Early(answer'[t])
    BY <1>6 DEF Answered
  <1>7. ASSUME NEW a \in Callers, NEW x, answer' = [answer EXCEPT ![a] = x],
               a \in Tasks => Early(x), UNCHANGED unattended
        PROVE  Goal
    BY <1>1, <1>7
  <1>8. ASSUME NEW a \in Callers, CheckPending(a) PROVE Goal
    <2> DEFINE x == [answer[a] EXCEPT !.at = "record"]
    <2>1. ASSUME a \in Tasks, row[answer[a].key].status = "PENDING" PROVE Early(x)
      <3>1. x.at = "record" /\ x.key = answer[a].key BY DEF Answers
      <3>2. answer[a].key \in Transitions BY <1>8, <1>b, <2>1 DEF CheckPending
      <3>3. unattended[answer[a].key] = 0 BY <1>c, <2>1, <3>2 DEF Decided
      <3> QED BY <1>8, <3>1, <3>3 DEF CheckPending, Early
    <2> QED BY <1>1, <1>6, <1>7, <1>8, <2>1 DEF CheckPending
  <1>9. ASSUME NEW a \in Callers, Record(a) PROVE Goal
    <2> DEFINE k == answer[a].key
               x == [at |-> "command", key |-> k, accept |-> TRUE,
                     command |-> CommandOf(row[k].action)]
    <2>1. ASSUME a \in Tasks, answer[a].accept PROVE Early(x)
      <3>1. k \in Transitions /\ row[k] \in Rows BY <1>9, <1>b, <2>1 DEF Record
      <3>2. row'[k].status = "ACCEPTED" BY <1>9, <2>1, <3>1 DEF Record, Rows
      <3>3. unattended[k] = 0 BY <1>9, <1>d, <2>1 DEF Record
      <3> QED BY <1>9, <3>2, <3>3 DEF Record, Early
    <2> QED BY <1>1, <1>6, <1>7, <1>9, <2>1 DEF Record
  <1>10. ASSUME NEW a \in Callers, NEW closes \in BOOLEAN, ControlOccupancy(a, closes)
         PROVE  Goal
    <2> DEFINE k == answer[a].key
    <2>1. CASE UNCHANGED unattended BY <1>1, <1>6, <1>10, <2>1 DEF ControlOccupancy
    <2>2. CASE a \in Tasks /\ unattended' = [unattended EXCEPT ![k] = @ + 1]
      <3>1. k \in Transitions /\ unattended[k] = 0 /\ Decided(k)
        BY <1>10, <1>b, <1>d, <2>2 DEF ControlOccupancy
      <3>2. unattended' = [unattended EXCEPT ![k] = 1] BY <2>2, <3>1
      <3>3. \A j \in Transitions : unattended'[j] = IF j = k THEN 1 ELSE unattended[j]
        BY <3>2
      <3>4. answer[a] # Quiet BY <1>10 DEF ControlOccupancy, Quiet
      <3>5. \A t \in Tasks \ {a} : answer[t] = Quiet
        BY <2>2, <3>4 DEF ControlInv, OneTaskAtWork, Working
      <3>6. \A t \in Tasks : Early(answer'[t])
        BY <1>10, <3>5 DEF ControlOccupancy, Answered
      <3>7. ASSUME NEW j \in Transitions
            PROVE  /\ unattended'[j] <= 1
                   /\ unattended'[j] # 0 => row'[j] # None /\ row'[j].status # "PENDING"
        <4>1. CASE j = k
          <5>1. unattended'[j] = 1 BY <3>3, <4>1
          <5>2. row'[j] # None /\ row'[j].status # "PENDING" BY <1>a, <3>1, <4>1
          <5> QED BY <5>1, <5>2
        <4>2. CASE j # k
          <5>1. unattended'[j] = unattended[j] BY <3>3, <4>2
          <5> QED BY <1>a, <1>c, <5>1
        <4> QED BY <4>1, <4>2
      <3> QED BY <3>6, <3>7
    <2> QED BY <1>10, <2>1, <2>2 DEF ControlOccupancy, Count
  <1>11. ASSUME NEW a \in Callers, AnswerFails(a) PROVE Goal
    BY <1>1, <1>6, <1>11 DEF AnswerFails
  <1>12. Goal
    BY <1>2, <1>3, <1>5, <1>8, <1>9, <1>10, <1>11
       DEF Next, vars, Environment, Tick, Detect, Button, SaveReading, ControlCondition, Poll,
           Proceed, QueryFails, AnswerStep
  <1> QED BY <1>12 DEF Unrepeated, BackgroundOnce, Early

-----------------------------------------------------------------------------
(* The inductive invariant holds in every state.                           *)
THEOREM ControlInvariant == Spec => []ControlInv
  <1>1. ControlInv /\ [Next]_vars => ControlInv'
    <2> SUFFICES ASSUME ControlInv, [Next]_vars PROVE ControlInv' OBVIOUS
    <2>1. TypeOK' BY TypeStep DEF ControlInv
    <2> QED BY <2>1, PhasesStep, TasksStep, OfferedStep, OnceStep DEF ControlInv
  <1> QED BY <1>1, InitControlInv, PTL DEF Spec

(* The state of the control of a place is of its type.                     *)
THEOREM ControlTypes == Spec => []TypeOK
  <1>1. ControlInv => TypeOK BY DEF ControlInv
  <1> QED BY <1>1, ControlInvariant, PTL

(* However readings, failures and tasks follow each other, one background  *)
(* task of a place is at work at most (_background_control_tasks).         *)
THEOREM AtMostOneTask == Spec => []OneTaskAtWork
  <1>1. ControlInv => OneTaskAtWork BY DEF ControlInv
  <1> QED BY <1>1, ControlInvariant, PTL

(* A prediction with nothing to do is neither shown to a page nor answered *)
(* by anyone (get_prediction_state).                                       *)
THEOREM NothingExpiredIsOffered == Spec => []ExpiredNeverOffered
  <1>1. ControlInv => ExpiredNeverOffered
    BY DEF ControlInv, Offered, Offerable, ExpiredNeverOffered
  <1> QED BY <1>1, ControlInvariant, PTL

(* The action of a transition is carried out by background tasks once at   *)
(* most, although a page that answers too may repeat it                    *)
(* (_schedule_background_control, respond_to_prediction).                  *)
THEOREM UnattendedOnce == Spec => []BackgroundOnce
  <1>1. ControlInv => BackgroundOnce BY DEF ControlInv
  <1> QED BY <1>1, ControlInvariant, PTL
=============================================================================
