-------------------------- MODULE BackgroundControl --------------------------
(***************************************************************************)
(* Unattended control of one place (routers/readings_router.py,            *)
(* occupancy_engine.py) and the prediction popup of the web pages          *)
(* (OccupancyPredictionPopup.jsx).                                         *)
(*                                                                         *)
(* Every saved reading may start a background task.  The task carries out  *)
(* the recommendation the reading led to (condition control) and then      *)
(* answers "yes" to a pending prediction of an arrival or a departure      *)
(* (occupancy control).  Pages poll the same prediction, show it and       *)
(* answer it too.  A prediction is a row of occupancy_predictions, one per *)
(* transition; every database call runs in a worker thread and is a step   *)
(* of its own, so the calls of several callers interleave.                 *)
(*                                                                         *)
(* Time is the hour and whether the next one is near (the last ten         *)
(* minutes).  The learned pattern says of each hour whether the room is    *)
(* probably empty (<= 0.15), probably occupied (>= 0.5) or neither.        *)
(*                                                                         *)
(* An operator named Faulty... is a variant with one plausible mistake.    *)
(***************************************************************************)
EXTENDS Recommendation, Naturals, FiniteSets

CONSTANTS
    Tasks,               \* background tasks that can exist at once
    Pages,               \* open web pages
    None,
    Hours,               \* bound: the clock stops at the start of this hour
    Days,                \* what occupancy_models has learned of each hour, and
                         \* the measurements of such a day
    Sightings,           \* what the camera reports, "unknown" for nothing fresh
    ConditionControl,    \* background_condition_control_enabled
    OccupancyControl     \* background_occupancy_control_enabled

Measurements == [plausible : BOOLEAN, outsideBad : BOOLEAN, hot : BOOLEAN,
                 hotByDefault : BOOLEAN, humid : BOOLEAN, breeze : BOOLEAN,
                 cooler : BOOLEAN, cold : BOOLEAN, hold : BOOLEAN,
                 windowSeen : BOOLEAN, airconSeen : BOOLEAN]

Rows == [status : {"PENDING", "ACCEPTED", "DECLINED", "EXPIRED"}, action : Actions]
Learned == {"empty", "occupied", "neither"}

ASSUME BackgroundAssumption ==
    /\ Hours \in Nat
    /\ Days \subseteq [pattern : [0..Hours -> Learned], climate : Measurements]
    /\ Sightings \subseteq Presences
    /\ ConditionControl \in BOOLEAN /\ OccupancyControl \in BOOLEAN
    /\ Tasks \cap Pages = {}
    /\ None \notin Tasks \cup (1..Hours) /\ None \notin Rows

Callers == Tasks \cup Pages
Transitions == 1..Hours        \* transition k is the start of hour k

VARIABLES
    hour, near,     \* the clock
    pattern,        \* occupancy_models
    climate,        \* what the sensors and the weather service measure
    live,           \* the newest occupancy log, "unknown" when older than 5 minutes
    window, aircon, \* the devices themselves
    latest,         \* the newest row of readings
    row,            \* occupancy_predictions: transition -> row or None
    current,        \* _background_control_tasks[place]: a task or None
    condition,      \* task -> the command of its condition control, or NoCommand
    query,          \* caller -> progress of its get_prediction_state()
    answer,         \* caller -> progress of its respond_to_prediction() and command
    popup,          \* page -> the prediction it shows, or None
    executions,     \* history: transition -> commands carried out for it
    unattended      \* history: those of them sent by background tasks

timeVars == <<hour, near>>
roomVars == <<pattern, climate, live, window, aircon>>
history == <<executions, unattended>>
vars == <<hour, near, pattern, climate, live, window, aircon, latest, row, current, condition,
          query, answer, popup, executions, unattended>>

Idle == [at |-> "idle", key |-> None, action |-> NoCommand]
Asking == [at |-> "predict", key |-> None, action |-> NoCommand]
Queries == [at : {"idle", "predict", "look", "insert"},
            key : Transitions \cup {None}, action : Actions \cup {NoCommand}]
Answers == [at : {"idle", "check", "record", "command"}, key : Transitions \cup {None},
            accept : BOOLEAN, command : Commands \cup {NoCommand}]
Quiet == [at |-> "idle", key |-> None, accept |-> FALSE, command |-> NoCommand]
Reply(k, accept) == [at |-> "check", key |-> k, accept |-> accept, command |-> NoCommand]
Readings == [climate : Measurements, window : {"open", "closed"}, ac : Aircons]

TypeOK ==
    /\ hour \in 0..Hours /\ near \in BOOLEAN
    /\ pattern \in [0..Hours -> Learned] /\ climate \in Measurements /\ live \in Presences
    /\ window \in {"open", "closed"} /\ aircon \in {"on", "off"}
    /\ latest \in Readings \cup {None}
    /\ row \in [Transitions -> Rows \cup {None}]
    /\ current \in Tasks \cup {None}
    /\ condition \in [Tasks -> Commands \cup {NoCommand}]
    /\ query \in [Callers -> Queries]
    /\ answer \in [Callers -> Answers]
    /\ popup \in [Pages -> Transitions \cup {None}]
    /\ executions \in [Transitions -> Nat] /\ unattended \in [Transitions -> Nat]

Init ==
    /\ hour = 0 /\ near = FALSE
    /\ \E day \in Days : pattern = day.pattern /\ climate = day.climate
    /\ live = "unknown"
    /\ window \in {"open", "closed"} /\ aircon \in {"on", "off"}
    /\ latest = None
    /\ row = [k \in Transitions |-> None]
    /\ current = None
    /\ condition = [t \in Tasks |-> NoCommand]
    /\ query = [a \in Callers |-> Idle]
    /\ answer = [a \in Callers |-> Quiet]
    /\ popup = [p \in Pages |-> None]
    /\ executions = [k \in Transitions |-> 0]
    /\ unattended = [k \in Transitions |-> 0]
-----------------------------------------------------------------------------
(* The environment: the clock, the camera, the button of the control       *)
(* board.  The climate stays what it was at first.                         *)
Tick ==
    /\ hour < Hours
    /\ near' = ~near
    /\ hour' = IF near THEN hour + 1 ELSE hour
    /\ UNCHANGED <<roomVars, latest, row, current, condition, query, answer, popup, history>>

Detect ==
    /\ live' \in Sightings \ {live}
    /\ UNCHANGED <<timeVars, pattern, climate, window, aircon, latest, row, current, condition,
                   query, answer, popup, history>>

Button ==
    /\ aircon' \in {"on", "off"} \ {aircon}
    /\ UNCHANGED <<timeVars, pattern, climate, live, window, latest, row, current, condition, query,
                   answer, popup, history>>

Environment == Tick \/ Detect \/ Button
-----------------------------------------------------------------------------
(* resolve_occupancy_signal: a fresh log decides, else the pattern.        *)
Presence ==
    IF live # "unknown" THEN live
    ELSE IF pattern[hour] = "empty" THEN "empty" ELSE "unknown"

Room(m, w, a, presence, hot, hold) ==
    [window |-> w, ac |-> a, presence |-> presence, plausible |-> m.plausible,
     outsideBad |-> m.outsideBad, hot |-> hot, humid |-> m.humid, breeze |-> m.breeze,
     cooler |-> m.cooler, cold |-> m.cold, hold |-> hold]

SeenWindow == IF climate.windowSeen THEN window ELSE "unknown"
SeenAircon == IF climate.airconSeen THEN aircon ELSE "unknown"
Recommended ==
    DetermineAction(Room(climate, SeenWindow, SeenAircon, Presence, climate.hot, climate.hold))

(* The stored row keeps a missing window sensor as a closed window.        *)
Stored ==
    [climate |-> climate, ac |-> SeenAircon,
     window |-> IF SeenWindow = "unknown" THEN "closed" ELSE SeenWindow]
-----------------------------------------------------------------------------
(* The prediction.                                                         *)
Direction(k) ==
    IF pattern[k - 1] = "empty" /\ pattern[k] = "occupied" THEN "ARRIVAL"
    ELSE IF pattern[k - 1] = "occupied" /\ pattern[k] = "empty" THEN "DEPARTURE"
    ELSE "none"

(* predict_upcoming_transition: not when a fresh log already agrees.       *)
Upcoming ==
    LET k == hour + 1 IN
    IF /\ near /\ k \in Transitions /\ Direction(k) # "none"
       /\ live # (IF Direction(k) = "ARRIVAL" THEN "present" ELSE "empty")
    THEN k ELSE None

(* compute_prediction_preview: the engine, run on the newest stored        *)
(* reading, in MANUAL mode and with the default threshold.                 *)
PreviewAction(k) ==
    IF latest = None THEN "MAINTAIN"
    ELSE DetermineAction(Room(latest.climate, latest.window, latest.ac,
                              IF Direction(k) = "ARRIVAL" THEN "unknown" ELSE "empty",
                              latest.climate.hotByDefault, FALSE))

Actionable == {"USE_AIRCON", "OPEN_WINDOW", "TURN_OFF_AIRCON"}
NewRow(action) ==
    [status |-> IF action \in Actionable THEN "PENDING" ELSE "EXPIRED", action |-> action]

(* PENDING_CONFIRM for a row, or nothing to ask.                           *)
FaultyOffer(k) == k
Offer(k) == IF row[k].status = "PENDING" THEN k ELSE None
FaultyNewOffer(k, action) == k
NewOffer(k, action) == IF NewRow(action).status = "PENDING" THEN k ELSE None

(* The newest accepted row still overrides: its transition is to come.     *)
OverrideActive ==
    \E k \in Transitions : k > hour /\ row[k] # None /\ row[k].status = "ACCEPTED"
-----------------------------------------------------------------------------
(* The background task.                                                    *)
FaultyFinish(t) == UNCHANGED current
Finish(t) == current' = IF current = t THEN None ELSE current

(* _save_reading_to_place: the row is inserted, then a task is started     *)
(* unless one of this place is still running.                              *)
Working(t) == condition[t] # NoCommand \/ query[t] # Idle \/ answer[t] # Quiet
NewTask == CHOOSE t \in Tasks : ~Working(t)

FaultyStartTask(t) ==
    /\ (ConditionControl \/ OccupancyControl)
    /\ \E u \in Tasks : ~Working(u)
    /\ LET c == IF ConditionControl
                THEN ConditionCommand(Recommended, SeenWindow, SeenAircon) ELSE NoCommand
       IN  /\ c # NoCommand \/ OccupancyControl
           /\ condition' = [condition EXCEPT ![t] = c]
           /\ query' = [query EXCEPT ![t] = IF c = NoCommand THEN Asking ELSE Idle]
    /\ current' = t

StartTask(t) ==
    /\ (ConditionControl \/ OccupancyControl) /\ current = None
    /\ \E u \in Tasks : ~Working(u)
    /\ LET c == IF ConditionControl
                THEN ConditionCommand(Recommended, SeenWindow, SeenAircon) ELSE NoCommand
       IN  /\ c # NoCommand \/ OccupancyControl
           /\ condition' = [condition EXCEPT ![t] = c]
           /\ query' = [query EXCEPT ![t] = IF c = NoCommand THEN Asking ELSE Idle]
    /\ current' = t

NothingToDo ==
    \/ ~ConditionControl /\ ~OccupancyControl
    \/ current # None
    \/ ~OccupancyControl /\ ConditionCommand(Recommended, SeenWindow, SeenAircon) = NoCommand

SaveReading ==
    /\ latest' = Stored
    /\ \/ StartTask(NewTask)
       \/ NothingToDo /\ UNCHANGED <<current, condition, query>>
    /\ UNCHANGED <<timeVars, roomVars, row, answer, popup, history>>

(* send_command(): the board carries the command out, or it is lost on the *)
(* way with or without the caller hearing of it.                           *)
Carried(c) == window' = WindowAfter(c, window) /\ aircon' = AirconAfter(c, aircon)
NotCarried == UNCHANGED <<window, aircon>>

FaultyControlCondition(t) ==
    /\ condition[t] # NoCommand
    /\ Carried(condition[t]) \/ NotCarried
    /\ condition' = [condition EXCEPT ![t] = NoCommand]
    /\ query' = [query EXCEPT ![t] = Asking]
    /\ Finish(t)
    /\ UNCHANGED <<timeVars, pattern, climate, live, latest, row, answer, popup, history>>

ControlCondition(t) ==
    /\ condition[t] # NoCommand
    /\ Carried(condition[t]) \/ NotCarried
    /\ condition' = [condition EXCEPT ![t] = NoCommand]
    /\ IF OccupancyControl
       THEN query' = [query EXCEPT ![t] = Asking] /\ UNCHANGED current
       ELSE Finish(t) /\ UNCHANGED query
    /\ UNCHANGED <<timeVars, pattern, climate, live, latest, row, answer, popup, history>>
-----------------------------------------------------------------------------
(* get_prediction_state, call by call.                                     *)
Proceed(a, progress) ==
    /\ query' = [query EXCEPT ![a] = progress]
    /\ UNCHANGED <<answer, popup, current>>

(* The state reaches its caller: a task answers an offer, a page shows it. *)
Deliver(a, offer) ==
    /\ query' = [query EXCEPT ![a] = Idle]
    /\ IF a \in Pages
       THEN popup' = [popup EXCEPT ![a] = offer] /\ UNCHANGED <<answer, current>>
       ELSE /\ IF offer = None
               THEN Finish(a) /\ UNCHANGED answer
               ELSE answer' = [answer EXCEPT ![a] = Reply(offer, TRUE)] /\ UNCHANGED current
            /\ UNCHANGED popup

Poll(p) ==
    /\ query[p] = Idle
    /\ Proceed(p, Asking)
    /\ UNCHANGED <<timeVars, roomVars, latest, row, condition, history>>

(* The override and the pattern are read; together, for a row accepted in   *)
(* between is met by Look.                                                 *)
Predict(a) ==
    /\ query[a].at = "predict"
    /\ IF OverrideActive \/ Upcoming = None
       THEN Deliver(a, None)
       ELSE Proceed(a, [at |-> "look", key |-> Upcoming, action |-> NoCommand])
    /\ UNCHANGED <<timeVars, roomVars, latest, row, condition, history>>

(* The row, if there is one, decides; else its action is computed.         *)
Look(a) ==
    /\ query[a].at = "look"
    /\ LET k == query[a].key IN
       IF row[k] # None
       THEN Deliver(a, Offer(k))
       ELSE Proceed(a, [at |-> "insert", key |-> k, action |-> PreviewAction(k)])
    /\ UNCHANGED <<timeVars, roomVars, latest, row, condition, history>>

(* Another caller may have inserted the row since (unique violation): that *)
(* row is fetched and decides.                                             *)
Insert(a) ==
    /\ query[a].at = "insert"
    /\ LET k == query[a].key action == query[a].action IN
       IF row[k] = None
       THEN row' = [row EXCEPT ![k] = NewRow(action)] /\ Deliver(a, NewOffer(k, action))
       ELSE Deliver(a, Offer(k)) /\ UNCHANGED row
    /\ UNCHANGED <<timeVars, roomVars, latest, condition, history>>

(* The database does not answer: the task gives up, the page shows what it  *)
(* showed before.                                                          *)
QueryFails(a) ==
    /\ query[a] # Idle
    /\ query' = [query EXCEPT ![a] = Idle]
    /\ IF a \in Tasks THEN Finish(a) ELSE UNCHANGED current
    /\ UNCHANGED <<timeVars, roomVars, latest, row, condition, answer, popup, history>>

QueryStep(a) == Predict(a) \/ Look(a) \/ Insert(a)
-----------------------------------------------------------------------------
(* Answering: respond_to_prediction and the command that follows a "yes".  *)
Press(p, accept) ==
    /\ popup[p] # None /\ answer[p] = Quiet
    /\ answer' = [answer EXCEPT ![p] = Reply(popup[p], accept)]
    /\ UNCHANGED <<timeVars, roomVars, latest, row, current, condition, query, popup, history>>

(* The answer is over; a page closes its popup unless there was an error.  *)
Answered(a, closes) ==
    /\ answer' = [answer EXCEPT ![a] = Quiet]
    /\ IF a \in Pages
       THEN popup' = (IF closes THEN [popup EXCEPT ![a] = None] ELSE popup) /\ UNCHANGED current
       ELSE Finish(a) /\ UNCHANGED popup

CheckPending(a) ==
    /\ answer[a].at = "check"
    /\ IF row[answer[a].key].status = "PENDING"
       THEN /\ answer' = [answer EXCEPT ![a].at = "record"]
            /\ UNCHANGED <<current, popup>>
       ELSE Answered(a, FALSE)
    /\ UNCHANGED <<timeVars, roomVars, latest, row, condition, query, history>>

(* The update names the row by its id alone.                               *)
Record(a) ==
    /\ answer[a].at = "record"
    /\ LET k == answer[a].key c == CommandOf(row[k].action) IN
       /\ row' = [row EXCEPT ![k].status = IF answer[a].accept THEN "ACCEPTED" ELSE "DECLINED"]
       /\ IF answer[a].accept
          THEN /\ answer' = [answer EXCEPT ![a] =
                                 [at |-> "command", key |-> k, accept |-> TRUE, command |-> c]]
               /\ UNCHANGED <<current, popup>>
          ELSE Answered(a, TRUE)
    /\ UNCHANGED <<timeVars, roomVars, latest, condition, query, history>>

Count(a, k) ==
    /\ executions' = [executions EXCEPT ![k] = @ + 1]
    /\ unattended' = IF a \in Tasks THEN [unattended EXCEPT ![k] = @ + 1] ELSE unattended

(* closes: the caller of send_command() gets an answer, not an error.      *)
ControlOccupancy(a, closes) ==
    /\ answer[a].at = "command"
    /\ \/ Carried(answer[a].command) /\ Count(a, answer[a].key)
       \/ NotCarried /\ UNCHANGED history
    /\ Answered(a, closes)
    /\ UNCHANGED <<timeVars, pattern, climate, live, latest, row, condition, query>>

AnswerFails(a) ==
    /\ answer[a].at \in {"check", "record"}
    /\ Answered(a, FALSE)
    /\ UNCHANGED <<timeVars, roomVars, latest, row, condition, query, history>>

AnswerStep(a) ==
    \/ CheckPending(a)
    \/ Record(a)
    \/ \E closes \in BOOLEAN : ControlOccupancy(a, closes)
-----------------------------------------------------------------------------
Next ==
    \/ Environment
    \/ SaveReading
    \/ \E t \in Tasks : ControlCondition(t)
    \/ \E p \in Pages : Poll(p) \/ \E accept \in BOOLEAN : Press(p, accept)
    \/ \E a \in Callers : QueryStep(a) \/ QueryFails(a) \/ AnswerStep(a) \/ AnswerFails(a)

TaskStep(t) ==
    ControlCondition(t) \/ QueryStep(t) \/ QueryFails(t) \/ AnswerStep(t) \/ AnswerFails(t)
PollStep(p) == Poll(p) \/ QueryStep(p) \/ QueryFails(p)

(* The thread pool and the command timeout let every call end; a page      *)
(* polls every minute, and not every poll meets a failing database.        *)
Fairness ==
    /\ \A t \in Tasks : WF_vars(TaskStep(t))
    /\ \A p \in Pages : /\ WF_vars(PollStep(p)) /\ SF_vars(Predict(p)) /\ SF_vars(Look(p))
                       /\ WF_vars(AnswerStep(p) \/ AnswerFails(p))

Spec == Init /\ [][Next]_vars
FairSpec == Spec /\ Fairness
-----------------------------------------------------------------------------
Pending(k) == row[k] # None /\ row[k].status = "PENDING"

(* Background control carries out the action of a transition at most once, *)
(* however readings and tasks follow each other                            *)
(* (_schedule_background_control, respond_to_prediction).                  *)
BackgroundOnce == \A k \in Transitions : unattended[k] <= 1

(* A prediction with nothing to do (EXPIRED) is neither shown to a page    *)
(* nor answered by anyone (get_prediction_state).                          *)
ExpiredNeverOffered ==
    /\ \A p \in Pages : popup[p] # None => row[popup[p]].status # "EXPIRED"
    /\ \A a \in Callers : answer[a].at # "idle" => row[answer[a].key].status # "EXPIRED"

(* Only one background task of the place is ever at work, whatever becomes *)
(* of the tasks before it (_background_control_tasks).                     *)
OneTaskAtWork == \A t \in Tasks : Working(t) => current = t

(* Left alone, the room settles: condition control does not switch a       *)
(* device back and forth.  "빈 방에서는 꺼진 상태로 안정된다"               *)
(* (tests/test_recommendation_engine.py:18).                               *)
Settles == []<><<Environment>>_vars \/ <>[][UNCHANGED <<window, aircon>>]_vars

(* A background task ends, whatever the database and the board do.         *)
TasksEnd == (current # None) ~> (current = None)

(* A popup about a prediction somebody else has answered goes away.        *)
StalePopupCloses ==
    \A p \in Pages : \A k \in Transitions :
        (popup[p] = k /\ ~Pending(k)) ~> (popup[p] # k)
-----------------------------------------------------------------------------
(* What the code's comments promise and the code does not keep.            *)

(* "transition_key 기준 중복 계산/중복 실행 방지 로직을 그대로 물려받기     *)
(* 위함이다(같은 전환에 대해 두 번 실행되지 않음)" (readings_router.py:456) *)
ExecutedOnce == \A k \in Transitions : executions[k] <= 1

(* An accepted action holds until its transition ("10분만 유지",            *)
(* occupancy_engine.py:551): condition control does not undo it.           *)
Undoes(c, action) ==
    \/ c = "TURN_OFF_AIRCON" /\ action = "USE_AIRCON"
    \/ c = "CLOSE_WINDOW" /\ action = "OPEN_WINDOW"
AcceptedActionHolds ==
    \A t \in Tasks : \A k \in Transitions :
        executions[k] > 0 /\ k > hour => ~Undoes(condition[t], row[k].action)

(* Only a preparation that PREDICTION_COPY words is offered; any other     *)
(* action "준비할 게 없다는 뜻" is EXPIRED (readings_router.py:325-327).    *)
PredictionCopy == {<<"ARRIVAL", "USE_AIRCON">>, <<"ARRIVAL", "OPEN_WINDOW">>,
                   <<"DEPARTURE", "TURN_OFF_AIRCON">>}
OffersAreWorded ==
    \A k \in Transitions : Pending(k) => <<Direction(k), row[k].action>> \in PredictionCopy
=============================================================================
