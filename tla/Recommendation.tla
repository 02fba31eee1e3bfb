--------------------------- MODULE Recommendation ---------------------------
(***************************************************************************)
(* The recommendation engine (dudeoji-api/recommendation_engine.py): what  *)
(* to do with the air conditioner and the window of a room.  The engine is *)
(* a list of early returns; its measurements are abstracted to the         *)
(* comparisons the code makes with them:                                   *)
(*                                                                         *)
(*   plausible   the indoor temperature is within the sensor's range       *)
(*   outsideBad  rain, snow, a strong wind or dust                         *)
(*   hot         temperature or discomfort index over the threshold        *)
(*   humid, breeze, cooler, cold    humidity_high, wind_is_helpful,        *)
(*               outdoor_cooler, indoor_temp < indoor_cold                 *)
(*   hold        AUTO mode, at least 22 degrees, and the air conditioner   *)
(*               has not yet run for the place's minimum time              *)
(*                                                                         *)
(* A window or an air conditioner whose sensor is missing is "unknown", as *)
(* is a presence for which there is no signal.  An operator named Faulty... *)
(* is a variant with one plausible mistake.                                *)
(***************************************************************************)

Windows == {"open", "closed", "unknown"}
Aircons == {"on", "off", "unknown"}
Presences == {"present", "empty", "unknown"}
Rooms == [window : Windows, ac : Aircons, presence : Presences,
          plausible : BOOLEAN, outsideBad : BOOLEAN, hot : BOOLEAN,
          humid : BOOLEAN, breeze : BOOLEAN, cooler : BOOLEAN,
          cold : BOOLEAN, hold : BOOLEAN]

Actions == {"ERROR", "CLOSE_WINDOW", "OPEN_WINDOW", "USE_AIRCON",
            "TURN_OFF_AIRCON", "ENJOY", "MAINTAIN"}
Commands == {"TURN_ON_AIRCON", "TURN_OFF_AIRCON", "OPEN_WINDOW", "CLOSE_WINDOW"}
NoCommand == "none"
-----------------------------------------------------------------------------
(* Nothing is recommended while a sensor is missing or reads nonsense.     *)
SensorProblem(r) == ~r.plausible \/ r.window = "unknown" \/ r.ac = "unknown"

(* An air conditioner that runs goes on running; one that does not is      *)
(* started, but never for a room known to be empty.                        *)
FaultyCooling(r) == IF r.ac = "on" THEN "ENJOY" ELSE "USE_AIRCON"
Cooling(r) ==
    IF r.ac = "on" THEN "ENJOY"
    ELSE IF r.presence = "empty" THEN "MAINTAIN" ELSE "USE_AIRCON"

(* Fresh air is enough: the window opens once the air conditioner is off.  *)
Ventilating(r) ==
    IF r.window = "open" THEN "ENJOY"
    ELSE IF r.ac = "on" THEN "TURN_OFF_AIRCON" ELSE "OPEN_WINDOW"

AirFromOutside(r) == ~r.humid /\ (r.breeze \/ r.cooler)

ShutOut(r) ==
    IF r.window = "open" THEN "CLOSE_WINDOW"
    ELSE IF r.hot THEN Cooling(r) ELSE "MAINTAIN"

(* The air conditioner runs and the window is open: one of them is wrong.  *)
Wasteful(r) ==
    IF ~r.hot \/ AirFromOutside(r) THEN "TURN_OFF_AIRCON" ELSE "CLOSE_WINDOW"

ByTemperature(r) ==
    IF r.hot THEN IF AirFromOutside(r) THEN Ventilating(r) ELSE Cooling(r)
    ELSE IF ~r.cold THEN "ENJOY"
    ELSE IF r.window = "open" THEN "CLOSE_WINDOW" ELSE "MAINTAIN"

DetermineAction(r) ==
    IF SensorProblem(r) THEN "ERROR"
    ELSE IF r.outsideBad THEN ShutOut(r)
    ELSE IF r.ac = "on" /\ r.presence = "empty" THEN "TURN_OFF_AIRCON"
    ELSE IF r.ac = "on" /\ r.window = "open" THEN Wasteful(r)
    ELSE IF r.ac = "on" /\ r.hold THEN "ENJOY"
    ELSE ByTemperature(r)
-----------------------------------------------------------------------------
CommandOf(action) ==
    IF action = "USE_AIRCON" THEN "TURN_ON_AIRCON"
    ELSE IF action \in Commands THEN action ELSE NoCommand

(* The command the background control derives from a recommendation: none  *)
(* for a device whose state is not known or is already the wanted one.     *)
Changes(c, window, ac) ==
    \/ c = "OPEN_WINDOW" /\ window = "closed"
    \/ c = "CLOSE_WINDOW" /\ window = "open"
    \/ c = "TURN_ON_AIRCON" /\ ac = "off"
    \/ c = "TURN_OFF_AIRCON" /\ ac = "on"

ConditionCommand(action, window, ac) ==
    IF Changes(CommandOf(action), window, ac) THEN CommandOf(action) ELSE NoCommand

(* What the board makes of a command (handleControlCommand).               *)
WindowAfter(c, window) ==
    IF c = "OPEN_WINDOW" THEN "open" ELSE IF c = "CLOSE_WINDOW" THEN "closed" ELSE window
AirconAfter(c, ac) ==
    IF c = "TURN_ON_AIRCON" THEN "on" ELSE IF c = "TURN_OFF_AIRCON" THEN "off" ELSE ac

(* The room after its recommendation has been followed.                    *)
Followed(r) ==
    LET c == ConditionCommand(DetermineAction(r), r.window, r.ac)
    IN  [r EXCEPT !.window = WindowAfter(c, r.window), !.ac = AirconAfter(c, r.ac)]
=============================================================================
