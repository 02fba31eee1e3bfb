----------------------------- MODULE ReadingsView -----------------------------
(***************************************************************************)
(* What the readings page makes of the newest reading: its tiles, its      *)
(* alerts (EnvironmentPanels.jsx, buildAlerts() in sensorReadingsUtils.js) *)
(* and the axis of its charts, beside the advice the engine stored with    *)
(* that reading.  Page and engine compare the same measurements with the   *)
(* same thresholds, each in its own code and language.                     *)
(*                                                                         *)
(* A reading is a room of the engine, with the reasons of outsideBad told  *)
(* apart, and                                                              *)
(*   warm     the temperature alone reaches the threshold (the engine's    *)
(*            hot is also true of a high discomfort index)                 *)
(*   legacy   stored before the sources of its values were stored too      *)
(* Settings do not change meanwhile.                                       *)
(***************************************************************************)
EXTENDS Recommendation, HistoryChart

CONSTANTS Pauses,         \* seconds between two readings
          MaxReadings,    \* bound: readings in the history
          MaxVaried       \* bound: those after which any pause may follow

ASSUME ViewAssumption ==
    Pauses \subseteq Nat /\ {MaxReadings, MaxVaried} \subseteq Nat \ {0}

VARIABLES reading,        \* latest
          connection,     \* getConnectionState(): failed, retried or neither
          times           \* when the readings of the history were measured

viewVars == <<reading, connection, times>>

RoomReadings ==
    {r \in [room : Rooms, rain : BOOLEAN, storm : BOOLEAN, dust : BOOLEAN,
            warm : BOOLEAN, legacy : BOOLEAN] :
        /\ r.room.outsideBad = (r.rain \/ r.storm \/ r.dust)
        /\ r.warm => r.room.hot /\ ~r.room.cold
        /\ r.storm => (r.room.breeze \/ ~r.room.cooler)}

NoRow == [legacy |-> TRUE]
Connections == {"fine", "retrying", "error"}
----------------------------------------------------------------------------
(* From the sensors over the stored row to the page *)

\* A window without a sensor is stored as closed, with the truth beside it.
Row(r) == [windowIsOpen  |-> r.room.window = "open",
           windowKnown   |-> ~r.legacy /\ r.room.window # "unknown",
           acIsOn        |-> r.room.ac = "on",
           acKnown       |-> ~r.legacy /\ r.room.ac # "unknown",
           occupancy     |-> IF r.legacy THEN "unknown" ELSE r.room.presence,
           outdoorValid  |-> ~r.legacy]

FaultyWindowState(row) == IF row.windowIsOpen THEN "open" ELSE "closed"
WindowState(row) ==
    IF ~row.windowKnown THEN "unknown"
    ELSE IF row.windowIsOpen THEN "open" ELSE "closed"

AcState(row) ==
    IF ~row.acKnown THEN "unknown" ELSE IF row.acIsOn THEN "on" ELSE "off"

NormalizeReading(r) ==
    [window |-> WindowState(Row(r)), ac |-> AcState(Row(r)),
     presence |-> Row(r).occupancy, outdoorValid |-> Row(r).outdoorValid]

----------------------------------------------------------------------------
(* Tiles that call their value dangerous *)

\* Only one place has sensors of its own; the others' indoor tiles are empty.
IndoorTiles(r, home) == IF home /\ r.room.humid THEN {"humid"} ELSE {}

FaultyOutdoorTiles(r) == {k \in {"dust", "storm"} : r[k]}
OutdoorTiles(r) ==
    IF NormalizeReading(r).outdoorValid THEN {k \in {"dust", "storm"} : r[k]} ELSE {}

OutdoorTemperature(r) ==
    IF ~NormalizeReading(r).outdoorValid THEN "no data"
    ELSE IF r.room.cooler THEN "cooler"
    ELSE IF r.room.breeze THEN "wind helps" ELSE "not cooler"

----------------------------------------------------------------------------
(* Alerts *)

FaultyStrongWind(r) == r.room.breeze
StrongWind(r) == r.storm

Raised(k, r, c) ==
    LET v == NormalizeReading(r) IN
    CASE k \in {"error", "retrying"} -> c = k
      [] k = "source" -> ~v.outdoorValid
      [] k = "window" -> v.window = "unknown"
      [] k = "warm"   -> r.warm
      [] k = "humid"  -> r.room.humid
      [] k = "wasted" -> v.ac = "on" /\ v.presence = "empty"
      [] k = "dust"   -> v.outdoorValid /\ r.dust
      [] k = "storm"  -> v.outdoorValid /\ StrongWind(r)

AlertOrder == <<"error", "retrying", "source", "window", "warm", "humid",
                "wasted", "dust", "storm">>
AlertsShown == 5

\* The first five, in that order.
BuildAlerts(r, c) ==
    IF r = NoRow THEN {"waiting"}
    ELSE LET raised == {i \in DOMAIN AlertOrder : Raised(AlertOrder[i], r, c)}
             kept   == {i \in raised : Cardinality({j \in raised : j < i}) < AlertsShown}
         IN  IF raised = {} THEN {"clear"} ELSE {AlertOrder[i] : i \in kept}

----------------------------------------------------------------------------
ViewInit == reading = NoRow /\ connection \in Connections /\ times = <<>>

\* Bound: a history grows of readings alike, as the charts' axis depends on
\* their times alone; after the first few only the longest pause follows.
Plain == CHOOSE r \in RoomReadings : ~r.legacy /\ ~r.room.outsideBad /\ ~r.room.hot

FirstReading ==
    /\ times = <<>> /\ times' = <<0>>
    /\ reading' \in RoomReadings
    /\ UNCHANGED connection

NextReading ==
    /\ reading = Plain /\ connection = "fine"
    /\ Len(times) \in 1..(MaxReadings - 1)
    /\ \E pause \in Pauses :
         /\ Len(times) < MaxVaried \/ \A other \in Pauses : other =< pause
         /\ times' = Append(times, Last(times) + pause)
    /\ UNCHANGED <<reading, connection>>

ViewNext == FirstReading \/ NextReading

ViewSpec == ViewInit /\ [][ViewNext]_viewVars

----------------------------------------------------------------------------
(* Properties *)

Shown == BuildAlerts(reading, connection)
Advice == DetermineAction(reading.room)

\* The page shows a window or an air conditioner as the sensors saw it, or as
\* not known: the "closed" stored for a missing sensor never reaches it
\* (sensorReadingsUtils.js:567-641, readings_router.py:118-127).
ShownIsMeasured ==
    reading # NoRow =>
        /\ NormalizeReading(reading).window \in
             (IF reading.legacy THEN {"unknown"} ELSE {reading.room.window})
        /\ NormalizeReading(reading).ac \in
             (IF reading.legacy THEN {"unknown"} ELSE {reading.room.ac})

\* What a tile calls dangerous an alert names, unless five others come before.
DangerIsAnnounced ==
    reading # NoRow =>
        \A home \in BOOLEAN :
            \A k \in IndoorTiles(reading, home) \cup OutdoorTiles(reading) :
                k \in Shown \/ Cardinality(Shown) = AlertsShown

\* Engine and page agree, each by its own comparisons: nobody is told to open
\* the window beside a warning of the air or the wind, or by a tile that calls
\* the air outside no help; an air conditioner running for nobody is switched
\* off unless the weather or a sensor comes first.
AdviceFitsTheAlerts ==
    reading # NoRow =>
        /\ Advice = "OPEN_WINDOW" =>
             /\ Shown \cap {"dust", "storm"} = {}
             /\ OutdoorTemperature(reading) # "not cooler"
        /\ "wasted" \in Shown /\ ~reading.room.outsideBad =>
             Advice \in {"TURN_OFF_AIRCON", "ERROR"}

HasRoom(x, g, halfWidth) ==
    LET mark == GapBreak(times, g)
    IN  x[g] + halfWidth =< mark /\ mark + halfWidth =< x[g + 1]

\* Readings stand on the axis in the order of their times, within it, and each
\* long pause is marked between the two around it.  Of up to seven pauses the
\* marks reach neither reading; of up to ten the lines on both sides still run
\* forward (sensorReadingsUtils.js:302-433, SensorHistorySection.jsx:183-245).
ChartInOrder ==
    LET x == XPositions(times)  pauses == Cardinality(Gaps(times)) IN
    /\ \A i \in DOMAIN times :
         /\ x[i] \in Left..(Left + Width)
         /\ i > 1 => x[i - 1] =< x[i]
    /\ \A g \in Gaps(times) :
         /\ HasRoom(x, g, 0)
         /\ pauses =< 7  => HasRoom(x, g, MarkHalfWidth)
         /\ pauses =< 10 => HasRoom(x, g, LineHalfWidth)

\* The times written below never overlap, and the newest is among them.
LabelsApart ==
    LET x == XPositions(times)  labels == TimeLabels(times) IN
    /\ times # <<>> => Last(labels) = Len(times)
    /\ \A k \in 2..Len(labels) : x[labels[k]] - x[labels[k - 1]] >= LabelWidth

\* In no run; the code keeps none of them.  The alert of an empty room agrees
\* with the engine; "nothing to report" is shown of nothing to be done; a
\* danger is not left out for a remark.
EmptyRoomAgrees == reading # NoRow /\ "wasted" \in Shown => Advice = "TURN_OFF_AIRCON"
AllClearIsClear == reading # NoRow /\ Shown = {"clear"} => Advice \in {"ENJOY", "MAINTAIN"}
DangerNotCut ==
    reading # NoRow =>
        \A k \in OutdoorTiles(reading) : k \in Shown
=============================================================================
