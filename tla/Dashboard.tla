------------------------------- MODULE Dashboard -------------------------------
(***************************************************************************)
(* The dashboard (DashboardHome in App.jsx) and its recommendation card    *)
(* (RecommendationCard.jsx).  The page pins one recommendation at a time,  *)
(* numbered by readingKey; the card, once started, counts five seconds     *)
(* down and sends the device command, unless it is refused.                *)
(*                                                                         *)
(* Requests are answered some time, in any order.  A handler and the       *)
(* effects React runs after it are one step.  Of a recommendation only     *)
(* its place is kept, and whether there is anything to be done.  The       *)
(* minute's poll pins nothing and is left out.                             *)
(***************************************************************************)
EXTENDS QuickControls

CONSTANT MaxKey       \* bound: recommendations pinned

\* The first recommendation is none yet; the load of the start pins another.
ASSUME DashboardAssumption == MaxKey \in Nat \ {0, 1}

VARIABLES
    loads,        \* loadLatestReading(true) under way, by place
    key,          \* pinnedReadingKey
    pinned,       \* the recommendation pinned: its place, and if it acts
    started,      \* hasStartedRecommendation
    phase,
    timer,        \* the five seconds: for which key, to which place
    handled,      \* handledReadingKeyRef
    settled,      \* settledReadingKey
    fired,        \* firedForReadingKeyRef
    override,     \* postExecutionOverride
    refreshing,   \* the place a new recommendation was asked for, by button
    autos,        \* automatic commands under way
    decided       \* history: how often each key was executed or refused

page == <<place, loads, key, pinned, started, refreshing>>
card == <<phase, timer, handled, settled, fired, override, autos, decided>>
vars == <<page, card, quick>>

Keys     == 1..MaxKey
NoKey    == 0
NoTimer  == [key |-> NoKey, to |-> NoPlace, of |-> NoPlace]
Selected == Places \cup {NoPlace}
Command  == [key : Keys \cup {NoKey}, to : Selected, of : Selected]
Nobody   == "nobody"

TypeOK ==
    /\ ControlsTypeOK /\ loads \subseteq Selected
    /\ refreshing \in Places \cup {Nobody}
    /\ key \in Keys /\ {handled, settled, fired} \subseteq Keys \cup {NoKey}
    /\ pinned \in [of : Selected, acts : BOOLEAN] /\ started \in BOOLEAN
    /\ phase \in {"idle", "confirming", "auto-executing", "rejected", "failed"}
    /\ timer \in Command /\ autos \subseteq Command
    /\ override \in {"none", "auto", "manual"}
    /\ decided \in [Keys -> Nat]

Init ==
    /\ ControlsInit /\ loads = {NoPlace} /\ refreshing = Nobody
    /\ key = 1 /\ pinned = [of |-> NoPlace, acts |-> FALSE] /\ started = FALSE
    /\ phase = "idle" /\ timer = NoTimer /\ override = "none"
    /\ handled = NoKey /\ settled = NoKey /\ fired = NoKey
    /\ autos = {} /\ decided = [k \in Keys |-> 0]

----------------------------------------------------------------------------
(* The card's effect on [hasStarted, placeId, readingKey] *)

CardRests == phase' = "idle" /\ timer' = NoTimer /\ override' = "none"

Handle(k) == handled' = k /\ settled' = k

StartCountdown(k, rec) ==
    /\ timer' = [key |-> k, to |-> place, of |-> rec.of]
    /\ phase' = "confirming" /\ override' = "none"

\* A key that has been handled is not counted down again, whatever became of
\* it.  (Handled is never ahead of the key.)
FaultyFresh(k) == TRUE
Fresh(k) == handled # k

CardEffect(k, rec) ==
    LET counts == started' /\ place # NoPlace
    IN  \/ ~counts /\ CardRests /\ UNCHANGED <<handled, settled>>
        \/ counts /\ ~rec.acts /\ CardRests /\ Handle(k)
        \/ counts /\ rec.acts /\ Fresh(k) /\ StartCountdown(k, rec) /\ Handle(k)
        \/ /\ counts /\ rec.acts /\ ~Fresh(k)
           /\ UNCHANGED <<phase, timer, override, handled, settled>>

----------------------------------------------------------------------------
(* The page *)

Outstanding == Cardinality(loads) + (IF refreshing = Nobody THEN 0 ELSE 1)

\* The card's effect comes first, with the old start; then the page resets it
\* and the card clears what it has begun.
SelectPlace(p) ==
    /\ p # place /\ key + Outstanding < MaxKey
    /\ place' = p /\ started' = FALSE /\ loads' = loads \cup {p}
    /\ CardRests
    /\ IF started THEN Handle(key) ELSE UNCHANGED <<handled, settled>>
    /\ UNCHANGED <<key, pinned, refreshing, fired, autos, decided>>

\* The popup of a prediction opens or closes, a test reading is entered.
LoadAgain ==
    /\ place \notin loads /\ key + Outstanding < MaxKey
    /\ loads' = loads \cup {place}
    /\ UNCHANGED <<place, key, pinned, started, refreshing, card>>

\* The answer is pinned, whichever place is selected by now.  A place without
\* readings pins a recommendation that does nothing.
Pin(p, acts) ==
    /\ key' = key + 1 /\ pinned' = [of |-> p, acts |-> acts]
    /\ started' = started
    /\ CardEffect(key + 1, [of |-> p, acts |-> acts])
    /\ UNCHANGED <<place, fired, autos, decided>>

Loaded(p, acts) ==
    /\ p \in loads /\ loads' = loads \ {p}
    /\ Pin(p, acts) /\ UNCHANGED refreshing

LoadFails(p) ==
    /\ p \in loads /\ loads' = loads \ {p}
    /\ UNCHANGED <<place, key, pinned, started, refreshing, card>>

Start ==
    /\ ~started /\ started' = TRUE
    /\ CardEffect(key, pinned)
    /\ UNCHANGED <<place, loads, key, pinned, refreshing, fired, autos, decided>>

----------------------------------------------------------------------------
(* The card *)

Decide(k) == decided' = [decided EXCEPT ![k] = @ + 1]

HandleReject ==
    /\ started /\ phase = "confirming"
    /\ timer' = NoTimer /\ phase' = "rejected"
    /\ Decide(key)
    /\ UNCHANGED <<page, handled, settled, fired, override, autos>>

\* executeAutoCommand(), five seconds after the countdown began.
CountdownEnds ==
    /\ timer # NoTimer /\ timer' = NoTimer
    /\ IF fired = timer.key THEN UNCHANGED <<fired, phase, autos, decided>>
       ELSE /\ fired' = timer.key /\ phase' = "auto-executing"
            /\ autos' = autos \cup {timer}
            /\ Decide(timer.key)
    /\ UNCHANGED <<page, handled, settled, override>>

FaultyAutoFailed(a) == UNCHANGED <<phase, override>>
AutoFailed(a) == phase' = "failed" /\ UNCHANGED override

\* The answer sets the phase, whatever the card is doing by then.
AutoAnswered(a) ==
    /\ a \in autos /\ autos' = autos \ {a}
    /\ \/ phase' = "idle" /\ override' = "auto"
       \/ AutoFailed(a)
    /\ UNCHANGED <<page, timer, handled, settled, fired, decided>>

\* externalCommand: a command of the buttons has succeeded.
ManualCommand ==
    /\ override' = "manual"
    /\ UNCHANGED <<page, phase, timer, handled, settled, fired, autos, decided>>

CanRequestNewRecommendation ==
    started /\ phase \in {"idle", "rejected", "failed"} /\ settled = key

RequestNewRecommendation ==
    /\ CanRequestNewRecommendation /\ refreshing = Nobody
    /\ key + Outstanding < MaxKey
    /\ refreshing' = place
    /\ UNCHANGED <<place, loads, key, pinned, started, card>>

Refreshed(acts) ==
    /\ refreshing # Nobody /\ refreshing' = Nobody
    /\ Pin(refreshing, acts) /\ UNCHANGED loads

RefreshFails ==
    /\ refreshing # Nobody /\ refreshing' = Nobody
    /\ UNCHANGED <<place, loads, key, pinned, started, card>>

----------------------------------------------------------------------------
CardSteps == CountdownEnds \/ \E a \in autos : AutoAnswered(a)

PageSteps ==
    \/ LoadAgain \/ Start
    \/ \E p \in loads, acts \in BOOLEAN : Loaded(p, acts)
    \/ \E p \in loads : LoadFails(p)
    \/ HandleReject \/ RequestNewRecommendation
    \/ \E acts \in BOOLEAN : Refreshed(acts)
    \/ RefreshFails \/ CardSteps

CommandStep ==
    \E linked \in commands :
        \/ CommandEnds(linked, TRUE)
              /\ (ManualCommand \/ UNCHANGED <<page, card>>)
        \/ CommandEnds(linked, FALSE) /\ UNCHANGED <<page, card>>

ControlSteps == LinkStep \/ ReadStep \/ PollState \/ SendControlCommand

Next ==
    \/ \E p \in Places : SelectPlace(p) /\ ControlsTurnTo(p)
    \/ PageSteps /\ UNCHANGED quick
    \/ ControlSteps /\ UNCHANGED <<page, card>>
    \/ CommandStep

\* Timers expire and requests settle; nobody has to click.
Fairness ==
    /\ WF_vars(CountdownEnds /\ UNCHANGED quick)
    /\ WF_vars((\E a \in autos : AutoAnswered(a)) /\ UNCHANGED quick)
    /\ WF_vars(ReadStep /\ UNCHANGED <<page, card>>)
    /\ WF_vars(CommandStep)
Spec == Init /\ [][Next]_vars /\ Fairness

----------------------------------------------------------------------------
(* Properties *)

\* Each recommendation is decided once: it is not sent twice, and never after
\* it was refused, however places, loads and late answers interleave (the
\* three refs of RecommendationCard.jsx:230-242).
DecidedOnce == \A k \in Keys : decided[k] =< 1

\* A card that was started comes to the button for a new recommendation, or
\* is stopped: no countdown and no command leaves it stuck.
CardSettles == started ~> CanRequestNewRecommendation \/ ~started \/ place = NoPlace

\* In no run: a command goes to the place its recommendation is about.  The
\* code does not keep it.
CommandsStayHome == \A a \in autos : a.to = a.of
=============================================================================
