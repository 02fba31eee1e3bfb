---------------------------- MODULE DashboardProofs ----------------------------
(***************************************************************************)
(* The card of the dashboard decides every recommendation at most once,    *)
(* for any places and any number of recommendations.  The key pinned is    *)
(* never behind the keys the card remembers, and a countdown that runs is  *)
(* for the key pinned, which has neither been sent nor refused.            *)
(*                                                                         *)
(* Then what lies behind the liveness properties: card and buttons wait    *)
(* only for something that is under way.                                   *)
(***************************************************************************)
EXTENDS Dashboard, FiniteSetTheorems, TLAPS

KeysInv ==
    /\ {key, handled, fired} \subseteq Nat /\ key # NoKey
    /\ handled =< key /\ fired =< handled

\* What has not been handled has not been decided.
DecidedInv ==
    /\ decided \in [Keys -> Nat]
    /\ \A k \in Keys : decided[k] =< 1 /\ (k > handled => decided[k] = 0)

CountdownInv ==
    /\ timer # NoTimer => /\ timer.key = key /\ handled = key /\ fired < key
                          /\ key \in Keys => decided[key] = 0
    /\ phase = "confirming" => timer # NoTimer

CardInv == KeysInv /\ DecidedInv /\ CountdownInv

\* All that the invariant is about.
Remembered == <<key, phase, timer, handled, fired, decided>>

----------------------------------------------------------------------------
LEMMA CardUntouched ==
    ASSUME CardInv, UNCHANGED Remembered
    PROVE  CardInv'
  BY DEF CardInv, KeysInv, DecidedInv, CountdownInv, Remembered

(* The card's effect, for the key pinned or the next one: a countdown      *)
(* begins only for a key that is not handled yet.                          *)
LEMMA EffectKeepsCard ==
    ASSUME CardInv, NEW k \in {key, key + 1}, NEW rec, key' = k, CardEffect(k, rec),
           k = key => ~started \/ timer = NoTimer,
           UNCHANGED <<fired, decided>>
    PROVE  CardInv'
<1> USE DEF CardInv, KeysInv, NoKey, Keys
<1>1. CASE CardRests /\ UNCHANGED <<handled, settled>>
  BY <1>1 DEF CardRests, DecidedInv, CountdownInv
<1>2. CASE CardRests /\ Handle(k)
  BY <1>2 DEF CardRests, Handle, DecidedInv, CountdownInv
<1>3. CASE Fresh(k) /\ StartCountdown(k, rec) /\ Handle(k)
  <2>1. k > handled /\ timer' # NoTimer /\ timer'.key = k /\ handled' = k
    BY <1>3 DEF Fresh, StartCountdown, Handle, NoTimer
  <2>2. KeysInv' /\ DecidedInv'
    BY <2>1 DEF DecidedInv
  <2>3. CountdownInv'
    BY <2>1 DEF DecidedInv, CountdownInv
  <2> QED BY <2>2, <2>3
<1>4. CASE ~Fresh(k) /\ UNCHANGED <<phase, timer, override, handled, settled>>
  <2>1. k = key
    BY <1>4 DEF Fresh
  <2> QED BY <1>4, <2>1 DEF DecidedInv, CountdownInv
<1> QED BY <1>1, <1>2, <1>3, <1>4 DEF CardEffect

(* A countdown that ends and a refusal end each other.                     *)
LEMMA DecisionKeepsCard ==
    ASSUME CardInv, HandleReject \/ CountdownEnds
    PROVE  CardInv'
<1> USE DEF CardInv, KeysInv, NoKey, Keys, page
<1>1. timer # NoTimer /\ timer' = NoTimer
  BY DEF CountdownInv, HandleReject, CountdownEnds
<1>2. timer.key = key /\ handled = key /\ fired < key /\ (key \in Keys => decided[key] = 0)
  BY <1>1 DEF CountdownInv
<1>3. UNCHANGED <<key, handled>> /\ phase' # "confirming" /\ fired' \in {fired, key}
  BY <1>2 DEF HandleReject, CountdownEnds
<1>4. decided' = [decided EXCEPT ![key] = @ + 1]
  BY <1>2 DEF HandleReject, CountdownEnds, Decide
<1>5. DecidedInv'
  <2>1. decided' \in [Keys -> Nat]
    <3> DEFINE once == decided[key] + 1
    <3>1. key \in Keys => once \in Nat
      BY DEF DecidedInv
    <3>2. decided' = [decided EXCEPT ![key] = once]
      BY <1>4
    <3> HIDE DEF once
    <3> QED BY <3>1, <3>2 DEF DecidedInv
  <2>2. ASSUME NEW k \in Keys PROVE decided'[k] =< 1 /\ (k > handled' => decided'[k] = 0)
    <3>1. CASE k = key
      <4>1. decided[k] = 0 /\ decided'[k] = decided[k] + 1
        BY <1>2, <1>4, <3>1 DEF DecidedInv
      <4> QED BY <1>2, <1>3, <3>1, <4>1
    <3>2. CASE k # key
      <4>1. decided'[k] = decided[k]
        BY <1>4, <3>2 DEF DecidedInv
      <4> QED BY <1>3, <4>1 DEF DecidedInv
    <3> QED BY <3>1, <3>2
  <2> QED BY <2>1, <2>2 DEF DecidedInv
<1> QED BY <1>1, <1>2, <1>3, <1>5 DEF CountdownInv

----------------------------------------------------------------------------
LEMMA PinKeepsCard ==
    ASSUME CardInv, NEW p, NEW acts, Pin(p, acts)
    PROVE  CardInv'
  BY EffectKeepsCard DEF Pin, CardInv, KeysInv

LEMMA PageStepKeepsCard ==
    ASSUME CardInv, PageSteps
    PROVE  CardInv'
<1> USE DEF page, card, Remembered
<1>1. CASE LoadAgain \/ RefreshFails \/ RequestNewRecommendation
  BY <1>1, CardUntouched DEF LoadAgain, RefreshFails, RequestNewRecommendation
<1>2. CASE Start
  BY <1>2, EffectKeepsCard DEF Start
<1>3. CASE \E p \in loads, acts \in BOOLEAN : Loaded(p, acts)
  BY <1>3, PinKeepsCard DEF Loaded
<1>4. CASE \E p \in loads : LoadFails(p)
  BY <1>4, CardUntouched DEF LoadFails
<1>5. CASE HandleReject \/ CountdownEnds
  BY <1>5, DecisionKeepsCard
<1>6. CASE \E acts \in BOOLEAN : Refreshed(acts)
  BY <1>6, PinKeepsCard DEF Refreshed
<1>7. CASE \E a \in autos : AutoAnswered(a)
  <2>1. UNCHANGED <<key, timer, handled, fired, decided>> /\ phase' # "confirming"
    BY <1>7 DEF AutoAnswered, AutoFailed
  <2> QED BY <2>1 DEF CardInv, KeysInv, DecidedInv, CountdownInv
<1> QED BY <1>1, <1>2, <1>3, <1>4, <1>5, <1>6, <1>7 DEF PageSteps, CardSteps

LEMMA StepKeepsCard ==
    ASSUME CardInv, [Next]_vars
    PROVE  CardInv'
<1> USE DEF page, card, Remembered
<1>1. CASE \E p \in Places : SelectPlace(p)
  <2>1. CardRests /\ UNCHANGED <<key, fired, decided>> /\ handled' \in {handled, key}
    BY <1>1 DEF SelectPlace, Handle
  <2> QED BY <2>1 DEF CardRests, CardInv, KeysInv, DecidedInv, CountdownInv, Keys
<1>2. CASE PageSteps
  BY <1>2, PageStepKeepsCard
<1>3. CASE ControlSteps /\ UNCHANGED <<page, card>>
  BY <1>3, CardUntouched
<1>4. CASE CommandStep
  BY <1>4, CardUntouched DEF CommandStep, ManualCommand
<1>5. CASE UNCHANGED vars
  BY <1>5, CardUntouched DEF vars
<1> QED BY <1>1, <1>2, <1>3, <1>4, <1>5 DEF Next

LEMMA CardInvHolds == Spec => []CardInv
<1>1. Init => CardInv
  BY DEF Init, CardInv, KeysInv, DecidedInv, CountdownInv, Keys, NoKey
<1>2. CardInv /\ [Next]_vars => CardInv'
  BY StepKeepsCard
<1> QED BY <1>1, <1>2, PTL DEF Spec

----------------------------------------------------------------------------
(* A recommendation is sent at most once and never after it was refused,   *)
(* for any number of them, whatever places are selected and however late   *)
(* the answers come (RecommendationCard.jsx:230-335).                      *)
THEOREM OnceDecided == Spec => []DecidedOnce
<1>1. CardInv => DecidedOnce
  BY DEF CardInv, DecidedInv, DecidedOnce
<1> QED BY <1>1, CardInvHolds, PTL

----------------------------------------------------------------------------
(* Types.  The keys stay within the bound because every recommendation     *)
(* that may still be pinned is counted (Outstanding).                      *)

BoundInv == IsFiniteSet(loads) /\ key + Outstanding =< MaxKey

\* No place is selected only before the first one is known.
NothingYet == place = NoPlace => settled = NoKey

PageInv == TypeOK /\ BoundInv /\ NothingYet

LEMMA RoomTaken ==
    ASSUME NEW k \in Nat, NEW o \in Nat, NEW p \in Nat, NEW m \in Nat,
           k + o < m, p =< o + 1
    PROVE  k + p =< m
  OBVIOUS

LEMMA RoomFreed ==
    ASSUME NEW k \in Nat, NEW o \in Nat, NEW p \in Nat, NEW m \in Nat,
           k + o =< m, p + 1 = o
    PROVE  k + 1 =< m /\ k + p =< m /\ (k + 1) + p =< m
  OBVIOUS

LEMMA OutstandingFacts ==
    ASSUME IsFiniteSet(loads)
    PROVE  Outstanding \in Nat
  BY FS_CardinalityType DEF Outstanding

LEMMA LoadsGrow ==
    ASSUME IsFiniteSet(loads), NEW p, loads' = loads \cup {p}, UNCHANGED refreshing
    PROVE  IsFiniteSet(loads') /\ Outstanding' \in Nat /\ Outstanding' =< Outstanding + 1
<1>1. /\ IsFiniteSet(loads')
      /\ Cardinality(loads') = IF p \in loads THEN Cardinality(loads) ELSE Cardinality(loads) + 1
  BY FS_AddElement
<1>2. Cardinality(loads) \in Nat /\ Cardinality(loads') \in Nat
  BY <1>1, FS_CardinalityType
<1> QED BY <1>1, <1>2 DEF Outstanding

LEMMA LoadsShrink ==
    ASSUME IsFiniteSet(loads), NEW p \in loads, loads' = loads \ {p}, UNCHANGED refreshing
    PROVE  IsFiniteSet(loads') /\ Outstanding' \in Nat /\ Outstanding' + 1 = Outstanding
<1>1. IsFiniteSet(loads') /\ Cardinality(loads') = Cardinality(loads) - 1
  BY FS_RemoveElement
<1>2. Cardinality(loads) \in Nat /\ Cardinality(loads') \in Nat
  BY <1>1, FS_CardinalityType
<1> QED BY <1>1, <1>2 DEF Outstanding

LEMMA RefreshingCounts ==
    ASSUME IsFiniteSet(loads), UNCHANGED loads
    PROVE  /\ Outstanding' \in Nat
           /\ refreshing = Nobody => Outstanding' =< Outstanding + 1
           /\ refreshing # Nobody /\ refreshing' = Nobody => Outstanding' + 1 = Outstanding
<1>1. Cardinality(loads) \in Nat
  BY FS_CardinalityType
<1> QED BY <1>1 DEF Outstanding

\* What the effect of the card leaves behind.
CardTypeOK ==
    /\ {handled, settled} \subseteq Keys \cup {NoKey}
    /\ phase \in {"idle", "confirming", "auto-executing", "rejected", "failed"}
    /\ timer \in Command /\ override \in {"none", "auto", "manual"}

LEMMA EffectTypes ==
    ASSUME CardTypeOK, place \in Selected, NEW k \in Keys, NEW rec, rec.of \in Selected,
           CardEffect(k, rec), NothingYet, place' = place
    PROVE  CardTypeOK' /\ NothingYet'
<1> USE DEF CardTypeOK, NothingYet
<1>1. NoTimer \in Command
  BY DEF NoTimer, Command, Selected
<1>2. CASE CardRests /\ UNCHANGED <<handled, settled>>
  BY <1>1, <1>2 DEF CardRests
<1>3. CASE CardRests /\ Handle(k) /\ place # NoPlace
  BY <1>1, <1>3 DEF CardRests, Handle
<1>4. CASE StartCountdown(k, rec) /\ Handle(k) /\ place # NoPlace
  <2>1. [key |-> k, to |-> place, of |-> rec.of] \in Command
    BY DEF Command
  <2> QED BY <1>4, <2>1 DEF StartCountdown, Handle
<1>5. CASE UNCHANGED <<phase, timer, override, handled, settled>>
  BY <1>5
<1> QED BY <1>2, <1>3, <1>4, <1>5 DEF CardEffect

LEMMA PinTypes ==
    ASSUME PageInv, NEW p \in Selected, NEW acts \in BOOLEAN, Pin(p, acts),
           IsFiniteSet(loads'), loads' \subseteq Selected, refreshing' \in Places \cup {Nobody},
           Outstanding' \in Nat, Outstanding' + 1 = Outstanding, UNCHANGED quick
    PROVE  PageInv'
<1> DEFINE rec == [of |-> p, acts |-> acts]
<1>1. key + 1 \in Keys /\ key' = key + 1 /\ key' + Outstanding' =< MaxKey
  <2>1. key \in Keys /\ key + Outstanding =< MaxKey /\ MaxKey \in Nat
    BY DashboardAssumption DEF PageInv, TypeOK, BoundInv
  <2>2. Outstanding \in Nat
    BY OutstandingFacts DEF PageInv, BoundInv
  <2>3. key \in Nat \ {0} /\ key' = key + 1
    BY <2>1 DEF Keys, Pin
  <2>4. key + 1 =< MaxKey /\ (key + 1) + Outstanding' =< MaxKey
    BY <2>1, <2>2, <2>3, RoomFreed
  <2>5. key + 1 \in 1..MaxKey
    BY <2>1, <2>3, <2>4
  <2> QED BY <2>3, <2>4, <2>5 DEF Keys
<1>2. CardEffect(key + 1, rec) /\ rec.of \in Selected /\ UNCHANGED <<place, fired, autos, decided>>
  BY DEF Pin
<1>3. CardTypeOK' /\ NothingYet'
  <2>1. CardTypeOK /\ place \in Selected /\ NothingYet
    BY DEF PageInv, TypeOK, CardTypeOK, ControlsTypeOK, Selected
  <2> HIDE DEF rec
  <2> QED BY <1>1, <1>2, <2>1, EffectTypes
<1>4. started' = started /\ pinned' = rec
  BY DEF Pin
<1> QED BY <1>1, <1>2, <1>3, <1>4
        DEF PageInv, TypeOK, BoundInv, CardTypeOK, ControlsTypeOK, quick

LEMMA CardStepTypes ==
    ASSUME PageInv, HandleReject \/ CountdownEnds \/ \E a \in autos : AutoAnswered(a),
           UNCHANGED quick
    PROVE  PageInv'
<1> USE DEF PageInv, TypeOK, ControlsTypeOK, page, quick
<1>1. BoundInv' /\ NothingYet'
  BY DEF BoundInv, NothingYet, Outstanding, HandleReject, CountdownEnds, AutoAnswered
<1>2. NoTimer \in Command
  BY DEF NoTimer, Command, Selected
<1>3. ASSUME NEW k, Decide(k) PROVE decided' \in [Keys -> Nat]
  <2> DEFINE once == decided[k] + 1
  <2>1. k \in Keys => once \in Nat
    OBVIOUS
  <2>2. decided' = [decided EXCEPT ![k] = once]
    BY <1>3 DEF Decide
  <2> HIDE DEF once
  <2> QED BY <2>1, <2>2
<1>4. CASE HandleReject
  BY <1>1, <1>2, <1>3, <1>4 DEF HandleReject
<1>5. CASE CountdownEnds
  <2>1. timer.key \in Keys \cup {NoKey}
    BY DEF Command
  <2>2. autos' \subseteq Command /\ fired' \in Keys \cup {NoKey} /\ decided' \in [Keys -> Nat]
    BY <1>3, <1>5, <2>1 DEF CountdownEnds
  <2>3. phase' \in {"idle", "confirming", "auto-executing", "rejected", "failed"}
    BY <1>5 DEF CountdownEnds
  <2> QED BY <1>1, <1>2, <1>5, <2>2, <2>3 DEF CountdownEnds
<1>6. CASE \E a \in autos : AutoAnswered(a)
  BY <1>1, <1>6 DEF AutoAnswered, AutoFailed
<1> QED BY <1>4, <1>5, <1>6

LEMMA PageStepTypes ==
    ASSUME PageInv, PageSteps, UNCHANGED quick
    PROVE  PageInv'
<1>0. /\ IsFiniteSet(loads) /\ loads \subseteq Selected /\ place \in Selected
      /\ key \in Keys /\ key + Outstanding =< MaxKey /\ refreshing \in Places \cup {Nobody}
      /\ CardTypeOK /\ NothingYet /\ Outstanding \in Nat /\ MaxKey \in Nat
      /\ pinned \in [of : Selected, acts : BOOLEAN]
  BY OutstandingFacts, DashboardAssumption
     DEF PageInv, TypeOK, ControlsTypeOK, BoundInv, Selected, CardTypeOK
<1>1. CASE LoadAgain
  <2>1. /\ loads' = loads \cup {place} /\ UNCHANGED refreshing /\ key + Outstanding < MaxKey
        /\ UNCHANGED <<place, key, pinned, started, card, quick>>
    BY <1>1 DEF LoadAgain
  <2>2. BoundInv'
    BY <1>0, <2>1, LoadsGrow DEF BoundInv, Keys
  <2> QED BY <1>0, <2>1, <2>2
          DEF PageInv, TypeOK, ControlsTypeOK, NothingYet, card, quick, Selected
<1>2. CASE Start
  <2>1. /\ UNCHANGED <<place, loads, key, pinned, refreshing, fired, autos, decided, quick>>
        /\ CardEffect(key, pinned) /\ started' = TRUE
    BY <1>2 DEF Start
  <2>2. CardTypeOK' /\ NothingYet'
    BY <1>0, <2>1, EffectTypes
  <2>3. BoundInv'
    BY <2>1 DEF PageInv, BoundInv, Outstanding
  <2> QED BY <2>1, <2>2, <2>3 DEF PageInv, TypeOK, ControlsTypeOK, CardTypeOK, quick
<1>3. CASE \E p \in loads, acts \in BOOLEAN : Loaded(p, acts)
  <2>1. PICK p \in loads, acts \in BOOLEAN : Loaded(p, acts)
    BY <1>3
  <2>2. loads' = loads \ {p} /\ Pin(p, acts) /\ UNCHANGED refreshing
    BY <2>1 DEF Loaded
  <2> QED BY <1>0, <2>2, LoadsShrink, PinTypes
<1>4. CASE \E p \in loads : LoadFails(p)
  <2>1. PICK p \in loads : LoadFails(p)
    BY <1>4
  <2>2. /\ loads' = loads \ {p} /\ UNCHANGED refreshing
        /\ UNCHANGED <<place, key, pinned, started, card, quick>>
    BY <2>1 DEF LoadFails
  <2>3. BoundInv'
    <3>1. IsFiniteSet(loads') /\ Outstanding' \in Nat /\ Outstanding' + 1 = Outstanding
      BY <1>0, <2>2, LoadsShrink
    <3>2. key \in Nat /\ key' = key
      BY <1>0, <2>2 DEF Keys
    <3> QED BY <1>0, <3>1, <3>2, RoomFreed DEF BoundInv
  <2> QED BY <1>0, <2>2, <2>3
          DEF PageInv, TypeOK, ControlsTypeOK, NothingYet, card, quick
<1>5. CASE HandleReject \/ CardSteps
  BY <1>5, CardStepTypes DEF CardSteps
<1>6. CASE RequestNewRecommendation
  <2>1. /\ UNCHANGED <<place, loads, key, pinned, started, card, quick>>
        /\ refreshing' = place /\ refreshing = Nobody /\ key + Outstanding < MaxKey
        /\ settled = key
    BY <1>6 DEF RequestNewRecommendation, CanRequestNewRecommendation
  <2>2. place \in Places
    BY <1>0, <2>1 DEF NothingYet, Selected, Keys, NoKey
  <2>3. BoundInv'
    <3>1. Outstanding' \in Nat /\ Outstanding' =< Outstanding + 1
      BY <1>0, <2>1, RefreshingCounts
    <3>2. key \in Nat /\ key' = key /\ loads' = loads
      BY <1>0, <2>1 DEF Keys
    <3>3. key + Outstanding' =< MaxKey
      BY <1>0, <2>1, <3>1, <3>2, RoomTaken
    <3> QED BY <1>0, <3>2, <3>3 DEF BoundInv
  <2> QED BY <1>0, <2>1, <2>2, <2>3
          DEF PageInv, TypeOK, ControlsTypeOK, NothingYet, card, quick
<1>7. CASE \E acts \in BOOLEAN : Refreshed(acts)
  <2>1. PICK acts \in BOOLEAN : Refreshed(acts)
    BY <1>7
  <2>2. /\ refreshing # Nobody /\ refreshing' = Nobody
        /\ Pin(refreshing, acts) /\ UNCHANGED loads
    BY <2>1 DEF Refreshed
  <2>3. refreshing \in Selected
    BY <1>0, <2>2 DEF Selected
  <2> QED BY <1>0, <2>2, <2>3, RefreshingCounts, PinTypes
<1>8. CASE RefreshFails
  <2>1. /\ UNCHANGED <<place, loads, key, pinned, started, card, quick>>
        /\ refreshing # Nobody /\ refreshing' = Nobody
    BY <1>8 DEF RefreshFails
  <2>2. BoundInv'
    BY <1>0, <2>1, RefreshingCounts DEF BoundInv, Keys
  <2> QED BY <1>0, <2>1, <2>2
          DEF PageInv, TypeOK, ControlsTypeOK, NothingYet, card, quick
<1> QED BY <1>1, <1>2, <1>3, <1>4, <1>5, <1>6, <1>7, <1>8 DEF PageSteps

LEMMA SelectTypes ==
    ASSUME PageInv, NEW p \in Places, SelectPlace(p), ControlsTurnTo(p)
    PROVE  PageInv'
<1>1. /\ loads' = loads \cup {p} /\ UNCHANGED refreshing /\ key + Outstanding < MaxKey
      /\ place' = p /\ started' = FALSE /\ CardRests
      /\ UNCHANGED <<key, pinned, fired, autos, decided>>
      /\ handled' \in {handled, key} /\ settled' \in {settled, key}
  BY DEF SelectPlace, Handle
<1>2. BoundInv'
  <2>1. IsFiniteSet(loads) /\ key \in Nat /\ Outstanding \in Nat /\ MaxKey \in Nat
    BY OutstandingFacts, DashboardAssumption DEF PageInv, BoundInv, TypeOK, Keys
  <2>2. IsFiniteSet(loads') /\ Outstanding' \in Nat /\ Outstanding' =< Outstanding + 1
    BY <1>1, <2>1, LoadsGrow
  <2>3. key' = key /\ key + Outstanding' =< MaxKey
    BY <1>1, <2>1, <2>2, RoomTaken
  <2> QED BY <2>2, <2>3 DEF BoundInv
<1>3. NothingYet'
  BY <1>1, ControlsAssumption DEF NothingYet
<1>4. NoTimer \in Command
  BY DEF NoTimer, Command, Selected
<1> QED BY <1>1, <1>2, <1>3, <1>4
        DEF PageInv, TypeOK, ControlsTypeOK, ControlsTurnTo, CardRests, Selected

LEMMA QuickStepTypes ==
    ASSUME PageInv, (ControlSteps /\ UNCHANGED <<page, card>>) \/ CommandStep
    PROVE  PageInv'
<1>1. ControlsTypeOK'
  <2> USE DEF PageInv, TypeOK, ControlsTypeOK
  <2>1. place' = place /\ place \in Places \cup {NoPlace}
    BY DEF page, CommandStep, ManualCommand
  <2>2. CASE LinkStep
    BY <2>1, <2>2 DEF LinkStep, LinkChanges, DeviceStateComes
  <2>3. CASE ReadStep
    BY <2>1, <2>3 DEF ReadStep, ReadAnswered, LoadingAfter
  <2>4. CASE PollState
    BY <2>1, <2>4 DEF PollState
  <2>5. CASE SendControlCommand
    BY <2>1, <2>5 DEF SendControlCommand
  <2>6. CASE CommandStep
    <3>1. PICK linked \in commands, a \in BOOLEAN : CommandEnds(linked, a)
      BY <2>6 DEF CommandStep
    <3>2. (loading /\ (linked \/ ~a)) \in BOOLEAN
      OBVIOUS
    <3> QED BY <2>1, <3>1, <3>2 DEF CommandEnds
  <2> QED BY <2>2, <2>3, <2>4, <2>5, <2>6 DEF ControlSteps
<1>2. UNCHANGED <<page, phase, timer, handled, settled, fired, autos, decided>>
      /\ override' \in {override, "manual"}
  BY DEF CommandStep, ManualCommand, card
<1> QED BY <1>1, <1>2 DEF PageInv, TypeOK, BoundInv, Outstanding, NothingYet, page

LEMMA PageInvHolds == Spec => []PageInv
<1>1. Init => PageInv
  <2> SUFFICES ASSUME Init PROVE PageInv
    OBVIOUS
  <2>1. IsFiniteSet(loads) /\ Outstanding = 1
    <3>1. loads = {NoPlace} /\ refreshing = Nobody
      BY DEF Init
    <3>2. IsFiniteSet({NoPlace}) /\ Cardinality({NoPlace}) = 1
      BY FS_Singleton
    <3> QED BY <3>1, <3>2 DEF Outstanding
  <2>2. NoTimer \in Command
    BY DEF NoTimer, Command, Selected
  <2>3. 1 \in Keys /\ 1 + 1 =< MaxKey
    BY DashboardAssumption DEF Keys
  <2> QED BY <2>1, <2>2, <2>3
          DEF Init, ControlsInit, PageInv, TypeOK, ControlsTypeOK, BoundInv, NothingYet, Selected
<1>2. PageInv /\ [Next]_vars => PageInv'
  <2> SUFFICES ASSUME PageInv, [Next]_vars PROVE PageInv'
    OBVIOUS
  <2>1. CASE \E p \in Places : SelectPlace(p) /\ ControlsTurnTo(p)
    BY <2>1, SelectTypes
  <2>2. CASE PageSteps /\ UNCHANGED quick
    BY <2>2, PageStepTypes
  <2>3. CASE (ControlSteps /\ UNCHANGED <<page, card>>) \/ CommandStep
    BY <2>3, QuickStepTypes
  <2>4. CASE UNCHANGED vars
    BY <2>4 DEF vars, page, card, quick, PageInv, TypeOK, ControlsTypeOK, BoundInv,
                Outstanding, NothingYet
  <2> QED BY <2>1, <2>2, <2>3, <2>4 DEF Next
<1> QED BY <1>1, <1>2, PTL DEF Spec

(* The page's, the card's and the buttons' state is what it is meant to be,*)
(* for any places: a recommendation is asked for by button only for a      *)
(* place that is known (App.jsx, RecommendationCard.jsx,                   *)
(* HeaderQuickControls.jsx).                                               *)
THEOREM DashboardTypes == Spec => []TypeOK
<1>1. PageInv => TypeOK
  BY DEF PageInv
<1> QED BY <1>1, PageInvHolds, PTL

----------------------------------------------------------------------------
(* What is waited for.  CardSettles and ControlsComeBack need fairness;    *)
(* that the fair steps have something to work on does not.                 *)

\* A started card has handled the recommendation pinned: it offers the button
\* for a new one, or counts down, or a command of its own is under way
\* (RecommendationCard.jsx:252-327, 389-396).
CardWaits ==
    started /\ place # NoPlace =>
        \/ CanRequestNewRecommendation
        \/ phase = "confirming" /\ timer # NoTimer
        \/ phase = "auto-executing" /\ autos # {}

\* Disabled buttons wait for a command under way, "checking" for a reading of
\* the place selected (HeaderQuickControls.jsx:104-147, 178-257).
ControlsWait ==
    /\ pending => commands # {}
    /\ loading => place \in reads

WaitInv ==
    /\ settled = handled
    /\ started /\ place # NoPlace => settled = key
    /\ phase = "auto-executing" => autos # {}

LEMMA EffectWaits ==
    ASSUME WaitInv, NEW k, NEW rec, CardEffect(k, rec), key' = k, UNCHANGED <<place, autos>>
    PROVE  WaitInv'
  BY DEF WaitInv, CardEffect, CardRests, Handle, StartCountdown, Fresh

LEMMA PageStepWaits ==
    ASSUME WaitInv, PageSteps
    PROVE  WaitInv'
<1> USE DEF page, card
<1>1. CASE LoadAgain \/ RefreshFails \/ RequestNewRecommendation \/ \E p \in loads : LoadFails(p)
  BY <1>1 DEF LoadAgain, RefreshFails, RequestNewRecommendation, LoadFails, WaitInv
<1>2. CASE Start
  BY <1>2, EffectWaits DEF Start
<1>3. CASE \/ \E p \in loads, acts \in BOOLEAN : Loaded(p, acts)
           \/ \E acts \in BOOLEAN : Refreshed(acts)
  BY <1>3, EffectWaits DEF Loaded, Refreshed, Pin
<1>4. CASE HandleReject \/ CountdownEnds
  BY <1>4 DEF HandleReject, CountdownEnds, WaitInv
<1>5. CASE \E a \in autos : AutoAnswered(a)
  BY <1>5 DEF AutoAnswered, AutoFailed, WaitInv
<1> QED BY <1>1, <1>2, <1>3, <1>4, <1>5 DEF PageSteps, CardSteps

LEMMA WaitInvHolds == Spec => []WaitInv
<1>1. Init => WaitInv
  BY DEF Init, WaitInv
<1>2. WaitInv /\ [Next]_vars => WaitInv'
  <2> SUFFICES ASSUME WaitInv, [Next]_vars PROVE WaitInv'
    OBVIOUS
  <2>1. CASE \E p \in Places : SelectPlace(p)
    BY <2>1 DEF SelectPlace, CardRests, Handle, WaitInv
  <2>2. CASE PageSteps
    BY <2>2, PageStepWaits
  <2>3. CASE (ControlSteps /\ UNCHANGED <<page, card>>) \/ CommandStep \/ UNCHANGED vars
    <3>1. UNCHANGED <<page, phase, handled, settled, autos>>
      BY <2>3 DEF CommandStep, ManualCommand, vars, card
    <3> QED BY <3>1 DEF page, WaitInv
  <2> QED BY <2>1, <2>2, <2>3 DEF Next
<1> QED BY <1>1, <1>2, PTL DEF Spec

(* A started card is never left without a countdown, a command or the      *)
(* button for a new recommendation (RecommendationCard.jsx:252-335).       *)
THEOREM CardIsHeld == Spec => []CardWaits
<1>1. TypeOK /\ CountdownInv /\ WaitInv => CardWaits
  BY DEF TypeOK, CountdownInv, WaitInv, CardWaits, CanRequestNewRecommendation
<1>2. CardInv => CountdownInv
  BY DEF CardInv
<1> QED BY <1>1, <1>2, DashboardTypes, CardInvHolds, WaitInvHolds, PTL

(* The buttons are never disabled, and never say "checking", without a     *)
(* request whose answer ends it, however the socket comes and goes and     *)
(* the selection changes (HeaderQuickControls.jsx:104-257).                *)
THEOREM ControlsAreHeld == Spec => []ControlsWait
<1>1. Init => ControlsWait
  BY DEF Init, ControlsInit, ControlsWait
<1>2. ControlsWait /\ [Next]_vars => ControlsWait'
  <2> SUFFICES ASSUME ControlsWait, [Next]_vars PROVE ControlsWait'
    OBVIOUS
  <2> USE DEF ControlsWait
  <2>1. CASE \E p \in Places : SelectPlace(p) /\ ControlsTurnTo(p)
    BY <2>1 DEF SelectPlace, ControlsTurnTo
  <2>2. CASE PageSteps /\ UNCHANGED quick
    <3>1. UNCHANGED place
      BY <2>2 DEF PageSteps, CardSteps, LoadAgain, Start, Loaded, LoadFails, HandleReject,
                  RequestNewRecommendation, Refreshed, RefreshFails, CountdownEnds,
                  AutoAnswered, Pin, page
    <3> QED BY <2>2, <3>1 DEF quick
  <2>3. CASE LinkStep /\ UNCHANGED <<page, card>>
    <3>1. UNCHANGED <<place, pending, commands>> /\ reads \subseteq reads'
      BY <2>3 DEF LinkStep, LinkChanges, DeviceStateComes, page
    <3>2. loading' => loading \/ place \in reads'
      BY <2>3 DEF LinkStep, LinkChanges, DeviceStateComes
    <3> QED BY <3>1, <3>2
  <2>4. CASE (ReadStep \/ PollState \/ SendControlCommand) /\ UNCHANGED <<page, card>>
    <3>1. UNCHANGED place
      BY <2>4 DEF page
    <3>2. CASE ReadStep
      BY <3>1, <3>2 DEF ReadStep, ReadAnswered, LoadingAfter
    <3>3. CASE PollState
      BY <3>1, <3>3 DEF PollState
    <3>4. CASE SendControlCommand
      BY <3>1, <3>4 DEF SendControlCommand
    <3> QED BY <2>4, <3>2, <3>3, <3>4
  <2>5. CASE CommandStep
    <3>1. UNCHANGED place
      BY <2>5 DEF CommandStep, ManualCommand, page
    <3>2. PICK linked \in commands, a \in BOOLEAN : CommandEnds(linked, a)
      BY <2>5 DEF CommandStep
    <3> QED BY <3>1, <3>2 DEF CommandEnds
  <2>6. CASE UNCHANGED vars
    BY <2>6 DEF vars, page, quick
  <2> QED BY <2>1, <2>2, <2>3, <2>4, <2>5, <2>6 DEF Next, ControlSteps
<1> QED BY <1>1, <1>2, PTL DEF Spec
=============================================================================
