-------------------------- MODULE ReadingsPageProofs --------------------------
(***************************************************************************)
(* The two models of the readings page.  SensorHistory: the error banner   *)
(* is earned, for any places and any number of readings, as what the page  *)
(* counts as failures in a row are the failures since it last heard        *)
(* anything; what is shown is stored of the place selected; and it goes    *)
(* back only when it is replaced as a whole.  ReadingsView: what is shown of a reading was measured, what  *)
(* is dangerous is announced, and page and engine do not contradict each   *)
(* other, for every reading they tell apart and any history; and in a      *)
(* history of any length and with any pauses its charts keep the order of  *)
(* the readings, stay on their axis, have room for the marks of pauses, and*)
(* the times written below never overlap.                                  *)
(*                                                                         *)
(* The axis is laid out by sums over the clusters of readings.  Facts about*)
(* them are shown by induction on the position in the sum, which here is an*)
(* argument by the least counterexample (Inductive): a set of naturals that*)
(* is not empty has a least element, as < is well-founded on Nat.          *)
(***************************************************************************)
EXTENDS SensorHistory, ReadingsView, FiniteSetTheorems, SequenceTheorems,
        WellFoundedInduction, TLAPS

(* Fetching *)

CountInv ==
    /\ failures \in 0..Patience /\ unanswered = failures
    /\ syncStatus = "error" => failures = Patience

----------------------------------------------------------------------------
LEMMA SyncUntouched ==
    ASSUME CountInv, UNCHANGED sync
    PROVE  CountInv'
  BY DEF CountInv, sync

\* Whatever begins anew begins with no failure and without the banner.
LEMMA Restarted ==
    ASSUME failures' = 0, unanswered' = 0, syncStatus' # "error"
    PROVE  CountInv'
  BY DEF CountInv, Patience

LEMMA FailureCounts ==
    ASSUME CountInv, RequestFails
    PROVE  CountInv'
<1>1. UpTo(failures) \in 0..Patience
  BY DEF CountInv, UpTo, Patience
<1>2. failures' = UpTo(failures) /\ unanswered' = UpTo(failures)
  BY DEF RequestFails, CountInv
<1>3. syncStatus' = "error" => ~(failures' < Patience)
  BY DEF RequestFails
<1> QED BY <1>1, <1>2, <1>3 DEF CountInv, Patience

LEMMA StepKeepsCount ==
    ASSUME CountInv, [Next]_vars
    PROVE  CountInv'
<1> USE DEF page, sync
<1>1. CASE (ServerStep \/ SocketStep) /\ UNCHANGED page
  BY <1>1, SyncUntouched
<1>2. CASE \E p \in Places \cup {NoPlace} : SelectPlace(p)
  BY <1>2, Restarted DEF SelectPlace, PageTurnsTo, PageRests
<1>3. CASE Enter \/ Leave
  BY <1>3, Restarted DEF Enter, Leave, PageTurnsTo, PageRests
<1>4. CASE Poll \/ VisibilityChanges \/ TryAgain
  BY <1>4, SyncUntouched DEF Poll, VisibilityChanges, TryAgain
<1>5. CASE Looked
  BY <1>5, SyncUntouched DEF Looked
<1>6. CASE Answered \/ TakeLatest
  BY <1>6, Restarted DEF Answered, TakeLatest, InStep
<1>7. CASE RequestFails
  BY <1>7, FailureCounts
<1>8. CASE UNCHANGED vars
  BY <1>8, SyncUntouched DEF vars
<1> QED BY <1>1, <1>2, <1>3, <1>4, <1>5, <1>6, <1>7, <1>8 DEF Next

LEMMA CountInvHolds == Spec => []CountInv
<1>1. Init => CountInv
  BY DEF Init, CountInv, Patience
<1>2. CountInv /\ [Next]_vars => CountInv'
  BY StepKeepsCount
<1> QED BY <1>1, <1>2, PTL DEF Spec

----------------------------------------------------------------------------
(* The banner says that the server cannot be reached only after three      *)
(* failed requests with nothing heard in between, whatever was aborted,    *)
(* hidden or closed meanwhile (SensorReadings.jsx:196-214).                *)
THEOREM BannerIsEarned == Spec => []ErrorIsEarned
<1>1. CountInv => ErrorIsEarned
  BY DEF CountInv, ErrorIsEarned
<1> QED BY <1>1, CountInvHolds, PTL

----------------------------------------------------------------------------
(* Showing *)

ViewTypeOK == reading \in RoomReadings \cup {NoRow}

LEMMA ViewTypes == ViewSpec => []ViewTypeOK
<1>1. ViewInit => ViewTypeOK
  BY DEF ViewInit, ViewTypeOK
<1>2. ViewTypeOK /\ [ViewNext]_viewVars => ViewTypeOK'
  BY DEF ViewTypeOK, ViewNext, FirstReading, NextReading, viewVars
<1> QED BY <1>1, <1>2, PTL DEF ViewSpec

LEMMA ReadingParts ==
    ASSUME NEW r \in RoomReadings
    PROVE  /\ r.room \in Rooms /\ {r.legacy, r.rain, r.storm, r.dust} \subseteq BOOLEAN
           /\ r.room.window \in Windows /\ r.room.ac \in Aircons
           /\ r.room.presence \in Presences
           /\ r.room.outsideBad = (r.rain \/ r.storm \/ r.dust)
  BY DEF RoomReadings, Rooms

LEMMA Normalized ==
    ASSUME NEW r \in RoomReadings, NEW v, v = NormalizeReading(r)
    PROVE  /\ v.window = IF r.legacy THEN "unknown" ELSE r.room.window
           /\ v.ac = IF r.legacy THEN "unknown" ELSE r.room.ac
           /\ v.presence = IF r.legacy THEN "unknown" ELSE r.room.presence
           /\ v.outdoorValid = ~r.legacy
<1>1. /\ Row(r).windowKnown = (~r.legacy /\ r.room.window # "unknown")
      /\ Row(r).windowIsOpen = (r.room.window = "open")
      /\ Row(r).acKnown = (~r.legacy /\ r.room.ac # "unknown")
      /\ Row(r).acIsOn = (r.room.ac = "on")
      /\ Row(r).occupancy = IF r.legacy THEN "unknown" ELSE r.room.presence
      /\ Row(r).outdoorValid = ~r.legacy
  BY DEF Row
<1>2. r.room.window \in Windows /\ r.room.ac \in Aircons
  BY ReadingParts
<1>3. WindowState(Row(r)) = IF r.legacy THEN "unknown" ELSE r.room.window
  BY <1>1, <1>2 DEF WindowState, Windows
<1>4. AcState(Row(r)) = IF r.legacy THEN "unknown" ELSE r.room.ac
  BY <1>1, <1>2 DEF AcState, Aircons
<1> QED BY <1>1, <1>3, <1>4 DEF NormalizeReading

(* No window and no air conditioner is shown otherwise than the sensors    *)
(* saw it, or as not known (sensorReadingsUtils.js:567-641).               *)
THEOREM OnlyTheMeasured == ViewSpec => []ShownIsMeasured
<1>1. ViewTypeOK => ShownIsMeasured
  BY Normalized DEF ViewTypeOK, ShownIsMeasured
<1> QED BY <1>1, ViewTypes, PTL

----------------------------------------------------------------------------
(* The alerts *)

(* How many of S come before i.                                            *)
Rank(S, i) == Cardinality({j \in S : j < i})

LEMMA RankFacts ==
    ASSUME NEW n \in Nat, NEW S \in SUBSET (1..n)
    PROVE  /\ IsFiniteSet(S) /\ Cardinality(S) \in Nat
           /\ \A i \in S : Rank(S, i) \in 0..(Cardinality(S) - 1)
           /\ \A i, j \in S : i < j => Rank(S, i) < Rank(S, j)
           /\ \A k \in 0..(Cardinality(S) - 1) : \E i \in S : Rank(S, i) = k
<1> DEFINE K == Cardinality(S)
           Below(i) == {j \in S : j < i}
           rank == [i \in S |-> Rank(S, i)]
<1>0. \A i \in S : i \in Int
  OBVIOUS
<1>1. IsFiniteSet(S) /\ K \in Nat
  <2>1. IsFiniteSet(1..n)
    BY FS_Interval
  <2> QED BY <2>1, FS_Subset, FS_CardinalityType
<1>2. ASSUME NEW i \in S
      PROVE  /\ IsFiniteSet(Below(i)) /\ Rank(S, i) \in 0..(K - 1)
             /\ Cardinality(Below(i)) \in Nat
  <2>1. Below(i) \in SUBSET S /\ i \notin Below(i)
    BY <1>0
  <2>2. /\ IsFiniteSet(Below(i)) /\ Cardinality(Below(i)) =< K
        /\ Cardinality(S) = Cardinality(Below(i)) => S = Below(i)
    BY <1>1, <2>1, FS_Subset
  <2>3. Cardinality(Below(i)) \in Nat
    BY <2>2, FS_CardinalityType
  <2>4. Cardinality(Below(i)) # K
    BY <2>1, <2>2
  <2> QED BY <1>1, <2>2, <2>3, <2>4 DEF Rank
<1>3. ASSUME NEW i \in S, NEW j \in S, i < j
      PROVE  Rank(S, i) < Rank(S, j)
  <2>0. i \in Int /\ j \in Int
    BY <1>0
  <2>1. Below(i) \in SUBSET Below(j) /\ i \in Below(j) \ Below(i)
    <3>1. ASSUME NEW z \in S, z < i PROVE z < j
      BY <1>0, <1>3, <2>0, <3>1
    <3>2. ~(i < i)
      BY <2>0
    <3> QED BY <1>3, <3>1, <3>2
  <2>2. Cardinality(Below(i)) =< Cardinality(Below(j))
        /\ Cardinality(Below(i)) # Cardinality(Below(j))
    BY <1>2, <2>1, FS_Subset
  <2>3. Cardinality(Below(i)) \in Int /\ Cardinality(Below(j)) \in Int
    <3>1. \A k \in S : Cardinality(Below(k)) \in Nat
      BY <1>2
    <3> HIDE DEF Below
    <3> QED BY <3>1
  <2> DEFINE a == Cardinality(Below(i))  b == Cardinality(Below(j))
  <2>4. a =< b /\ a # b /\ a \in Int /\ b \in Int
    BY <2>2, <2>3
  <2>5. a = Rank(S, i) /\ b = Rank(S, j)
    BY DEF Rank
  <2> HIDE DEF a, b
  <2> QED BY <2>4, <2>5
<1>4. rank \in [S -> 0..(K - 1)]
  BY <1>2
<1>5. \A i \in S : rank[i] = Rank(S, i)
  OBVIOUS
<1> HIDE DEF rank
<1>6. \A i, j \in S : rank[i] = rank[j] => i = j
  <2>1. \A i \in S : rank[i] \in Int
    BY <1>4
  <2> QED BY <1>0, <1>3, <1>5, <2>1
<1>7. rank \in Surjection(S, 0..(K - 1))
  <2>1. IsFiniteSet(0..(K - 1)) /\ Cardinality(0..(K - 1)) = K
    <3>1. 0 \in Int /\ K - 1 \in Int
      BY <1>1
    <3>2. /\ IsFiniteSet(0..(K - 1))
          /\ Cardinality(0..(K - 1)) = IF 0 > K - 1 THEN 0 ELSE (K - 1) - 0 + 1
      BY ONLY <3>1, FS_Interval
    <3> HIDE DEF K
    <3>3. (IF 0 > K - 1 THEN 0 ELSE (K - 1) - 0 + 1) = K
      BY <1>1
    <3> QED BY <3>2, <3>3
  <2>2. rank \in Injection(S, 0..(K - 1))
    BY <1>4, <1>6 DEF Injection, IsInjective
  <2> QED BY <1>1, <2>1, <2>2, FS_Injection
<1>8. \A k \in 0..(K - 1) : \E i \in S : Rank(S, i) = k
  BY <1>5, <1>7 DEF Surjection
<1> QED BY <1>1, <1>2, <1>3, <1>8

(* Places that never decrease.                                             *)
InOrder(n, x) ==
    x \in [1..n -> Int] /\ \A i, j \in 1..n : i =< j => x[i] =< x[j]

(* The first m of the positions S: all of them, or exactly m.              *)
First(S, m) == {i \in S : Cardinality({j \in S : j < i}) < m}

LEMMA FirstFew ==
    ASSUME NEW n \in Nat, NEW S \in SUBSET (1 .. n), NEW m \in Nat,
           NEW x \in S, x \notin First(S, m)
    PROVE  IsFiniteSet(First(S, m)) /\ Cardinality(First(S, m)) = m
<1> DEFINE K == Cardinality(S)  F == First(S, m)
           f == [i \in F |-> Rank(S, i)]
<1>1. /\ K \in Nat /\ \A i \in S : Rank(S, i) \in 0..(K - 1)
      /\ \A i, j \in S : i < j => Rank(S, i) < Rank(S, j)
      /\ \A k \in 0..(K - 1) : \E i \in S : Rank(S, i) = k
  BY RankFacts
<1>2. F = {i \in S : Rank(S, i) < m}
  BY DEF First, Rank
<1> HIDE DEF F, K
<1>3. \A i \in S : i \in Int /\ Rank(S, i) \in Int
  BY <1>1
<1>4. m =< Rank(S, x) /\ Rank(S, x) \in 0..(K - 1)
  <2>1. Rank(S, x) \in 0..(K - 1)
    BY <1>1
  <2>2. ~(Rank(S, x) < m)
    BY <1>2 DEF F
  <2> QED BY <1>1, <2>1, <2>2
<1>5. f \in [F -> 0..(m - 1)]
  <2>1. ASSUME NEW i \in F PROVE Rank(S, i) \in 0..(m - 1)
    <3>1. i \in S /\ Rank(S, i) < m
      BY <1>2
    <3>2. Rank(S, i) \in 0..(K - 1)
      BY <1>1, <3>1
    <3> QED BY <1>1, <3>1, <3>2
  <2> QED BY <2>1
<1>6. f \in Injection(F, 0..(m - 1))
  <2>1. ASSUME NEW i \in F, NEW j \in F, Rank(S, i) = Rank(S, j) PROVE i = j
    <3>1. i \in S /\ j \in S
      BY <1>2
    <3>2. ~(i < j) /\ ~(j < i)
      BY <1>1, <1>3, <2>1, <3>1
    <3> QED BY <1>3, <3>1, <3>2
  <2>2. \A i, j \in F : f[i] = f[j] => i = j
    BY <2>1
  <2> QED BY <1>5, <2>2 DEF Injection, IsInjective
<1>7. f \in Surjection(F, 0..(m - 1))
  <2>1. ASSUME NEW v \in 0..(m - 1) PROVE \E i \in F : f[i] = v
    <3>1. v \in 0..(K - 1) /\ v < m
      BY <1>1, <1>4
    <3>2. PICK i \in S : Rank(S, i) = v
      BY <1>1, <3>1
    <3> QED BY <1>2, <3>1, <3>2
  <2> QED BY <1>5, <2>1 DEF Surjection
<1>8. IsFiniteSet(0..(m - 1)) /\ Cardinality(0..(m - 1)) = m
  BY FS_Interval
<1>9. IsFiniteSet(F) /\ Cardinality(F) = m
  BY <1>6, <1>7, <1>8, FS_Injection
<1> QED BY <1>9 DEF F

LEMMA OrderFacts ==
    /\ DOMAIN AlertOrder = 1 .. 9
    /\ \A i, j \in 1 .. 9 : AlertOrder[i] = AlertOrder[j] => i = j
    /\ AlertOrder[6] = "humid" /\ AlertOrder[8] = "dust" /\ AlertOrder[9] = "storm"
  BY DEF AlertOrder

LEMMA AlertsFacts ==
    ASSUME NEW r, r # NoRow, NEW c
    PROVE  /\ \A i \in 1 .. 9 :
                 Raised(AlertOrder[i], r, c) =>
                     \/ AlertOrder[i] \in BuildAlerts(r, c)
                     \/ Cardinality(BuildAlerts(r, c)) = AlertsShown
           /\ \A k \in BuildAlerts(r, c) : k = "clear" \/ Raised(k, r, c)
<1> DEFINE raised == {i \in DOMAIN AlertOrder : Raised(AlertOrder[i], r, c)}
           kept == First(raised, AlertsShown)
           alerts == {AlertOrder[i] : i \in kept}
<1>1. raised \in SUBSET (1 .. 9) /\ kept \in SUBSET raised
  BY OrderFacts DEF First
<1>2. BuildAlerts(r, c) = IF raised = {} THEN {"clear"} ELSE alerts
  BY DEF BuildAlerts, First
<1>3. \A k \in BuildAlerts(r, c) : k = "clear" \/ Raised(k, r, c)
  BY <1>1, <1>2
<1>4. ASSUME NEW i \in 1 .. 9, Raised(AlertOrder[i], r, c),
             AlertOrder[i] \notin BuildAlerts(r, c)
      PROVE  Cardinality(BuildAlerts(r, c)) = AlertsShown
  <2>1. i \in raised /\ BuildAlerts(r, c) = alerts
    BY <1>2, <1>4, OrderFacts
  <2>2. i \notin kept
    BY <1>4, <2>1
  <2> HIDE DEF raised
  <2>3. 9 \in Nat /\ AlertsShown \in Nat
    BY DEF AlertsShown
  <2>4. IsFiniteSet(kept) /\ Cardinality(kept) = AlertsShown
    BY <1>1, <2>1, <2>2, <2>3, FirstFew
  <2> HIDE DEF kept
  <2> DEFINE f == [j \in kept |-> AlertOrder[j]]
  <2>5. f \in Bijection(kept, alerts)
    <3>1. f \in [kept -> alerts] /\ \A y \in alerts : \E j \in kept : f[j] = y
      OBVIOUS
    <3>2. \A j, l \in kept : f[j] = f[l] => j = l
      BY <1>1, OrderFacts
    <3> QED BY <3>1, <3>2 DEF Bijection, Injection, Surjection, IsInjective
  <2> HIDE DEF f, alerts
  <2>6. ExistsBijection(kept, alerts)
    BY <2>5 DEF ExistsBijection
  <2>7. Cardinality(alerts) = Cardinality(kept)
    BY <2>4, <2>6, FS_Bijection
  <2> QED BY <2>1, <2>4, <2>7
<1> QED BY <1>3, <1>4

(* A dangerous value is named by an alert or by nobody only because five   *)
(* others come before it (sensorReadingsUtils.js:887-998).                 *)
THEOREM DangerAnnounced == ViewSpec => []DangerIsAnnounced
<1>1. ViewTypeOK => DangerIsAnnounced
  <2> SUFFICES ASSUME ViewTypeOK, reading # NoRow, NEW home \in BOOLEAN,
                      NEW k \in IndoorTiles(reading, home) \cup OutdoorTiles(reading)
               PROVE  k \in Shown \/ Cardinality(Shown) = AlertsShown
    BY DEF DangerIsAnnounced
  <2>1. Raised(k, reading, connection)
    BY DEF IndoorTiles, OutdoorTiles, Raised, StrongWind
  <2>2. k \in {"humid", "dust", "storm"}
    BY DEF IndoorTiles, OutdoorTiles
  <2>3. \E i \in 1 .. 9 : AlertOrder[i] = k
    BY <2>2, OrderFacts
  <2> QED BY <2>1, <2>3, AlertsFacts DEF Shown
<1> QED BY <1>1, ViewTypes, PTL

LEMMA Advised ==
    ASSUME NEW r \in Rooms
    PROVE  /\ DetermineAction(r) = "OPEN_WINDOW" => ~r.outsideBad /\ AirFromOutside(r)
           /\ r.ac = "on" /\ r.presence = "empty" /\ ~r.outsideBad =>
                DetermineAction(r) \in {"TURN_OFF_AIRCON", "ERROR"}
  BY DEF Rooms, Windows, Aircons, DetermineAction, ShutOut, Wasteful, ByTemperature,
         Cooling, Ventilating

(* Nobody is told to open the window beside a warning of the air outside,  *)
(* and an air conditioner that runs for nobody is switched off unless the  *)
(* weather or a sensor comes first (recommendation_engine.py).             *)
THEOREM AdviceAndAlerts == ViewSpec => []AdviceFitsTheAlerts
<1>1. ViewTypeOK => AdviceFitsTheAlerts
  <2> SUFFICES ASSUME ViewTypeOK, reading # NoRow PROVE AdviceFitsTheAlerts
    BY DEF AdviceFitsTheAlerts
  <2> DEFINE v == NormalizeReading(reading)
  <2>1. reading \in RoomReadings
    BY DEF ViewTypeOK
  <2>2. /\ reading.room \in Rooms /\ {reading.storm, reading.dust} \subseteq BOOLEAN
        /\ reading.room.outsideBad = (reading.rain \/ reading.storm \/ reading.dust)
    BY <2>1, ReadingParts
  <2>3. \A k \in Shown : k = "clear" \/ Raised(k, reading, connection)
    BY AlertsFacts DEF Shown
  <2>4. ASSUME Advice = "OPEN_WINDOW"
        PROVE  Shown \cap {"dust", "storm"} = {} /\ OutdoorTemperature(reading) # "not cooler"
    <3>1. ~reading.room.outsideBad /\ AirFromOutside(reading.room)
      BY <2>2, <2>4, Advised DEF Advice
    <3>2. ~reading.storm /\ ~reading.dust
      BY <2>2, <3>1
    <3>3. ~Raised("dust", reading, connection) /\ ~Raised("storm", reading, connection)
      BY <3>2 DEF Raised, StrongWind
    <3> QED BY <2>3, <3>1, <3>3 DEF OutdoorTemperature, AirFromOutside
  <2>5. ASSUME "wasted" \in Shown, ~reading.room.outsideBad
        PROVE  Advice \in {"TURN_OFF_AIRCON", "ERROR"}
    <3>1. Raised("wasted", reading, connection)
      BY <2>3, <2>5
    <3>2. v.ac = "on" /\ v.presence = "empty"
      BY <3>1 DEF Raised
    <3>3. reading.room.ac = "on" /\ reading.room.presence = "empty"
      BY <2>1, <3>2, Normalized
    <3> QED BY <2>2, <2>5, <3>3, Advised DEF Advice
  <2> QED BY <2>4, <2>5 DEF AdviceFitsTheAlerts
<1> QED BY <1>1, ViewTypes, PTL

----------------------------------------------------------------------------
(* Sums and least numbers *)

LEMMA LeastOf ==
    ASSUME NEW S \in SUBSET Nat, S # {}
    PROVE  \E p \in S : \A q \in S : p =< q
<1>1. IsWellFoundedOn(OpToRel(<, Nat), Nat)
  BY NatLessThanWellFounded
<1>2. PICK p \in S : \A q \in S : ~(<<q, p>> \in OpToRel(<, Nat))
  BY <1>1, WFMin
<1>3. \A q \in S : ~(q < p)
  BY <1>2 DEF OpToRel
<1> QED BY <1>3

LEMMA MinOf ==
    ASSUME NEW S \in SUBSET Nat, S # {}
    PROVE  Min(S) \in S /\ \A q \in S : Min(S) =< q
  BY LeastOf DEF Min

LEMMA MaxOf ==
    ASSUME NEW n \in Nat, NEW S \in SUBSET (0..n), S # {}
    PROVE  Max(S) \in S /\ \A q \in S : q =< Max(S)
<1> DEFINE D == {n - q : q \in S}
<1>1. D \in SUBSET Nat /\ D # {}
  <2>1. \A q \in S : q \in 0..n
    OBVIOUS
  <2>2. \A q \in S : n - q \in Nat
    BY <2>1
  <2> QED BY <2>2
<1>2. PICK d \in D : \A e \in D : d =< e
  BY <1>1, LeastOf
<1>3. PICK p \in S : d = n - p
  OBVIOUS
<1>4. \A q \in S : n - p =< n - q
  BY <1>2, <1>3
<1>5. \A q \in S : p >= q
  BY <1>4
<1> QED BY <1>5 DEF Max

(* Induction on the numbers up to n, for the set of those that have a      *)
(* property.                                                               *)
LEMMA Inductive ==
    ASSUME NEW n \in Nat, NEW S, 0 \in S, \A i \in 1..n : i - 1 \in S => i \in S
    PROVE  \A i \in 0..n : i \in S
<1> DEFINE D == {i \in 0..n : i \notin S}
<1>1. SUFFICES ASSUME D # {} PROVE FALSE
  OBVIOUS
<1>2. PICK p \in D : \A q \in D : p =< q
  <2>1. D \in SUBSET Nat
    OBVIOUS
  <2> HIDE DEF D
  <2> QED BY <1>1, <2>1, LeastOf
<1>3. p \in 1..n /\ p - 1 \in 0..n /\ p - 1 \notin D
  BY <1>2
<1> QED BY <1>2, <1>3

\* The sums exist: a function with these equations is built one by one.
LEMMA RunningFacts ==
    ASSUME NEW n \in Nat, NEW f \in [1..n -> Nat]
    PROVE  /\ Running(f) \in [0..n -> Nat] /\ Running(f)[0] = 0
           /\ \A i \in 1..n : Running(f)[i] = Running(f)[i - 1] + f[i]
<1> DEFINE Sums(m, g) == /\ g \in [0..m -> Nat] /\ g[0] = 0
                         /\ \A i \in 1..m : g[i] = g[i - 1] + f[i]
           S == {m \in 0..n : \E g : Sums(m, g)}
<1>1. 0 \in S
  <2>1. Sums(0, [i \in 0..0 |-> 0])
    OBVIOUS
  <2> HIDE DEF Sums
  <2> QED BY <2>1
<1>2. ASSUME NEW m \in 1..n, m - 1 \in S PROVE m \in S
  <2>1. PICK g : Sums(m - 1, g)
    BY <1>2
  <2> DEFINE h == [i \in 0..m |-> IF i = m THEN g[m - 1] + f[m] ELSE g[i]]
  <2>2. h \in [0..m -> Nat]
    BY <2>1
  <2>3. ASSUME NEW i \in 1..m PROVE h[i] = h[i - 1] + f[i]
    BY <2>1
  <2>4. Sums(m, h)
    BY <2>1, <2>2, <2>3
  <2> HIDE DEF Sums
  <2> QED BY <2>4
<1>3. n \in S
  <2> HIDE DEF S
  <2>1. \A i \in 0..n : i \in S
    BY <1>1, <1>2, Inductive
  <2> QED BY <2>1
<1>4. PICK g : Sums(n, g)
  BY <1>3
<1>5. g = [i \in 0..Len(f) |-> IF i = 0 THEN 0 ELSE g[i - 1] + f[i]]
  <2>1. Len(f) = n
    OBVIOUS
  <2> QED BY <1>4, <2>1
<1>6. Running(f) = [i \in 0..Len(f) |-> IF i = 0 THEN 0 ELSE Running(f)[i - 1] + f[i]]
  BY <1>5 DEF Running
<1>7. DOMAIN Running(f) = 0..n /\ Running(f)[0] = 0
      /\ \A i \in 1..n : Running(f)[i] = Running(f)[i - 1] + f[i]
  <2>1. Len(f) = n
    OBVIOUS
  <2> QED BY <1>6, <2>1
<1>8. \A i \in 0..n : Running(f)[i] \in Nat
  <2> DEFINE T == {i \in 0..n : Running(f)[i] \in Nat}
  <2>1. 0 \in T /\ \A i \in 1..n : i - 1 \in T => i \in T
    BY <1>7
  <2> QED BY <2>1, Inductive
<1>9. Running(f) = [i \in 0..n |-> Running(f)[i]]
  BY <1>6, <1>7
<1> QED BY <1>7, <1>8, <1>9

LEMMA RunningGrows ==
    ASSUME NEW n \in Nat, NEW f \in [1..n -> Nat]
    PROVE  \A i, j \in 0..n : i =< j => Running(f)[i] =< Running(f)[j]
<1> DEFINE S == {j \in 0..n : \A i \in 0..j : Running(f)[i] =< Running(f)[j]}
<1>1. Running(f) \in [0..n -> Nat]
      /\ \A i \in 1..n : Running(f)[i] = Running(f)[i - 1] + f[i]
  BY RunningFacts
<1>2. 0 \in S
  BY <1>1
<1>3. ASSUME NEW j \in 1..n, j - 1 \in S PROVE j \in S
  <2>1. Running(f)[j - 1] =< Running(f)[j] /\ Running(f)[j] \in Nat
    BY <1>1
  <2>2. ASSUME NEW i \in 0..j PROVE Running(f)[i] =< Running(f)[j]
    <3>1. CASE i = j
      BY <2>1, <3>1
    <3>2. CASE i \in 0..(j - 1)
      <4>1. Running(f)[i] =< Running(f)[j - 1]
        BY <1>3, <3>2
      <4>2. Running(f)[i] \in Nat /\ Running(f)[j - 1] \in Nat
        BY <1>1, <3>2
      <4> QED BY <2>1, <4>1, <4>2
    <3> QED BY <3>1, <3>2
  <2> QED BY <2>2
<1>4. \A j \in 0..n : j \in S
  <2> HIDE DEF S
  <2> QED BY <1>2, <1>3, Inductive
<1> QED BY <1>4

----------------------------------------------------------------------------
(* The clusters and their weights *)

LEMMA ProductIsNat ==
    ASSUME NEW a \in Nat, NEW b \in Nat PROVE a * b \in Nat
  OBVIOUS

\* A quotient is the largest number that times the divisor fits.
LEMMA DivFacts ==
    ASSUME NEW a \in Nat, NEW d \in Nat \ {0}
    PROVE  /\ a \div d \in Nat /\ d * (a \div d) =< a
           /\ \A b \in Nat : d * b =< a => b =< a \div d
<1>1. a \div d \in Nat /\ d * (a \div d) =< a
  OBVIOUS
<1>2. a < d * (a \div d) + d
  OBVIOUS
<1>3. ASSUME NEW b \in Nat, d * b =< a PROVE b =< a \div d
  <2>1. SUFFICES ASSUME a \div d + 1 =< b PROVE FALSE
    BY <1>1
  <2>2. d * (a \div d + 1) =< d * b
    BY <1>1, <2>1
  <2>3. d * (a \div d + 1) = d * (a \div d) + d
    BY <1>1
  <2> QED BY <1>1, <1>2, <1>3, <2>2, <2>3
<1> QED BY <1>1, <1>3

LEMMA TwoMax ==
    ASSUME NEW a \in Nat, NEW b \in Nat
    PROVE  Max({a, b}) = IF a =< b THEN b ELSE a
<1>1. {a, b} \in SUBSET (0..(a + b)) /\ a + b \in Nat
  OBVIOUS
<1>2. Max({a, b}) \in {a, b} /\ a =< Max({a, b}) /\ b =< Max({a, b})
  BY <1>1, MaxOf
<1> QED BY <1>2

\* The marks take at most half of the axis.  Up to seven have the room they are
\* drawn with, up to ten that of the gap between the lines.
LEMMA BreakFacts ==
    ASSUME NEW K \in Nat, NEW G, Cardinality(G) = K
    PROVE  /\ BreakWidth(G) \in Nat /\ 2 * (K * BreakWidth(G)) =< Width
           /\ K =< 7 => BreakWidth(G) >= 2 * MarkHalfWidth
           /\ K =< 10 => BreakWidth(G) >= 2 * LineHalfWidth
<1> DEFINE share == 50000 \div (2 * K + 2)
           B == BreakWidth(G)
<1>1. 2 * K + 2 \in Nat \ {0} /\ 50000 \in Nat
  OBVIOUS
<1>2. /\ share \in Nat /\ (2 * K + 2) * share =< 50000
      /\ \A b \in Nat : (2 * K + 2) * b =< 50000 => b =< share
  BY ONLY <1>1, DivFacts
<1> HIDE DEF share
<1>3. (K =< 7 => share >= 3000) /\ (K =< 10 => share >= 2200)
  <2>1. ASSUME K =< 7 PROVE share >= 3000
    <3>1. (2 * K + 2) * 3000 =< 50000
      BY <2>1
    <3> QED BY <1>2, <3>1
  <2>2. ASSUME K =< 10 PROVE share >= 2200
    <3>1. (2 * K + 2) * 2200 =< 50000
      BY <2>2
    <3> QED BY <1>2, <3>1
  <2> QED BY <2>1, <2>2
<1>4. (8 * 50000) \div 100 = 4000 /\ Max({2800, 4000}) = 4000
  BY TwoMax
<1>5. B = Min({4200, 4000, share})
  <2>1. B = LET part == 50000 \div (2 * K + 2)
            IN  Min({4200, Max({2800, (8 * 50000) \div 100}), part})
    BY DEF BreakWidth, Width
  <2>2. Max({2800, (8 * 50000) \div 100}) = 4000
    BY <1>4
  <2>3. Min({4200, Max({2800, (8 * 50000) \div 100}), share}) = Min({4200, 4000, share})
    BY <2>2
  <2> QED BY <2>1, <2>3 DEF share
<1>6. B \in {4200, 4000, share} /\ B =< share
  <2>1. {4200, 4000, share} \in SUBSET Nat
    BY <1>2
  <2> HIDE DEF B
  <2>2. Min({4200, 4000, share}) \in {4200, 4000, share}
        /\ \A q \in {4200, 4000, share} : Min({4200, 4000, share}) =< q
    BY <2>1, MinOf
  <2> QED BY <1>5, <2>2
<1> HIDE DEF B
<1>7. B \in Nat /\ (K =< 7 => B >= 3000) /\ (K =< 10 => B >= 2200)
  BY <1>2, <1>3, <1>6
<1>8. K * B =< K * share /\ K * B \in Nat /\ K * share \in Nat
  BY <1>2, <1>6, <1>7
<1>9. (2 * K + 2) * share = 2 * (K * share) + 2 * share
  BY <1>2
<1>10. 2 * (K * B) =< 50000
  <2> DEFINE x == K * B  y == K * share
  <2>1. x \in Nat /\ y \in Nat /\ x =< y /\ 2 * y + 2 * share =< 50000
    BY <1>2, <1>8, <1>9
  <2> HIDE DEF x, y
  <2>2. 2 * x =< 50000
    BY <1>2, <2>1
  <2> QED BY <2>2 DEF x
<1> QED BY <1>7, <1>10 DEF B, Width, MarkHalfWidth, LineHalfWidth

LEMMA RoomFacts ==
    ASSUME NEW K \in Nat, NEW G, Cardinality(G) = K
    PROVE  /\ RoomForClusters(G) = Width - K * BreakWidth(G)
           /\ RoomForClusters(G) \in Nat
<1> DEFINE all == K * BreakWidth(G)  rest == 50000 - all
<1>1. all \in Nat /\ 2 * all =< 50000
  <2>1. BreakWidth(G) \in Nat /\ 2 * all =< 50000
    BY BreakFacts DEF Width
  <2> QED BY <2>1
<1>2. RoomForClusters(G) = Max({rest, 50000 \div 4})
  BY DEF RoomForClusters, Width
<1> HIDE DEF all
<1>3. rest \in Nat /\ rest >= 25000
  BY <1>1
<1>4. 50000 \div 4 = 12500
  OBVIOUS
<1>5. Max({rest, 12500}) = rest
  <2> HIDE DEF rest
  <2> QED BY <1>3, TwoMax
<1> QED BY <1>2, <1>3, <1>4, <1>5 DEF all, Width

LEMMA ClusterFacts ==
    ASSUME NEW n \in Nat \ {0}, NEW G \in SUBSET (1..(n - 1))
    PROVE  /\ Ends(n, G) \in SUBSET (1..n) /\ n \in Ends(n, G)
           /\ \A i \in 1..n : /\ ClusterOf(n, G, i) \in Ends(n, G)
                              /\ i =< ClusterOf(n, G, i)
                              /\ \A f \in Ends(n, G) : i =< f => ClusterOf(n, G, i) =< f
           /\ \A e \in 1..n : /\ StartOf(G, e) \in 1..e
                              /\ \A g \in G : g < e => g < StartOf(G, e)
                              /\ StartOf(G, e) = 1 \/ StartOf(G, e) - 1 \in G
<1>1. Ends(n, G) \in SUBSET (1..n) /\ n \in Ends(n, G)
  BY DEF Ends
<1>2. ASSUME NEW i \in 1..n
      PROVE  /\ ClusterOf(n, G, i) \in Ends(n, G) /\ i =< ClusterOf(n, G, i)
             /\ \A f \in Ends(n, G) : i =< f => ClusterOf(n, G, i) =< f
  <2> DEFINE S == {e \in Ends(n, G) : e >= i}
  <2>1. S \in SUBSET Nat /\ n \in S
    BY <1>1
  <2>2. Min(S) \in S /\ \A q \in S : Min(S) =< q
    <3> HIDE DEF S
    <3> QED BY <2>1, MinOf
  <2>3. \A f \in Ends(n, G) : i =< f => f \in S
    BY <1>1
  <2> QED BY <1>1, <2>2, <2>3 DEF ClusterOf
<1>3. ASSUME NEW e \in 1..n
      PROVE  /\ StartOf(G, e) \in 1..e /\ \A g \in G : g < e => g < StartOf(G, e)
             /\ StartOf(G, e) = 1 \/ StartOf(G, e) - 1 \in G
  <2> DEFINE S == {1} \cup {g + 1 : g \in {f \in G : f < e}}
  <2>1. \A g \in G : g \in 1..(n - 1)
    OBVIOUS
  <2>2. \A q \in S : q \in 1..e
    BY <2>1
  <2>3. S \in SUBSET (0..e) /\ S # {} /\ e \in Nat
    BY <2>2
  <2>4. Max(S) \in S /\ \A q \in S : q =< Max(S)
    <3> HIDE DEF S
    <3> QED BY <2>3, MaxOf
  <2>5. StartOf(G, e) = Max(S)
    BY DEF StartOf
  <2>6. Max(S) \in 1..e
    BY <2>2, <2>4
  <2>7. ASSUME NEW g \in G, g < e PROVE g < Max(S)
    <3>1. g + 1 \in S
      BY <2>7
    <3>2. g + 1 =< Max(S)
      BY <2>4, <3>1
    <3> HIDE DEF S
    <3> QED BY <2>1, <2>6, <3>2
  <2>8. Max(S) = 1 \/ Max(S) - 1 \in G
    BY <2>1, <2>4
  <2> QED BY <2>5, <2>6, <2>7, <2>8
<1> QED BY <1>1, <1>2, <1>3

LEMMA WeightFacts ==
    ASSUME NEW n \in Nat \ {0}, NEW G \in SUBSET (1..(n - 1))
    PROVE  /\ \A e \in 1..n : Weight(G, e) \in Nat /\ Weight(G, e) >= 3
           /\ Weights(n, G) \in [1..n -> Nat]
           /\ \A e \in Ends(n, G) : Weights(n, G)[e] = Weight(G, e)
<1>1. ASSUME NEW e \in 1..n PROVE Weight(G, e) \in Nat /\ Weight(G, e) >= 3
  <2> DEFINE w == 4 * (e - StartOf(G, e))
  <2>1. w \in Nat
    <3>1. StartOf(G, e) \in 1..e
      BY ClusterFacts
    <3> QED BY <3>1
  <2>2. Weight(G, e) = Max({w, 3})
    BY DEF Weight
  <2> HIDE DEF w
  <2>3. Max({w, 3}) = IF w =< 3 THEN 3 ELSE w
    BY <2>1, TwoMax
  <2> QED BY <2>1, <2>2, <2>3
<1> QED BY <1>1, ClusterFacts DEF Weights

----------------------------------------------------------------------------
(* The room of the axis, shared *)

(* The pauses of G up to i.                                                *)
Past(G, i) == {g \in G : g =< i}

LEMMA PastFacts ==
    ASSUME NEW n \in Nat, NEW G \in SUBSET (1..n)
    PROVE  /\ IsFiniteSet(G) /\ Cardinality(G) \in Nat
           /\ Cardinality(Past(G, 0)) = 0
           /\ \A i \in 0..n : Cardinality(Past(G, i)) \in 0..Cardinality(G)
           /\ \A i \in 1..n : Cardinality(Past(G, i)) =
                IF i \in G THEN Cardinality(Past(G, i - 1)) + 1 ELSE Cardinality(Past(G, i - 1))
<1>1. IsFiniteSet(G) /\ Cardinality(G) \in Nat
  <2>1. IsFiniteSet(1..n)
    BY FS_Interval
  <2> QED BY <2>1, FS_Subset, FS_CardinalityType
<1>2. \A g \in G : g \in Int /\ 1 =< g
  OBVIOUS
<1>3. ASSUME NEW i \in 0..n
      PROVE  IsFiniteSet(Past(G, i)) /\ Cardinality(Past(G, i)) \in 0..Cardinality(G)
  <2>1. Past(G, i) \in SUBSET G
    BY DEF Past
  <2>2. IsFiniteSet(Past(G, i)) /\ Cardinality(Past(G, i)) =< Cardinality(G)
    BY <1>1, <2>1, FS_Subset
  <2>3. Cardinality(Past(G, i)) \in Nat
    BY <2>2, FS_CardinalityType
  <2> QED BY <1>1, <2>2, <2>3
<1>4. Past(G, 0) = {}
  <2>1. \A g \in G : ~(g =< 0)
    BY <1>2
  <2> QED BY <2>1 DEF Past
<1>5. ASSUME NEW i \in 1..n, i \in G
      PROVE  Cardinality(Past(G, i)) = Cardinality(Past(G, i - 1)) + 1
  <2>1. \A g \in G : g =< i <=> g =< i - 1 \/ g = i
    BY <1>2
  <2>2. Past(G, i) = Past(G, i - 1) \cup {i}
    BY <1>5, <2>1 DEF Past
  <2>3. i \notin Past(G, i - 1)
    BY DEF Past
  <2>4. i - 1 \in 0..n
    OBVIOUS
  <2>5. IsFiniteSet(Past(G, i - 1))
    BY <1>3, <2>4
  <2> QED BY <2>2, <2>3, <2>5, FS_AddElement
<1>6. ASSUME NEW i \in 1..n, i \notin G PROVE Past(G, i) = Past(G, i - 1)
  <2>1. \A g \in G : g # i
    BY <1>6
  <2>2. \A g \in G : g =< i <=> g =< i - 1
    BY <1>2, <2>1
  <2> QED BY <2>2 DEF Past
<1>7. Cardinality({}) = 0
  BY FS_EmptySet
<1> QED BY <1>1, <1>3, <1>4, <1>5, <1>6, <1>7

LEMMA WidthIs ==
    ASSUME NEW n, NEW G, NEW e \in 1..n
    PROVE  /\ ClusterWidth(n, G, e) =
                 (RoomForClusters(G) * Weight(G, e)) \div Running(Weights(n, G))[n]
           /\ Advances(n, G)[e] = IF e \in G THEN ClusterWidth(n, G, e) + BreakWidth(G) ELSE 0
<1>1. ClusterWidths(n, G) =
        [d \in 1..n |-> (RoomForClusters(G) * Weight(G, d)) \div Running(Weights(n, G))[n]]
  BY DEF ClusterWidths
<1>2. Advances(n, G) =
        [i \in 1..n |-> IF i \in G THEN ClusterWidth(n, G, i) + BreakWidth(G) ELSE 0]
  BY DEF Advances, ClusterWidth
<1> QED BY <1>1, <1>2, Zenon DEF ClusterWidth

LEMMA WidthFacts ==
    ASSUME NEW n \in Nat \ {0}, NEW G \in SUBSET (1..(n - 1)),
           NEW T, T = Running(Weights(n, G))[n]
    PROVE  /\ T \in Nat \ {0}
           /\ \A e \in 1..n : /\ ClusterWidth(n, G, e) \in Nat
                              /\ T * ClusterWidth(n, G, e) =< RoomForClusters(G) * Weight(G, e)
           /\ Advances(n, G) \in [1..n -> Nat]
<1>0. G \in SUBSET (1..n)
  OBVIOUS
<1>1. RoomForClusters(G) \in Nat /\ BreakWidth(G) \in Nat
  BY <1>0, PastFacts, BreakFacts, RoomFacts
<1>2. T \in Nat \ {0}
  <2>1. Weights(n, G) \in [1..n -> Nat] /\ Weights(n, G)[n] >= 3
    <3>1. n \in 1..n /\ n \in Ends(n, G)
      BY ClusterFacts
    <3> QED BY <3>1, WeightFacts
  <2>2. Running(Weights(n, G)) \in [0..n -> Nat]
        /\ Running(Weights(n, G))[n] = Running(Weights(n, G))[n - 1] + Weights(n, G)[n]
    <3>1. n \in 1..n
      OBVIOUS
    <3> QED BY <2>1, <3>1, RunningFacts
  <2> QED BY <2>1, <2>2
<1>3. ASSUME NEW e \in 1..n
      PROVE  /\ ClusterWidth(n, G, e) \in Nat
             /\ T * ClusterWidth(n, G, e) =< RoomForClusters(G) * Weight(G, e)
  <2> DEFINE a == RoomForClusters(G) * Weight(G, e)
  <2>1. a \in Nat
    BY <1>1, WeightFacts
  <2>2. ClusterWidth(n, G, e) = a \div T
    BY WidthIs
  <2> HIDE DEF a
  <2>3. a \div T \in Nat /\ T * (a \div T) =< a
    BY ONLY <1>2, <2>1, DivFacts
  <2> QED BY <2>2, <2>3 DEF a
<1>4. Advances(n, G) \in [1..n -> Nat]
  <2>1. \A e \in 1..n : Advances(n, G)[e] \in Nat
    BY <1>1, <1>3, WidthIs
  <2>2. Advances(n, G) = [e \in 1..n |-> Advances(n, G)[e]]
    BY DEF Advances
  <2> HIDE DEF Advances
  <2> QED BY <2>1, <2>2
<1> QED BY <1>2, <1>3, <1>4

(* What is laid out of the axis is at most its share.                      *)
LEMMA ShareStep ==
    ASSUME NEW T \in Nat, NEW R \in Nat, NEW a \in Nat, NEW w \in Nat, NEW b \in Nat,
           NEW x \in Nat, NEW v \in Nat,
           T * a =< R * w + T * b, T * x =< R * v
    PROVE  T * (a + x) =< R * (w + v) + T * b
<1>1. T * (a + x) = T * a + T * x /\ R * (w + v) = R * w + R * v
  OBVIOUS
<1>2. {T * a, T * x, R * w, R * v, T * b} \subseteq Nat
  OBVIOUS
<1> DEFINE p == T * a  q == T * x  r == R * w  s == R * v  u == T * b
<1>3. p + q =< r + s + u
  <2>1. p =< r + u /\ q =< s /\ {p, q, r, s, u} \subseteq Nat
    BY <1>2
  <2> HIDE DEF p, q, r, s, u
  <2> QED BY <2>1
<1> QED BY <1>1, <1>2, <1>3

LEMMA Cancelled ==
    ASSUME NEW T \in Nat \ {0}, NEW x \in Nat, NEW y \in Nat, T * x =< T * y
    PROVE  x =< y
<1>1. SUFFICES ASSUME y + 1 =< x PROVE FALSE
  OBVIOUS
<1>2. T * (y + 1) =< T * x /\ T * (y + 1) = T * y + T
  BY <1>1
<1>3. T * x \in Nat /\ T * y \in Nat
  OBVIOUS
<1> QED BY <1>2, <1>3

LEMMA ShareAfter ==
    ASSUME NEW T \in Nat, NEW R \in Nat, NEW B \in Nat, NEW a \in Nat, NEW w \in Nat,
           NEW c \in Nat, NEW x \in Nat, NEW v \in Nat,
           T * a =< R * w + T * (B * c), T * x =< R * v
    PROVE  T * (a + x + B) =< R * (w + v) + T * (B * (c + 1))
<1> DEFINE b == B * c  y == a + x  r == R * (w + v)
<1>1. b \in Nat /\ y \in Nat /\ r \in Nat
  OBVIOUS
<1>2. T * y =< r + T * b
  BY ONLY <1>1, T \in Nat, R \in Nat, a \in Nat, w \in Nat, x \in Nat, v \in Nat,
     T * a =< R * w + T * (B * c), T * x =< R * v, ShareStep
<1>3. B * (c + 1) = b + B
  OBVIOUS
<1> HIDE DEF b, y, r
<1>4. T * (y + B) = T * y + T * B /\ T * (b + B) = T * b + T * B
  BY <1>1
<1>5. T * y \in Nat /\ T * B \in Nat /\ T * b \in Nat
  BY <1>1
<1>6. T * (y + B) =< r + T * (b + B)
  BY <1>1, <1>2, <1>4, <1>5
<1> QED BY <1>3, <1>6 DEF y, r

LEMMA TimesGrows ==
    ASSUME NEW R \in Nat, NEW a \in Nat, NEW b \in Nat, a =< b
    PROVE  R * a =< R * b
<1> DEFINE d == b - a
<1>1. d \in Nat /\ b = a + d
  OBVIOUS
<1> HIDE DEF d
<1>2. R * (a + d) = R * a + R * d /\ R * a \in Nat /\ R * d \in Nat
  BY <1>1
<1> QED BY <1>1, <1>2

LEMMA ShareHolds ==
    ASSUME NEW n \in Nat, NEW T \in Nat, NEW R \in Nat, NEW B \in Nat,
           NEW A \in [0..n -> Nat], NEW W \in [0..n -> Nat], NEW c \in [0..n -> Nat],
           A[0] = 0,
           \A i \in 1..n :
               \/ A[i] = A[i - 1] /\ c[i] = c[i - 1] /\ W[i] >= W[i - 1]
               \/ \E x, v \in Nat : /\ A[i] = A[i - 1] + x + B /\ c[i] = c[i - 1] + 1
                                    /\ W[i] = W[i - 1] + v /\ T * x =< R * v
    PROVE  \A i \in 0..n : T * A[i] =< R * W[i] + T * (B * c[i])
<1> DEFINE Fits(i) == T * A[i] =< R * W[i] + T * (B * c[i])
           S == {i \in 0..n : Fits(i)}
<1>1. Fits(0)
  <2>1. W[0] \in Nat /\ c[0] \in Nat /\ T * 0 = 0
    OBVIOUS
  <2>2. R * W[0] \in Nat /\ B * c[0] \in Nat
    BY <2>1
  <2>3. T * (B * c[0]) \in Nat
    BY <2>2
  <2>4. T * A[0] = 0
    BY <2>1
  <2> DEFINE p == R * W[0]  q == T * (B * c[0])
  <2>5. p \in Nat /\ q \in Nat
    BY <2>2, <2>3
  <2> HIDE DEF p, q
  <2>6. 0 =< p + q
    BY <2>5
  <2> QED BY <2>4, <2>6 DEF p, q
<1>2. ASSUME NEW i \in 1..n, Fits(i - 1) PROVE Fits(i)
  <2>1. /\ A[i - 1] \in Nat /\ W[i - 1] \in Nat /\ c[i - 1] \in Nat
        /\ A[i] \in Nat /\ W[i] \in Nat /\ c[i] \in Nat
    <3>1. i - 1 \in 0..n /\ i \in 0..n
      OBVIOUS
    <3> QED BY <3>1
  <2>2. CASE A[i] = A[i - 1] /\ c[i] = c[i - 1] /\ W[i] >= W[i - 1]
    <3>1. R * W[i - 1] =< R * W[i]
      BY <2>1, <2>2, TimesGrows
    <3>2. R * W[i] \in Nat /\ R * W[i - 1] \in Nat /\ T * A[i] \in Nat
      BY <2>1, ProductIsNat
    <3>3. B * c[i] \in Nat
      BY <2>1, ProductIsNat
    <3>4. T * (B * c[i]) \in Nat
      BY <3>3, ProductIsNat
    <3>5. T * A[i] =< R * W[i - 1] + T * (B * c[i])
      BY <1>2, <2>2
    <3> DEFINE p == T * A[i]  q == R * W[i]  r == R * W[i - 1]  u == T * (B * c[i])
    <3>6. p \in Nat /\ q \in Nat /\ r \in Nat /\ u \in Nat /\ r =< q /\ p =< r + u
      BY <3>1, <3>2, <3>4, <3>5
    <3> HIDE DEF p, q, r, u
    <3>7. p =< q + u
      BY ONLY <3>6
    <3> QED BY <3>7 DEF p, q, u
  <2>3. CASE \E x, v \in Nat : /\ A[i] = A[i - 1] + x + B /\ c[i] = c[i - 1] + 1
                               /\ W[i] = W[i - 1] + v /\ T * x =< R * v
    <3>1. PICK x \in Nat, v \in Nat :
              /\ A[i] = A[i - 1] + x + B /\ c[i] = c[i - 1] + 1
              /\ W[i] = W[i - 1] + v /\ T * x =< R * v
      BY <2>3
    <3>2. T * (A[i - 1] + x + B) =< R * (W[i - 1] + v) + T * (B * (c[i - 1] + 1))
      BY <1>2, <2>1, <3>1, ShareAfter
    <3> QED BY <3>1, <3>2
  <2> QED BY <2>2, <2>3
<1> HIDE DEF Fits
<1>3. 0 \in S /\ \A i \in 1..n : i - 1 \in S => i \in S
  BY <1>1, <1>2
<1>4. \A i \in 0..n : i \in S
  <2> HIDE DEF S
  <2> QED BY <1>3, Inductive
<1> QED BY <1>4 DEF Fits

(* The last share is within the whole.                                     *)
LEMMA ShareBound ==
    ASSUME NEW T \in Nat \ {0}, NEW R \in Nat, NEW b \in Nat, NEW a \in Nat, NEW w \in Nat,
           NEW x \in Nat, NEW v \in Nat,
           T * a =< R * w + T * b, T * x =< R * v, w + v =< T
    PROVE  a + x =< R + b
<1>1. T * (a + x) =< R * (w + v) + T * b
  BY ShareStep
<1> DEFINE y == a + x  z == w + v
<1>2. y \in Nat /\ z \in Nat /\ z =< T
  OBVIOUS
<1> HIDE DEF y, z
<1>3. R * z =< R * T /\ R * T = T * R /\ T * (R + b) = T * R + T * b
  BY <1>2
<1>4. R * z \in Nat /\ R * T \in Nat /\ T * b \in Nat /\ T * y \in Nat
  BY <1>2
<1>5. T * y =< T * (R + b)
  BY <1>1, <1>3, <1>4 DEF y, z
<1>6. R + b \in Nat
  OBVIOUS
<1>7. y =< R + b
  BY ONLY <1>2, <1>5, <1>6, T \in Nat \ {0}, Cancelled
<1> QED BY <1>7 DEF y

(* Every cluster ends on the axis: rounded down, the clusters up to it have *)
(* at most their share of the room, and the marks have the rest.           *)
LEMMA ShareFacts ==
    ASSUME NEW n \in Nat \ {0}, NEW G \in SUBSET (1..(n - 1)), NEW e \in Ends(n, G)
    PROVE  Cursor(n, G, e) + ClusterWidth(n, G, e) =< Left + Width
<1> DEFINE K == Cardinality(G)  B == BreakWidth(G)  R == RoomForClusters(G)
           A == Running(Advances(n, G))  W == Running(Weights(n, G))
           T == W[n]  c == [i \in 0..n |-> Cardinality(Past(G, i))]
<1>0. G \in SUBSET (1..n)
  OBVIOUS
<1>1. /\ K \in Nat /\ c \in [0..n -> Nat] /\ \A i \in 0..n : c[i] =< K
      /\ \A i \in 1..n : c[i] = IF i \in G THEN c[i - 1] + 1 ELSE c[i - 1]
  <2>1. /\ K \in Nat /\ \A i \in 0..n : Cardinality(Past(G, i)) \in 0..K
        /\ \A i \in 1..n : Cardinality(Past(G, i)) =
                IF i \in G THEN Cardinality(Past(G, i - 1)) + 1 ELSE Cardinality(Past(G, i - 1))
    BY <1>0, PastFacts
  <2>2. \A i \in 1..n : i \in 0..n /\ i - 1 \in 0..n
    OBVIOUS
  <2> HIDE DEF K
  <2> QED BY <2>1, <2>2
<1>2. B \in Nat /\ R \in Nat /\ R = Width - K * B
  BY <1>1, BreakFacts, RoomFacts
<1>3. /\ T \in Nat \ {0} /\ Advances(n, G) \in [1..n -> Nat]
      /\ \A i \in 1..n : /\ ClusterWidth(n, G, i) \in Nat
                         /\ T * ClusterWidth(n, G, i) =< R * Weight(G, i)
  BY WidthFacts
<1>4. /\ \A i \in 1..n : Weight(G, i) \in Nat
      /\ Weights(n, G) \in [1..n -> Nat]
      /\ \A i \in Ends(n, G) : Weights(n, G)[i] = Weight(G, i)
  BY WeightFacts
<1>5. /\ A \in [0..n -> Nat] /\ A[0] = 0
      /\ \A i \in 1..n : A[i] = A[i - 1] + Advances(n, G)[i]
  BY <1>3, RunningFacts
<1>6. /\ W \in [0..n -> Nat] /\ \A i \in 1..n : W[i] = W[i - 1] + Weights(n, G)[i]
  BY <1>4, RunningFacts
<1>7. \A i \in 0..n : W[i] =< T
  <2>1. n \in 0..n /\ \A i \in 0..n : i =< n
    OBVIOUS
  <2> QED BY <1>4, <2>1, RunningGrows
<1>8. \A i \in 1..n : Advances(n, G)[i] = IF i \in G THEN ClusterWidth(n, G, i) + B ELSE 0
  BY WidthIs
<1>9. G \in SUBSET Ends(n, G) /\ e \in 1..n
  BY ClusterFacts DEF Ends
<1> HIDE DEF K, B, R, A, W, T, c
<1>10. ASSUME NEW i \in 1..n
       PROVE  \/ A[i] = A[i - 1] /\ c[i] = c[i - 1] /\ W[i] >= W[i - 1]
              \/ \E x, v \in Nat : /\ A[i] = A[i - 1] + x + B /\ c[i] = c[i - 1] + 1
                                   /\ W[i] = W[i - 1] + v /\ T * x =< R * v
  <2>1. i - 1 \in 0..n /\ A[i - 1] \in Nat /\ W[i - 1] \in Nat /\ Weights(n, G)[i] \in Nat
    <3>1. i - 1 \in 0..n
      OBVIOUS
    <3> QED BY <1>4, <1>5, <1>6, <3>1
  <2>2. CASE i \in G
    <3>1. ClusterWidth(n, G, i) \in Nat /\ Weight(G, i) \in Nat
          /\ T * ClusterWidth(n, G, i) =< R * Weight(G, i)
      BY <1>3, <1>4
    <3>2. A[i] = A[i - 1] + ClusterWidth(n, G, i) + B
      BY <1>2, <1>5, <1>8, <2>1, <2>2, <3>1
    <3>3. c[i] = c[i - 1] + 1 /\ W[i] = W[i - 1] + Weight(G, i)
      BY <1>1, <1>4, <1>6, <1>9, <2>2
    <3> QED BY <3>1, <3>2, <3>3
  <2>3. CASE i \notin G
    <3>1. A[i] = A[i - 1]
      BY <1>5, <1>8, <2>1, <2>3
    <3>2. c[i] = c[i - 1]
      BY <1>1, <2>3
    <3>3. W[i] = W[i - 1] + Weights(n, G)[i]
      BY <1>6
    <3>4. W[i] >= W[i - 1]
      BY <2>1, <3>3
    <3> QED BY <3>1, <3>2, <3>4
  <2> QED BY <2>2, <2>3
<1>11. T \in Nat
  BY <1>3
<1>12. \A i \in 0..n : T * A[i] =< R * W[i] + T * (B * c[i])
  <2>1. A \in [0..n -> Nat] /\ W \in [0..n -> Nat] /\ c \in [0..n -> Nat] /\ A[0] = 0
    BY <1>1, <1>5, <1>6
  <2>2. n \in Nat /\ R \in Nat /\ B \in Nat
    BY <1>2
  <2> QED BY ONLY <1>10, <1>11, <2>1, <2>2, ShareHolds
<1>13. e - 1 \in 0..n /\ e \in 0..n
  BY <1>9
<1> DEFINE a == A[e - 1]  b == B * c[e - 1]  w == W[e - 1]  v == Weight(G, e)
           x == ClusterWidth(n, G, e)
<1>14. a \in Nat /\ c[e - 1] \in Nat /\ w \in Nat /\ v \in Nat /\ x \in Nat
  BY <1>1, <1>3, <1>4, <1>5, <1>6, <1>9, <1>13
<1>15. b \in Nat /\ b =< K * B /\ K * B \in Nat
  <2>1. c[e - 1] =< K
    BY <1>1, <1>13
  <2>2. B * c[e - 1] =< B * K /\ B * K = K * B
    BY <1>1, <1>2, <1>14, <2>1
  <2> QED BY <1>1, <1>2, <1>14, <2>2
<1>16. w + v =< T
  <2>1. W[e] = w + v
    BY <1>4, <1>6, <1>9
  <2> QED BY <1>7, <1>13, <2>1
<1>17. T * a =< R * w + T * b /\ T * x =< R * v
  BY <1>3, <1>9, <1>12, <1>13
<1> HIDE DEF a, b, w, v, x
<1>18. a + x =< R + b
  BY ONLY <1>2, <1>3, <1>14, <1>15, <1>16, <1>17, ShareBound
<1>19. a + x =< Width
  BY <1>2, <1>14, <1>15, <1>18 DEF Width
<1>20. Cursor(n, G, e) = Left + a
  BY DEF Cursor, a, A
<1> QED BY <1>14, <1>19, <1>20 DEF x, Left, Width

----------------------------------------------------------------------------
(* Places on the axis *)

(* Times that never decrease.                                              *)
Rising(t) == t \in Seq(Nat) /\ \A i, j \in DOMAIN t : i =< j => t[i] =< t[j]

(* Where in its cluster a reading stands.                                  *)
Offset(t, G, s, e, i) ==
    IF s = e THEN Alone(Len(t), G, e) ELSE Within(t, G, s, e, i)

LEMMA GapsFacts ==
    ASSUME NEW t, Rising(t)
    PROVE  Gaps(t) \in SUBSET (1..(Len(t) - 1))
  BY DEF Gaps, Deltas, Rising

LEMMA QuotientGrows ==
    ASSUME NEW a \in Nat, NEW b \in Nat, NEW d \in Nat \ {0}, a =< b
    PROVE  a \div d =< b \div d
<1>1. a \div d \in Nat /\ d * (a \div d) =< a
  BY DivFacts
<1> DEFINE q == a \div d
<1>2. q \in Nat /\ d * q =< b
  <2>1. d * q \in Nat
    BY <1>1
  <2> QED BY <1>1, <2>1
<1> HIDE DEF q
<1>3. q =< b \div d
  BY <1>2, DivFacts
<1> QED BY <1>3 DEF q

LEMMA AloneFacts ==
    ASSUME NEW n \in Nat \ {0}, NEW G \in SUBSET (1..(n - 1)), NEW e \in Ends(n, G)
    PROVE  Alone(n, G, e) \in 0..ClusterWidth(n, G, e)
<1> DEFINE W == ClusterWidth(n, G, e)
<1>0. e \in 1..n
  BY ClusterFacts
<1>1. W \in Nat
  BY <1>0, WidthFacts
<1>2. CASE n = 1
  <2> DEFINE v == Weight(G, 1)  R == RoomForClusters(G)
  <2>1. G = {} /\ e = 1
    BY <1>0, <1>2
  <2>2. v \in Nat \ {0} /\ Weights(1, G) \in [1..1 -> Nat] /\ Weights(1, G)[1] = v
    <3>1. 1 \in 1..n /\ 1 \in Ends(n, G)
      BY <1>2, ClusterFacts
    <3>2. Weights(n, G) \in [1..n -> Nat] /\ Weights(n, G)[1] = v
      BY <3>1, WeightFacts
    <3>3. Weight(G, 1) \in Nat /\ Weight(G, 1) >= 3
      BY <3>1, WeightFacts
    <3>4. v \in Nat \ {0}
      BY <3>3
    <3> HIDE DEF v
    <3> QED BY <1>2, <3>2, <3>4
  <2>3. Running(Weights(1, G))[1] = v
    <3>1. 1 \in Nat /\ 1 \in 1..1 /\ 1 - 1 = 0
      OBVIOUS
    <3> HIDE DEF v
    <3>2. Running(Weights(1, G))[0] = 0
          /\ Running(Weights(1, G))[1] = Running(Weights(1, G))[0] + Weights(1, G)[1]
      BY <2>2, <3>1, RunningFacts
    <3> QED BY <2>2, <3>2
  <2>4. R = Width
    <3>1. Cardinality(G) = 0 /\ 0 \in Nat
      BY <2>1, FS_EmptySet
    <3>2. R = Width - 0 * BreakWidth(G) /\ BreakWidth(G) \in Nat
      BY <3>1, RoomFacts, BreakFacts
    <3> HIDE DEF R
    <3> QED BY <3>2 DEF Width
  <2>5. W = (50000 * v) \div v
    <3>1. e \in 1..n
      BY <1>2, <2>1
    <3>2. W = (RoomForClusters(G) * Weight(G, e)) \div Running(Weights(n, G))[n]
      BY <3>1, WidthIs
    <3> QED BY <3>2, <1>2, <2>1, <2>3, <2>4 DEF Width
  <2> HIDE DEF v, W
  <2>6. 50000 =< (50000 * v) \div v
    <3>1. 50000 * v \in Nat /\ v * 50000 =< 50000 * v /\ 50000 \in Nat
      BY <2>2
    <3> DEFINE a == 50000 * v
    <3> HIDE DEF a
    <3>2. a \in Nat /\ v * 50000 =< a
      BY <3>1 DEF a
    <3>3. 50000 =< a \div v
      BY <2>2, <3>2, DivFacts
    <3> QED BY <3>3 DEF a
  <2>7. Alone(n, G, e) = 25000
    BY <1>2 DEF Alone, Width
  <2>8. 25000 \in 0..W
    BY <1>1, <2>5, <2>6
  <2> QED BY <2>7, <2>8 DEF W
<1>3. CASE n # 1
  <2> HIDE DEF W
  <2>1. W \in 0..W /\ 0 \in 0..W /\ W \div 2 \in 0..W
    BY <1>1
  <2> QED BY <1>3, <2>1 DEF Alone, W
<1> QED BY <1>2, <1>3

LEMMA WithinFacts ==
    ASSUME NEW t, Rising(t), NEW G \in SUBSET (1..(Len(t) - 1)), Len(t) # 0,
           NEW e \in 1..Len(t), NEW s \in 1..e, NEW i \in s..e
    PROVE  /\ Within(t, G, s, e, i) \in 0..ClusterWidth(Len(t), G, e)
           /\ \A j \in i..e : Within(t, G, s, e, i) =< Within(t, G, s, e, j)
<1> DEFINE W == ClusterWidth(Len(t), G, e)  d(j) == t[j] - t[s]  m == Max({1, d(e)})
<1>0. Len(t) \in Nat \ {0} /\ DOMAIN t = 1..Len(t)
  BY DEF Rising
<1>1. \A j \in s..e : d(j) \in 0..d(e)
  <2>1. \A j \in s..e : j \in DOMAIN t /\ s \in DOMAIN t /\ e \in DOMAIN t
    BY <1>0
  <2>2. \A j \in s..e : t[j] \in Nat /\ t[s] \in Nat /\ t[e] \in Nat
                        /\ t[s] =< t[j] /\ t[j] =< t[e]
    BY <2>1 DEF Rising
  <2> QED BY <2>2
<1>2. \A k \in i..e : d(k) \in Nat /\ d(i) =< d(k) /\ d(k) =< d(e)
  <2>1. \A k \in i..e : k \in s..e /\ k \in DOMAIN t /\ i \in DOMAIN t /\ i =< k
    BY <1>0
  <2>2. \A k \in i..e : t[i] =< t[k] /\ t[i] \in Nat /\ t[k] \in Nat
    BY <2>1 DEF Rising
  <2>3. s \in DOMAIN t
    BY <1>0
  <2>4. t[s] \in Nat
    BY <2>3 DEF Rising
  <2> QED BY <1>1, <2>1, <2>2, <2>4
<1>3. W \in Nat
  BY <1>0, WidthFacts
<1>4. i \in i..e /\ e \in i..e
  OBVIOUS
<1>5. m \in Nat \ {0} /\ d(e) =< m
  <2>1. d(e) \in Nat
    BY <1>2, <1>4
  <2> HIDE DEF d
  <2> QED BY <2>1, TwoMax
<1>6. \A k \in s..e : Within(t, G, s, e, k) = (d(k) * W) \div m
  BY DEF Within
<1>7. \A k \in i..e : k \in s..e
  OBVIOUS
<1> HIDE DEF W, d, m
<1>8. ASSUME NEW k \in i..e
      PROVE  /\ d(k) * W \in Nat /\ d(i) * W =< d(k) * W
             /\ d(k) * W =< m * W /\ m * W \in Nat
  <2>1. d(k) \in Nat /\ d(i) \in Nat /\ d(i) =< d(k) /\ d(k) =< m
    BY <1>2, <1>4, <1>5
  <2>2. W * d(i) =< W * d(k) /\ W * d(k) =< W * m
    BY <1>3, <1>5, <2>1, TimesGrows
  <2>3. W * d(i) = d(i) * W /\ W * d(k) = d(k) * W /\ W * m = m * W
    BY <1>3, <1>5, <2>1
  <2>4. d(k) * W \in Nat /\ m * W \in Nat
    BY <1>3, <1>5, <2>1
  <2> QED BY <2>2, <2>3, <2>4
<1>9. Within(t, G, s, e, i) \in 0..W
  <2> DEFINE q == (d(i) * W) \div m
  <2>1. q \in Nat /\ m * q =< d(i) * W
    BY <1>4, <1>5, <1>8, DivFacts
  <2>2. m * q =< m * W
    <3>1. m * q \in Nat
      BY <1>5, <2>1
    <3> HIDE DEF q
    <3> DEFINE x == m * q  y == d(i) * W  z == m * W
    <3>2. x \in Nat /\ y \in Nat /\ z \in Nat /\ x =< y /\ y =< z
      BY <1>4, <1>8, <2>1, <3>1
    <3> HIDE DEF x, y, z
    <3>3. x =< z
      BY <3>2
    <3> QED BY <3>3 DEF x, z
  <2> HIDE DEF q
  <2>3. q =< W
    BY <1>3, <1>5, <2>1, <2>2, Cancelled
  <2>4. q \in 0..W
    BY <1>3, <2>1, <2>3
  <2> QED BY <1>6, <1>4, <1>7, <2>4 DEF q
<1>10. ASSUME NEW j \in i..e
       PROVE  Within(t, G, s, e, i) =< Within(t, G, s, e, j)
  <2>1. (d(i) * W) \div m =< (d(j) * W) \div m
    BY <1>4, <1>5, <1>8, QuotientGrows
  <2> QED BY <1>4, <1>6, <1>7, <2>1
<1> QED BY <1>9, <1>10 DEF W

(* A reading stands in its cluster, and the end of the axis cuts nothing.  *)
LEMMA PlaceFacts ==
    ASSUME NEW t, Rising(t), NEW G \in SUBSET (1..(Len(t) - 1)), NEW n, n = Len(t),
           NEW i \in 1..n, NEW e, e = ClusterOf(n, G, i), NEW s, s = StartOf(G, e)
    PROVE  /\ e \in Ends(n, G) /\ e \in i..n /\ s \in 1..i
           /\ Offset(t, G, s, e, i) \in 0..ClusterWidth(n, G, e)
           /\ \A j \in i..e : Offset(t, G, s, e, i) =< Offset(t, G, s, e, j)
           /\ Cursor(n, G, e) \in Nat /\ Left =< Cursor(n, G, e)
           /\ ClusterWidth(n, G, e) \in Nat
           /\ XPosition(t, G, i) = Cursor(n, G, e) + Offset(t, G, s, e, i)
           /\ XPosition(t, G, i) \in Left..(Left + Width)
<1>0. n \in Nat \ {0}
  BY DEF Rising
<1>1. e \in Ends(n, G) /\ e \in 1..n /\ i =< e /\ s \in 1..e
  BY <1>0, ClusterFacts
<1>2. s =< i
  <2>1. SUFFICES ASSUME i < s PROVE FALSE
    BY <1>1
  <2>2. s - 1 \in G
    BY <1>0, <1>1, <2>1, ClusterFacts
  <2>3. s - 1 \in Ends(n, G) /\ i =< s - 1
    BY <1>1, <2>1, <2>2 DEF Ends
  <2>4. e =< s - 1
    BY <1>0, <2>3, ClusterFacts
  <2> QED BY <1>1, <2>4
<1>3. i \in s..e /\ s \in 1..e
  BY <1>1, <1>2
<1>4. ClusterWidth(n, G, e) \in Nat
  BY <1>0, <1>1, WidthFacts
<1>5. Alone(n, G, e) \in 0..ClusterWidth(n, G, e)
  BY <1>0, <1>1, AloneFacts
<1>6. /\ Within(t, G, s, e, i) \in 0..ClusterWidth(n, G, e)
      /\ \A j \in i..e : Within(t, G, s, e, i) =< Within(t, G, s, e, j)
  BY <1>0, <1>1, <1>3, WithinFacts
<1>7. Offset(t, G, s, e, i) \in 0..ClusterWidth(n, G, e)
  BY <1>5, <1>6 DEF Offset
<1>8. \A j \in i..e : Offset(t, G, s, e, i) =< Offset(t, G, s, e, j)
  <2>1. Alone(n, G, e) =< Alone(n, G, e)
    BY <1>4, <1>5
  <2> QED BY <1>6, <2>1 DEF Offset
<1>9. Cursor(n, G, e) \in Nat /\ Left =< Cursor(n, G, e)
  <2>1. Advances(n, G) \in [1..n -> Nat]
    BY <1>0, WidthFacts
  <2>2. n \in Nat /\ e - 1 \in 0..n
    BY <1>0, <1>1
  <2>3. Running(Advances(n, G))[e - 1] \in Nat
    <3>1. Running(Advances(n, G)) \in [0..n -> Nat]
      BY <2>1, <2>2, RunningFacts
    <3> QED BY <2>2, <3>1
  <2> QED BY <2>3 DEF Cursor, Left
<1>10. Cursor(n, G, e) + ClusterWidth(n, G, e) =< Left + Width
  BY <1>0, <1>1, ShareFacts
<1> DEFINE c == Cursor(n, G, e)  o == Offset(t, G, s, e, i)  w == ClusterWidth(n, G, e)
           right == Left + Width  x == c + o
<1>11. x \in Left..right /\ x \in Nat /\ right \in Nat
  <2>1. c \in Nat /\ Left =< c /\ w \in Nat /\ o \in 0..w /\ c + w =< right
    BY <1>4, <1>7, <1>9, <1>10
  <2>2. Left \in Nat /\ right \in Nat
    BY DEF Left, Width
  <2> HIDE DEF c, o, w, right
  <2> QED BY <2>1, <2>2
<1>12. XPosition(t, G, i) = Min({right, x})
  BY DEF XPosition, Offset
<1> HIDE DEF x, right
<1>13. Min({right, x}) = x
  <2>1. {right, x} \in SUBSET Nat
    BY <1>11
  <2>2. Min({right, x}) \in {right, x} /\ Min({right, x}) =< x
    BY <2>1, MinOf
  <2>3. x =< right
    BY <1>11 DEF Left
  <2> QED BY <1>11, <2>2, <2>3
<1> QED BY <1>1, <1>2, <1>4, <1>7, <1>8, <1>9, <1>11, <1>12, <1>13 DEF x, right

(* Between a cluster and a later one there is room for the mark.           *)
LEMMA CursorStep ==
    ASSUME NEW n \in Nat \ {0}, NEW G \in SUBSET (1..(n - 1)),
           NEW e \in G, NEW f \in 1..n, e < f
    PROVE  /\ BreakWidth(G) \in Nat
           /\ Cursor(n, G, e) + ClusterWidth(n, G, e) + BreakWidth(G) =< Cursor(n, G, f)
<1> DEFINE A == Running(Advances(n, G))  w == ClusterWidth(n, G, e)  B == BreakWidth(G)
<1>1. e \in 1..(n - 1)
  OBVIOUS
<1>2. Advances(n, G) \in [1..n -> Nat] /\ w \in Nat
  BY <1>1, WidthFacts
<1>3. B \in Nat
  <2>1. G \in SUBSET (1..n)
    OBVIOUS
  <2> QED BY <2>1, PastFacts, BreakFacts
<1>4. e \in 1..n /\ e - 1 \in 0..n /\ e \in 0..n /\ f - 1 \in 0..n /\ e =< f - 1
  BY <1>1
<1>5. n \in Nat
  OBVIOUS
<1>6. /\ A \in [0..n -> Nat] /\ A[e] = A[e - 1] + Advances(n, G)[e] /\ A[e] =< A[f - 1]
  BY <1>2, <1>4, <1>5, RunningFacts, RunningGrows
<1>7. Advances(n, G)[e] = w + B
  BY <1>4, WidthIs
<1>8. A[e - 1] \in Nat /\ A[f - 1] \in Nat /\ A[e] \in Nat
  BY <1>4, <1>6
<1>9. Cursor(n, G, e) = Left + A[e - 1] /\ Cursor(n, G, f) = Left + A[f - 1]
  BY DEF Cursor
<1> DEFINE x == A[e - 1]  y == A[f - 1]
<1>10. x + (w + B) =< y /\ x \in Nat /\ y \in Nat
  BY <1>6, <1>7, <1>8
<1> HIDE DEF A, w, B, x, y
<1>11. (Left + x) + w + B =< Left + y
  BY <1>2, <1>3, <1>10 DEF Left
<1> QED BY <1>3, <1>9, <1>11 DEF w, B, x, y

LEMMA PlacesInOrder ==
    ASSUME NEW t, Rising(t), NEW G \in SUBSET (1..(Len(t) - 1)),
           NEW i \in 1..Len(t), NEW j \in 1..Len(t), i =< j
    PROVE  XPosition(t, G, i) =< XPosition(t, G, j)
<1> DEFINE n == Len(t)  e == ClusterOf(n, G, i)  f == ClusterOf(n, G, j)
           s == StartOf(G, e)  r == StartOf(G, f)
<1>0. n \in Nat \ {0}
  BY DEF Rising
<1>1. /\ e \in Ends(n, G) /\ e \in i..n
      /\ Offset(t, G, s, e, i) \in 0..ClusterWidth(n, G, e)
      /\ \A k \in i..e : Offset(t, G, s, e, i) =< Offset(t, G, s, e, k)
      /\ Cursor(n, G, e) \in Nat /\ ClusterWidth(n, G, e) \in Nat
      /\ XPosition(t, G, i) = Cursor(n, G, e) + Offset(t, G, s, e, i)
  BY PlaceFacts
<1>2. /\ f \in Ends(n, G) /\ f \in j..n
      /\ Offset(t, G, r, f, j) \in 0..ClusterWidth(n, G, f)
      /\ Cursor(n, G, f) \in Nat /\ ClusterWidth(n, G, f) \in Nat
      /\ XPosition(t, G, j) = Cursor(n, G, f) + Offset(t, G, r, f, j)
  BY PlaceFacts
<1>3. i =< f
  BY <1>2
<1>4. e =< f
  BY <1>0, <1>2, <1>3, ClusterFacts
<1> HIDE DEF n, e, f
<1>5. CASE e = f
  <2>1. j \in i..e
    BY <1>2, <1>5
  <2>2. Offset(t, G, s, e, i) =< Offset(t, G, r, f, j)
    BY <1>1, <1>5, <2>1
  <2> HIDE DEF s, r
  <2> QED BY <1>1, <1>2, <1>5, <2>2
<1>6. CASE e < f
  <2>1. e \in G /\ f \in 1..n
    BY <1>0, <1>1, <1>2, <1>6 DEF Ends
  <2>2. BreakWidth(G) \in Nat
        /\ Cursor(n, G, e) + ClusterWidth(n, G, e) + BreakWidth(G) =< Cursor(n, G, f)
    <3>1. G \in SUBSET (1..(n - 1))
      BY DEF n
    <3> QED BY <1>0, <1>6, <2>1, <3>1, CursorStep
  <2> HIDE DEF s, r
  <2> QED BY <1>1, <1>2, <2>2
<1> QED BY <1>0, <1>1, <1>2, <1>4, <1>5, <1>6

(* What is no wider than its share has room about the middle of a long     *)
(* pause, between the readings around it.                                  *)
LEMMA MarksFit ==
    ASSUME NEW t, Rising(t), NEW g \in Gaps(t),
           NEW half \in Nat, 2 * half =< BreakWidth(Gaps(t))
    PROVE  /\ g \in 1..Len(t) /\ g + 1 \in 1..Len(t)
           /\ XPosition(t, Gaps(t), g) + half =< GapBreak(t, g)
           /\ GapBreak(t, g) + half =< XPosition(t, Gaps(t), g + 1)
<1> DEFINE n == Len(t)  G == Gaps(t)  f == ClusterOf(n, G, g + 1)  B == BreakWidth(G)
           c == Cursor(n, G, g)  w == ClusterWidth(n, G, g)
<1>1. G \in SUBSET (1..(n - 1)) /\ n \in Nat
  BY GapsFacts DEF Rising
<1>2. g \in 1..n /\ g + 1 \in 1..n /\ n \in Nat \ {0} /\ g \in Nat
  BY <1>1
<1>3. ClusterOf(n, G, g) = g
  <2>1. g \in Ends(n, G) /\ g =< g
    BY <1>2 DEF Ends
  <2>2. ClusterOf(n, G, g) =< g /\ g =< ClusterOf(n, G, g) /\ ClusterOf(n, G, g) \in Ends(n, G)
    BY <1>1, <1>2, <2>1, ClusterFacts
  <2>3. ClusterOf(n, G, g) \in 1..n
    BY <1>1, <1>2, <2>2, ClusterFacts
  <2> QED BY <1>2, <2>2, <2>3
<1>4. /\ Offset(t, G, StartOf(G, g), g, g) \in 0..w /\ c \in Nat /\ w \in Nat
      /\ XPosition(t, G, g) = c + Offset(t, G, StartOf(G, g), g, g)
  <2> HIDE DEF G, n
  <2>1. n = Len(t)
    BY DEF n
  <2> QED BY <1>1, <1>2, <1>3, <2>1, PlaceFacts
<1>5. /\ f \in (g + 1)..n
      /\ Offset(t, G, StartOf(G, f), f, g + 1) \in 0..ClusterWidth(n, G, f)
      /\ Cursor(n, G, f) \in Nat /\ ClusterWidth(n, G, f) \in Nat
      /\ XPosition(t, G, g + 1) = Cursor(n, G, f) + Offset(t, G, StartOf(G, f), f, g + 1)
  <2> HIDE DEF G, n
  <2>1. n = Len(t)
    BY DEF n
  <2> QED BY <1>1, <1>2, <2>1, PlaceFacts
<1>6. f \in 1..n /\ g < f
  BY <1>2, <1>5
<1>7. c + w + B =< Cursor(n, G, f)
  <2> HIDE DEF G, n, f
  <2>1. g \in G
    BY DEF G
  <2> QED BY <1>1, <1>2, <1>6, <2>1, CursorStep
<1>8. B \in Nat /\ B >= 2 * half
  <2>1. G \in SUBSET (1..n)
    BY <1>1
  <2>2. Cardinality(G) \in Nat
    BY <1>1, <2>1, PastFacts
  <2> QED BY <2>2, BreakFacts
<1>9. GapBreak(t, g) = c + w + B \div 2
  BY DEF GapBreak
<1> DEFINE o == Offset(t, G, StartOf(G, g), g, g)  p == Offset(t, G, StartOf(G, f), f, g + 1)
           d == Cursor(n, G, f)  v == ClusterWidth(n, G, f)
<1>10. /\ o \in 0..w /\ c \in Nat /\ w \in Nat /\ d \in Nat /\ v \in Nat /\ p \in 0..v
       /\ XPosition(t, G, g) = c + o /\ XPosition(t, G, g + 1) = d + p
       /\ c + w + B =< d
  BY <1>4, <1>5, <1>7
<1> HIDE DEF o, p, d, v, c, w, B, f, n
<1>11. B \div 2 >= half /\ B \div 2 \in Nat /\ 2 * (B \div 2) =< B
  BY <1>8
<1>12. /\ (c + o) + half =< c + w + B \div 2
       /\ (c + w + B \div 2) + half =< d + p
  BY <1>8, <1>10, <1>11
<1> QED BY <1>2, <1>9, <1>10, <1>12 DEF n

----------------------------------------------------------------------------
(* Times written below it *)

(* In a chart in order, from the left means from the first on.             *)
LEMMA FromLeftFacts ==
    ASSUME NEW n \in Nat \ {0}, NEW x, InOrder(n, x),
           NEW C \in SUBSET (1..n), n \in C,
           NEW K, K = Cardinality(C), NEW c, c = FromLeft(C, x)
    PROVE  /\ K \in Nat \ {0} /\ c \in [1..K -> C] /\ c[K] = n
           /\ \A k, l \in 1..K : k < l => c[k] < c[l]
<1> USE DEF InOrder
<1>0. \A i \in C : i \in 1..n /\ i \in Int /\ x[i] \in Int
  OBVIOUS
<1>1. /\ K \in Nat /\ \A i \in C : Rank(C, i) \in 0..(K - 1)
      /\ \A i, j \in C : i < j => Rank(C, i) < Rank(C, j)
      /\ \A k \in 0..(K - 1) : \E i \in C : Rank(C, i) = k
  BY RankFacts
<1>2. K \in Nat \ {0}
  BY <1>1
<1>3. ASSUME NEW i \in C
      PROVE  {j \in C : x[j] < x[i] \/ (x[j] = x[i] /\ j < i)} = {j \in C : j < i}
  <2>1. ASSUME NEW j \in C
        PROVE  x[j] < x[i] \/ (x[j] = x[i] /\ j < i) <=> j < i
    <3>1. j =< i => x[j] =< x[i]
      BY <1>0
    <3>2. i =< j => x[i] =< x[j]
      BY <1>0
    <3>3. j \in Int /\ i \in Int /\ x[j] \in Int /\ x[i] \in Int
      BY <1>0
    <3> QED BY <3>1, <3>2, <3>3
  <2> QED BY <2>1
<1>4. c = [k \in 1..K |-> CHOOSE i \in C : Rank(C, i) = k - 1]
  <2> DEFINE left(i) == {j \in C : x[j] < x[i] \/ (x[j] = x[i] /\ j < i)}
  <2>1. c = [k \in 1..K |-> CHOOSE i \in C : Cardinality(left(i)) = k - 1]
    BY DEF FromLeft
  <2>2. \A i \in C : Cardinality(left(i)) = Rank(C, i)
    BY <1>3 DEF Rank
  <2> HIDE DEF left
  <2>3. \A k \in 1..K : (CHOOSE i \in C : Cardinality(left(i)) = k - 1)
                          = (CHOOSE i \in C : Rank(C, i) = k - 1)
    <3> SUFFICES ASSUME NEW k \in 1..K
                 PROVE  (CHOOSE i \in C : Cardinality(left(i)) = k - 1)
                          = (CHOOSE i \in C : Rank(C, i) = k - 1)
      OBVIOUS
    <3>1. \A i : (i \in C /\ Cardinality(left(i)) = k - 1) <=> (i \in C /\ Rank(C, i) = k - 1)
      BY <2>2
    <3> QED BY <3>1
  <2> QED BY <2>1, <2>3
<1>5. ASSUME NEW k \in 1..K PROVE c[k] \in C /\ Rank(C, c[k]) = k - 1
  <2>1. k - 1 \in 0..(K - 1)
    BY <1>1
  <2>2. \E i \in C : Rank(C, i) = k - 1
    BY <1>1, <2>1
  <2> QED BY <1>4, <2>2
<1>6. c \in [1..K -> C]
  BY <1>4, <1>5
<1>7. ASSUME NEW k \in 1..K, NEW l \in 1..K, k < l PROVE c[k] < c[l]
  <2>1. c[k] \in C /\ c[l] \in C /\ Rank(C, c[k]) = k - 1 /\ Rank(C, c[l]) = l - 1
    BY <1>5
  <2>2. c[k] \in Int /\ c[l] \in Int
    BY <1>0, <2>1
  <2>3. c[l] < c[k] => l - 1 < k - 1
    BY <1>1, <2>1
  <2>4. c[l] = c[k] => l - 1 = k - 1
    BY <2>1
  <2> QED BY <1>7, <2>2, <2>3, <2>4
<1>8. c[K] = n
  <2>1. K \in 1..K
    BY <1>2
  <2>2. c[K] \in C /\ Rank(C, c[K]) = K - 1
    BY <1>5, <2>1
  <2>3. c[K] =< n /\ c[K] \in Int
    <3>1. c[K] \in 1..n
      BY <1>0, <2>2
    <3> QED BY <3>1
  <2>4. c[K] < n => K - 1 < Rank(C, n)
    BY <1>1, <2>2
  <2>5. Rank(C, n) \in 0..(K - 1)
    BY <1>1
  <2> QED BY <1>1, <2>3, <2>4, <2>5
<1> QED BY <1>2, <1>6, <1>7, <1>8

----------------------------------------------------------------------------
(* Labels far enough from each other to be read.                           *)
Spaced(x, labels) ==
    \A k \in 2..Len(labels) : x[labels[k]] - x[labels[k - 1]] >= LabelWidth

(* A label more keeps them apart, and the last reading gets its own.       *)
LEMMA ConsideredFacts ==
    ASSUME NEW n \in Nat \ {0}, NEW x, InOrder(n, x),
           NEW labels \in Seq(1..n), Spaced(x, labels), NEW i \in 1..n,
           labels # <<>> => labels[Len(labels)] =< i,
           i = 1 => labels = <<>>,
           NEW new, new = Considered(x, labels, i)
    PROVE  /\ new \in Seq(1..n) /\ new # <<>> /\ Spaced(x, new)
           /\ new[Len(new)] =< i /\ (i = n => new[Len(new)] = n)
<1> USE DEF InOrder
<1>0. Len(x) = n /\ Len(labels) \in Nat /\ LabelWidth = 9200
  BY DEF LabelWidth
<1>1. CASE Pushed(x, labels, i)
  <2>1. new = Append(labels, i)
    BY <1>1 DEF Considered
  <2>2. /\ new \in Seq(1..n) /\ Len(new) = Len(labels) + 1 /\ new[Len(new)] = i
        /\ \A k \in 1..Len(labels) : new[k] = labels[k]
    BY <2>1
  <2>3. labels = <<>> \/ x[i] - x[labels[Len(labels)]] >= LabelWidth
    BY <1>1 DEF Pushed, Last
  <2>4. ASSUME NEW k \in 2..Len(new) PROVE x[new[k]] - x[new[k - 1]] >= LabelWidth
    <3>1. CASE k =< Len(labels)
      <4>1. k \in 2..Len(labels) /\ k \in 1..Len(labels) /\ k - 1 \in 1..Len(labels)
        BY <1>0, <3>1
      <4> QED BY <2>2, <4>1 DEF Spaced
    <3>2. CASE k = Len(labels) + 1
      <4>1. Len(labels) \in 1..Len(labels) /\ labels # <<>> /\ k - 1 = Len(labels)
        BY <1>0, <3>2
      <4> QED BY <2>2, <2>3, <3>2, <4>1
    <3> QED BY <1>0, <2>2, <3>1, <3>2
  <2>5. new # <<>>
    BY <1>0, <2>2
  <2> QED BY <2>2, <2>4, <2>5 DEF Spaced
<1>2. CASE ~Pushed(x, labels, i) /\ i # n
  <2>1. new = labels /\ labels # <<>>
    BY <1>0, <1>2 DEF Considered, Pushed
  <2> QED BY <1>2, <2>1
<1>3. CASE ~Pushed(x, labels, i) /\ i = n
  <2>1. new = Append(Front(labels), i) /\ labels # <<>>
    BY <1>0, <1>3 DEF Considered, Pushed
  <2> DEFINE m == Len(labels)
  <2>2. m \in Nat \ {0}
    BY <1>0, <2>1
  <2>3. /\ Front(labels) \in Seq(1..n) /\ Len(Front(labels)) = m - 1
        /\ \A k \in 1..(m - 1) : Front(labels)[k] = labels[k]
    <3>1. Front(labels) = [k \in 1..(m - 1) |-> labels[1 + k - 1]]
      BY <2>2 DEF Front
    <3>2. m - 1 \in Nat
      BY <2>2
    <3>3. \A k \in 1..(m - 1) : 1 + k - 1 = k /\ k \in 1..m
      BY <2>2
    <3>4. \A k \in 1..m : labels[k] \in 1..n
      OBVIOUS
    <3>5. Front(labels) = [k \in 1..(m - 1) |-> labels[k]]
      BY <3>1, <3>3
    <3> DEFINE l == Front(labels)
    <3>6. l \in [1..(m - 1) -> 1..n] /\ \A k \in 1..(m - 1) : l[k] = labels[k]
      BY <3>3, <3>4, <3>5
    <3> DEFINE p == m - 1
    <3>7. p \in Nat /\ l \in [1..p -> 1..n]
      BY <3>2, <3>6
    <3> HIDE DEF l, p
    <3>8. l \in Seq(1..n) /\ Len(l) = p
      BY <3>7
    <3> QED BY <3>6, <3>8 DEF l, p
  <2>4. /\ new \in Seq(1..n) /\ Len(new) = m /\ new[m] = i
        /\ \A k \in 1..(m - 1) : new[k] = labels[k]
    BY <2>1, <2>2, <2>3
  <2>5. ASSUME NEW k \in 2..m PROVE x[new[k]] - x[new[k - 1]] >= LabelWidth
    <3>1. x[labels[k]] - x[labels[k - 1]] >= LabelWidth
      BY DEF Spaced
    <3>2. k - 1 \in 1..(m - 1) /\ new[k - 1] = labels[k - 1] /\ labels[k - 1] \in 1..n
          /\ labels[k] \in 1..n
      <4>1. k \in 1..m /\ k - 1 \in 1..m /\ k - 1 \in 1..(m - 1)
        BY <2>2
      <4>2. \A l \in 1..m : labels[l] \in 1..n
        OBVIOUS
      <4> HIDE DEF m
      <4> QED BY <2>4, <4>1, <4>2
    <3>3. CASE k # m
      <4>1. k \in 1..(m - 1)
        BY <2>2, <3>3
      <4> QED BY <2>4, <3>1, <3>2, <4>1
    <3>4. CASE k = m
      <4>1. labels[m] =< i
        BY <2>1
      <4>2. x[labels[m]] =< x[i]
        BY <3>2, <3>4, <4>1
      <4>3. x[labels[m]] \in Int /\ x[i] \in Int /\ x[labels[m - 1]] \in Int
        BY <3>2, <3>4
      <4>4. x[labels[m]] - x[labels[m - 1]] >= LabelWidth
        BY <3>1, <3>4
      <4>5. new[k] = i /\ new[k - 1] = labels[m - 1]
        BY <2>4, <3>2, <3>4
      <4> DEFINE p == x[labels[m]]  q == x[labels[m - 1]]  v == x[i]
      <4>6. p \in Int /\ q \in Int /\ v \in Int /\ p =< v /\ p - q >= LabelWidth
        BY <4>2, <4>3, <4>4
      <4>7. x[new[k]] = v /\ x[new[k - 1]] = q
        BY <4>5
      <4> HIDE DEF p, q, v
      <4>8. v - q >= LabelWidth
        BY <1>0, <4>6
      <4> QED BY <4>7, <4>8
    <3> QED BY <3>3, <3>4
  <2>6. new # <<>>
    BY <2>2, <2>4
  <2> QED BY <1>3, <2>2, <2>4, <2>5, <2>6 DEF Spaced
<1> QED BY <1>1, <1>2, <1>3

LEMMA SelectionsFacts ==
    ASSUME NEW K \in Nat, NEW n \in Nat, NEW c \in [1..K -> 1..n],
           NEW x \in [1..n -> Int]
    PROVE  /\ Selections(c, x)[0] = <<>>
           /\ \A k \in 1..K : Selections(c, x)[k] = Considered(x, Selections(c, x)[k - 1], c[k])
<1> DEFINE Begun(m, g) == /\ g = [k \in 0..m |-> g[k]] /\ g[0] = <<>>
                          /\ \A k \in 1..m : g[k] = Considered(x, g[k - 1], c[k])
           S == {m \in 0..K : \E g : Begun(m, g)}
<1>1. 0 \in S
  <2>1. Begun(0, [k \in 0..0 |-> <<>>])
    OBVIOUS
  <2> HIDE DEF Begun
  <2> QED BY <2>1
<1>2. ASSUME NEW m \in 1..K, m - 1 \in S PROVE m \in S
  <2>1. PICK g : Begun(m - 1, g)
    BY <1>2
  <2> DEFINE h == [k \in 0..m |-> IF k = m THEN Considered(x, g[m - 1], c[m]) ELSE g[k]]
  <2>2. ASSUME NEW k \in 1..m PROVE h[k] = Considered(x, h[k - 1], c[k])
    <3>1. CASE k = m
      BY <3>1
    <3>2. CASE k # m
      <4>1. k \in 1..(m - 1) /\ k - 1 \in 0..m /\ k - 1 # m /\ k \in 0..m
        BY <3>2
      <4>2. g[k] = Considered(x, g[k - 1], c[k])
        BY <2>1, <4>1
      <4> QED BY <4>1, <4>2, <3>2
    <3> QED BY <3>1, <3>2
  <2>3. h[0] = <<>>
    BY <2>1
  <2>4. Begun(m, h)
    BY <2>2, <2>3
  <2> HIDE DEF Begun, h
  <2> QED BY <2>4
<1>3. K \in S
  <2> HIDE DEF S
  <2>1. \A m \in 0..K : m \in S
    BY <1>1, <1>2, Inductive
  <2> QED BY <2>1
<1>4. PICK g : Begun(K, g)
  BY <1>3
<1>5. Len(c) = K
  OBVIOUS
<1>6. g = [k \in 0..Len(c) |-> IF k = 0 THEN <<>> ELSE Considered(x, g[k - 1], c[k])]
  <2>1. \A k \in 0..K : g[k] = IF k = 0 THEN <<>> ELSE Considered(x, g[k - 1], c[k])
    <3>1. \A k \in 0..K : k = 0 \/ k \in 1..K
      OBVIOUS
    <3>2. 0 \notin 1..K
      OBVIOUS
    <3> QED BY <1>4, <3>1, <3>2
  <2>2. g = [k \in 0..K |-> g[k]]
    BY <1>4
  <2> QED BY <1>5, <2>1, <2>2
<1> DEFINE s == Selections(c, x)
<1>7. s = [k \in 0..Len(c) |-> IF k = 0 THEN <<>> ELSE Considered(x, s[k - 1], c[k])]
  BY <1>6 DEF Selections
<1> HIDE DEF s
<1>8. s[0] = <<>> /\ \A k \in 1..K : s[k] = Considered(x, s[k - 1], c[k])
  BY <1>5, <1>7
<1> QED BY <1>8 DEF s

LEMMA LabelsSpaced ==
    ASSUME NEW n \in Nat \ {0}, NEW x, InOrder(n, x),
           NEW C \in SUBSET (1..n), n \in C, NEW c, c = FromLeft(C, x),
           NEW labels, labels = Selections(c, x)[Len(c)]
    PROVE  /\ labels \in Seq(1..n) /\ labels # <<>>
           /\ labels[Len(labels)] = n /\ Spaced(x, labels)
<1> DEFINE K == Cardinality(C)  s == Selections(c, x)
           Good(k) == /\ s[k] \in Seq(1..n) /\ Spaced(x, s[k])
                      /\ k > 0 => /\ s[k] # <<>> /\ s[k][Len(s[k])] =< c[k]
                                  /\ c[k] = n => s[k][Len(s[k])] = n
<1>1. /\ K \in Nat \ {0} /\ c \in [1..K -> C] /\ c[K] = n
      /\ \A k, l \in 1..K : k < l => c[k] < c[l]
  <2> HIDE DEF K
  <2>1. K = Cardinality(C)
    BY DEF K
  <2> QED BY <2>1, FromLeftFacts
<1> HIDE DEF K
<1>2. s[0] = <<>> /\ \A k \in 1..K : s[k] = Considered(x, s[k - 1], c[k])
  <2>1. K \in Nat
    BY <1>1
  <2>2. c \in [1..K -> 1..n] /\ n \in Nat /\ x \in [1..n -> Int]
    BY <1>1 DEF InOrder
  <2> HIDE DEF K
  <2>3. /\ Selections(c, x)[0] = <<>>
        /\ \A k \in 1..K : Selections(c, x)[k] = Considered(x, Selections(c, x)[k - 1], c[k])
    BY <2>1, <2>2, SelectionsFacts
  <2> QED BY <2>3
<1>0. n \in Nat \ {0} /\ InOrder(n, x)
  OBVIOUS
<1>3. \A k \in 1..K : c[k] \in 1..n
  BY <1>1
<1> HIDE DEF s
<1>4. Good(0)
  BY <1>2 DEF Spaced
<1>5. ASSUME NEW k \in 1..K, Good(k - 1) PROVE Good(k)
  <2> DEFINE old == s[k - 1]  i == c[k]
  <2>1. old \in Seq(1..n) /\ Spaced(x, old) /\ i \in 1..n /\ s[k] = Considered(x, old, i)
    BY <1>2, <1>3, <1>5
  <2>2. old # <<>> => k - 1 \in 1..K /\ old[Len(old)] =< c[k - 1] /\ c[k - 1] < i
    <3>1. CASE k = 1
      BY <1>2, <3>1
    <3>2. CASE k # 1
      <4>1. k - 1 \in 1..K /\ k - 1 < k /\ k - 1 > 0
        BY <1>1, <3>2
      <4>2. c[k - 1] < i
        BY <1>1, <4>1
      <4> QED BY <1>5, <4>1, <4>2
    <3> QED BY <3>1, <3>2
  <2> HIDE DEF old, i
  <2>3. ASSUME old # <<>> PROVE old[Len(old)] =< i /\ i # 1
    <3>1. Len(old) \in 1..Len(old)
      BY <2>1, <2>3
    <3>2. old[Len(old)] \in 1..n
      BY <2>1, <3>1
    <3>3. c[k - 1] \in 1..n
      BY <1>3, <2>2, <2>3
    <3> DEFINE last == old[Len(old)]  d == c[k - 1]
    <3>4. last \in 1..n /\ d \in 1..n /\ i \in 1..n /\ last =< d /\ d < i
      BY <2>1, <2>2, <2>3, <3>2, <3>3
    <3> HIDE DEF last, d
    <3>5. last =< i /\ i # 1
      BY <3>4
    <3> QED BY <3>5 DEF last
  <2>4. /\ s[k] \in Seq(1..n) /\ s[k] # <<>> /\ Spaced(x, s[k])
        /\ s[k][Len(s[k])] =< i /\ (i = n => s[k][Len(s[k])] = n)
    <3>1. old # <<>> => old[Len(old)] =< i
      BY <2>3
    <3>2. i = 1 => old = <<>>
      BY <2>3
    <3> DEFINE new == Considered(x, old, i)
    <3>3. new = Considered(x, old, i)
      OBVIOUS
    <3>4. old \in Seq(1..n) /\ Spaced(x, old) /\ i \in 1..n
      BY <2>1
    <3> HIDE DEF new
    <3>5. /\ new \in Seq(1..n) /\ new # <<>> /\ Spaced(x, new)
          /\ new[Len(new)] =< i /\ (i = n => new[Len(new)] = n)
      BY ONLY <1>0, <3>1, <3>2, <3>3, <3>4, ConsideredFacts
    <3> QED BY <2>1, <3>5 DEF new
  <2> QED BY <2>4 DEF i
<1> DEFINE S == {k \in 0..K : Good(k)}
<1> HIDE DEF Good
<1>6. 0 \in S /\ \A k \in 1..K : k - 1 \in S => k \in S
  BY <1>1, <1>4, <1>5
<1>7. \A k \in 0..K : k \in S
  <2> HIDE DEF S
  <2>1. K \in Nat
    BY <1>1
  <2> QED BY <1>6, <2>1, Inductive
<1>8. Good(K) /\ K > 0 /\ Len(c) = K
  BY <1>1, <1>7
<1> QED BY <1>1, <1>8 DEF Good, s

LEMMA CandidatesFacts ==
    ASSUME NEW t, Rising(t), t # <<>>
    PROVE  Candidates(t) \in SUBSET (1..Len(t)) /\ Len(t) \in Candidates(t)
<1> DEFINE n == Len(t)  m == 1 + (n - 1) \div 2
<1>1. n \in Nat \ {0}
  BY DEF Rising
<1>2. m \in 1..n
  BY <1>1
<1>3. \A g \in Gaps(t) : g + 1 \in 1..n
  <2>1. \A g \in Gaps(t) : g \in 1..(n - 1)
    BY GapsFacts
  <2> QED BY <1>1, <2>1
<1>4. 1 \in 1..n /\ n \in 1..n
  BY <1>1
<1>5. Candidates(t) = {1, m, n} \cup {g + 1 : g \in Gaps(t)}
  BY DEF Candidates
<1> HIDE DEF m, n
<1> QED BY <1>2, <1>3, <1>4, <1>5 DEF n

LEMMA PositionsFacts ==
    ASSUME NEW t, Rising(t)
    PROVE  /\ InOrder(Len(t), XPositions(t))
           /\ \A i \in 1..Len(t) : /\ XPositions(t)[i] \in Left..(Left + Width)
                                   /\ XPositions(t)[i] = XPosition(t, Gaps(t), i)
<1>1. Gaps(t) \in SUBSET (1..(Len(t) - 1))
  BY GapsFacts
<1>2. \A i \in 1..Len(t) : XPosition(t, Gaps(t), i) \in Left..(Left + Width)
  <2> SUFFICES ASSUME NEW i \in 1..Len(t)
               PROVE  XPosition(t, Gaps(t), i) \in Left..(Left + Width)
    OBVIOUS
  <2> DEFINE n == Len(t)  G == Gaps(t)  e == ClusterOf(n, G, i)  s == StartOf(G, e)
  <2>1. G \in SUBSET (1..(n - 1)) /\ n = Len(t) /\ i \in 1..n
    BY <1>1
  <2>2. e = ClusterOf(n, G, i) /\ s = StartOf(G, e)
    OBVIOUS
  <2> HIDE DEF n, G, e, s
  <2>3. XPosition(t, G, i) \in Left..(Left + Width)
    BY <2>1, <2>2, PlaceFacts
  <2> QED BY <2>3 DEF G
<1>3. \A i, j \in 1..Len(t) : i =< j => XPosition(t, Gaps(t), i) =< XPosition(t, Gaps(t), j)
  BY <1>1, PlacesInOrder
<1>4. \A i \in 1..Len(t) : XPosition(t, Gaps(t), i) \in Int
  <2>1. \A x \in Left..(Left + Width) : x \in Int
    BY DEF Left, Width
  <2> QED BY <1>2, <2>1
<1>5. XPositions(t) = [i \in 1..Len(t) |-> XPosition(t, Gaps(t), i)]
  <2> DEFINE x == [i \in 1..Len(t) |-> XPosition(t, Gaps(t), i)]
  <2>1. Len(t) \in Nat /\ XPositions(t) = SubSeq(x, 1, Len(t))
    BY DEF XPositions, Rising
  <2>2. x \in Seq(Int) /\ Len(x) = Len(t)
    BY <1>4, <2>1
  <2> HIDE DEF x
  <2>3. SubSeq(x, 1, Len(x)) = x
    BY <2>2, SubSeqFull
  <2> QED BY <2>1, <2>2, <2>3 DEF x
<1> QED BY <1>2, <1>3, <1>4, <1>5 DEF InOrder

----------------------------------------------------------------------------
(* The theorems *)

TimesInv == Rising(times)

LEMMA StepKeepsTimes ==
    ASSUME TimesInv, [ViewNext]_viewVars
    PROVE  TimesInv'
<1>1. CASE UNCHANGED times
  BY <1>1 DEF TimesInv, Rising
<1>2. CASE FirstReading
  <2>1. times' = <<0>>
    BY <1>2 DEF FirstReading
  <2> QED BY <2>1 DEF TimesInv, Rising
<1>3. CASE NextReading
  <2>1. PICK pause \in Pauses : times' = Append(times, Last(times) + pause)
    BY <1>3 DEF NextReading
  <2> DEFINE n == Len(times)  new == Last(times) + pause
  <2>2. /\ n \in Nat /\ n \in 1..n /\ times \in Seq(Nat) /\ DOMAIN times = 1..n
        /\ \A i, j \in 1..n : i =< j => times[i] =< times[j]
    BY <1>3 DEF NextReading, TimesInv, Rising
  <2>3. pause \in Nat
    BY ViewAssumption
  <2>4. \A i \in 1..n : times[i] \in Nat /\ times[i] =< times[n]
    BY <2>2
  <2>5. new \in Nat /\ times[n] =< new
    BY <2>2, <2>3, <2>4 DEF Last
  <2> HIDE DEF new
  <2>6. times' = Append(times, new)
    BY <2>1 DEF new
  <2>7. /\ times' \in Seq(Nat) /\ DOMAIN times' = 1..(n + 1) /\ times'[n + 1] = new
        /\ \A i \in 1..n : times'[i] = times[i]
    BY <2>2, <2>5, <2>6
  <2>8. ASSUME NEW i \in 1..(n + 1), NEW j \in 1..(n + 1), i =< j
        PROVE  times'[i] =< times'[j]
    <3>1. CASE j \in 1..n
      <4>1. i \in 1..n
        BY <2>2, <2>8, <3>1
      <4> QED BY <2>2, <2>7, <2>8, <3>1, <4>1
    <3>2. CASE i \in 1..n /\ j = n + 1
      BY <2>4, <2>5, <2>7, <3>2
    <3>3. CASE i = n + 1 /\ j = n + 1
      BY <2>5, <2>7, <3>3
    <3> QED BY <2>2, <2>8, <3>1, <3>2, <3>3
  <2> QED BY <2>7, <2>8 DEF TimesInv, Rising
<1> QED BY <1>1, <1>2, <1>3 DEF ViewNext, viewVars

LEMMA TimesInvHolds == ViewSpec => []TimesInv
<1>1. ViewInit => TimesInv
  BY DEF ViewInit, TimesInv, Rising
<1>2. TimesInv /\ [ViewNext]_viewVars => TimesInv'
  BY StepKeepsTimes
<1> QED BY <1>1, <1>2, PTL DEF ViewSpec

(* Charts show readings in the order of their times and within the axis,   *)
(* and every long pause between the two readings around it.  The marks of  *)
(* up to seven, 30 pixels wide, reach neither of them; the lines of up to  *)
(* ten, which leave 22 pixels between them, do not run backward            *)
(* (buildCompressedTimeline(), sensorReadingsUtils.js:302-433, and         *)
(* MetricChart, SensorHistorySection.jsx:183-245).                         *)
THEOREM AxisInOrder == ViewSpec => []ChartInOrder
<1>1. ASSUME TimesInv PROVE ChartInOrder
  <2> DEFINE x == XPositions(times)
  <2>1. Rising(times) /\ DOMAIN times = 1..Len(times) /\ Len(times) \in Nat
    BY <1>1 DEF TimesInv, Rising
  <2>2. ASSUME NEW i \in DOMAIN times
        PROVE  x[i] \in Left..(Left + Width) /\ (i > 1 => x[i - 1] =< x[i])
    <3>1. i \in 1..Len(times) /\ (i > 1 => i - 1 \in 1..Len(times) /\ i - 1 =< i)
      BY <2>1
    <3> QED BY <2>1, <3>1, PositionsFacts DEF InOrder
  <2>3. ASSUME NEW g \in Gaps(times), NEW half \in Nat, 2 * half =< BreakWidth(Gaps(times))
        PROVE  HasRoom(x, g, half)
    <3>1. /\ g \in 1..Len(times) /\ g + 1 \in 1..Len(times)
          /\ XPosition(times, Gaps(times), g) + half =< GapBreak(times, g)
          /\ GapBreak(times, g) + half =< XPosition(times, Gaps(times), g + 1)
      BY <2>1, <2>3, MarksFit
    <3>2. x[g] = XPosition(times, Gaps(times), g) /\ x[g + 1] = XPosition(times, Gaps(times), g + 1)
      BY <2>1, <3>1, PositionsFacts
    <3> QED BY <3>1, <3>2 DEF HasRoom
  <2>4. /\ BreakWidth(Gaps(times)) >= 2 * 0
        /\ Cardinality(Gaps(times)) =< 7 => BreakWidth(Gaps(times)) >= 2 * MarkHalfWidth
        /\ Cardinality(Gaps(times)) =< 10 => BreakWidth(Gaps(times)) >= 2 * LineHalfWidth
    <3>1. Gaps(times) \in SUBSET (1..Len(times))
      BY <2>1, GapsFacts
    <3>2. Cardinality(Gaps(times)) \in Nat
      BY <2>1, <3>1, PastFacts
    <3> QED BY <3>2, BreakFacts
  <2>5. 0 \in Nat /\ MarkHalfWidth \in Nat /\ LineHalfWidth \in Nat
    BY DEF MarkHalfWidth, LineHalfWidth
  <2>6. ASSUME NEW g \in Gaps(times)
        PROVE  /\ HasRoom(x, g, 0)
               /\ Cardinality(Gaps(times)) =< 7  => HasRoom(x, g, MarkHalfWidth)
               /\ Cardinality(Gaps(times)) =< 10 => HasRoom(x, g, LineHalfWidth)
    <3> HIDE DEF x
    <3>1. BreakWidth(Gaps(times)) \in Nat
      BY <2>1, GapsFacts, PastFacts, BreakFacts
    <3> QED BY <2>3, <2>4, <2>5, <3>1
  <2> QED BY <2>2, <2>6 DEF ChartInOrder
<1> QED BY <1>1, TimesInvHolds, PTL

(* The times below a chart are never written over each other, and the last *)
(* is that of the newest reading (selectTimeLabelIndexes(),                *)
(* sensorReadingsUtils.js:435-479).                                        *)
THEOREM LabelsNeverOverlap == ViewSpec => []LabelsApart
<1>1. ASSUME TimesInv PROVE LabelsApart
  <2> DEFINE n == Len(times)  x == XPositions(times)  labels == TimeLabels(times)
             C == Candidates(times)  c == FromLeft(C, x)
  <2>1. CASE times = <<>>
    <3>1. labels = <<>>
      BY <2>1 DEF TimeLabels
    <3>2. Len(labels) = 0
      BY <3>1
    <3> QED BY <2>1, <3>2 DEF LabelsApart
  <2>2. CASE times # <<>>
    <3>1. Rising(times) /\ n \in Nat \ {0}
      BY <1>1, <2>2 DEF TimesInv, Rising
    <3>2. labels = Selections(c, x)[Len(c)]
      BY <2>2 DEF TimeLabels
    <3>3. InOrder(n, x)
      BY <3>1, PositionsFacts
    <3>4. C \in SUBSET (1..n) /\ n \in C
      BY <2>2, <3>1, CandidatesFacts
    <3>5. labels[Len(labels)] = n /\ Spaced(x, labels)
      <4> HIDE DEF n, x, labels, C
      <4> QED BY <3>1, <3>2, <3>3, <3>4, LabelsSpaced
    <3> QED BY <3>5 DEF LabelsApart, Spaced, Last
  <2> QED BY <2>1, <2>2
<1> QED BY <1>1, TimesInvHolds, PTL
----------------------------------------------------------------------------
(* What the page has fetched.  A reading is sent only when it is stored,   *)
(* and the server looks at what is stored: so what comes over the socket   *)
(* and what a request brings is stored of the place it is for, and that is *)
(* the place selected.                                                     *)

LEMMA NewestFacts ==
    ASSUME NEW n \in Nat, NEW S \in SUBSET (1..n)
    PROVE  /\ Newest(S) \in 0..n /\ \A i \in S : i =< Newest(S)
           /\ S = {} => Newest(S) = NoReading
           /\ S # {} => Newest(S) \in S
<1>1. CASE S = {}
  BY <1>1 DEF Newest, NoReading
<1>2. CASE S # {}
  <2>1. S \in SUBSET (0..n)
    OBVIOUS
  <2>2. Max(S) \in S /\ \A i \in S : i =< Max(S)
    BY <1>2, <2>1, MaxOf
  <2>3. \A i \in S : i =< Newest(S)
    BY <1>2, <2>2 DEF Newest
  <2>4. Newest(S) \in S
    BY <1>2, <2>2 DEF Newest
  <2>5. Newest(S) \in 0..n
    <3>1. \A i \in S : i \in 0..n
      OBVIOUS
    <3> QED BY <2>4, <3>1, Zenon
  <2> QED BY <1>2, <2>3, <2>4, <2>5
<1> QED BY <1>1, <1>2

(* The last HistoryLimit of some readings: no more than that, and the      *)
(* newest is among them.                                                   *)
LEMMA LastOfFacts ==
    ASSUME NEW n \in Nat, NEW S \in SUBSET (1..n)
    PROVE  /\ LastOf(S) \in SUBSET S
           /\ IsFiniteSet(LastOf(S)) /\ Cardinality(LastOf(S)) =< HistoryLimit
           /\ Newest(LastOf(S)) = Newest(S)
<1> DEFINE L == LastOf(S)
           Above(i) == {m \in S : m > i}
           f == [i \in L |-> Cardinality(Above(i))]
<1>0. \A i \in S : i \in Int
  OBVIOUS
<1>1. IsFiniteSet(S)
  BY RankFacts
<1>2. L \in SUBSET S /\ \A i \in S : i \in L <=> Cardinality(Above(i)) < HistoryLimit
  BY DEF LastOf
<1>3. \A i \in S : IsFiniteSet(Above(i)) /\ Cardinality(Above(i)) \in Nat
  <2>1. ASSUME NEW i \in S PROVE IsFiniteSet(Above(i)) /\ Cardinality(Above(i)) \in Nat
    <3>1. Above(i) \in SUBSET S
      OBVIOUS
    <3> QED BY <1>1, <3>1, FS_Subset, FS_CardinalityType
  <2> QED BY <2>1
<1>4. ASSUME NEW i \in S, NEW j \in S, i < j
      PROVE  Cardinality(Above(i)) # Cardinality(Above(j))
  <2>1. Above(j) \in SUBSET Above(i) /\ j \in Above(i) /\ j \notin Above(j)
    <3>1. i \in Int /\ j \in Int
      BY <1>0
    <3>2. ASSUME NEW z \in S, z > j PROVE z > i
      BY <1>0, <1>4, <3>1, <3>2
    <3>3. ~(j > j)
      BY <3>1
    <3> QED BY <1>4, <3>1, <3>2, <3>3
  <2>2. IsFiniteSet(Above(i))
    BY <1>3
  <2>3. Above(i) # Above(j)
    BY <2>1
  <2> HIDE DEF Above
  <2> QED BY <2>1, <2>2, <2>3, FS_Subset
<1>5. HistoryLimit \in Nat \ {0}
  BY HistoryAssumption
<1>6. f \in Injection(L, 0..(HistoryLimit - 1))
  <2>1. \A i \in L : f[i] \in 0..(HistoryLimit - 1)
    <3>1. ASSUME NEW i \in L PROVE Cardinality(Above(i)) \in 0..(HistoryLimit - 1)
      <4>1. Cardinality(Above(i)) \in Nat /\ Cardinality(Above(i)) < HistoryLimit
        BY <1>2, <1>3
      <4> HIDE DEF Above
      <4> QED BY <1>5, <4>1
    <3> QED BY <3>1
  <2>2. ASSUME NEW i \in L, NEW j \in L, f[i] = f[j] PROVE i = j
    <3>1. i \in S /\ j \in S /\ i \in Int /\ j \in Int
      BY <1>0, <1>2
    <3>2. Cardinality(Above(i)) = Cardinality(Above(j))
      BY <2>2
    <3> HIDE DEF Above, L
    <3> QED BY <1>4, <3>1, <3>2
  <2> QED BY <2>1, <2>2 DEF Injection, IsInjective
<1>7. IsFiniteSet(L) /\ Cardinality(L) =< HistoryLimit
  <2>1. IsFiniteSet(0..(HistoryLimit - 1)) /\ Cardinality(0..(HistoryLimit - 1)) = HistoryLimit
    <3>1. 0 \in Int /\ HistoryLimit - 1 \in Int /\ ~(0 > HistoryLimit - 1)
      BY <1>5
    <3>2. /\ IsFiniteSet(0..(HistoryLimit - 1))
          /\ Cardinality(0..(HistoryLimit - 1)) = (HistoryLimit - 1) - 0 + 1
      BY <3>1, FS_Interval
    <3> QED BY <1>5, <3>2
  <2> HIDE DEF f, L
  <2> QED BY <1>6, <2>1, FS_Injection
<1>8. Newest(L) = Newest(S)
  <2>1. CASE S = {}
    BY <1>2, <2>1 DEF Newest
  <2>2. CASE S # {}
    <3>1. Newest(S) \in S /\ \A i \in S : i =< Newest(S)
      BY <2>2, NewestFacts
    <3>2. Above(Newest(S)) = {}
      <4>1. \A i \in S : ~(i > Newest(S))
        <5>1. \A i, m \in S : i =< m => ~(i > m)
          BY <1>0
        <5> QED BY <3>1, <5>1, Zenon
      <4> QED BY <4>1
    <3>3. Newest(S) \in L
      <4>1. Cardinality(Above(Newest(S))) = 0 /\ 0 < HistoryLimit
        BY <1>5, <3>2, FS_EmptySet
      <4> HIDE DEF Above, L
      <4> QED BY <1>2, <3>1, <4>1
    <3>4. L \in SUBSET (1..n) /\ L # {}
      BY <1>2, <3>3
    <3> HIDE DEF L
    <3>5. Newest(L) \in L /\ Newest(S) =< Newest(L)
      BY <3>3, <3>4, NewestFacts
    <3>6. Newest(L) \in S /\ Newest(L) =< Newest(S)
      BY <1>2, <3>1, <3>5
    <3>7. Newest(S) \in Int /\ Newest(L) \in Int
      BY <1>0, <3>1, <3>6
    <3> QED BY <3>5, <3>6, <3>7
  <2> QED BY <2>1, <2>2
<1> QED BY <1>2, <1>7, <1>8

LEMMA MergedFacts ==
    ASSUME NEW n \in Nat, NEW S \in SUBSET (1..n), NEW R \in SUBSET S
    PROVE  Newest(R) =< Newest(S)
<1>1. R \in SUBSET (1..n)
  OBVIOUS
<1>2. /\ \A i \in S : i =< Newest(S)
      /\ R = {} => Newest(R) = 0
      /\ R # {} => Newest(R) \in R
      /\ Newest(S) \in 0..n
  BY <1>1, NewestFacts DEF NoReading
<1>3. CASE R # {}
  BY <1>2, <1>3, Zenon
<1>4. CASE R = {}
  <2>1. \A m \in 0..n : 0 =< m
    OBVIOUS
  <2> QED BY <1>2, <1>4, <2>1, Zenon
<1> QED BY <1>3, <1>4

----------------------------------------------------------------------------
\* The server and the socket.
SentInv ==
    /\ LiveTypeOK /\ wire \in Seq(Nat)
    /\ \A p \in Places : sent[p] =< stored[p]
    /\ place = NoPlace =>
          socket = "none" /\ status = "idle" /\ wire = <<>> /\ latest = NoReading
    /\ place # NoPlace =>
          latest =< sent[place] /\ \A i \in DOMAIN wire : wire[i] =< sent[place]

LEMMA ServerKeepsSent ==
    ASSUME SentInv, ServerStep
    PROVE  /\ SentInv' /\ UNCHANGED <<place, latest>>
           /\ \A p \in Places : stored[p] =< stored'[p]
<1> USE DEF SentInv, LiveTypeOK, live
<1>1. PICK p \in Places : Store(p) \/ Broadcast(p)
  BY DEF ServerStep
<1>2. MaxReading \in Nat /\ NoPlace \notin Places
  BY LiveReadingsAssumption
<1>3. CASE Store(p)
  <2>1. /\ stored[p] \in Nat /\ stored[p] + 1 \in 0..MaxReading
        /\ stored' = [stored EXCEPT ![p] = stored[p] + 1]
        /\ UNCHANGED <<place, sent, live>>
    BY <1>2, <1>3 DEF Store
  <2>2. stored' \in [Places -> 0..MaxReading]
    BY <2>1
  <2>3. \A q \in Places : stored[q] =< stored'[q] /\ sent[q] =< stored'[q]
    BY <2>1
  <2> QED BY <2>1, <2>2, <2>3
<1>4. CASE Broadcast(p)
  <2>1. /\ sent[p] \in Nat /\ sent[p] + 1 \in Readings /\ sent[p] + 1 =< stored[p]
        /\ sent' = [sent EXCEPT ![p] = sent[p] + 1]
        /\ UNCHANGED <<place, stored, status, socket, latest, heard>>
    BY <1>2, <1>4 DEF Broadcast, Readings
  <2>2. sent' \in [Places -> 0..MaxReading]
    BY <2>1 DEF Readings
  <2>3. \A q \in Places : sent[q] =< sent'[q] /\ sent'[q] =< stored'[q]
    BY <2>1
  <2>4. CASE wire' = wire
    <3>1. place # NoPlace => place \in Places /\ sent[place] =< sent'[place]
                             /\ sent[place] \in Nat /\ sent'[place] \in Nat
      BY <2>2, <2>3
    <3>2. place # NoPlace => latest \in Nat /\ latest =< sent'[place]
      BY <2>1, <3>1 DEF Readings, NoReading
    <3>3. place # NoPlace => \A i \in DOMAIN wire : wire[i] =< sent'[place]
      BY <3>1
    <3> QED BY <2>1, <2>2, <2>3, <2>4, <3>2, <3>3
  <2>5. CASE p = place /\ wire' = Append(wire, sent[p] + 1)
    <3>1. wire' \in Seq(Nat) /\ DOMAIN wire' = 1..(Len(wire) + 1)
      BY <2>1, <2>5
    <3>2. \A i \in DOMAIN wire' : IF i = Len(wire) + 1 THEN wire'[i] = sent[p] + 1
                                    ELSE i \in DOMAIN wire /\ wire'[i] = wire[i]
      BY <2>1, <2>5
    <3>3. sent'[place] = sent[place] + 1 /\ place # NoPlace
      BY <1>2, <2>1, <2>5
    <3>4. \A i \in DOMAIN wire' : wire'[i] =< sent'[place] /\ wire'[i] \in Readings \cup {Hello}
      <4>1. \A i \in DOMAIN wire : wire[i] =< sent'[place] /\ wire[i] \in Readings \cup {Hello}
        <5>1. \A i \in DOMAIN wire : wire[i] \in Nat /\ wire[i] =< sent[place]
          BY <3>3
        <5> QED BY <2>1, <2>5, <3>3, <5>1
      <4> QED BY <2>1, <2>5, <3>2, <3>3, <4>1
    <3>5. latest =< sent'[place]
      <4>1. latest \in Nat /\ latest =< sent[place] /\ sent[place] \in Nat
        BY <2>1, <2>5, <3>3 DEF Readings, NoReading
      <4> QED BY <3>3, <4>1
    <3> QED BY <2>1, <2>2, <2>3, <3>1, <3>3, <3>4, <3>5
  <2> QED BY <1>4, <2>1, <2>3, <2>4, <2>5 DEF Broadcast
<1> QED BY <1>1, <1>3, <1>4

LEMMA TurnKeepsSent ==
    ASSUME SentInv, NEW p \in Places \cup {NoPlace}, LiveTurnTo(p), UNCHANGED server
    PROVE  SentInv'
<1>1. /\ place' = p /\ wire' = <<>> /\ latest' = NoReading /\ heard' = "never"
      /\ UNCHANGED <<stored, sent>>
      /\ p = NoPlace => socket' = "none" /\ status' = "idle"
      /\ status' \in {"idle", "connecting", "error"} /\ socket' \in {"none", "opening"}
  BY DEF LiveTurnTo, Connect, server
<1>2. DOMAIN wire' = {} /\ wire' \in Seq(Nat)
  BY <1>1
<1>3. p \in Places => NoReading =< sent[p]
  BY DEF SentInv, LiveTypeOK, NoReading
<1> QED BY <1>1, <1>2, <1>3 DEF SentInv, LiveTypeOK

LEMMA SocketKeepsSent ==
    ASSUME SentInv, SocketStep
    PROVE  /\ SentInv' /\ UNCHANGED <<place, stored>>
           /\ latest' # NoReading \/ latest' = latest
<1> USE DEF SentInv, LiveTypeOK, server
<1>1. CASE Joined
  <2>1. place # NoPlace
    BY <1>1 DEF Joined
  <2>2. /\ wire' = <<Hello>> /\ socket' = "joined"
        /\ UNCHANGED <<place, stored, sent, status, latest, heard>>
    BY <1>1 DEF Joined
  <2>3. wire' \in Seq(Nat) /\ \A i \in DOMAIN wire' : wire'[i] = Hello
    BY <2>2 DEF Hello
  <2>4. Hello =< sent[place]
    BY <2>1 DEF Hello
  <2> QED BY <2>1, <2>2, <2>3, <2>4
<1>2. CASE Refused \/ StaleTimer
  BY <1>2 DEF Refused, StaleTimer
<1>3. CASE Lost
  <2>1. wire' = <<>> /\ DOMAIN wire' = {} /\ wire' \in Seq(Nat)
    BY <1>3 DEF Lost
  <2> QED BY <1>3, <2>1 DEF Lost
<1>4. CASE Reconnect
  BY <1>4 DEF Reconnect, Connect
<1>5. CASE Message
  <2>1. /\ wire # <<>> /\ wire' = Tail(wire) /\ status' = "connected"
        /\ UNCHANGED <<place, stored, sent, socket>>
    BY <1>5 DEF Message
  <2>2. /\ wire' \in Seq(Nat) /\ Head(wire) = wire[1] /\ 1 \in DOMAIN wire
        /\ \A i \in DOMAIN wire' : i + 1 \in DOMAIN wire /\ wire'[i] = wire[i + 1]
    BY <2>1
  <2>3. \/ UNCHANGED <<latest, heard>>
        \/ latest' = wire[1] /\ wire[1] # Hello /\ heard' = "fresh"
    BY <1>5, <2>2 DEF Message
  <2>4. place # NoPlace
    BY <2>1
  <2>5. wire[1] =< sent[place] /\ wire[1] \in Readings \cup {Hello}
    BY <2>2, <2>4
  <2>6. \A i \in DOMAIN wire' : wire'[i] =< sent[place] /\ wire'[i] \in Readings \cup {Hello}
    BY <2>2, <2>4
  <2>7. latest' =< sent[place] /\ latest' \in Readings \cup {NoReading}
        /\ (latest' # NoReading \/ latest' = latest)
    BY <2>3, <2>4, <2>5 DEF Hello, NoReading
  <2>8. heard' \in {"never", "fresh", "stale"}
    BY <2>3
  <2> QED BY <2>1, <2>2, <2>4, <2>6, <2>7, <2>8
<1> QED BY <1>1, <1>2, <1>3, <1>4, <1>5 DEF SocketStep

----------------------------------------------------------------------------
\* What is stored of the place selected.
Here == IF place = NoPlace THEN 0 ELSE stored[place]

\* What the page shows is stored of that place, and no more than it may keep.
ShownInv ==
    /\ readings \in SUBSET (1..Here) /\ Cardinality(readings) =< HistoryLimit
    /\ newest = Newest(readings)
    /\ ~mounted => readings = {}

\* A request is the open page's, for the place selected.
AskedInv ==
    call # NoCall =>
        /\ mounted /\ place # NoPlace /\ call.of = place
        /\ call.seen # Unseen => call.seen =< Here

\* The page says something only while it is open, of a place.
SaidInv ==
    /\ syncStatus # "idle" => mounted /\ place # NoPlace
    /\ latest = NoReading => taken = NoReading

HistoryInv == TypeOK /\ SentInv /\ ShownInv /\ AskedInv /\ SaidInv

HereBound ==
    /\ Here \in 0..MaxReading /\ 1..Here \in SUBSET Readings
    /\ latest \in 0..Here
    /\ place = NoPlace => Here = 0

LEMMA HereFacts == SentInv => HereBound
<1> SUFFICES ASSUME SentInv PROVE HereBound
  OBVIOUS
<1> USE DEF HereBound
<1>1. MaxReading \in Nat
  BY LiveReadingsAssumption
<1>2. CASE place = NoPlace
  <2>1. Here = 0 /\ latest = 0
    BY <1>2 DEF SentInv, Here, NoReading
  <2>2. 1..0 = {}
    OBVIOUS
  <2> QED BY <1>1, <2>1, <2>2
<1>3. CASE place \in Places
  <2>1. stored[place] \in 0..MaxReading /\ sent[place] \in 0..MaxReading
        /\ sent[place] =< stored[place] /\ Here = stored[place]
        /\ latest =< sent[place] /\ latest \in Readings \cup {NoReading}
    BY <1>3, LiveReadingsAssumption DEF SentInv, LiveTypeOK, Here
  <2>2. latest \in Nat
    BY <2>1 DEF Readings, NoReading
  <2>3. place # NoPlace
    BY <1>3, LiveReadingsAssumption
  <2> QED BY <1>1, <2>1, <2>2, <2>3 DEF Readings
<1> QED BY <1>2, <1>3 DEF SentInv, LiveTypeOK

LEMMA ShowFacts ==
    ASSUME NEW n \in Nat, NEW S \in SUBSET (1..n), Show(LastOf(S))
    PROVE  /\ readings' \in SUBSET S /\ Cardinality(readings') =< HistoryLimit
           /\ newest' = Newest(readings') /\ newest' = Newest(S) /\ newest' \in 0..n
  BY LastOfFacts, NewestFacts DEF Show

LEMMA NextHereFacts == SentInv' => HereBound'
  BY HereFacts, PTL

LEMMA RequestFacts ==
    ASSUME HistoryInv, NEW inc \in BOOLEAN, Request(place, inc), mounted, place # NoPlace,
           UNCHANGED <<place, server, live, mounted, readings, newest, taken, sync>>,
           visible' \in BOOLEAN
    PROVE  HistoryInv'
<1>1. MaxReading \in Nat
  BY LiveReadingsAssumption
<1>2. place \in Places /\ newest \in Readings \cup {NoReading}
  BY DEF HistoryInv, TypeOK, LiveTypeOK
<1>3. Unseen \in 0..Unseen /\ NoReading \in Readings \cup {NoReading}
  BY <1>1 DEF Unseen, NoReading
<1>4. call' \in Calls /\ call'.of = place /\ call'.seen = Unseen
  BY <1>2, <1>3 DEF Request, Calls
<1>5. AskedInv'
  BY <1>4 DEF AskedInv
<1>6. TypeOK'
  BY <1>4 DEF HistoryInv, TypeOK, LiveTypeOK, server, live, sync
<1> QED BY <1>5, <1>6
        DEF HistoryInv, SentInv, LiveTypeOK, ShownInv, SaidInv, Here, server, live, sync

LEMMA PageTurns ==
    ASSUME SentInv', NEW p, p = place', NEW r, r = latest', PageTurnsTo(p, r),
           mounted' = TRUE, visible' \in BOOLEAN
    PROVE  HistoryInv'
<1>1. HereBound' /\ MaxReading \in Nat /\ HistoryLimit \in Nat \ {0}
  BY NextHereFacts, LiveReadingsAssumption, HistoryAssumption
<1>2. place' \in Places \cup {NoPlace} /\ NoPlace \notin Places
  BY LiveReadingsAssumption DEF SentInv, LiveTypeOK
<1>3. call' \in Calls \cup {NoCall} /\ AskedInv'
  <2>1. CASE place' = NoPlace
    BY <2>1 DEF PageTurnsTo, AskedInv
  <2>2. CASE place' \in Places
    <3>1. call' = [NoCall EXCEPT !.of = place']
      BY <1>2, <2>2 DEF PageTurnsTo
    <3>2. call' = [of |-> place', incremental |-> FALSE, after |-> NoReading, seen |-> Unseen]
      BY <3>1 DEF NoCall
    <3>3. Unseen \in 0..Unseen
      BY <1>1 DEF Unseen
    <3> QED BY <1>2, <2>2, <3>2, <3>3 DEF Calls, AskedInv
  <2> QED BY <1>2, <2>1, <2>2
<1>4. r \in 0..Here' /\ 1..Here' \in SUBSET Readings /\ taken' = r
  <2>1. latest' \in 0..Here' /\ 1..Here' \in SUBSET Readings
    BY <1>1 DEF HereBound
  <2>2. taken' = r
    BY DEF PageTurnsTo
  <2> QED BY <2>1, <2>2
<1>5. /\ ShownInv' /\ readings' \subseteq Readings /\ newest' \in Readings \cup {NoReading}
  <2>1. CASE r = NoReading
    <3>1. readings' = {} /\ newest' = Newest({})
      BY <2>1 DEF PageTurnsTo, Show
    <3>2. Newest({}) = NoReading /\ Cardinality({}) = 0
      BY FS_EmptySet DEF Newest
    <3> QED BY <1>1, <3>1, <3>2 DEF ShownInv
  <2>2. CASE r # NoReading
    <3>1. readings' = {r} /\ newest' = Newest({r})
      BY <2>2 DEF PageTurnsTo, Show
    <3>2. r \in 1..Here' /\ Here' \in Nat
      BY <1>1, <1>4, <2>2 DEF NoReading, HereBound
    <3>3. {r} \in SUBSET (1..Here') /\ {r} # {}
      BY <3>2
    <3>4. Newest({r}) \in {r}
      BY <3>2, <3>3, NewestFacts
    <3>5. Cardinality({r}) = 1
      BY FS_Singleton
    <3> QED BY <1>1, <1>4, <3>1, <3>3, <3>4, <3>5 DEF ShownInv
  <2> QED BY <2>1, <2>2
<1>6. /\ syncStatus' \in {"idle", "connected"} /\ failures' = 0 /\ unanswered' = 0
      /\ syncStatus' = "connected" => r # NoReading
  BY DEF PageTurnsTo
<1>7. SaidInv'
  <2>1. r # NoReading => place' # NoPlace
    BY <1>1, <1>4 DEF HereBound, NoReading
  <2> QED BY <1>4, <1>6, <2>1 DEF SaidInv
<1>8. taken' \in Readings \cup {NoReading}
  BY <1>4 DEF SentInv, LiveTypeOK
<1> QED BY <1>3, <1>5, <1>6, <1>7, <1>8 DEF HistoryInv, TypeOK, SentInv, Patience

LEMMA PageEnds ==
    ASSUME SentInv', PageRests, mounted' \in BOOLEAN, visible' \in BOOLEAN
    PROVE  HistoryInv'
<1>1. Newest({}) = NoReading /\ Cardinality({}) = 0 /\ HistoryLimit \in Nat
  BY FS_EmptySet, HistoryAssumption DEF Newest
<1> QED BY <1>1
        DEF PageRests, Show, HistoryInv, TypeOK, SentInv, ShownInv, AskedInv, SaidInv, Patience

LEMMA ArrivalsKeep ==
    ASSUME HistoryInv, ServerStep \/ SocketStep, UNCHANGED page
    PROVE  HistoryInv'
<1> USE DEF HistoryInv
<1>1. SentInv' /\ UNCHANGED place /\ \A p \in Places : stored[p] =< stored'[p]
  <2>1. CASE ServerStep
    BY <2>1, ServerKeepsSent
  <2>2. CASE SocketStep
    <3>1. SentInv' /\ UNCHANGED <<place, stored>>
      BY <2>2, SocketKeepsSent
    <3>2. \A p \in Places : stored[p] =< stored[p]
      BY DEF SentInv, LiveTypeOK
    <3> QED BY <3>1, <3>2
  <2> QED BY <2>1, <2>2
<1>2. latest' # NoReading \/ latest' = latest
  BY ServerKeepsSent, SocketKeepsSent
<1>3. HereBound /\ HereBound' /\ Here =< Here'
  <2>1. HereBound /\ HereBound'
    BY <1>1, HereFacts, NextHereFacts
  <2>2. Here =< Here'
    BY <1>1 DEF Here, SentInv, LiveTypeOK
  <2> QED BY <2>1, <2>2
<1>4. ShownInv'
  <2> DEFINE h == Here  k == Here'
  <2>1. h \in Nat /\ k \in Nat /\ h =< k
    BY <1>3, LiveReadingsAssumption DEF HereBound
  <2>2. UNCHANGED <<readings, newest, mounted>> /\ readings \in SUBSET (1..h)
    BY DEF page, ShownInv
  <2> HIDE DEF h, k
  <2>3. readings' \in SUBSET (1..k)
    BY <2>1, <2>2
  <2> QED BY <2>2, <2>3 DEF ShownInv, k
<1>5. AskedInv'
  <2> SUFFICES ASSUME call # NoCall PROVE AskedInv'
    BY DEF AskedInv, page
  <2>1. /\ mounted /\ place # NoPlace /\ call.of = place
        /\ call.seen # Unseen => call.seen =< Here
    BY DEF AskedInv
  <2>2. call.seen # Unseen => call.seen =< Here'
    <3>1. call \in Calls
      BY DEF TypeOK
    <3>2. call.seen \in 0..Unseen
      BY <3>1 DEF Calls
    <3> DEFINE s == call.seen  h == Here  k == Here'
    <3>3. s \in Int /\ h \in Int /\ k \in Int /\ h =< k /\ (s # Unseen => s =< h)
      BY <1>3, <2>1, <3>2 DEF HereBound
    <3> HIDE DEF s, h, k
    <3>4. s # Unseen => s =< k
      BY <3>3
    <3> QED BY <3>4 DEF s, k
  <2> QED BY <1>1, <2>1, <2>2 DEF AskedInv, page
<1>6. SaidInv'
  BY <1>1, <1>2 DEF SaidInv, page, sync
<1> QED BY <1>1, <1>4, <1>5, <1>6 DEF TypeOK, SentInv, page, sync

LEMMA TurnsKeep ==
    ASSUME HistoryInv, Enter \/ Leave \/ \E p \in Places \cup {NoPlace} : SelectPlace(p)
    PROVE  HistoryInv'
<1>1. SentInv /\ {mounted, visible} \subseteq BOOLEAN
  BY DEF HistoryInv, TypeOK
<1>2. CASE Enter
  <2>1. SentInv'
    BY <1>1, <1>2 DEF Enter, SentInv, LiveTypeOK, server, live
  <2>2. /\ PageTurnsTo(place, latest) /\ place' = place /\ latest' = latest
        /\ mounted' = TRUE /\ visible' = visible
    BY <1>2 DEF Enter, live
  <2> QED BY <1>1, <2>1, <2>2, PageTurns
<1>3. CASE Leave
  <2>1. SentInv'
    BY <1>1, <1>3 DEF Leave, SentInv, LiveTypeOK, server, live
  <2> QED BY <1>1, <1>3, <2>1, PageEnds DEF Leave
<1>4. CASE \E p \in Places \cup {NoPlace} : SelectPlace(p)
  <2>1. PICK p \in Places \cup {NoPlace} : SelectPlace(p)
    BY <1>4
  <2>2. SentInv' /\ place' = p /\ latest' = NoReading
    BY <1>1, <2>1, TurnKeepsSent DEF SelectPlace, LiveTurnTo
  <2>3. UNCHANGED <<mounted, visible>>
    BY <2>1 DEF SelectPlace
  <2>4. CASE mounted = TRUE
    <3>1. PageTurnsTo(p, NoReading)
      BY <2>1, <2>4 DEF SelectPlace
    <3> QED BY <1>1, <2>2, <2>3, <2>4, <3>1, PageTurns
  <2>5. CASE mounted = FALSE
    BY <1>1, <2>1, <2>2, <2>3, <2>5, PageEnds DEF SelectPlace
  <2> QED BY <1>1, <2>4, <2>5
<1> QED BY <1>2, <1>3, <1>4

LEMMA RequestsKeep ==
    ASSUME HistoryInv, Poll \/ VisibilityChanges \/ TryAgain
    PROVE  HistoryInv'
<1>1. {mounted, visible} \subseteq BOOLEAN
  BY DEF HistoryInv, TypeOK
<1>2. CASE Poll
  BY <1>1, <1>2, RequestFacts DEF Poll, CanRefresh
<1>3. CASE VisibilityChanges /\ CanRefresh /\ visible'
  BY <1>1, <1>3, RequestFacts DEF VisibilityChanges, CanRefresh
<1>4. CASE VisibilityChanges /\ ~(CanRefresh /\ visible')
  <2>1. UNCHANGED <<place, server, live, mounted, readings, newest, taken, sync, call>>
        /\ visible' \in BOOLEAN
    BY <1>1, <1>4 DEF VisibilityChanges
  <2> QED BY <2>1 DEF HistoryInv, TypeOK, SentInv, LiveTypeOK, ShownInv, AskedInv, SaidInv,
                      Here, server, live, sync
<1>5. CASE TryAgain
  <2>1. mounted /\ place # NoPlace
    BY <1>5 DEF TryAgain, HistoryInv, SaidInv
  <2> QED BY <1>1, <1>5, <2>1, RequestFacts DEF TryAgain
<1> QED BY <1>2, <1>3, <1>4, <1>5

LEMMA LookedKeeps ==
    ASSUME HistoryInv, Looked
    PROVE  HistoryInv'
<1>1. /\ call # NoCall /\ call' = [call EXCEPT !.seen = stored[call.of]]
      /\ UNCHANGED <<place, server, live, mounted, visible, readings, newest, taken, sync>>
  BY DEF Looked
<1>2. call \in Calls /\ mounted /\ place # NoPlace /\ call.of = place /\ place \in Places
  BY <1>1 DEF HistoryInv, TypeOK, AskedInv, Calls
<1>3. stored[place] \in 0..MaxReading /\ MaxReading \in Nat
  BY <1>2, LiveReadingsAssumption DEF HistoryInv, TypeOK, LiveTypeOK
<1>4. stored[place] \in 0..Unseen /\ stored[place] =< stored[place]
  BY <1>3 DEF Unseen
<1>5. call' \in Calls /\ call'.of = place /\ call'.seen = stored[place]
  BY <1>1, <1>2, <1>4 DEF Calls
<1>6. AskedInv'
  BY <1>1, <1>2, <1>4, <1>5 DEF AskedInv, Here, server
<1> QED BY <1>1, <1>5, <1>6
        DEF HistoryInv, TypeOK, SentInv, LiveTypeOK, ShownInv, SaidInv, Here, server, live, sync

\* What an answer or a reading brings is stored, so what is shown stays so.
LEMMA ShowKeeps ==
    ASSUME HistoryInv, NEW S \in SUBSET (1..Here), Show(LastOf(S)), mounted, place # NoPlace,
           UNCHANGED <<place, server, live, mounted, visible>>,
           call' \in {call, NoCall}, taken' = taken \/ taken' = latest, InStep
    PROVE  HistoryInv'
<1>1. HereBound /\ Here \in Nat
  BY HereFacts, LiveReadingsAssumption DEF HistoryInv, HereBound
<1>2. /\ readings' \in SUBSET S /\ Cardinality(readings') =< HistoryLimit
      /\ newest' = Newest(readings') /\ newest' \in 0..Here
  BY <1>1, ShowFacts
<1>3. Here' = Here
  BY DEF Here, server
<1>4. readings' \subseteq 1..Here /\ readings' \subseteq Readings
  BY <1>1, <1>2 DEF HereBound
<1>5. newest' \in Readings \cup {NoReading}
  BY <1>1, <1>2 DEF HereBound, NoReading
<1>6. ShownInv'
  BY <1>2, <1>3, <1>4 DEF ShownInv
<1>7. AskedInv'
  BY <1>3 DEF HistoryInv, AskedInv
<1>8. SaidInv' /\ syncStatus' = "connected" /\ failures' = 0 /\ unanswered' = 0
  BY DEF InStep, HistoryInv, SaidInv, live
<1>9. taken' \in Readings \cup {NoReading} /\ call' \in Calls \cup {NoCall}
  BY DEF HistoryInv, TypeOK, LiveTypeOK
<1> QED BY <1>4, <1>5, <1>6, <1>7, <1>8, <1>9
        DEF HistoryInv, TypeOK, SentInv, LiveTypeOK, server, live, Patience

LEMMA AnsweredFacts ==
    ASSUME HistoryInv, Answered
    PROVE  /\ mounted /\ place # NoPlace /\ Answer = LastOf({n \in 1..call.seen : n >= call.after})
           /\ {n \in 1..call.seen : n >= call.after} \in SUBSET (1..Here)
           /\ Answer \in SUBSET (1..Here) /\ readings \in SUBSET (1..Here)
<1>1. call # NoCall /\ call.seen # Unseen
  BY DEF Answered
<1>2. mounted /\ place # NoPlace /\ call.seen =< Here /\ readings \in SUBSET (1..Here)
  BY <1>1 DEF HistoryInv, AskedInv, ShownInv
<1>3. Here \in Nat /\ call.seen \in Int
  <2>1. call \in Calls
    BY <1>1 DEF HistoryInv, TypeOK
  <2>2. call.seen \in 0..Unseen
    BY <2>1 DEF Calls
  <2> QED BY <2>2, HereFacts, LiveReadingsAssumption DEF HistoryInv, HereBound
<1> DEFINE A == {n \in 1..call.seen : n >= call.after}
<1>4. A \in SUBSET (1..Here)
  <2> DEFINE s == call.seen  h == Here
  <2>1. s \in Int /\ h \in Int /\ s =< h
    BY <1>2, <1>3
  <2> HIDE DEF s, h
  <2>2. 1..s \in SUBSET (1..h)
    BY <2>1
  <2> QED BY <2>2 DEF s, h
<1>5. LastOf(A) \in SUBSET A
  BY <1>3, <1>4, LastOfFacts
<1> QED BY <1>2, <1>4, <1>5 DEF Answer

LEMMA AnswersKeep ==
    ASSUME HistoryInv, Answered
    PROVE  HistoryInv'
<1>1. /\ UNCHANGED <<place, server, live, mounted, visible, taken>> /\ InStep /\ call' = NoCall
      /\ IF call.incremental THEN MergeReadings(Answer) ELSE Show(Answer)
  BY DEF Answered
<1>2. CASE call.incremental
  BY <1>1, <1>2, AnsweredFacts, ShowKeeps DEF MergeReadings
<1>3. CASE ~call.incremental
  BY <1>1, <1>3, AnsweredFacts, ShowKeeps
<1> QED BY <1>2, <1>3

LEMMA FailuresKeep ==
    ASSUME HistoryInv, RequestFails
    PROVE  HistoryInv'
<1>1. /\ call # NoCall /\ call' = NoCall
      /\ failures' = UpTo(failures) /\ unanswered' = UpTo(unanswered)
      /\ syncStatus' \in {"retrying", "error"}
      /\ UNCHANGED <<place, server, live, mounted, visible, readings, newest, taken>>
  BY DEF RequestFails
<1>2. mounted /\ place # NoPlace
  BY <1>1 DEF HistoryInv, AskedInv
<1>3. \A n \in 0..Patience : UpTo(n) \in 0..Patience
  BY DEF UpTo, Patience
<1>4. failures' \in 0..Patience /\ unanswered' \in 0..Patience
  BY <1>1, <1>3 DEF HistoryInv, TypeOK
<1> QED BY <1>1, <1>2, <1>4
        DEF HistoryInv, TypeOK, SentInv, LiveTypeOK, ShownInv, AskedInv, SaidInv, Here, server, live

LEMMA TakenFacts ==
    ASSUME HistoryInv, TakeLatest
    PROVE  /\ mounted /\ place # NoPlace /\ readings \in SUBSET (1..Here)
           /\ readings \cup {latest} \in SUBSET (1..Here)
<1>1. latest # NoReading
  BY DEF TakeLatest, HistoryInv, SaidInv
<1>2. HereBound /\ place # NoPlace
  BY <1>1, HereFacts DEF HistoryInv, SentInv
<1>3. latest \in 1..Here
  BY <1>1, <1>2, LiveReadingsAssumption DEF HereBound, NoReading
<1> QED BY <1>2, <1>3 DEF TakeLatest, HistoryInv, ShownInv

LEMMA HistoryInvHolds == Spec => []HistoryInv
<1>1. Init => HistoryInv
  <2> SUFFICES ASSUME Init PROVE HistoryInv
    OBVIOUS
  <2>1. SentInv
    <3>1. DOMAIN wire = {} /\ wire \in Seq(Nat) /\ MaxReading \in Nat
      BY LiveReadingsAssumption DEF Init, LiveInit
    <3> QED BY <3>1 DEF Init, LiveInit, SentInv, LiveTypeOK, NoReading
  <2>2. Newest({}) = NoReading /\ Cardinality({}) = 0 /\ HistoryLimit \in Nat
    BY FS_EmptySet, HistoryAssumption DEF Newest
  <2>3. ShownInv
    BY <2>2 DEF Init, ShownInv
  <2>4. TypeOK
    <3>1. LiveTypeOK /\ {mounted, visible} \subseteq BOOLEAN
      BY <2>1 DEF Init, SentInv
    <3>2. readings \subseteq Readings /\ {newest, taken} \subseteq Readings \cup {NoReading}
      BY DEF Init
    <3>3. /\ call \in Calls \cup {NoCall} /\ syncStatus = "idle"
          /\ failures = 0 /\ unanswered = 0
      BY DEF Init
    <3> QED BY <3>1, <3>2, <3>3 DEF TypeOK, Patience
  <2>5. AskedInv /\ SaidInv
    BY DEF Init, LiveInit, AskedInv, SaidInv
  <2> QED BY <2>1, <2>3, <2>4, <2>5 DEF HistoryInv
<1>2. HistoryInv /\ [Next]_vars => HistoryInv'
  <2> SUFFICES ASSUME HistoryInv, [Next]_vars PROVE HistoryInv'
    OBVIOUS
  <2>1. CASE (ServerStep \/ SocketStep) /\ UNCHANGED page
    BY <2>1, ArrivalsKeep
  <2>2. CASE Enter \/ Leave \/ \E p \in Places \cup {NoPlace} : SelectPlace(p)
    BY <2>2, TurnsKeep
  <2>3. CASE Poll \/ VisibilityChanges \/ TryAgain
    BY <2>3, RequestsKeep
  <2>4. CASE Looked
    BY <2>4, LookedKeeps
  <2>5. CASE Answered
    BY <2>5, AnswersKeep
  <2>6. CASE RequestFails
    BY <2>6, FailuresKeep
  <2>7. CASE TakeLatest
    BY <2>7, TakenFacts, ShowKeeps DEF TakeLatest, MergeReadings
  <2>8. CASE UNCHANGED vars
    BY <2>8 DEF vars, page, server, live, sync, HistoryInv, TypeOK, SentInv, LiveTypeOK,
                ShownInv, AskedInv, SaidInv, Here
  <2> QED BY <2>1, <2>2, <2>3, <2>4, <2>5, <2>6, <2>7, <2>8 DEF Next
<1> QED BY <1>1, <1>2, PTL DEF Spec

(* The state of page and socket is what it is meant to be, for any places  *)
(* and any number of readings (SensorReadings.jsx,                         *)
(* SensorRealtimeContext.jsx).                                             *)
THEOREM HistoryTypes == Spec => []TypeOK
<1>1. HistoryInv => TypeOK
  BY DEF HistoryInv
<1> QED BY <1>1, HistoryInvHolds, PTL

\* What is shown is stored, of the place selected, no more than HISTORY_LIMIT
\* of it, and newestMeasuredAtRef, from which the next request asks on, is the
\* newest of it; a request under way is the open page's, of the same place
\* (mergeIntoState() and loadData(), SensorReadings.jsx:106-225).
ShowsWhatIsStored ==
    /\ \A n \in readings : place \in Places /\ 1 =< n /\ n =< stored[place]
    /\ Cardinality(readings) =< HistoryLimit /\ newest = Newest(readings)
    /\ call # NoCall => mounted /\ call.of = place

(* However places are switched, requests aborted and answered late, and    *)
(* readings stored and lost on the way, the page shows nothing that is not *)
(* stored of the place selected (SensorReadings.jsx:106-225, 340-410).     *)
THEOREM OnlyTheStored == Spec => []ShowsWhatIsStored
<1>1. HistoryInv => ShowsWhatIsStored
  <2> SUFFICES ASSUME HistoryInv PROVE ShowsWhatIsStored
    OBVIOUS
  <2>1. \A n \in readings : place \in Places /\ 1 =< n /\ n =< stored[place]
    BY DEF HistoryInv, ShownInv, TypeOK, LiveTypeOK, Here
  <2> QED BY <2>1 DEF HistoryInv, ShownInv, AskedInv, ShowsWhatIsStored
<1> QED BY <1>1, HistoryInvHolds, PTL

\* What is shown of a place goes back in no other way than by the answer to
\* a request for everything (loadData() with replace, SensorReadings.jsx:175).
BackOnlyByReplacing ==
    mounted /\ mounted' /\ place' = place /\ ~(Answered /\ ~call.incremental)
        => newest' >= newest

(* The newest reading shown is never replaced by an older one while the    *)
(* page stays open on a place, but by the answer to its first request      *)
(* (SensorReadings.jsx:106-183): readings over the socket and the cycle's  *)
(* answers, in any order, only add to it.                                  *)
THEOREM NewestGoesOn == Spec => [][BackOnlyByReplacing]_vars
<1>1. HistoryInv /\ [Next]_vars => [BackOnlyByReplacing]_vars
  <2> SUFFICES ASSUME HistoryInv, Next, mounted, mounted', place' = place,
                      ~(Answered /\ ~call.incremental)
               PROVE  newest' >= newest
    BY DEF BackOnlyByReplacing
  <2>1. newest = Newest(readings) /\ readings \in SUBSET (1..Here) /\ Here \in Nat
        /\ newest \in Nat
    <3>1. HereBound
      BY HereFacts DEF HistoryInv
    <3> QED BY <3>1, LiveReadingsAssumption
            DEF HereBound, HistoryInv, ShownInv, TypeOK, Readings, NoReading
  <2>2. ASSUME NEW S \in SUBSET (1..Here), MergeReadings(S) PROVE newest' >= newest
    <3>1. readings \cup S \in SUBSET (1..Here) /\ readings \in SUBSET (readings \cup S)
      BY <2>1
    <3>2. newest' = Newest(readings \cup S) /\ newest' \in 0..Here
      BY <2>1, <2>2, <3>1, ShowFacts DEF MergeReadings
    <3>3. newest =< newest'
      BY <2>1, <3>1, <3>2, MergedFacts
    <3> QED BY <2>1, <3>2, <3>3
  <2>3. CASE (ServerStep \/ SocketStep) /\ UNCHANGED page
    BY <2>1, <2>3 DEF page
  <2>4. CASE \E p \in Places \cup {NoPlace} : SelectPlace(p)
    BY <2>4 DEF SelectPlace, LiveTurnTo
  <2>5. CASE Enter \/ Leave
    BY <2>5 DEF Enter, Leave, HistoryInv, TypeOK
  <2>6. CASE Poll \/ VisibilityChanges \/ TryAgain \/ Looked \/ RequestFails
    <3>1. newest' = newest
      BY <2>6 DEF Poll, VisibilityChanges, TryAgain, Looked, RequestFails
    <3> QED BY <2>1, <3>1
  <2>7. CASE Answered
    BY <2>2, <2>7, AnsweredFacts DEF Answered
  <2>8. CASE TakeLatest
    BY <2>2, <2>8, TakenFacts DEF TakeLatest
  <2> QED BY <2>3, <2>4, <2>5, <2>6, <2>7, <2>8 DEF Next
<1> QED BY <1>1, HistoryInvHolds, PTL DEF Spec
=============================================================================
