--------------------------- MODULE AirconFormProofs ---------------------------
(***************************************************************************)
(* What the form of a place keeps, for any terms, queries and addresses    *)
(* and any number of requests under way.  An answer is obeyed when its     *)
(* request still counts; the two invariants say what counting tells of the *)
(* page: a listing that counts is for the term in the field, a position    *)
(* that counts was asked for in the tab on the screen.                     *)
(***************************************************************************)
EXTENDS AirconForm, TLAPS

\* Nothing that counts is under way while the timer runs, and what counts is
\* for the list and the term on the screen.
ListingInv ==
    /\ armed => view = "list" /\ \A r \in asked : ~r.current
    /\ \A r \in asked : r.current => view = "list" /\ r.term = term

\* At most one position counts, and its tab is the one on the screen.
PositionInv ==
    /\ \A r \in locates : r.current =>
         /\ mode = "current"
         /\ r.stage = "reverse" => coords = "device"
    /\ \A r, s \in locates : r.current /\ s.current => r = s

FormInv == TypeOK /\ ListingInv /\ ListMatchesTerm /\ PositionInv /\ CoordinatesMatchTab

PickerStep == Choose \/ ListingStep \/ Leave \/ UNCHANGED pickerVars

----------------------------------------------------------------------------
(* A request that is ignored is one of its kind and does not count.        *)
LEMMA IgnoredListing ==
    ASSUME NEW r \in Listing
    PROVE  Ignored(r) \in Listing /\ ~Ignored(r).current
  BY DEF Ignored, Listing

LEMMA IgnoredSearch ==
    ASSUME NEW r \in SearchRequest
    PROVE  Ignored(r) \in SearchRequest
  BY DEF Ignored, SearchRequest

LEMMA IgnoredPosition ==
    ASSUME NEW r \in PositionRequest
    PROVE  Ignored(r) \in PositionRequest /\ ~Ignored(r).current
  BY DEF Ignored, PositionRequest

LEMMA SupersededDoNotCount ==
    ASSUME asked \subseteq Listing
    PROVE  Superseded \subseteq Listing /\ \A r \in Superseded : ~r.current
  BY IgnoredListing DEF Superseded

LEMMA AgedPositions ==
    ASSUME locates \subseteq PositionRequest
    PROVE  Aged(locates) \subseteq PositionRequest /\ \A r \in Aged(locates) : ~r.current
  BY IgnoredPosition DEF Aged

LEMMA AgedSearches ==
    ASSUME searches \subseteq SearchRequest
    PROVE  Aged(searches) \subseteq SearchRequest
  BY IgnoredSearch DEF Aged

----------------------------------------------------------------------------
(* Which parts of the page a step of Next touches *)

LEMMA PickerOfNext ==
    ASSUME [Next]_vars
    PROVE  PickerStep
<1>1. CASE (Choose \/ ListingStep) /\ UNCHANGED formVars
  BY <1>1 DEF PickerStep
<1>2. CASE view \in {"closed", "title"} /\ (Locate \/ HandleComplete)
  BY <1>2 DEF PickerStep, Locate, HandleComplete, TypeAddress, EscapeAddress,
     SelectAddressResult, ClearSelectedLocation, SwitchLocationMode, UseCurrentLocation
<1>3. CASE LocateAnswers \/ SaveFails
  BY <1>3 DEF PickerStep, LocateAnswers, SaveFails, SearchTimer, Searched, Located, LocateEnds
<1>4. CASE Leave
  BY <1>4 DEF PickerStep
<1>5. CASE UNCHANGED vars
  BY <1>5 DEF PickerStep, vars
<1> QED BY <1>1, <1>2, <1>3, <1>4, <1>5 DEF Next

FormStep == Locate \/ HandleComplete \/ LocateAnswers \/ SaveFails \/ Leave \/ UNCHANGED formVars

LEMMA FormOfNext ==
    ASSUME [Next]_vars
    PROVE  FormStep
  BY DEF Next, vars, FormStep


----------------------------------------------------------------------------
(* The listing *)

ListingOk == PickerTypeOK /\ ListingInv /\ ListMatchesTerm

\* Every change of the window, the view or the term makes what is under way
\* stop counting and starts the timer anew.
LEMMA TurnKeepsListing ==
    ASSUME ListingOk, NEW v \in Views, NEW t \in Terms, Turn(v, t), slot' \in Sources
    PROVE  ListingOk'
<1> USE DEF ListingOk, PickerTypeOK
<1>1. asked' \subseteq Listing /\ \A r \in asked' : ~r.current
  BY SupersededDoNotCount DEF Turn
<1>2. PickerTypeOK'
  BY <1>1 DEF Turn
<1>3. ListingInv'
  BY <1>1 DEF Turn, ListingInv
<1>4. ListMatchesTerm'
  BY DEF Turn, ListMatchesTerm
<1> QED BY <1>2, <1>3, <1>4

LEMMA ChoosingKeepsListing ==
    ASSUME ListingOk, Choose
    PROVE  ListingOk'
<1> USE PickerAssumption DEF ListingOk, PickerTypeOK, Views, Sources
<1>1. CASE OpenSelector
  BY <1>1, TurnKeepsListing DEF OpenSelector
<1>2. CASE CloseSelector
  BY <1>2, TurnKeepsListing DEF CloseSelector
<1>3. CASE \E t \in Terms : Search(t)
  BY <1>3, TurnKeepsListing DEF Search
<1>4. CASE \E v \in Views : GoTo(v)
  BY <1>4, TurnKeepsListing DEF GoTo
<1>5. CASE SelectAircon
  BY <1>5, TurnKeepsListing DEF SelectAircon
<1>6. CASE SaveManualAircon
  BY <1>6, TurnKeepsListing DEF SaveManualAircon
<1>7. CASE SaveEstimatedAircon
  BY <1>7, TurnKeepsListing DEF SaveEstimatedAircon
<1>8. CASE StartEditingTitle
  BY <1>8, TurnKeepsListing DEF StartEditingTitle
<1>9. CASE EndEditingTitle
  BY <1>9, TurnKeepsListing DEF EndEditingTitle
<1> QED BY <1>1, <1>2, <1>3, <1>4, <1>5, <1>6, <1>7, <1>8, <1>9 DEF Choose

LEMMA AskingKeepsListing ==
    ASSUME ListingOk, ListTimer
    PROVE  ListingOk'
<1> USE DEF ListingOk, PickerTypeOK, ListTimer
<1>1. [term |-> term, current |-> TRUE] \in Listing
  BY DEF Listing
<1>2. PickerTypeOK'
  BY <1>1
<1>3. ListingInv'
  BY DEF ListingInv
<1>4. ListMatchesTerm'
  <2>1. [term |-> term, current |-> TRUE] \in asked'
    OBVIOUS
  <2> QED BY <2>1 DEF ListMatchesTerm
<1> QED BY <1>2, <1>3, <1>4

\* The answer that counts is the only one that does.
LEMMA AnswerKeepsListing ==
    ASSUME ListingOk, NEW r \in asked, NEW s \in BOOLEAN, Listed(r, s)
    PROVE  ListingOk'
<1> USE DEF ListingOk, PickerTypeOK, Listed
<1>1. PickerTypeOK'
  BY DEF Listing
<1>2. ListingInv'
  BY DEF ListingInv
<1>3. ListMatchesTerm'
  <2>1. CASE r.current
    BY <2>1 DEF ListMatchesTerm, ListingInv
  <2>2. CASE ~r.current
    BY <2>2 DEF ListMatchesTerm
  <2> QED BY <2>1, <2>2
<1> QED BY <1>1, <1>2, <1>3

LEMMA PickerStepKeepsListing ==
    ASSUME ListingOk, PickerStep
    PROVE  ListingOk'
<1>1. CASE Choose
  BY <1>1, ChoosingKeepsListing
<1>2. CASE ListingStep
  BY <1>2, AskingKeepsListing, AnswerKeepsListing DEF ListingStep
<1>3. CASE Leave
  BY <1>3, PickerAssumption DEF Leave, Unmounted, ListingOk, PickerTypeOK, Views, Sources,
     ListingInv, ListMatchesTerm
<1>4. CASE UNCHANGED pickerVars
  BY <1>4 DEF pickerVars, picker, ListingOk, PickerTypeOK, ListingInv, ListMatchesTerm
<1> QED BY <1>1, <1>2, <1>3, <1>4 DEF PickerStep

----------------------------------------------------------------------------
(* The place *)

PlaceOk == FormTypeOK /\ PositionInv /\ CoordinatesMatchTab

\* Typing and searching touch neither the coordinates nor the positions.
Placed == <<mode, coords, locates, locating, label>>

LEMMA PlacedUnchanged ==
    ASSUME PlaceOk, UNCHANGED Placed, FormTypeOK'
    PROVE  PlaceOk'
  BY DEF PlaceOk, Placed, PositionInv, CoordinatesMatchTab

LEMMA SearchForTypes ==
    ASSUME FormTypeOK, NEW q \in Queries, NEW skipped \in BOOLEAN, SearchFor(q, skipped)
    PROVE  /\ query' \in Queries /\ results' \in Queries \cup {NotFound}
           /\ searches' \subseteq SearchRequest
           /\ due' \in BOOLEAN /\ searching' \in BOOLEAN /\ skip' \in BOOLEAN
<1>1. CASE q = query
  BY <1>1 DEF SearchFor, FormTypeOK
<1>2. CASE q # query
  <2>1. searches' \subseteq SearchRequest
    BY <1>2, AgedSearches DEF SearchFor, FormTypeOK
  <2> QED BY <1>2, <2>1 DEF SearchFor, FormTypeOK
<1> QED BY <1>1, <1>2

LEMMA TypingKeepsPlace ==
    ASSUME PlaceOk, NEW q \in Queries, TypeAddress(q) \/ EscapeAddress
    PROVE  PlaceOk'
<1>1. UNCHANGED Placed
  BY DEF TypeAddress, EscapeAddress, Placed, position
<1>2. FormTypeOK'
  <2>1. CASE TypeAddress(q)
    BY <2>1, SearchForTypes DEF PlaceOk, TypeAddress, FormTypeOK, position
  <2>2. CASE EscapeAddress
    BY <2>2, SearchForTypes, FormAssumption DEF PlaceOk, EscapeAddress, FormTypeOK, position
  <2> QED BY <2>1, <2>2
<1> QED BY <1>1, <1>2, PlacedUnchanged

\* With the address tab on the screen no position counts.
LEMMA ChoosingKeepsPlace ==
    ASSUME PlaceOk, NEW a \in Addresses, SelectAddressResult(a)
    PROVE  PlaceOk'
<1>1. FormTypeOK'
  <2>1. CASE a = query
    BY <2>1 DEF PlaceOk, SelectAddressResult, FormTypeOK
  <2>2. CASE a # query
    BY <2>2, SearchForTypes, FormAssumption DEF PlaceOk, SelectAddressResult, FormTypeOK
  <2> QED BY <2>1, <2>2
<1>2. PositionInv' /\ CoordinatesMatchTab'
  BY DEF PlaceOk, SelectAddressResult, PositionInv, CoordinatesMatchTab
<1> QED BY <1>1, <1>2 DEF PlaceOk

LEMMA ClearingKeepsPlace ==
    ASSUME PlaceOk, ClearLocation, mode' \in {"address", "current"}, saving' \in BOOLEAN
    PROVE  PlaceOk'
<1>1. locates' \subseteq PositionRequest /\ \A r \in locates' : ~r.current
  BY AgedPositions DEF ClearLocation, Cancelled, PlaceOk, FormTypeOK
<1>2. searches' \subseteq SearchRequest
  BY AgedSearches DEF ClearLocation, PlaceOk, FormTypeOK
<1>3. FormTypeOK'
  BY <1>1, <1>2, FormAssumption DEF ClearLocation, PlaceOk, FormTypeOK
<1>4. PositionInv' /\ CoordinatesMatchTab'
  BY <1>1 DEF ClearLocation, PositionInv, CoordinatesMatchTab
<1> QED BY <1>3, <1>4 DEF PlaceOk

LEMMA LocatingKeepsPlace ==
    ASSUME PlaceOk, UseCurrentLocation
    PROVE  PlaceOk'
<1> DEFINE new == [stage |-> "position", current |-> TRUE]
<1>1. Aged(locates) \subseteq PositionRequest /\ \A r \in Aged(locates) : ~r.current
  BY AgedPositions DEF PlaceOk, FormTypeOK
<1>2. new \in PositionRequest /\ new.current /\ new.stage # "reverse"
  BY DEF PositionRequest
<1>3. locates' = Aged(locates) \cup {new}
  BY DEF UseCurrentLocation
<1>4. FormTypeOK'
  BY <1>1, <1>2, <1>3 DEF UseCurrentLocation, PlaceOk, FormTypeOK, search
<1>5. PositionInv'
  BY <1>1, <1>2, <1>3 DEF UseCurrentLocation, PositionInv
<1>6. CoordinatesMatchTab'
  BY <1>1, <1>2, <1>3 DEF UseCurrentLocation, PlaceOk, CoordinatesMatchTab, FormTypeOK
<1> QED BY <1>4, <1>5, <1>6 DEF PlaceOk

\* A position that counts is taken over, and goes on counting until it is named.
LEMMA PositionKeepsPlace ==
    ASSUME PlaceOk, NEW r \in locates, Located(r)
    PROVE  PlaceOk'
<1> DEFINE named == [r EXCEPT !.stage = "reverse"]
<1>1. r \in PositionRequest
  BY DEF PlaceOk, FormTypeOK
<1>2. named \in PositionRequest /\ named.stage = "reverse" /\ (named.current <=> r.current)
  BY <1>1 DEF PositionRequest
<1>3. CASE r.current
  <2>1. /\ locates' = (locates \ {r}) \cup {named} /\ coords' = "device"
        /\ UNCHANGED <<mode, search, locating, label, saving>>
    BY <1>3 DEF Located
  <2>2. \A s \in locates \ {r} : ~s.current
    BY <1>3 DEF PlaceOk, PositionInv
  <2>3. mode = "current" /\ locating
    BY <1>3 DEF PlaceOk, PositionInv, CoordinatesMatchTab, FormTypeOK
  <2>4. FormTypeOK'
    BY <2>1, <1>2 DEF PlaceOk, FormTypeOK, search
  <2>5. PositionInv'
    BY <2>1, <2>2, <2>3, <1>2 DEF PositionInv
  <2>6. CoordinatesMatchTab'
    BY <2>1, <2>3, <1>2, <1>3 DEF CoordinatesMatchTab
  <2> QED BY <2>4, <2>5, <2>6 DEF PlaceOk
<1>4. CASE ~r.current
  <2>1. locates' = locates \ {r} /\ UNCHANGED <<mode, search, coords, locating, label, saving>>
    BY <1>4 DEF Located
  <2>2. FormTypeOK'
    BY <2>1 DEF PlaceOk, FormTypeOK, search
  <2>3. PositionInv' /\ CoordinatesMatchTab'
    BY <2>1, <1>4 DEF PlaceOk, PositionInv, CoordinatesMatchTab
  <2> QED BY <2>2, <2>3 DEF PlaceOk
<1> QED BY <1>3, <1>4

LEMMA LastAnswerKeepsPlace ==
    ASSUME PlaceOk, NEW r \in locates, LocateEnds(r)
    PROVE  PlaceOk'
<1>1. r \in PositionRequest /\ r.current \in BOOLEAN
  BY DEF PlaceOk, FormTypeOK, PositionRequest
<1>2. /\ locates' = locates \ {r} /\ locating' = (locating /\ ~r.current)
      /\ label' = (label \/ (r.current /\ r.stage = "reverse"))
      /\ UNCHANGED <<mode, search, coords, saving>>
  BY DEF LocateEnds
<1>3. FormTypeOK'
  BY <1>1, <1>2 DEF PlaceOk, FormTypeOK, search
<1>4. PositionInv'
  BY <1>2 DEF PlaceOk, PositionInv
<1>5. CoordinatesMatchTab'
  BY <1>1, <1>2 DEF PlaceOk, PositionInv, CoordinatesMatchTab, FormTypeOK
<1> QED BY <1>3, <1>4, <1>5 DEF PlaceOk

LEMMA FormStepKeepsPlace ==
    ASSUME PlaceOk, FormStep
    PROVE  PlaceOk'
<1>1. CASE Locate
  <2>1. CASE ClearSelectedLocation \/ \E m \in {"address", "current"} : SwitchLocationMode(m)
    BY <2>1, ClearingKeepsPlace DEF ClearSelectedLocation, SwitchLocationMode, PlaceOk, FormTypeOK
  <2> QED BY <1>1, <2>1, TypingKeepsPlace, ChoosingKeepsPlace, LocatingKeepsPlace,
             FormAssumption DEF Locate
<1>2. CASE HandleComplete \/ SaveFails
  <2>1. UNCHANGED <<mode, search, coords, position>> /\ saving' \in BOOLEAN
    BY <1>2 DEF HandleComplete, SaveFails
  <2>2. FormTypeOK' /\ UNCHANGED Placed
    BY <2>1 DEF search, position, Placed, PlaceOk, FormTypeOK
  <2> QED BY <2>2, PlacedUnchanged
<1>3. CASE SearchTimer
  <2>1. [query |-> query, current |-> TRUE] \in SearchRequest
    BY DEF PlaceOk, FormTypeOK, SearchRequest
  <2>2. FormTypeOK' /\ UNCHANGED Placed
    BY <1>3, <2>1 DEF SearchTimer, position, Placed, PlaceOk, FormTypeOK
  <2> QED BY <2>2, PlacedUnchanged
<1>4. CASE \E r \in searches, found \in BOOLEAN : Searched(r, found)
  <2>1. PICK r \in searches, found \in BOOLEAN : Searched(r, found)
    BY <1>4
  <2>2. r.query \in Queries
    BY DEF PlaceOk, FormTypeOK, SearchRequest
  <2>3. FormTypeOK' /\ UNCHANGED Placed
    BY <2>1, <2>2 DEF Searched, position, Placed, PlaceOk, FormTypeOK
  <2> QED BY <2>3, PlacedUnchanged
<1>5. CASE \E r \in locates : Located(r) \/ LocateEnds(r)
  BY <1>5, PositionKeepsPlace, LastAnswerKeepsPlace
<1>6. CASE Leave
  BY <1>6, FormAssumption DEF Leave, PlaceOk, FormTypeOK, PositionInv, CoordinatesMatchTab
<1>7. CASE UNCHANGED formVars
  BY <1>7, PlacedUnchanged DEF formVars, search, position, Placed, PlaceOk, FormTypeOK
<1> QED BY <1>1, <1>2, <1>3, <1>4, <1>5, <1>6, <1>7 DEF FormStep, LocateAnswers

----------------------------------------------------------------------------
LEMMA FormInvHolds == Spec => []FormInv
<1>1. Init => FormInv
  <2> SUFFICES ASSUME Init PROVE FormInv
    OBVIOUS
  <2>1. PickerTypeOK /\ FormTypeOK
    BY PickerAssumption, FormAssumption DEF Init, PickerInit, Fresh, PickerTypeOK, FormTypeOK,
       Views, Sources
  <2>2. ListingInv /\ ListMatchesTerm /\ PositionInv /\ CoordinatesMatchTab
    BY DEF Init, PickerInit, Fresh, ListingInv, ListMatchesTerm, PositionInv, CoordinatesMatchTab
  <2> QED BY <2>1, <2>2 DEF FormInv, TypeOK
<1>2. FormInv /\ [Next]_vars => FormInv'
  <2> SUFFICES ASSUME FormInv, [Next]_vars PROVE FormInv'
    OBVIOUS
  <2>1. ListingOk'
    BY PickerOfNext, PickerStepKeepsListing DEF FormInv, TypeOK, ListingOk
  <2>2. PlaceOk'
    BY FormOfNext, FormStepKeepsPlace DEF FormInv, TypeOK, PlaceOk
  <2> QED BY <2>1, <2>2 DEF FormInv, TypeOK, ListingOk, PlaceOk
<1> QED BY <1>1, <1>2, PTL DEF Spec

(* The form keeps its types (state of AirconPage.jsx:90-149).              *)
THEOREM FormTypes == Spec => []TypeOK
  BY FormInvHolds, PTL DEF FormInv

(* The list on the screen is the answer for the term on the screen, for    *)
(* any number of listings under way (AirconPage.jsx:207-240).              *)
THEOREM ListIsForTheTerm == Spec => []ListMatchesTerm
  BY FormInvHolds, PTL DEF FormInv

(* The coordinates are those of the tab on the screen, for any number of   *)
(* positions under way (AirconPage.jsx:313-396).                           *)
THEOREM CoordinatesAreOfTheTab == Spec => []CoordinatesMatchTab
  BY FormInvHolds, PTL DEF FormInv
=============================================================================
