------------------------------ MODULE AirconForm ------------------------------
(***************************************************************************)
(* The form of a new place (AirconPage.jsx): the window of AirconPicker,   *)
(* where the place is - an address that is searched for 300 ms after the   *)
(* last change, or the position of the device, which is then named by a    *)
(* reverse geocoding - and saving it all.                                  *)
(***************************************************************************)
EXTENDS AirconPicker

CONSTANTS
    Queries,       \* what may stand in the address field
    Addresses,     \* the addresses the geocoder lists: choosing one types it
    NoQuery        \* the empty field

ASSUME FormAssumption ==
    NoQuery \in Queries /\ Addresses \subseteq Queries \ {NoQuery}

VARIABLES
    mode,          \* locationMode
    query,         \* addressQuery
    due,           \* the 300 ms timer of the search runs
    searches,      \* searches under way, and whether they still count
    results,       \* the query the addresses listed were searched for
    searching,     \* isAddressSearching
    skip,          \* skipNextAddressSearchRef
    coords,        \* placeLat, placeLon: whence they are
    locates,       \* positions asked for, and whether their id is the last
    locating,      \* isLocatingCurrentPosition
    label,         \* currentLocationLabel is shown
    saving         \* isSaving, the request under way with it

search   == <<query, due, searches, results, searching, skip>>
position == <<locates, locating, label>>
formVars == <<mode, search, coords, position, saving>>
vars     == <<pickerVars, formVars>>

NotFound == "nothing"
SearchRequest   == [query : Queries, current : BOOLEAN]
PositionRequest == [stage : {"position", "reverse"}, current : BOOLEAN]

FormTypeOK ==
    /\ mode \in {"address", "current"} /\ coords \in {"none", "address", "device"}
    /\ query \in Queries /\ results \in Queries \cup {NotFound}
    /\ searches \subseteq SearchRequest
    /\ locates \subseteq PositionRequest
    /\ {due, searching, skip, locating, label, saving} \subseteq BOOLEAN

TypeOK == PickerTypeOK /\ FormTypeOK

Fresh ==
    /\ mode = "address" /\ query = NoQuery /\ due = FALSE /\ searches = {}
    /\ results = NotFound /\ searching = FALSE /\ skip = FALSE
    /\ coords = "none" /\ locates = {} /\ locating = FALSE /\ label = FALSE
    /\ saving = FALSE

Init == PickerInit /\ Fresh

Aged(requests) == {Ignored(r) : r \in requests}

----------------------------------------------------------------------------
(* The address search *)

\* The effect of addressQuery: nothing unless the text has changed.  Chosen
\* addresses are not searched for again; neither of the early returns says
\* that a search it supersedes is over.
SearchFor(q, skipped) ==
    /\ query' = q
    /\ IF q = query THEN /\ skip' = skipped
                         /\ UNCHANGED <<due, searches, results, searching>>
       ELSE /\ skip' = FALSE /\ searches' = Aged(searches)
            /\ due' = (~skipped /\ q # NoQuery)
            /\ searching' = (searching \/ due')
            /\ results' = IF due' THEN results ELSE NotFound

TypeAddress(q) ==
    /\ mode = "address" /\ q # query
    /\ SearchFor(q, skip)
    /\ UNCHANGED <<pickerVars, mode, coords, position, saving>>

\* Escape empties the field and leaves what was chosen before.
EscapeAddress ==
    /\ mode = "address" /\ query # NoQuery
    /\ SearchFor(NoQuery, FALSE)
    /\ UNCHANGED <<pickerVars, mode, coords, position, saving>>

SelectAddressResult(a) ==
    /\ mode = "address" /\ results # NotFound
    /\ coords' = "address" /\ label' = FALSE
    /\ IF a = query
         THEN /\ skip' = TRUE /\ results' = NotFound
              /\ UNCHANGED <<query, due, searches, searching>>
         ELSE SearchFor(a, TRUE)
    /\ UNCHANGED <<pickerVars, mode, locates, locating, saving>>

SearchTimer ==
    /\ due /\ due' = FALSE
    /\ searches' = searches \cup {[query |-> query, current |-> TRUE]}
    /\ UNCHANGED <<pickerVars, mode, query, results, searching, skip, coords,
                   position, saving>>

Searched(r, found) ==
    /\ r \in searches
    /\ searches' = searches \ {r}
    /\ IF r.current
         THEN /\ results' = IF found THEN r.query ELSE NotFound
              /\ searching' = FALSE
         ELSE UNCHANGED <<results, searching>>
    /\ UNCHANGED <<pickerVars, mode, query, due, skip, coords, position, saving>>

----------------------------------------------------------------------------
(* The position of the device *)

\* clearSelectedLocation(): requests under way lose their id.
FaultyCancelled == locates
Cancelled == Aged(locates)

ClearLocation ==
    /\ coords' = "none" /\ label' = FALSE /\ locating' = FALSE
    /\ locates' = Cancelled
    /\ results' = NotFound
    /\ IF query = NoQuery THEN UNCHANGED <<query, due, searches, searching, skip>>
       ELSE /\ query' = NoQuery /\ due' = FALSE /\ searches' = Aged(searches)
            /\ skip' = FALSE /\ UNCHANGED searching

\* The link under the field; with the address tab it waits for the list to go.
ClearSelectedLocation ==
    /\ coords # "none" /\ (mode = "address" => results = NotFound)
    /\ ClearLocation
    /\ UNCHANGED <<pickerVars, mode, saving>>

SwitchLocationMode(m) ==
    /\ m # mode /\ mode' = m
    /\ ClearLocation
    /\ UNCHANGED <<pickerVars, saving>>

UseCurrentLocation ==
    /\ mode = "current" /\ ~label /\ ~locating
    /\ locating' = TRUE
    /\ locates' = Aged(locates) \cup {[stage |-> "position", current |-> TRUE]}
    /\ UNCHANGED <<pickerVars, mode, search, coords, label, saving>>

\* The position counts at once, its name comes later.
Located(r) ==
    /\ r \in locates /\ r.stage = "position"
    /\ IF r.current
         THEN /\ locates' = (locates \ {r}) \cup {[r EXCEPT !.stage = "reverse"]}
              /\ coords' = "device"
         ELSE locates' = locates \ {r} /\ UNCHANGED coords
    /\ UNCHANGED <<pickerVars, mode, search, locating, label, saving>>

\* Named or not, the position stands; without permission there is none.
LocateEnds(r) ==
    /\ r \in locates /\ locates' = locates \ {r}
    /\ locating' = (locating /\ ~r.current)
    /\ label' = (label \/ (r.current /\ r.stage = "reverse"))
    /\ UNCHANGED <<pickerVars, mode, search, coords, saving>>

----------------------------------------------------------------------------
(* Saving *)

\* What is typed is not frozen: the request carries what stands there now.
HandleComplete ==
    /\ ~saving /\ HasAircon
    /\ saving' = TRUE
    /\ UNCHANGED <<pickerVars, mode, search, coords, position>>

SaveFails ==
    /\ saving /\ saving' = FALSE
    /\ UNCHANGED <<pickerVars, mode, search, coords, position>>

\* Saved, or left: the button back and the close button always work.  The
\* caller may keep the slot, and may show the form again later.
Leave ==
    /\ view \in {"closed", "title"} \/ saving
    /\ Unmounted /\ slot' \in {slot, "none"}
    /\ mode' = "address" /\ query' = NoQuery /\ due' = FALSE /\ searches' = {}
    /\ results' = NotFound /\ searching' = FALSE /\ skip' = FALSE
    /\ coords' = "none" /\ locates' = {} /\ locating' = FALSE
    /\ label' = FALSE /\ saving' = FALSE

----------------------------------------------------------------------------
Locate ==
    \/ \E q \in Queries : TypeAddress(q)
    \/ EscapeAddress
    \/ \E a \in Addresses : SelectAddressResult(a)
    \/ ClearSelectedLocation
    \/ \E m \in {"address", "current"} : SwitchLocationMode(m)
    \/ UseCurrentLocation

LocateAnswers ==
    \/ SearchTimer
    \/ \E r \in searches, found \in BOOLEAN : Searched(r, found)
    \/ \E r \in locates : Located(r) \/ LocateEnds(r)

\* The window covers the form; what it waits for goes on beneath it.
Next ==
    \/ (Choose \/ ListingStep) /\ UNCHANGED formVars
    \/ view \in {"closed", "title"} /\ (Locate \/ HandleComplete)
    \/ LocateAnswers \/ SaveFails \/ Leave

Spec == Init /\ [][Next]_vars

----------------------------------------------------------------------------
(* Properties *)

\* The coordinates a place would be saved with are those of the tab on the
\* screen: no late position, and no late name of one, gets into the address
\* tab or survives being cancelled, and a name stands beside its position
\* (the request token of AirconPage.jsx:127-129, 314-341).
CoordinatesMatchTab ==
    /\ coords = "device" => mode = "current"
    /\ coords = "address" => mode = "address"
    /\ label => coords = "device"
    /\ locating <=> \E r \in locates : r.current
=============================================================================
