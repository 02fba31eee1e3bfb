---------------------------- MODULE AirconPicker ----------------------------
(***************************************************************************)
(* The window in which an air conditioner is chosen (AirconPage.jsx): a    *)
(* list that is asked for 250 ms after the last change of the search term, *)
(* a form for a model that is not listed, an estimate, and the title of    *)
(* the slot.  A place has one slot, which the caller keeps.                *)
(*                                                                         *)
(* A handler and the effect it triggers are one step: React runs the       *)
(* effects of a click before the next event.  What is typed is one of a    *)
(* few terms; form fields that only have to be valid are not kept.         *)
(***************************************************************************)
EXTENDS Naturals

CONSTANTS
    Terms,      \* what may stand in the search field
    Blank,      \* the empty search field
    Nothing     \* no list is shown

ASSUME PickerAssumption == Blank \in Terms /\ Nothing \notin Terms

VARIABLES
    view,       \* selectingIndex, editingIndex and selectorView in one
    term,       \* searchTerm
    armed,      \* the 250 ms timer runs
    asked,      \* listings under way: their term, and whether they still count
    loading,    \* isAirconLoading
    shown,      \* the term airconModels was listed for
    slot        \* powerSource of registeredAircons[0]

picker == <<view, term, armed, asked, loading, shown>>
pickerVars == <<picker, slot>>

Views   == {"closed", "title", "list", "missing", "manual", "estimate"}
Sources == {"none", "database", "user_input", "estimated"}
Listing == [term : Terms, current : BOOLEAN]

PickerTypeOK ==
    /\ view \in Views /\ term \in Terms /\ slot \in Sources
    /\ armed \in BOOLEAN /\ loading \in BOOLEAN
    /\ asked \subseteq Listing
    /\ shown \in Terms \cup {Nothing}

PickerInit ==
    /\ view = "closed" /\ term = Blank /\ armed = FALSE /\ asked = {}
    /\ loading = FALSE /\ shown = Nothing /\ slot = "none"

----------------------------------------------------------------------------
\* The cleanup of the listing effect: its timer is cleared and its answer,
\* should it still come, ignored.
Ignored(r) == [r EXCEPT !.current = FALSE]

FaultySuperseded == asked
Superseded == {Ignored(r) : r \in asked}

\* The effect runs when the window, the view or the term has changed.
Turn(v, t) ==
    /\ view' = v /\ term' = t
    /\ armed' = (v = "list")
    /\ asked' = Superseded
    /\ UNCHANGED <<loading, shown>>

OpenSelector ==
    /\ view \in {"closed", "title"}
    /\ Turn("list", Blank) /\ UNCHANGED slot

CloseSelector ==
    /\ view \notin {"closed", "title"}
    /\ Turn("closed", Blank) /\ UNCHANGED slot

Search(t) ==
    /\ view = "list" /\ t # term
    /\ Turn("list", t) /\ UNCHANGED slot

\* The buttons that lead from one view of the window to another.
Leads(v) ==
    CASE v = "list"    -> {"missing"}
      [] v = "missing" -> {"list", "manual", "estimate"}
      [] v \in {"manual", "estimate"} -> {"missing"}
      [] OTHER -> {}

GoTo(v) ==
    /\ v \in Leads(view)
    /\ Turn(v, term) /\ UNCHANGED slot

----------------------------------------------------------------------------
\* The list hides while it loads; a failed listing leaves nothing to choose.
Offered == view = "list" /\ ~loading /\ shown # Nothing

SelectAircon ==
    /\ Offered
    /\ Turn("closed", Blank) /\ slot' = "database"

\* A manufacturer and a rated power of 1 to 20,000 W; otherwise a message.
SaveManualAircon ==
    /\ view = "manual"
    /\ Turn("closed", Blank) /\ slot' = "user_input"

SaveEstimatedAircon ==
    /\ view = "estimate"
    /\ Turn("closed", Blank) /\ slot' = "estimated"

StartEditingTitle ==
    /\ view = "closed"
    /\ Turn("title", term) /\ UNCHANGED slot

\* Enter, leaving the field (unless the title is empty) or Escape.
EndEditingTitle ==
    /\ view = "title"
    /\ Turn("closed", term) /\ UNCHANGED slot

----------------------------------------------------------------------------
ListTimer ==
    /\ armed
    /\ armed' = FALSE /\ loading' = TRUE
    /\ asked' = asked \cup {[term |-> term, current |-> TRUE]}
    /\ UNCHANGED <<view, term, shown, slot>>

Listed(r, succeeds) ==
    /\ r \in asked
    /\ asked' = asked \ {r}
    /\ IF r.current
         THEN /\ shown' = IF succeeds THEN r.term ELSE Nothing
              /\ loading' = FALSE
         ELSE UNCHANGED <<loading, shown>>
    /\ UNCHANGED <<view, term, armed, slot>>

----------------------------------------------------------------------------
\* AirconPage is unmounted: its answers find nobody, its state is lost.
Unmounted ==
    /\ view' = "closed" /\ term' = Blank /\ armed' = FALSE
    /\ asked' = {} /\ loading' = FALSE /\ shown' = Nothing

HasAircon == slot # "none"

\* What somebody does in the window, and what the window does by itself.
Choose ==
    \/ OpenSelector \/ CloseSelector
    \/ \E t \in Terms : Search(t)
    \/ \E v \in Views : GoTo(v)
    \/ SelectAircon \/ SaveManualAircon \/ SaveEstimatedAircon
    \/ StartEditingTitle \/ EndEditingTitle

ListingStep == ListTimer \/ \E r \in asked, s \in BOOLEAN : Listed(r, s)

\* While the list is open and nothing is being asked, what it shows is the
\* answer for the term in the search field, however the answers of earlier
\* terms and earlier openings came back (the effect of AirconPage.jsx:207).
ListMatchesTerm ==
    view = "list" /\ ~armed /\ (\A r \in asked : ~r.current)
       => /\ shown \in {term, Nothing}
          /\ ~loading
=============================================================================
