------------------------------- MODULE MyPlaces -------------------------------
(***************************************************************************)
(* The places a user sees and changes: the list every page shares with the *)
(* place selected in it (useSelectedLocation.js), and the page on which    *)
(* they are changed, with its own list of their air conditioners           *)
(* (MyPage.jsx).  Some changes are followed by a read of the server's      *)
(* table, others are copied into the lists without one.                    *)
(*                                                                         *)
(* Leaving the page forgets its list and its buttons, not the requests it  *)
(* has sent.  The two changes of an air conditioner (its name, its product)*)
(* are one kind.  Addresses and messages are left out.                     *)
(***************************************************************************)
EXTENDS PlacesApi

VARIABLES
    page,       \* currentPage: "home" for every page but this one
    locations,  \* what is shown of a place: info and main
    selected,   \* selectedId
    loading,    \* isLoading of the list
    aircons,    \* places, on this page: units
    waiting,    \* isLoadingPlaces
    trouble,    \* placeError
    deleting,   \* deleteTargetPlaceId
    changes,    \* the changes that were sent and not answered
    asked,      \* how many were ever sent
    trust       \* history: the lists, and the cache, that nothing has crossed

shown      == <<locations, selected, loading, aircons, waiting, trouble>>
placesVars == <<api, page, shown, deleting, changes, asked, trust>>

Kinds     == {"details", "where", "heat", "default", "remove", "create",
              "units", "consent"}
Change    == [n : 1..MaxChanges, kind : Kinds, place : Places,
              applied : BOOLEAN, chosen : BOOLEAN, mine : BOOLEAN]

PlacesTypeOK ==
    /\ ApiTypeOK
    /\ page \in {"home", "mypage"}
    /\ DOMAIN locations \subseteq Places
    /\ \A p \in DOMAIN locations :
         locations[p] \in [info : Versions, main : BOOLEAN]
    /\ DOMAIN aircons \subseteq Places
    /\ \A p \in DOMAIN aircons : aircons[p] \in Versions
    /\ {selected, deleting} \subseteq Places \cup {None}
    /\ {loading, waiting, trouble} \subseteq BOOLEAN
    /\ changes \subseteq Change /\ asked \in 0..MaxChanges
    /\ trust \subseteq Callers \cup {"cache"}

PlacesInit ==
    /\ ApiInit /\ page = "home" /\ locations = <<>> /\ aircons = <<>>
    /\ selected = 2        \* from localStorage; the default place is 1
    /\ loading = TRUE /\ waiting = TRUE /\ trouble = FALSE
    /\ deleting = None /\ changes = {} /\ asked = 0 /\ trust = {"locations", "cache"}

----------------------------------------------------------------------------
(* The lists *)

\* mapPlaceToLocation()
Location(row)  == [info |-> row.info, main |-> row.main]
LocationsOf(t) == [p \in DOMAIN t |-> Location(t[p])]
AirconsOf(t)   == [p \in DOMAIN t |-> t[p].units]

\* refreshLocations(): what becomes of the selected place.
Reselected(t) ==
    IF selected \in DOMAIN t THEN selected
    ELSE IF \E p \in DOMAIN t : t[p].main THEN CHOOSE p \in DOMAIN t : t[p].main
    ELSE IF DOMAIN t = {} THEN None ELSE Oldest(DOMAIN t)

\* The table comes to those who have asked for it.
ShowTable(t, who) ==
    /\ IF "locations" \in who
         THEN locations' = LocationsOf(t) /\ selected' = Reselected(t) /\ loading' = FALSE
         ELSE UNCHANGED <<locations, selected, loading>>
    /\ IF "aircons" \in who THEN aircons' = AirconsOf(t) /\ waiting' = FALSE
                            ELSE UNCHANGED <<aircons, waiting>>

\* What a read brings is to be trusted if it began while nothing else was under
\* way; what the cache or a joined read brings, if that one did.
Vouched(who, lone) ==
    LET kept == cache # {} \/ inFlight # None
        good == IF kept THEN "cache" \in trust ELSE lone /\ UnderWay = {}
    IN  trust' = IF good THEN trust \cup who \cup {"cache"}
                         ELSE trust \ (who \cup {"cache"})

\* fetchMyPlaces(), for those who ask; lone: while no change is under way.
Ask(who, lone) ==
    /\ Vouched(who, lone) /\ UNCHANGED <<db, cache>>
    /\ trouble' = (trouble /\ "aircons" \notin who)
    /\ \/ /\ \E t \in cache : ShowTable(t, who)
          /\ UNCHANGED <<fetches, inFlight>>
       \/ /\ cache = {} /\ (Joined(who) \/ Started(who))
          /\ loading' = (loading \/ "locations" \in who)
          /\ UNCHANGED <<locations, selected, aircons, waiting>>

Settle(i) ==
    /\ fetches[i].on
    /\ \E t \in fetches[i].seen : cache' = {t} /\ ShowTable(t, fetches[i].for)
    /\ ReadEnded(i)
    /\ UNCHANGED <<db, page, trouble, deleting, changes, asked, trust>>

\* The lists stay as they are.
FetchFails(i) ==
    /\ fetches[i].on /\ ReadEnded(i)
    /\ LET who == fetches[i].for
       IN  /\ loading' = (loading /\ "locations" \notin who)
           /\ waiting' = (waiting /\ "aircons" \notin who)
           /\ trouble' = (trouble \/ "aircons" \in who)
           /\ trust' = trust \ (who \cup {"cache"})
    /\ UNCHANGED <<db, cache, page, locations, selected, aircons, deleting, changes, asked>>

----------------------------------------------------------------------------
(* The pages *)

\* The row of a place is displayed, and below it those of its units.
Listed(p)     == page = "mypage" /\ ~loading /\ p \in DOMAIN locations
UnitsShown(p) == Listed(p) /\ ~waiting /\ ~trouble /\ p \in DOMAIN aircons

Enter ==
    /\ page = "home" /\ page' = "mypage" /\ Ask({"aircons"}, changes = {})
    /\ UNCHANGED <<deleting, changes, asked>>

\* Those that wait for the page's list wait no longer.
Leave ==
    /\ page = "mypage" /\ page' = "home" /\ deleting = None
    /\ aircons' = <<>> /\ waiting' = TRUE /\ trouble' = FALSE
    /\ changes' = {[c EXCEPT !.mine = FALSE] : c \in changes}
    /\ fetches' = [i \in DOMAIN fetches |-> [fetches[i] EXCEPT !.for = @ \ {"aircons"}]]
    /\ trust' = trust \ {"aircons"}
    /\ UNCHANGED <<db, cache, inFlight, locations, selected, loading, deleting, asked>>

\* selectLocation(), from the list in the header of the dashboard.
Select(p) ==
    /\ page = "home" /\ p \in DOMAIN locations /\ selected' = p
    /\ trust' = IF changes = {} THEN trust ELSE {}
    /\ UNCHANGED <<api, page, locations, loading, aircons, waiting, trouble,
                   deleting, changes, asked>>

\* handleDeleteLocation(): the dialog, and its cancellation.
AskToDelete(p) ==
    /\ Listed(p) /\ Cardinality(DOMAIN locations) > 1
    /\ deleting = None /\ deleting' = p
    /\ UNCHANGED <<api, page, shown, changes, asked, trust>>

CancelDelete ==
    /\ deleting # None /\ deleting' = None
    /\ UNCHANGED <<api, page, shown, changes, asked, trust>>

----------------------------------------------------------------------------
(* Changes *)

\* A button that is disabled until the answer has come, while the page is open.
Pending(kind) == {c \in changes : c.kind = kind /\ c.mine}

CanAsk(kind, p) ==
    CASE kind = "create"  -> page = "mypage" /\ deleting = None /\ p = 3 + asked
                             /\ Pending(kind) = {}
      [] kind = "where"   -> page = "home" /\ p = selected /\ p \in DOMAIN locations
      [] kind = "details" -> Listed(p) /\ deleting = None /\ Pending(kind) = {}
      [] kind = "units"   -> UnitsShown(p) /\ deleting = None /\ Pending(kind) = {}
      [] kind = "consent" -> UnitsShown(p) /\ deleting = None
      [] kind = "remove"  -> deleting = p
      [] OTHER            -> Listed(p) /\ deleting = None
                             /\ \A c \in Pending(kind) : c.place # p

\* The case that is known to leave the list wrong: see DefaultShown.
Orphaned(kind, p) ==
    kind = "remove" /\ p # selected /\ p \in DOMAIN db /\ db[p].main

SendChange(kind, p) ==
    /\ asked < MaxChanges /\ Cardinality(changes) < MaxPending /\ asked' = asked + 1
    /\ CanAsk(kind, p) /\ Invalidated(kind)
    /\ changes' = changes \cup
         {[n |-> asked', kind |-> kind, place |-> p, applied |-> FALSE,
           chosen |-> kind = "remove" /\ p = selected, mine |-> page = "mypage"]}
    /\ deleting' = IF kind = "remove" THEN None ELSE deleting
    /\ trust' = IF changes # {} \/ UnderWay # {} \/ Orphaned(kind, p) THEN {}
                ELSE IF kind \in Silent THEN trust \ {"cache"} ELSE trust
    /\ UNCHANGED <<db, fetches, page, shown>>

\* A place that is gone is not found.
Apply(c) ==
    /\ ~c.applied /\ (c.place \in DOMAIN db \/ c.kind = "create")
    /\ db' = After(db, c)
    /\ changes' = (changes \ {c}) \cup {[c EXCEPT !.applied = TRUE]}
    /\ UNCHANGED <<cache, fetches, inFlight, page, shown, deleting, asked, trust>>

\* Those whom a change that has succeeded makes read the table again.
Readers(c) ==
    CASE c.kind \in {"where", "heat"} -> {"locations"}
      [] c.kind = "remove"            -> IF c.chosen THEN {"locations"} ELSE {}
      [] c.kind = "create"            -> {"locations"} \cup IF c.mine THEN {"aircons"} ELSE {}
      [] c.kind = "units"             -> IF c.mine THEN {"aircons"} ELSE {}
      [] OTHER                        -> {}

Rereads(c) == Readers(c) # {} \/ c.kind = "units"

AnswerRead(c) ==
    /\ c.applied /\ Rereads(c) /\ Ask(Readers(c), changes = {c})
    /\ changes' = changes \ {c} /\ UNCHANGED <<page, deleting, asked>>

\* The others are copied into the lists.  What a list has of a place it no
\* longer shows is never looked up, and left there.
FaultyCopied(c) ==
    CASE c.kind = "details" -> [p \in DOMAIN locations |->
             IF p = c.place THEN [locations[p] EXCEPT !.info = c.n] ELSE locations[p]]
      [] c.kind = "default" /\ c.place \in DOMAIN locations
                            -> [locations EXCEPT ![c.place].main = TRUE]
      [] c.kind = "remove"  -> [p \in DOMAIN locations \ {c.place} |-> locations[p]]
      [] OTHER              -> locations
Copied(c) ==
    CASE c.kind = "details" -> [p \in DOMAIN locations |->
             IF p = c.place THEN [locations[p] EXCEPT !.info = c.n] ELSE locations[p]]
      [] c.kind = "default" -> WithMain(locations, c.place)
      [] c.kind = "remove"  -> [p \in DOMAIN locations \ {c.place} |-> locations[p]]
      [] OTHER              -> locations

CopiedUnits(c) ==
    [p \in DOMAIN aircons |->
        IF c.kind = "consent" /\ c.mine /\ p = c.place THEN c.n ELSE aircons[p]]

AnswerCopied(c) ==
    /\ c.applied /\ ~Rereads(c) /\ locations' = Copied(c)
    /\ selected' = IF c.kind = "default" THEN c.place ELSE selected
    /\ aircons' = CopiedUnits(c)
    /\ changes' = changes \ {c}
    /\ UNCHANGED <<api, page, loading, waiting, trouble, deleting, asked, trust>>

\* Refused, or lost before or after the server has done it.
ChangeFails(c) ==
    /\ changes' = changes \ {c} /\ trust' = IF c.applied THEN {} ELSE trust
    /\ UNCHANGED <<api, page, shown, deleting, asked>>

----------------------------------------------------------------------------
PlacesNext ==
    \/ Expires /\ UNCHANGED <<page, shown, deleting, changes, asked, trust>>
    \/ \E i \in 1..MaxFetches :
         \/ Look(i) /\ UNCHANGED <<page, shown, deleting, changes, asked, trust>>
         \/ Settle(i) \/ FetchFails(i)
    \/ Enter \/ Leave \/ CancelDelete
    \/ \E p \in Places : Select(p) \/ AskToDelete(p)
    \/ \E p \in Places, kind \in Kinds : SendChange(kind, p)
    \/ \E c \in changes :
         Apply(c) \/ AnswerRead(c) \/ AnswerCopied(c) \/ ChangeFails(c)

PlacesSpec == PlacesInit /\ [][PlacesNext]_placesVars

----------------------------------------------------------------------------
(* Properties *)

Quiet == changes = {} /\ UnderWay = {}

\* When changes are made one at a time, what the lists show is what the server
\* has, whether they were read again or the change was copied into them, and
\* the selected place is one of those listed.  A read that begins while nothing
\* is under way repairs whatever went before it (useSelectedLocation.js:95-100,
\* 118-120, 133-139, MyPage.jsx:266-295).
ListsAreTrue ==
    Quiet =>
      /\ "locations" \in trust =>
           /\ locations = LocationsOf(db)
           /\ DOMAIN db # {} => selected \in DOMAIN db
      /\ "aircons" \in trust => \A p \in DOMAIN db : aircons[p] = db[p].units

\* In no run, for the code keeps none of them: see the README.  When nothing is
\* under way one of the places listed is the default one,
DefaultShown ==
    Quiet /\ locations # <<>> => \E p \in DOMAIN locations : locations[p].main

\* a user who had places keeps one,
AlwaysAPlace == DOMAIN db # {}

\* and a place that was removed does not come back to the list.
StaysGone ==
    [][\A p \in DOMAIN locations' :
         p \notin DOMAIN locations => p \in DOMAIN db]_placesVars
=============================================================================
