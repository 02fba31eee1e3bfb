------------------------------- MODULE PlacesApi -------------------------------
(***************************************************************************)
(* A user's places: the server's table, and the short cache through which  *)
(* the pages read it (placesApi.js).  A read is answered by the cache      *)
(* while it is fresh, joins a read that is under way, or begins one; a     *)
(* change empties the cache before it is sent, unless it is one of the two *)
(* kinds that do not.                                                      *)
(*                                                                         *)
(* Places are numbered in the order they were asked for.  Of a place the   *)
(* model keeps the last change of its name, coordinates or temperature     *)
(* (info), the last of its air conditioners or consents (units), and       *)
(* is_default (main).  A handler of the server is one step, and the three  *)
(* attempts of a read count as one.                                        *)
(***************************************************************************)
EXTENDS Naturals, FiniteSets

CONSTANTS MaxChanges,           \* bounds: changes asked for,
          MaxPending,           \* changes under way at once,
          MaxFetches            \* reads under way at once

ASSUME PlacesAssumption == {MaxChanges, MaxPending, MaxFetches} \subseteq Nat \ {0}

VARIABLES
    db,         \* the server's table, a function on the places there are
    cache,      \* placesCache: nothing, or a table that is still fresh
    fetches,    \* the reads under way: what the server saw, and who waits
    inFlight    \* placesInFlight

api == <<db, cache, fetches, inFlight>>

None     == 0
Founders == 1..2                            \* the places at the start
Places   == 1..(2 + MaxChanges)
Versions == 0..MaxChanges                  \* changes are numbered
Row      == [info : Versions, units : Versions, main : BOOLEAN]
Callers  == {"locations", "aircons"}        \* refreshLocations(), refreshPlaceAircons()
Silent   == {"heat", "default"}             \* they leave the cache alone

IsTable(t) == DOMAIN t \subseteq Places /\ \A p \in DOMAIN t : t[p] \in Row
Idle       == [on |-> FALSE, seen |-> {}, for |-> {}]
Begun(who) == [on |-> TRUE, seen |-> {}, for |-> who]
UnderWay   == {i \in DOMAIN fetches : fetches[i].on}

ApiTypeOK ==
    /\ IsTable(db) /\ \A t \in cache : IsTable(t) /\ Cardinality(cache) <= 1
    /\ inFlight \in {None} \cup UnderWay
    /\ DOMAIN fetches = 1..MaxFetches
    /\ \A i \in DOMAIN fetches :
          /\ fetches[i].on \in BOOLEAN /\ fetches[i].for \subseteq Callers
          /\ \A t \in fetches[i].seen : IsTable(t)

ApiInit ==
    /\ db = [p \in Founders |-> [info |-> 0, units |-> 0, main |-> p = 1]]
    /\ cache = {} /\ inFlight = 1        \* the list is mounted, and reads it
    /\ fetches = [i \in 1..MaxFetches |-> IF i = 1 THEN Begun({"locations"}) ELSE Idle]

----------------------------------------------------------------------------
(* The server (places_router.py) *)

Oldest(S) == CHOOSE p \in S : \A q \in S : p <= q

\* create_place_with_aircons_for_user(): the first place is the default one.
WithNew(t, p, n) ==
    [q \in DOMAIN t \cup {p} |->
        IF q = p THEN [info |-> n, units |-> n, main |-> DOMAIN t = {}] ELSE t[q]]

\* delete_place(): of the others the oldest becomes the default one.
Without(t, p) ==
    LET rest == DOMAIN t \ {p}
    IN  [q \in rest |-> [t[q] EXCEPT !.main = @ \/ (t[p].main /\ q = Oldest(rest))]]

\* update_place_default()
WithMain(t, p) == [q \in DOMAIN t |-> [t[q] EXCEPT !.main = q = p]]

After(t, c) ==
    CASE c.kind = "create"               -> WithNew(t, c.place, c.n)
      [] c.kind = "remove"               -> Without(t, c.place)
      [] c.kind = "default"              -> WithMain(t, c.place)
      [] c.kind \in {"units", "consent"} -> [t EXCEPT ![c.place].units = c.n]
      [] OTHER                           -> [t EXCEPT ![c.place].info = c.n]

----------------------------------------------------------------------------
(* The client's side *)

\* invalidatePlacesCache(), by a change of this kind.
Invalidated(kind) ==
    IF kind \in Silent THEN UNCHANGED <<cache, inFlight>>
                       ELSE cache' = {} /\ inFlight' = None

\* fetchMyPlaces(), when the cache does not answer.
Joined(who) ==
    /\ inFlight # None
    /\ fetches' = [fetches EXCEPT ![inFlight].for = @ \cup who]
    /\ UNCHANGED inFlight

Started(who) ==
    /\ inFlight = None
    /\ \E i \in DOMAIN fetches \ UnderWay :
         /\ \A j \in DOMAIN fetches \ UnderWay : i <= j
         /\ fetches' = [fetches EXCEPT ![i] = Begun(who)]
         /\ inFlight' = i

\* A read ends: whichever it is, none is under way for those to come.
ReadEnded(i) ==
    fetches' = [fetches EXCEPT ![i] = Idle] /\ inFlight' = None

Expires == cache # {} /\ cache' = {} /\ UNCHANGED <<db, fetches, inFlight>>

Look(i) ==
    /\ fetches[i].on /\ fetches[i].seen = {}
    /\ fetches' = [fetches EXCEPT ![i].seen = {db}]
    /\ UNCHANGED <<db, cache, inFlight>>
=============================================================================
