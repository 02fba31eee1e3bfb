------------------------------ MODULE LiveReadings ------------------------------
(***************************************************************************)
(* New readings over a socket (SensorRealtimeProvider): one socket for the *)
(* selected place, which is opened again, after a delay, when it is lost.  *)
(* The readings of a place are numbered in the order they are stored.      *)
(* Heartbeats, and the device states and presence the same socket brings,  *)
(* are left out: they do not change what is kept here.                     *)
(***************************************************************************)
EXTENDS Naturals, Sequences

CONSTANTS Places, NoPlace,
          MaxReading            \* bound: readings stored of a place

ASSUME LiveReadingsAssumption == NoPlace \notin Places /\ MaxReading \in Nat \ {0}

VARIABLES
    place,      \* selectedPlaceId
    stored,     \* the server's readings of a place: how many are stored,
    sent,       \* and how many of them it has sent to those who listen
    status,     \* connectionStatus
    socket,     \* socketRef: none, one that opens, one the server has joined
    wire,       \* what the server has sent on it
    latest,     \* latestReading
    heard       \* of lastReadingAt and staleSince: never, fresh or stale

server == <<stored, sent>>
live   == <<status, socket, wire, latest, heard>>

NoReading == 0
Readings  == 1..MaxReading
Hello     == 0              \* the message that says "connected"

LiveTypeOK ==
    /\ place \in Places \cup {NoPlace}
    /\ stored \in [Places -> 0..MaxReading] /\ sent \in [Places -> 0..MaxReading]
    /\ status \in {"idle", "connecting", "connected", "reconnecting", "error"}
    /\ socket \in {"none", "opening", "joined"}
    /\ \A i \in DOMAIN wire : wire[i] \in Readings \cup {Hello}
    /\ latest \in Readings \cup {NoReading}
    /\ heard \in {"never", "fresh", "stale"}

LiveInit ==
    /\ place = NoPlace /\ status = "idle" /\ socket = "none" /\ wire = <<>>
    /\ latest = NoReading /\ heard = "never"
    /\ stored = [p \in Places |-> 0] /\ sent = [p \in Places |-> 0]

----------------------------------------------------------------------------
(* The server: a reading is stored first, then sent to the joined sockets. *)

Store(p) ==
    /\ stored[p] < MaxReading /\ stored' = [stored EXCEPT ![p] = @ + 1]
    /\ UNCHANGED <<place, sent, live>>

Broadcast(p) ==
    /\ sent[p] < stored[p] /\ sent' = [sent EXCEPT ![p] = @ + 1]
    /\ wire' = IF p = place /\ socket = "joined"
                 THEN Append(wire, sent[p] + 1) ELSE wire
    /\ UNCHANGED <<place, stored, status, socket, latest, heard>>

----------------------------------------------------------------------------
(* The socket *)

\* connect(): without a token there is nothing to try.
Connect(s) ==
    \/ socket' = "opening" /\ status' = s
    \/ socket' = "none" /\ status' = "error"

\* The effect on selectedPlaceId: the old socket is closed and forgotten.
LiveTurnTo(p) ==
    /\ place' = p
    /\ wire' = <<>> /\ latest' = NoReading /\ heard' = "never"
    /\ IF p = NoPlace THEN socket' = "none" /\ status' = "idle"
                      ELSE Connect("connecting")

\* The token is sent and accepted, and the server greets.
Joined ==
    /\ socket = "opening" /\ socket' = "joined" /\ wire' = <<Hello>>
    /\ UNCHANGED <<place, server, status, latest, heard>>

\* Closed with 4401 or 4403: not tried again.
Refused ==
    /\ socket = "opening" /\ socket' = "none" /\ status' = "error"
    /\ UNCHANGED <<place, server, wire, latest, heard>>

Lost ==
    /\ socket # "none" /\ socket' = "none" /\ wire' = <<>>
    /\ status' = "reconnecting"
    /\ UNCHANGED <<place, server, latest, heard>>

Reconnect ==
    /\ socket = "none" /\ status = "reconnecting" /\ Connect("reconnecting")
    /\ UNCHANGED <<place, server, wire, latest, heard>>

Message ==
    /\ wire # <<>> /\ wire' = Tail(wire) /\ status' = "connected"
    /\ IF Head(wire) = Hello THEN UNCHANGED <<latest, heard>>
                             ELSE latest' = Head(wire) /\ heard' = "fresh"
    /\ UNCHANGED <<place, server, socket>>

\* Twenty seconds without a reading.
StaleTimer ==
    /\ heard = "fresh" /\ heard' = "stale"
    /\ UNCHANGED <<place, server, status, socket, wire, latest>>

\* An open socket is not enough: readings have to come.
FaultyRealtimeIsLive == status = "connected"
RealtimeIsLive == status = "connected" /\ heard = "fresh"

ServerStep == \E p \in Places : Store(p) \/ Broadcast(p)
SocketStep == Joined \/ Refused \/ Lost \/ Reconnect \/ Message \/ StaleTimer
=============================================================================
