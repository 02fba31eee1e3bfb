----------------------------- MODULE QuickControls -----------------------------
(***************************************************************************)
(* The window and air conditioner buttons of the dashboard                 *)
(* (HeaderQuickControls.jsx): their state comes over the socket (see       *)
(* LiveReadings), or from the last reading, asked for every two seconds    *)
(* while no readings come.  What they show is not kept, only whether it    *)
(* is still being looked for and whether a command is under way; commands  *)
(* sent alike are kept as one.  The second copy of the buttons, which the  *)
(* card shows in its manual phase, behaves alike and is left out.          *)
(***************************************************************************)
EXTENDS Naturals, FiniteSets

CONSTANTS Places, NoPlace, Home    \* Home: the one place with hardware

ASSUME ControlsAssumption == NoPlace \notin Places /\ Home \in Places

VARIABLES
    place,       \* selectedPlaceId
    link,        \* no connection, an open one, or one that brings readings
    reads,       \* getLatestReading() under way, by place
    loading,     \* isLoading
    pending,     \* pendingDevice
    commands     \* commands under way, by the connection they were sent with

quick == <<link, reads, loading, pending, commands>>

ControlsTypeOK ==
    /\ place \in Places \cup {NoPlace} /\ link \in {"down", "open", "live"}
    /\ reads \subseteq Places
    /\ {loading, pending} \subseteq BOOLEAN
    /\ commands \subseteq BOOLEAN

ControlsInit ==
    /\ place = NoPlace /\ link = "down"
    /\ reads = {} /\ loading = FALSE /\ pending = FALSE /\ commands = {}

----------------------------------------------------------------------------
\* Another place: its own connection, its own reading, no command of its own.
\* The finally block of the old place's command still counts.
ControlsTurnTo(p) ==
    /\ link' = "down"
    /\ loading' = TRUE /\ reads' = reads \cup {p}
    /\ pending' = FALSE
    /\ UNCHANGED commands

\* The fallback: as soon as no readings come, and every two seconds.
LinkChanges(l) ==
    /\ place # NoPlace /\ l # link /\ link' = l
    /\ IF link = "live"
         THEN loading' = TRUE /\ reads' = reads \cup {place}
         ELSE loading' = (loading /\ l # "live") /\ UNCHANGED reads
    /\ UNCHANGED <<pending, commands>>

DeviceStateComes ==
    /\ place # NoPlace /\ link # "down"
    /\ loading /\ loading' = FALSE
    /\ UNCHANGED <<link, reads, pending, commands>>

PollState ==
    /\ place # NoPlace /\ link # "live" /\ place \notin reads
    /\ reads' = reads \cup {place}
    /\ UNCHANGED <<link, loading, pending, commands>>

\* refreshDeviceState(): its finally block, whatever the answer.
FaultyLoadingAfter == {loading, FALSE}
LoadingAfter == {FALSE}

ReadAnswered(p) ==
    /\ p \in reads /\ reads' = reads \ {p}
    /\ loading' \in LoadingAfter
    /\ UNCHANGED <<link, pending, commands>>

----------------------------------------------------------------------------
\* areDeviceControlsDisabled(): a gateway known to be gone disables them too.
SendControlCommand ==
    /\ place = Home /\ ~pending
    /\ pending' = TRUE
    /\ commands' = commands \cup {link # "down"}
    /\ UNCHANGED <<link, reads, loading>>

\* Without a connection when it was clicked, an answered command, successful or
\* not, awaits the last reading too.
CommandEnds(linked, answered) ==
    /\ linked \in commands /\ commands' = commands \ {linked}
    /\ pending' = FALSE
    /\ loading' = (loading /\ (linked \/ ~answered))
    /\ UNCHANGED <<link, reads>>

LinkStep == (\E l \in {"down", "open", "live"} : LinkChanges(l)) \/ DeviceStateComes
ReadStep == \E p \in reads : ReadAnswered(p)

\* The buttons come back and "checking" goes away, whatever the socket, the
\* requests and the selection do meanwhile (HeaderQuickControls.jsx:196-287).
ControlsComeBack == /\ pending ~> ~pending
                    /\ loading ~> ~loading
=============================================================================
