----------------------------- MODULE SensorHistory -----------------------------
(***************************************************************************)
(* The readings page (SensorReadings.jsx): the readings of a place that it *)
(* has, from a first request, from the socket and, while no readings come  *)
(* over the socket, from a request every five seconds.                     *)
(*                                                                         *)
(* A request aborts the one before it, which then settles without a        *)
(* trace, so at most one is under way; a cycle's request is incremental,   *)
(* and the cycle's lock is held exactly while one is under way.  The       *)
(* place and its socket outlive the page.  Another place is selected while *)
(* the page is closed, for its own switch, like its refresh button and its *)
(* automatic-refresh box, is not displayed; or the page is open before the *)
(* first place is known.  The three attempts of a read count as one.  The  *)
(* weather's status, the thresholds and the charts are left out.           *)
(***************************************************************************)
EXTENDS LiveReadings, FiniteSetsExt

CONSTANT HistoryLimit         \* HISTORY_LIMIT, of a request and of what is kept

ASSUME HistoryAssumption == HistoryLimit \in Nat \ {0}

VARIABLES
    mounted,      \* the page is open
    visible,      \* document.visibilityState
    readings,     \* the readings shown
    newest,       \* newestMeasuredAtRef
    taken,        \* the latestReading its effect has run for
    call,         \* getReadingHistory() under way
    syncStatus,
    failures,     \* consecutiveFailureRef, as far as it is told apart
    unanswered    \* history: failed requests since the page last heard anything

sync == <<syncStatus, failures, unanswered>>
page == <<mounted, visible, readings, newest, taken, call, sync>>
vars == <<place, server, live, page>>

Patience == 3
Unseen   == MaxReading + 1       \* the server has not looked yet
NoCall   == [of |-> NoPlace, incremental |-> FALSE, after |-> NoReading,
             seen |-> Unseen]
Calls    == [of : Places, incremental : BOOLEAN,
             after : Readings \cup {NoReading}, seen : 0..Unseen]

TypeOK ==
    /\ LiveTypeOK
    /\ {mounted, visible} \subseteq BOOLEAN /\ readings \subseteq Readings
    /\ {newest, taken} \subseteq Readings \cup {NoReading}
    /\ call \in Calls \cup {NoCall}
    /\ syncStatus \in {"idle", "connected", "retrying", "error"}
    /\ {failures, unanswered} \subseteq 0..Patience

Init ==
    /\ LiveInit
    /\ mounted = FALSE /\ visible = TRUE /\ readings = {} /\ newest = NoReading
    /\ taken = NoReading /\ call = NoCall
    /\ syncStatus = "idle" /\ failures = 0 /\ unanswered = 0

----------------------------------------------------------------------------
Newest(S)  == IF S = {} THEN NoReading ELSE Max(S)
LastOf(S)  == {n \in S : Cardinality({m \in S : m > n}) < HistoryLimit}

UpTo(n) == IF n < Patience THEN n + 1 ELSE Patience

\* mergeIntoState()
Show(S) == readings' = S /\ newest' = Newest(S)
MergeReadings(S) == Show(LastOf(readings \cup S))

Request(p, incremental) ==
    call' = [of |-> p, incremental |-> incremental,
             after |-> IF incremental THEN newest ELSE NoReading, seen |-> Unseen]

\* A request was answered, a reading has come: the page is in step again.
FaultyInStep == syncStatus' = "connected" /\ UNCHANGED failures /\ unanswered' = 0
InStep == syncStatus' = "connected" /\ failures' = 0 /\ unanswered' = 0

----------------------------------------------------------------------------
(* The page and its place *)

\* The effects on the place, then the one on the latest reading, which is of
\* that place or, as yet, of none.
PageTurnsTo(p, reading) ==
    /\ call' = IF p = NoPlace THEN NoCall ELSE [NoCall EXCEPT !.of = p]
    /\ taken' = reading /\ unanswered' = 0 /\ failures' = 0
    /\ IF reading = NoReading THEN Show({}) /\ syncStatus' = "idle"
                              ELSE Show({reading}) /\ syncStatus' = "connected"

PageRests == Show({}) /\ call' = NoCall /\ taken' = NoReading
             /\ syncStatus' = "idle" /\ failures' = 0 /\ unanswered' = 0

SelectPlace(p) ==
    /\ p # place /\ LiveTurnTo(p)
    /\ IF mounted THEN place = NoPlace /\ PageTurnsTo(p, NoReading) ELSE PageRests
    /\ UNCHANGED <<server, mounted, visible>>

Enter ==
    /\ ~mounted /\ visible /\ mounted' = TRUE /\ PageTurnsTo(place, latest)
    /\ UNCHANGED <<place, server, live, visible>>

Leave ==
    /\ mounted /\ visible /\ mounted' = FALSE /\ PageRests
    /\ UNCHANGED <<place, server, live, visible>>

----------------------------------------------------------------------------
(* Requests *)

CanRefresh == mounted /\ place # NoPlace /\ ~RealtimeIsLive /\ ~call.incremental

\* performRefreshCycle(): by the timer of five seconds.
Poll ==
    /\ CanRefresh /\ visible /\ Request(place, TRUE)
    /\ UNCHANGED <<place, server, live, mounted, visible, readings, newest, taken, sync>>

\* The tab is hidden, or shown: then a cycle is begun at once.
VisibilityChanges ==
    /\ visible' = ~visible
    /\ IF CanRefresh /\ visible'
         THEN Request(place, TRUE) ELSE UNCHANGED call
    /\ UNCHANGED <<place, server, live, mounted, readings, newest, taken, sync>>

\* The button of the error banner: everything again.
TryAgain ==
    /\ syncStatus = "error" /\ visible /\ Request(place, FALSE)
    /\ UNCHANGED <<place, server, live, mounted, visible, readings, newest, taken, sync>>

Looked ==
    /\ call # NoCall /\ call.seen = Unseen
    /\ call' = [call EXCEPT !.seen = stored[call.of]]
    /\ UNCHANGED <<place, server, live, mounted, visible, readings, newest, taken, sync>>

\* read_history(): the newest, from the one asked for on.
Answer == LastOf({n \in 1..call.seen : n >= call.after})

Answered ==
    /\ call # NoCall /\ call.seen # Unseen /\ call.of = place
    /\ IF call.incremental THEN MergeReadings(Answer) ELSE Show(Answer)
    /\ InStep /\ call' = NoCall
    /\ UNCHANGED <<place, server, live, mounted, visible, taken>>

RequestFails ==
    /\ call # NoCall /\ call.of = place
    /\ failures' = UpTo(failures) /\ unanswered' = UpTo(unanswered)
    /\ syncStatus' = IF failures' < Patience THEN "retrying" ELSE "error"
    /\ call' = NoCall
    /\ UNCHANGED <<place, server, live, mounted, visible, readings, newest, taken>>

\* The effect on realtimeReading.  A second reading may come before it runs,
\* and then only that one is taken.
TakeLatest ==
    /\ mounted /\ latest # taken /\ taken' = latest
    /\ MergeReadings({latest}) /\ InStep
    /\ UNCHANGED <<place, server, live, mounted, visible, call>>

----------------------------------------------------------------------------
Next ==
    \/ (ServerStep \/ SocketStep) /\ UNCHANGED page
    \/ \E p \in Places \cup {NoPlace} : SelectPlace(p)
    \/ Enter \/ Leave \/ Poll \/ VisibilityChanges \/ TryAgain
    \/ Looked \/ Answered \/ RequestFails \/ TakeLatest

\* Timers expire, effects run, the server looks; of the requests that are made
\* again and again, one is answered.  Nothing is assumed of the socket.
Fairness ==
    /\ WF_vars(StaleTimer /\ UNCHANGED page)
    /\ WF_vars(Poll) /\ WF_vars(TakeLatest)
    /\ SF_vars(Looked) /\ SF_vars(Answered)

Spec == Init /\ [][Next]_vars /\ Fairness

----------------------------------------------------------------------------
(* Properties *)

\* getConnectionState(): the badge in the header.  The age of the newest
\* reading, which makes "connected" say "live", is not kept.
ConnectionState ==
    IF syncStatus \in {"error", "retrying"} THEN syncStatus
    ELSE IF newest # NoReading THEN "connected"
    ELSE IF syncStatus = "connected" THEN "waiting" ELSE "empty"

\* A reading that is stored comes to be shown, or a newer one, with a badge
\* that says connected, as long as the page is looked at: also when the
\* socket is open and brings nothing (SensorRealtimeContext.jsx:20-27), when
\* it is lost, refused or replaced, and when requests fail on the way.
Freshness ==
    \A p \in Places, n \in Readings :
        mounted /\ place = p /\ stored[p] >= n
            ~> \/ ~mounted \/ place # p \/ ~visible
               \/ newest >= n /\ ConnectionState = "connected"

\* The error banner appears only after three failed requests with nothing heard
\* in between, neither an answer nor a reading (SensorReadings.jsx:200-209).
ErrorIsEarned == syncStatus = "error" => unanswered = Patience

\* In no run: a stored reading that is not older than what is shown is itself
\* shown in the end.  The code does not keep it: see the README.
NothingSkipped ==
    \A p \in Places, n \in Readings :
        mounted /\ place = p /\ stored[p] = n
            ~> \/ ~mounted \/ place # p \/ ~visible \/ n \in readings
               \/ Cardinality({m \in readings : m > n}) >= HistoryLimit

\* In no run: what is shown does not go back while the page is open.
NeverBack == [][mounted /\ mounted' /\ place' = place => newest' >= newest]_vars
=============================================================================
