# dudeoji: specification, model checking and proofs

dudeoji looks after the climate of a room. Two ESP32 boards (one senses, one drives the air
conditioner's relay and the window's servo) talk BLE to a gateway process on a Raspberry Pi; the
gateway keeps a WebSocket to a FastAPI server; the server stores readings in Supabase, decides what
to do, and sends commands back; web pages show the room and send commands too. This directory holds
TLA+ modules for the parts of that system whose correctness depends on the order of things, the TLC
configurations that check them, and TLAPS proofs.

Paths below are relative to `src/`; RR is `dudeoji-api/routers/realtime_router.py`, RD
`dudeoji-api/routers/readings_router.py`, OE `dudeoji-api/occupancy_engine.py`, GW
`dudeoji-gateway/gateway.py`, WEB `dudeoji-web/src`.

    browser pages --HTTP--> API handlers (threads) --> Supabase
         ^  ws                    |  send_command()
         |                        v
    SensorReadingHub <---- /ws/sensors handler ----> DeviceConnectionHub
                                  ^  ws
                                  v
                          gateway process  --BLE-->  control board, sense board

## 1. Inventory

| Part | State it keeps | Operations | What is hard | Correct means |
|---|---|---|---|---|
| Device connection hub (`device_connection_hub.py`, RR 247-464) | one gateway socket per user, pending commands, send lock | connect, disconnect, send_command, resolve_command_result; the socket's handler and its reading worker | replacement during a command, failed writes, late results, deadlines, finally blocks that run late | one answer per request, success only for what the device did, no entry or registration without an owner |
| Realtime readings hub (`sensor_realtime_hub.py`, RR 189-244) | browser sockets per place, last device state per user | connect, disconnect, broadcasts | broadcasts interleave, a socket breaks in the middle | a page ends with the newest state |
| Saving readings (RD 866-1250, RR 31-134) | one waiting reading per socket, weather cache | take, save for every place of the user | several places at once, one fails, newer readings arrive | newest reading stored, one place's error harms no other |
| Background control (RD 352-566, OE 415-587) | one task per place, `occupancy_predictions` | condition control, occupancy control, popup answers | worker threads interleave between read and update; two controls, one device | one task per place, one execution per transition, no command for nothing, no fight |
| Recommendation engine (`recommendation_engine.py`) | none | determine_action | the result is carried out and changes its own input | it settles, never switches back and forth |
| Occupancy patterns (OE 59-315, `occupancy_router.py`) | logs, learned weights | log, train, seed, resolve | freshness, numerical code | a fresh log beats the pattern |
| Gateway (GW) | outbound queue, session, BLE snapshots, camera buffer | notifications, sender, receiver, heartbeat, commands, camera, occupancy loop | full queue, broken session, write that fails after it arrived, two BLE tasks | results not lost, newest state kept, no command stuck |
| Control board (`dudeoji_control.ino`) | fan flag, relay pin, link flags | loop(), BLE callbacks | two tasks, no lock | reported state is the real one, board can be found again |
| Sense and single board (`dudeoji_sense.ino`, `dudeoji_xiao.ino`) | as above, camera frame number | as above, camera frames in chunks | long frames hold up loop() | a frame arrives whole or not at all |
| Places (`places_router.py`) | places, default flag, air conditioners | create with rollback, delete, set default | several calls without a transaction | exactly one default |
| Accounts (`auth_utils.py`, `device_auth.py`, `auth_router.py`, `rate_limit.py`) | sessions, session cache, failure windows | login, logout, reset, tokens | cache filled after it was cleared, check and record apart | a session that is gone is not answered from the cache |
| Savings (`savings.py`) | TTL caches with per-key locks | cumulative kWh, rated power, summary | threads, nested loads, pages of rows | no thread waits for ever, no row missed |
| Sign-in and account pages (`FlowApp.jsx`, `authApi.js`, `api.js`, the windows of `MyPage.jsx`) | screen, user, drafts, token in localStorage | restore, log in, sign up in steps, recover and reset, nickname, password, delete, log out | answers that come after other clicks, another session, no session | an account is created under the name that was checked; nobody is left on a disabled button |
| Form of a place (`AirconPage.jsx`) | selector window, address search, position, draft | open, search, choose, estimate, type, locate, switch tab, save | debounced requests outrun each other; a position comes after its tab was left | list and coordinates are those of what is on the screen |
| Dashboard (`App.jsx`, `RecommendationCard.jsx`, `HeaderQuickControls.jsx`) | pinned recommendation, phase and countdown, a command under way | load, start, refuse, execute, ask for a new one, quick controls | effects, timers and late answers of a place no longer selected | a recommendation is decided once; buttons come back |
| Live readings (`SensorRealtimeContext.jsx`) | one socket, its status, the newest reading | connect, reconnect, stale timer, refusal | a socket that is open and silent, replaced, or refused | what is stored is shown |
| Readings page (`SensorReadings.jsx`, `sensorReadingsUtils.js`, `EnvironmentPanels.jsx`) | readings, newest, sync status | first request, poll, merge, abort; tiles, alerts, chart axis | requests abort each other, socket and requests deliver the same; page and engine each compare | fresh, with an honest badge; no warning contradicts the advice |
| Places in the pages (`placesApi.js`, `useSelectedLocation.js`, `MyPage.jsx`) | two-second cache, joined read, list, selection, air conditioners | read, create, change, default, delete, select | reads cross changes, copies without reading again | the list is the server's |
| Other pages (badges, environment, manual input, reviews) | one request each | load, save | little | left out, see section 7 |
| Badges, weather, MQTT, start-up, tools | none, or external | | | left out, see section 7 |

The parts meet in five places: the socket between gateway and hub, `send_command()` called by HTTP
handlers and background tasks, the tables in Supabase, the BLE link, and, in a page, the selected
place and the socket for it, which the dashboard, its buttons and the readings page share.

## 2. Modules

| Module | Models | How state and actions correspond to the code |
|---|---|---|
| `CommandService` | the promise of sending a command, abstractly | request new / open / closed, one answer each, "ok" only of an executed command |
| `DeviceHub` | one user's slice of the hub and of the `/ws/sensors` handlers | `current`, `pending`, `future` are `_connections[user]` and `_pending_commands`; `handler[s]` is the line a handler awaits at, `call[c]` that of a `send_command()`. A step is the code between two awaits that really suspend |
| `Gateway` | queue, WebSocket session and command path of GW | `outbound` is `outbound_queue`, `inflight` the sender's local `item`, `ended` the tasks `asyncio.wait` will report, `command[c]` where the receiver is with a command |
| `ControlBoard` | the firmware of the control board | one step per access to a shared variable, the two tests of a condition apart, `loop` and `ble` are the two program counters |
| `Recommendation` | the engine | pure operators; a measurement is reduced to the comparison the code makes with it |
| `BackgroundControl` | unattended control of one place and the popup | `row` is `occupancy_predictions` by transition, `query[a]` and `answer[a]` say which database call a task or page is at, `current` is `_background_control_tasks[place]` |
| `SignIn` | the screens around the dashboard and all account requests | `screen` is FlowApp's `currentScreen`, a member of `calls` a request under way with the token it carries; `Answer(c)` is the continuation after its `await` |
| `AirconPicker` | the window in which an air conditioner is chosen | `armed` is the 250 ms timer, `asked` the listings under way, each with whether its effect's `ignoreResult` is still false |
| `AirconForm` | the whole form: the window, the address search, the device's position, saving | `due` and `searches` as above for 300 ms, `locates` the positions, `current` the request id of `currentLocationRequestIdRef` |
| `QuickControls` | the buttons of the header | `pending` and `loading` as in the code, `reads` and `sent` the requests under way |
| `Dashboard` | page and recommendation card, with `QuickControls` | `started`, `phase`, `pinned`, `autos` (commands under way), `decided` how often a recommendation was carried out or refused |
| `LiveReadings` | the provider of new readings and the server's side of its socket | `status` and `live` are the context's values, `wire` what is on its way |
| `SensorHistory` | the readings page over `LiveReadings` | `readings`, `newest`, `failures`, `syncStatus` are the page's state and refs, `call` the one request under way |
| `PlacesApi` | the server's places and the cache in front of them | `cache` and `inFlight` are the two variables of `placesApi.js`, `fetches` the reads under way |
| `MyPlaces` | the lists of places, the selection and the page that changes them | `locations`, `selected`, `aircons`, `deleting` are React state, `changes` the requests under way |
| `HistoryChart` | the compressed time axis and its labels | pure operators over a sequence of times |
| `ReadingsView` | tiles, alerts and axis of a reading, next to the engine's advice | a reading is a room of `Recommendation` with the few comparisons the page makes more |

`DeviceHub` refines `CommandService` (`Promise == INSTANCE CommandService WITH ...`, checked as the
properties `CommandPromise` and `FairCommandPromise`, proved as `HubImplementsCommandService`).
`BackgroundControl` extends `Recommendation` and closes the loop: what is recommended is sent, what
is carried out is measured again. `ReadingsView` extends `Recommendation` too: the page's comparisons
and the engine's meet in one state. `SensorHistory` composes the page with `LiveReadings`, `Dashboard`
with `QuickControls`, `AirconForm` with `AirconPicker`, `MyPlaces` with `PlacesApi`. `MC...` modules
give the instances for TLC, `...Proofs` modules hold the theorems. An operator named `Faulty...` is a
variant with one plausible mistake; no specification uses it, it documents which bug the property of
the run would catch.

### What the abstractions leave out

- `DeviceHub`: payloads, other users. A second message type that the handler treats alike is the
  same action. Saving a reading is one step of the worker; only its write to the socket can disturb
  the hub. The registry lock is never held across a suspending await, so it is not a variable. The
  order of the waiters on the send lock is left open.
- `Gateway`: two boards are one stream of notifications of two kinds (`device_state`,
  `sensor_reading`); a notification and the `call_soon_threadsafe` call it schedules are one step.
- `ControlBoard`: time is two flags (interval over, re-advertising delay over) that may be set at
  any moment. The servo and its commands touch nothing the tasks share.
- `Recommendation`: titles, reasons and the savings estimate.
- `BackgroundControl`: one place, whose settings do not change while it runs; the climate stays
  what it was at first (`Days` gives the pairs of pattern and climate), so that whatever changes is
  the controls' doing. The hour's probability is one of three classes, which is all
  `predict_upcoming_transition()` and `resolve_occupancy_signal()` tell apart. Reading the override
  and the pattern is one step (`Predict`), since an acceptance in between is met by `Look`; the
  existing row and the preview of its action are read in one step. A page has one poll under way at
  a time. The popup's pause and its change of place are not modelled. Saving a reading is one step;
  the delays of its database calls lie in the task it starts. A command is carried out or lost;
  what the caller hears of it is independent of that (`closes`).
- all web modules: a handler and the effects React runs after it are one step; the part of a function
  after an `await` is another. Wording, layout and validation that only blocks a button are left out.
- `SignIn`: a user name stands for an account and for what is typed; what the server knows of
  accounts is not kept, so any answer it can give may come. A request is served and answered in one
  step, some time after it was sent.
- `AirconPicker`, `AirconForm`: one slot, since a place has one; three classes of what is typed.
- `QuickControls`: what the buttons show is not kept, only whether it is known and whether a command
  is under way.
- `Dashboard`: of a recommendation its place and whether there is anything to do. The poll each
  minute pins nothing.
- `LiveReadings`: one browser. Heartbeats and the device states on the same socket change nothing
  that is kept.
- `SensorHistory`: another place is selected only while the page is closed, as its own switch is not
  displayed. The three attempts of a read count as one.
- `PlacesApi`, `MyPlaces`: a handler of the server is one step; a place keeps the number of the last
  change of its data, of its units, and whether it is the default.
- `HistoryChart`: positions in hundredths of a pixel, rounded down; the width is fixed.
- `ReadingsView`: the thresholds do not change while the page is open. Averages, value axes and the
  export are left out.

## 3. Runs

| Run | Shows | Bounds |
|---|---|---|
| `hub_safety` | registry tables consistent, futures set once, live sockets stay, refinement of `CommandService` | 2 sockets (one replacement, in both orders), 2 commands (one evicts the other's entry), symmetric |
| `hub_liveness` | every request is answered, handlers of dead sockets end | 2 sockets, 1 command: requests do not wait for each other but for the send lock, which is left open |
| `gateway` | results kept, states superseded only by newer ones, nothing stuck | queue of 2 (full after two messages), 2 notifications per kind (old and new), delay cap 2, 1 command |
| `board` | reports catch up, advertising never with a link, seen links resume | 2 outstanding BLE events (a connection that comes and goes) |
| `background` | one task, one unattended execution, nothing expired offered | 2 tasks, 1 page, one transition, 3 days (arrival on a still and on a fresh day, departure), camera silent or present |
| `background_liveness` | the room settles, tasks end, stale popups close | 1 task, camera silent, 2 days |
| `signin` | the name that was checked is the one that is used; no screen hangs | 2 users, 1 session begun by the run and one at the start, 2 calls under way at once: a late answer and the request it meets |
| `aircon_form` | list and coordinates are those of what is on the screen | 2 terms, 3 queries (empty, an address as it is chosen, another text); any number of requests that differ |
| `dashboard` | a recommendation is decided once, card and buttons never hang | 2 places, the first with the device; 3 recommendations: one under way, one refused, one new |
| `history` | readings arrive with an honest badge; the error banner is earned | 1 place, 3 readings, a history limit of 2, so that merging cuts |
| `places` | lists and selection are the server's | 2 places at the start, 2 changes of 8 kinds one after the other, 2 reads under way |
| `readings_view` | page and engine agree; the chart's axis is in order | every room of the engine, both kinds of record; histories of up to 6 readings with any pauses below, at and above the limits of a long one, continued up to 16 readings by long pauses: none to eleven of them |

The bounds are small because each hazard needs few actors: two callers of one row, one replacement,
one failed write between two messages. One transition is enough for `background` because rows of
different transitions share nothing but the override, which only suppresses offers. A camera that
sees nobody (`empty`) is left out there for the number of states: with the pattern `empty` it takes
the same branches as a silent camera. In `readings_view` a history needs 9 readings for six long
pauses, where the marks begin to share the axis out, 11 for the seventh and 16 for the eleventh, where the room
of a mark's 30 pixels and of the gap between the lines end; only the longest pause follows the sixth
reading (`MaxVaried`). With eight marks, or eleven, TLC finds that room missing. `places` also passes with `MaxPending = 2` (4.0 million
states, 140 s); it is run with 1 because the property is about changes that do not cross, and the
theorem of section 6 covers the rest. In `history`
a second place adds nothing but the socket's change of address, which `SelectPlace` with no place
already covers.

The type invariants of the modules (`TypeOK`, and `ApiTypeOK`, `PickerTypeOK`, ... inside them) hold
in every instance; the hub's is in its run, and all of them are proved for every value of the
constants.

`CHECK_DEADLOCK FALSE` is set everywhere: commands, sockets, emissions, events and hours are
bounded, so each instance may run out of things to do; the systems would stop in the same way when
nobody uses them. That nothing waits for ever is what the liveness properties say.

## 4. Properties

Safety:

- *hub*: `PendingOnCurrent`, `NoWaiterForgotten`, `SuccessMeansExecuted`, `CurrentHasHandler`; as
  action properties `SettledOnce` and `LiveSocketKeepsRegistration`; the refinement `CommandPromise`;
- *gateway*: `ResultsKept`, `RefusedNeverDelivered`, `StatesSuperseded`, `ResultsNotEvicted`;
- *board*: `AdvertisesOnlyAlone`;
- *background*: `BackgroundOnce`, `ExpiredNeverOffered`, `OneTaskAtWork`;
- *sign-in*: `NameConfirmed`: neither a name typed after the check nor a late answer gets through;
- *form*: `ListMatchesTerm`, `CoordinatesMatchTab`, against answers in any order;
- *dashboard*: `DecidedOnce`: not sent twice, and not sent after a refusal;
- *places*: `ListsAreTrue`: what is read again and what is copied without reading both end with what
  the server has, unless something crossed them. `trust` is a history variable that says which list
  nothing has crossed; one of the three cases that break the list without crossing, the deletion
  of a default place that is not selected, is taken out by name (`Orphaned`, see finding 23);
- *readings page*: `ErrorIsEarned`; `ShownIsMeasured`, `DangerIsAnnounced`, `AdviceFitsTheAlerts`
  relate two independent pieces of code, in two languages; `ChartInOrder`, `LabelsApart` for the axis.

Liveness: `FairCommandPromise`, `DeadHandlersEnd`, `CommandsSettle`, `QueueDrains`,
`ReportCatchesUp`, `SeenLinkResumes`, `Settles`, `TasksEnd`, `StalePopupCloses`, `ButtonsComeBack`,
`CardSettles`, `ControlsComeBack`, `Freshness`.

Fairness, and why the code justifies it:

- *hub*: the event loop runs every ready task; a write or close ends because uvicorn pings the peer
  and drops a dead transport; `wait_for` has a deadline. Nothing makes a client connect, a user act
  or a device answer.
- *gateway*: the same for the sender, the session task and the sleep between sessions; a BLE write
  ends because the stack supervises the link. Nothing makes the server accept a session, so
  `QueueDrains` is about a session that stays up.
- *board*: both tasks are scheduled, intervals pass, and a gateway, which scans for ever, finds a
  board that advertises.
- *background*: every call of a worker thread ends, with an answer or an error, and so does a
  command (`COMMAND_RESULT_TIMEOUT_SECONDS`). A page polls every minute. Strong fairness of its
  `Predict` and `Look` says that not every poll meets a failing database; without it a popup could
  stay for ever, and weak fairness cannot say it because a failing poll disables these steps.
- *sign-in, dashboard*: a `fetch` is answered or fails, and a timer of the page that is open expires.
  Nothing makes the user click. A request that is no longer waited for need never be answered.
- *readings page*: timers expire, React runs the effect of a new reading, the server looks. Strong
  fairness of `Looked` and `Answered` says that not every one of the requests that are made again
  and again fails or is aborted. Nothing is assumed of the socket: it may stay silent for ever.

## 5. Where the code and its texts disagree

`PROJECT.json` lists these with their lines. The name in brackets is a property that states what
the text says and that the code breaks; it stands in its module and in no run. To see the
counterexample, put it in the place of the properties of the configuration named.

1. A command may be the first message of a new gateway connection (`FirstMessageIsConnected`,
   `MCDeviceHubSafety.cfg`).
2. A failed send swallows the broadcast of the disconnection (`DisconnectionShown`, same).
3. The gateway sends an older state after a newer one (`NewestShown`, `MCGateway.cfg` with
   `MaxQueue = 3`, so that it is the order and not the capacity that fails).
4. The reset of the reconnection delay is unreachable, GW 1318 (`SuccessResetsDelay`, `MCGateway.cfg`).
5. A link `loop()` never saw leaves the board without advertising (`LostLinkResumes`,
   `MCControlBoard.cfg`).
6. `setFan()` from two tasks may leave flag and relay opposite (`RelayFollowsFan`, same).
7. Popup and background task both execute one transition (`ExecutedOnce`, `MCBackgroundControl.cfg`).
8. Condition control undoes an accepted preparation (`AcceptedActionHolds`, same).
9. Predictions without a wording are offered (`OffersAreWorded`, same).
10. A lost command of the occupancy control is not tried again.
11. The preview takes a missing window sensor for a closed window.
12. Any failure while restoring a session logs the user out.
13. A late 401 for an ended session takes the token of the next one.
14. The address form says "searching" after a search was cancelled.
15. After an address that already stood in the field was chosen the next one typed is not searched.
16. A late answer pins the former place's recommendation, whose command then goes to the place
    selected (`CommandsStayHome`, `MCDashboard.cfg`).
17. A late answer hides the next recommendation's countdown and refusal; it is sent all the same.
18. A manual command makes a recommendation with nothing to do count as executed.
19. The quick controls ignore the HTTP record they fall back to while they hold a device state.
20. Readings stored while the socket is replaced are never fetched (`NothingSkipped`,
    `MCSensorHistory.cfg`, as a PROPERTY).
21. The first answer may replace newer readings (`NeverBack`, same).
22. The cache of places keeps a list read while a change was under way (`StaysGone`, `MCMyPlaces.cfg`).
23. Deleting a default place that is not selected leaves the page without one (`DefaultShown`, same).
24. Two deletions at once remove the last two places (`AlwaysAPlace`, same with `MaxPending = 2`).
25. The alert of an empty room and the engine disagree (`EmptyRoomAgrees`, `MCReadingsView.cfg`).
26. "Nothing to report" is shown next to advice to act (`AllClearIsClear`, same).
27. A danger may be cut from the list of alerts (`DangerNotCut`, same).

Smaller ones met while reading, not in `PROJECT.json`:

- *server*: rows 1c and 4 of `RECOMMENDATION_LOGIC.md` omit the empty-room and the AUTO condition;
  the comment at RD 548 speaks of up to 8 s where `device_connection_hub.py` waits less; the preview
  ignores the place's own hot threshold.
- *sign-in*: a 401 on the dashboard does not leave it; the link for a forgotten password is not
  disabled during a login, so two can be under way; `Back` is not disabled while a place is saved;
  logging out twice can end the next user's session; a late answer to a change of nickname brings
  back a user who has logged out; the cache of places survives a logout for two seconds.
- *form*: the popover's position request keeps its id when the popover closes.
- *my page*: the late answer for one place closes the popover or edit opened for another; saving
  coordinates does not clear the address shown; making a place that is being deleted the default
  selects a place that is gone; a read of the air conditioners has no guard against an older one.
- *readings page*: normalising a reading twice is not the same as once; aborting the first load clears
  the loading flag of the next; with more than seven long pauses the mark of each, 30 pixels wide, is
  wider than its share of the axis, and with more than ten the lines beside it run backward.
- *dashboard*: the effect of a new reading overwrites a newer device state; an answer for the former
  place is taken for the present one; its `finally` clears a newer command's flag.

## 6. Proofs

TLAPS checks every theorem for all values of the constants, from the named assumptions only:
`NoneAssumption` (`DeviceHub`; another in `Gateway`: None is not a message), `BoundsAssumption`
(`Gateway`), `BackgroundAssumption` (`BackgroundControl`), `PickerAssumption`, `FormAssumption` (the
form), `MaxEventsAssumption` (`ControlBoard`), `PlacesAssumption` (`PlacesApi`), `SignInAssumption`,
`ControlsAssumption` (`QuickControls`), `DashboardAssumption`, `LiveReadingsAssumption`,
`HistoryAssumption` and `ViewAssumption`. They say that model values differ, that bounds are numbers
and inputs of their types. `DashboardAssumption` bounds the recommendations by at least two, because
the first load always pins one more than the page begins with. The proofs use SMT and Zenon, and LS4
for the last, temporal step. A module of proofs may be about more than one component: `AccountPagesProofs`
is about `SignIn` and `MyPlaces`, `ReadingsPageProofs` about `SensorHistory` and `ReadingsView`,
`BackgroundControlProofs` about the engine and its user. Every type invariant and every safety
property of the runs is a theorem. Some theorems state more than a run does: what lies behind a
liveness property and is safety (`LinkEndsAreTold`, `CardIsHeld`, `ControlsAreHeld`,
`AnswersAreAwaited`) and what the readings page may show (`OnlyTheStored`, `NewestGoesOn`). TLC
checked these, and their inductive invariants, on the instances of the runs before they were proved.

**`DeviceHubProofs`.** `HubInv` is inductive. What the runs check is not inductive alone:
`NoWaiterForgotten` rests on every entry belonging to the registered connection
(`PendingOnCurrent`), and `SuccessMeansExecuted` on futures saying "ok" only of executed commands
(`OkInv`) and on what each phase of a call knows of itself (`CallInv`). From it follow
`HubTypes`, `EntriesBelongToTheConnection`, `WaitersAreAnswered`, `SuccessIsReal`,
`RegistrationIsOwned`, `FuturesAreSetOnce`, `LiveSocketStays`, and the safety refinement `HubImplementsCommandService`: each
step of the hub is a step of `CommandService` or changes nothing there.

**`GatewayProofs`.** `TypeCorrect` comes first: the session's tasks, the sender's hands and the queue,
which never outgrows its capacity. `ResultsAreKept` rests on how messages move: a step puts at most
one message into the queue, which accepts or refuses it, and a session that breaks puts the message
in hand back. A result once held is held, sent or refused for good (`Flow`), and a command becomes
answered or replied to only in the step that hands its result to the queue. `RefusalsAreTrue` is not
inductive: a refusal in the queue says nothing of what the board does next. `RefusedInv` adds that a
command that is still unsent, or being refused, has not been delivered, and that one whose refusal
is queued or sent is over. `StatesAreSuperseded` and `ResultsStay` are action properties: an
enqueue evicts only what has the key of a state message, and what it evicts is older than what comes.
The queue is filtered with `Kept`, which says which positions stay in which order, since the provers
know nothing of `SelectSeq`.

**`BackgroundControlProofs`, the engine.** Facts about the engine for every room: it always returns a
known action (`ActionIsKnown`), a recommended command always changes a device
(`CommandsChangeSomething`), an air conditioner that is off in an empty room stays off
(`EmptyRoomStaysOff`), no recommendation undoes the one before it (`NoFlipBack`), and following it
twice settles any room (`SettlesInTwo`). The lemma `Decision` states why each command is given; the
theorems follow because the reasons for opposite commands exclude each other. They are what makes
`Settles` true, which itself is only model-checked.

**`BackgroundControlProofs`, its user.** `ControlInv` is inductive, for any number of tasks, pages and
hours. `BackgroundOnce` needs three facts: a decided row never becomes PENDING again (`RowsStep`),
one task is at work at a time (`TasksStep`, which needs that a task does one thing after the other),
and the task at work saw the row PENDING before anything was carried out for it (`Unrepeated`). From
it follow `ControlTypes`, `AtMostOneTask`, `NothingExpiredIsOffered` and `UnattendedOnce`.

**`AirconFormProofs`.** `FormInv` is inductive, for any terms, queries and addresses and any number of
answers under way. The two properties are not: `ListMatchesTerm` needs that a listing that still
counts was asked for the term on the screen, and that none counts while the 250 ms timer is armed
(`ListingInv`); `CoordinatesMatchTab` needs that at most one position counts, and only while its tab is
on the screen (`PositionInv`). From it follow `FormTypes`, `ListIsForTheTerm` and
`CoordinatesAreOfTheTab`.

**`ControlBoardProofs`.** `BoardInv` is the type invariant with `LinkInv`, which says where a link
stands: which of its two callbacks are still queued, and what `bleConnected` and `wasBleConnected`
are by then. `loop()` advertises when the first is false and the second true; `AdvertisesOnlyAlone`
holds because this happens only after `onDisconnect()`, never while an `onConnect()` is queued. The
tests and the call are steps apart; what was tested stays so, as nobody can connect before the call. From
it follow `BoardTypes` and `AdvertisingIsAlone`, for a queue of callbacks of any length, and
`LinkEndsAreTold`: a board that takes itself for connected without a link still has its
`onDisconnect()` to come, which is what `SeenLinkResumes` needs beside fairness.

**`DashboardProofs`.** `CardInv`: the key pinned is never behind the keys the card has handled and sent
(`KeysInv`), what is not handled is not decided (`DecidedInv`), and a countdown that runs is for the
key pinned, handled but not decided (`CountdownInv`). `OnceDecided` follows. `DashboardTypes` needs
that whatever may still pin a recommendation is counted against the bound (`BoundInv`), and that
the card has settled nothing while no place is selected (`NothingYet`): the counting is why an answer
that comes late never finds the model out of keys. `CardIsHeld` and `ControlsAreHeld` say that card
and buttons wait only for something that is under way: a started card offers its button, counts
down, or has a command out; disabled buttons have a command out, and "checking" has a read of the
place selected. They are the safety half of `CardSettles` and `ControlsComeBack`; `WaitInv` adds that
the card settles every key it handles and has handled the one pinned.

**`AccountPagesProofs`, signing up.** `NameInv` adds to `NameConfirmed` that "available" on the screen
is said of a name the server has called available (`CheckInv`), which a late answer could break. It
gives `SignupNameIsConfirmed`, for any users, sessions and number of calls under way.

**`AccountPagesProofs`, waiting.** `AnswersAreAwaited`: a button is disabled exactly while one call of
the mounted page is under way, "loading" is shown exactly while a session is restored and nothing
else is under way then, and a name is "checking" only while the server is asked about it. This is
the safety half of `ButtonsComeBack`. It is not inductive: a late answer could take the button of the
page shown for its own, or show that page anew and forget its call. `OnScreen` adds that a call which
still counts was made on the screen that is shown; `ShowAwaits` proves that no step shows the screen
such a call was made on. `SignInTypes` is part of the same invariant.

**`AccountPagesProofs`, places.** `PlacesTypes` is the type invariant, for any number of changes, of
changes under way and of reads; it adds to `PlacesTypeOK` that a read is a record of three fields.
`ListsAreTrue` speaks of quiet moments only; `TrustInv` says of every moment what will have become of
a list by then. While a trusted list waits for a read, no change is under way and what that read
saw, if it has looked, is the table as it is (`Fresh`). Otherwise the list shows the table, or the
one change under way is applied and its answer will copy into the list what the server has by now,
or have it read again (`Soon`); a deletion under way that copies without reading is of a place that
is neither selected nor the default, which is where `Orphaned` enters. A trusted cache is empty or the
table, and every read under way is fresh (`CacheInv`): so a read that is joined is as good as one
that is begun. `AskFacts` is the step they share, for whoever asks. `AfterFacts` relates each
operation of the server (`WithNew`, `Without`, `WithMain`, ...) to what the page copies, and
`OldestFacts` (a set of numbers that is not empty has a least one) gives the heir of a default place and the place
selected when the selected one is gone. TLC checked `TrustInv` with two changes under way before
it was proved. `ShownPlacesAreTrue` follows.

**`ReadingsPageProofs`, fetching.** `CountInv`: the failures the page counts are those since it last
heard anything, and the banner stands only at the limit; `BannerIsEarned` follows. `HistoryInv` says
where readings may be: the server has sent no more than it stored, the socket and the provider hold
only what was sent for the place selected (`SentInv`); what is shown is stored of that place, and
`newest` is the newest of it (`ShownInv`); a request under way is the open page's, for the same place
(`AskedInv`). It gives `HistoryTypes`, `OnlyTheStored` and the action property `NewestGoesOn`: while
the page stays open on a place, what it shows goes back in no way but by the answer to a request for
everything. Finding 21 is that one way. `MergedFacts` states what merging and cutting to the limit
leaves: the newest of both.

**`ReadingsPageProofs`, what is shown.** `OnlyTheMeasured`, `DangerAnnounced` and `AdviceAndAlerts` hold
for every room, connection and history: they unfold the page's comparisons next to the engine's.
`DangerAnnounced` needs that the list cut after five is either the whole list or five long, which
`FirstFew` proves of any finite set of positions.

**`ReadingsPageProofs`, the axis.** `AxisInOrder` and `LabelsNeverOverlap` are for histories of any length
and any pauses. The positions are sums over the clusters of readings; what a sum is at each cluster
is shown by induction, here as an argument by the least counterexample (`Inductive`), because the
library's induction theorems take an operator. A cluster's width is its share of the room, rounded
down, so that all of them together fit, and whatever is no wider than the share of a pause has room
about its middle (`MarksFit`). So every pause is marked between the readings around it. What the page
draws there has a fixed width, though: a mark of 30 pixels (`MarkHalfWidth`), which the share
holds for up to seven long pauses, and a gap of 22 between the lines (`LineHalfWidth`), which it holds
for up to ten (`BreakFacts`). `ChartInOrder` states each up to its number. The labels are chosen from left to right (`FromLeft`), each as far from the one before as a
label is wide; the newest reading takes the place of a label too close to it, and is then as far from
the label before that one (`LabelsSpaced`).

Only model-checked: all liveness, since the prover has no fairness or ENABLED. What a run finds
violated by the code (section 5) is in no theorem.

## 7. Not modelled

Badges (counts over stored rows), weather services and unit conversions, the MQTT path (off by
default), start-up and timing code, the tariff's arithmetic, the numerical training of occupancy
patterns, development tools, and the cards and forms of the web pages with one request each
(environment card, manual input, badges, tutorial): they keep no state that outlives the request.

Hazards this code has that no module reaches yet, beyond the four that `PROJECT.json` lists without
a property:

- a replaced socket's buffered `device_state` is still received and cached (RR 383);
- the disconnection callback of a board's old BLE client can come after its task has connected again
  (GW 606); a lost chunk leaves a hole in a camera frame (GW 762);
- a reading that arrives while another is saved replaces the one that waits (RR 51);
- the login limiter checks and records a failure apart (`rate_limit.py` 109);
- two first places created at once both become the default (`places_router.py` 115);
- the savings cache's nested loads under per-key locks (`savings.py` 91).

## 8. Plan

Done: `DeviceHub` with `CommandService`, `Gateway`, `ControlBoard`, `Recommendation`,
`BackgroundControl`, the web pages' modules, and the proofs above. Next, in this order:

1. `ReadingFanOut`: the one-slot worker, the save for every place, partial failure, the tasks it
   starts. Properties: the newest reading is stored, a failure of one place leaves the others'.
2. The server's places call by call: creation with rollback, deletion, default.
3. `Accounts`: session cache and limiter.
4. `CameraLink` and `BoardSnapshots`: chunks, frame numbers, reassembly; the two BLE tasks and the
   join of their snapshots.
5. `SavingsCache`: per-key locks and nested loads.
6. Composition: `BackgroundControl` over `CommandService`, so that a command's answer comes from the
   promise the hub is proved to keep, and `Gateway` with `DeviceHub` over one socket.
7. Proofs: the safety behind the liveness of `Gateway` and `BackgroundControl` (what keeps the step
   enabled that must be taken), as is done for the board, the dashboard and the sign-in.
