------------------------------- MODULE SignIn -------------------------------
(***************************************************************************)
(* The screens of the web page around the dashboard (FlowApp.jsx), the     *)
(* session token in localStorage (api.js), the account requests            *)
(* (authApi.js) and the account windows of my page (MyPage.jsx).           *)
(*                                                                         *)
(* Every request is a call under way; it is served and answered in one     *)
(* step, later, and the continuation finds what has happened meanwhile.    *)
(* A call remembers the token it carries, and whether the page that sent   *)
(* it is still mounted: only then its local state is touched.  A call      *)
(* without a token fails before it is sent, here: some time later.         *)
(* A user name stands for the account and for what is typed; what the      *)
(* server knows of accounts is not kept: any answer it may give may come.  *)
(***************************************************************************)
EXTENDS Naturals, FiniteSets

CONSTANTS
    Users, NoUser,
    MaxSessions,      \* bound: sessions that are valid or remembered
    MaxCalls          \* bound: calls under way at once

ASSUME SignInAssumption ==
    NoUser \notin Users /\ MaxSessions \in Nat \ {0} /\ MaxCalls \in Nat \ {0}

VARIABLES
    screen,
    user,             \* currentUser
    token,            \* the stored session, 0: none
    sessions,         \* the server: whose session each valid token is
    slot,             \* registeredAircons[0] has an air conditioner
    pending,          \* pendingSignup
    name,             \* signupData.username
    confirmed,        \* history: names called available for this signup
    check,            \* usernameCheck
    recovered,        \* the user a recovery token was given for
    modal,            \* activeModal of my page
    submitting,       \* isSubmitting (isSaving) of the page that is mounted
    calls

account == <<user, token, sessions>>
signup  == <<slot, pending, name, confirmed>>
local   == <<check, recovered, modal, submitting>>
vars    == <<screen, account, signup, local, calls>>

Screens  == {"loading", "login", "forgot", "signup", "aircon", "dashboard"}
Modals   == {"nickname", "security", "delete"}    \* password, recovery: alike
Names    == Users \cup {NoUser}
Sessions == 1..MaxSessions
Ops == {"me", "places", "login", "loginPlaces", "check", "verify", "reset",
        "complete", "create", "logout", "poll"} \cup Modals
Call   == [op : Ops, who : Names, with : 0..MaxSessions, here : BOOLEAN]
Checks == [status : {"idle", "checking", "available", "taken", "error"},
           name : Names]
Unchecked == [status |-> "idle", name |-> NoUser]

TypeOK ==
    /\ screen \in Screens
    /\ {user, pending, name, recovered} \cup confirmed \subseteq Names
    /\ token \in 0..MaxSessions /\ sessions \in [Sessions -> Names]
    /\ {slot, submitting} \subseteq BOOLEAN
    /\ check \in Checks /\ modal \in Modals \cup {"none"}
    /\ calls \subseteq Call

----------------------------------------------------------------------------
(* Calls and screens *)

New(op, who) == [op |-> op, who |-> who, with |-> token, here |-> TRUE]

Send(op, who) ==
    /\ Cardinality(calls) < MaxCalls
    /\ New(op, who) \notin calls
    /\ calls' = calls \cup {New(op, who)}

\* setScreen(s) when the calls done are over: another screen mounts a page
\* with fresh state, the same screen keeps the page and what it waits for.
Show(s, done) ==
    /\ screen' = s
    /\ calls' = {[c EXCEPT !.here = @ /\ s = screen] : c \in calls \ done}
    /\ IF s = screen
         THEN /\ submitting' = (submitting /\ \A c \in done : ~c.here)
              /\ UNCHANGED <<check, recovered, modal>>
         ELSE /\ check' = Unchecked /\ recovered' = NoUser
              /\ modal' = "none" /\ submitting' = FALSE

\* The dashboard if fetchMyPlaces() finds a place, its registration if not.
\* Which is left open: what the server holds is not kept here, and the list
\* kept for two seconds may be another account's (see MyPlaces).
Home == {"dashboard", "aircon"}

\* restoreSession(): on the first render a stored token is tried.
Init ==
    /\ \E old \in {0, 1}, u \in Users, valid \in BOOLEAN :
         /\ token = old
         /\ screen = IF old = 0 THEN "login" ELSE "loading"
         /\ calls = IF old = 0 THEN {} ELSE {New("me", u)}
         /\ sessions = [s \in Sessions |-> IF valid /\ s = old THEN u ELSE NoUser]
    /\ user = NoUser /\ pending = NoUser /\ name = NoUser /\ slot = FALSE
    /\ check = Unchecked /\ recovered = NoUser /\ modal = "none"
    /\ submitting = FALSE /\ confirmed = {}

----------------------------------------------------------------------------
(* Tokens *)

Valid(c) == c.with # 0 /\ sessions[c.with] # NoUser

\* A number stands for a token that nobody holds any more.
Unused == {s \in Sessions : /\ sessions[s] = NoUser /\ s # token
                            /\ \A c \in calls : c.with # s}
NewSession == CHOOSE s \in Unused : \A t \in Unused : s =< t

\* A login: the server opens a session, saveAuthToken() stores its token.
Opens(u) ==
    /\ Unused # {}
    /\ sessions' = [sessions EXCEPT ![NewSession] = u]
    /\ token' = NewSession

Ended(u) == [s \in Sessions |-> IF sessions[s] = u THEN NoUser ELSE sessions[s]]

\* request(): an answer that says the session is not valid clears the stored
\* token, whichever it is by now; any other failure leaves it.
TokenAfterFailure(c) ==
    IF c.with = 0 \/ Valid(c) THEN {token} ELSE {0, token}

SessionExpires(s) ==
    /\ sessions[s] # NoUser
    /\ sessions' = [sessions EXCEPT ![s] = NoUser]
    /\ UNCHANGED <<screen, user, token, signup, local, calls>>

----------------------------------------------------------------------------
(* restoreSession() *)

MeAnswered(c) ==
    /\ c \in calls /\ c.op = "me" /\ Valid(c)
    /\ calls' = (calls \ {c}) \cup {New("places", c.who)}
    /\ UNCHANGED <<screen, account, signup, local>>

Restored(c, s) ==
    /\ c \in calls /\ c.op = "places" /\ Valid(c)
    /\ user' = c.who
    /\ Show(s, {c})
    /\ UNCHANGED <<token, sessions, signup>>

\* Any error, whatever it says of the session.
RestoreFails(c) ==
    /\ c \in calls /\ c.op \in {"me", "places"}
    /\ token' = 0
    /\ Show("login", {c})
    /\ UNCHANGED <<user, sessions, signup>>

----------------------------------------------------------------------------
(* LoginPage and handleLogin() *)

\* A form that waits for its answer disables its button.
Submit(op, who) ==
    /\ ~submitting /\ submitting' = TRUE
    /\ Send(op, who)
    /\ UNCHANGED <<screen, account, signup, check, recovered, modal>>

SubmitLogin(u) == screen = "login" /\ Submit("login", u)

LoggedIn(c) ==
    /\ c \in calls /\ c.op = "login"
    /\ Opens(c.who)
    /\ calls' = (calls \ {c})
                  \cup {[c EXCEPT !.op = "loginPlaces", !.with = NewSession]}
    /\ UNCHANGED <<screen, user, signup, local>>

LoginCompleted(c, s) ==
    /\ c \in calls /\ c.op = "loginPlaces"
    /\ user' = c.who /\ slot' = FALSE
    /\ Show(s, {c})
    /\ UNCHANGED <<token, sessions, pending, name, confirmed>>

\* The link is not disabled while a login is under way; the buttons are.
ForgotPassword ==
    /\ screen = "login"
    /\ Show("forgot", {}) /\ UNCHANGED <<account, signup>>

StartSignup ==
    /\ screen = "login" /\ ~submitting
    /\ pending' = NoUser /\ name' = NoUser /\ slot' = FALSE /\ confirmed' = {}
    /\ Show("signup", {}) /\ UNCHANGED account

----------------------------------------------------------------------------
(* ForgotPasswordPage *)

SubmitRecovery(u) ==
    screen = "forgot" /\ recovered = NoUser /\ Submit("verify", u)

Verified(c) ==
    /\ c \in calls /\ c.op = "verify"
    /\ calls' = calls \ {c}
    /\ recovered' = IF c.here THEN c.who ELSE recovered
    /\ submitting' = (submitting /\ ~c.here)
    /\ UNCHANGED <<screen, account, signup, check, modal>>

SubmitReset ==
    screen = "forgot" /\ recovered # NoUser /\ Submit("reset", recovered)

\* The server ends the user's sessions.  onComplete() shows the login page,
\* even when a login under way has shown another screen meanwhile.
PasswordReset(c) ==
    /\ c \in calls /\ c.op = "reset"
    /\ sessions' = Ended(c.who)
    /\ Show("login", {c})
    /\ UNCHANGED <<user, token, signup>>

BackFromRecovery ==
    /\ screen = "forgot" /\ ~submitting
    /\ Show("login", {}) /\ UNCHANGED <<account, signup>>

----------------------------------------------------------------------------
(* SignupPage *)

TypeName(n) ==
    /\ screen = "signup" /\ n # name
    /\ name' = n /\ check' = Unchecked
    /\ UNCHANGED <<screen, account, slot, pending, confirmed, recovered, modal,
                   submitting, calls>>

CheckName ==
    /\ screen = "signup" /\ name # NoUser /\ check.status # "checking"
    /\ Send("check", name)
    /\ check' = [status |-> "checking", name |-> name]
    /\ UNCHANGED <<screen, account, signup, recovered, modal, submitting>>

\* The answer replaces usernameCheck, whatever is typed or checked by now.
NameChecked(c, status) ==
    /\ c \in calls /\ c.op = "check"
    /\ calls' = calls \ {c}
    /\ confirmed' = IF status = "available" THEN confirmed \cup {c.who} ELSE confirmed
    /\ check' = IF c.here THEN [status |-> status, name |-> c.who] ELSE check
    /\ UNCHANGED <<screen, account, slot, pending, name, recovered, modal,
                   submitting>>

\* isUsernameAvailable: what was checked is what is typed now.
FaultyIsUsernameAvailable == check.status = "available"
IsUsernameAvailable == check.status = "available" /\ check.name = name

\* handleSubmit() and handleSignup(): the account is not created yet.
SubmitSignup ==
    /\ screen = "signup" /\ name # NoUser /\ IsUsernameAvailable
    /\ slot' = (slot /\ pending # NoUser)
    /\ pending' = name
    /\ Show("aircon", {})
    /\ UNCHANGED <<account, name, confirmed>>

BackFromSignup ==
    /\ screen = "signup"
    /\ pending' = NoUser
    /\ Show("login", {}) /\ UNCHANGED <<account, slot, name, confirmed>>

----------------------------------------------------------------------------
(* AirconPage as the second step of signing up, or after a login *)

\* The window of AirconPage has filled the slot (see AirconForm).
ChooseAircon ==
    /\ screen = "aircon" /\ ~slot
    /\ slot' = TRUE
    /\ UNCHANGED <<screen, account, pending, name, confirmed, local, calls>>

\* handleComplete() of the page and handleAirconComplete().
SubmitAircon ==
    /\ screen = "aircon" /\ slot
    /\ IF pending # NoUser THEN Submit("complete", pending)
                           ELSE Submit("create", user)

\* completeSignup(): account, place and air conditioner at once.
SignedUp(c) ==
    /\ c \in calls /\ c.op = "complete"
    /\ Opens(c.who) /\ user' = c.who /\ pending' = NoUser
    /\ Show("dashboard", {c})
    /\ UNCHANGED <<slot, name, confirmed>>

PlaceCreated(c) ==
    /\ c \in calls /\ c.op = "create" /\ Valid(c)
    /\ Show("dashboard", {c})
    /\ UNCHANGED <<account, signup>>

\* Not disabled while the registration is being saved.
BackFromAircon ==
    /\ screen = "aircon" /\ UNCHANGED <<account, signup>>
    /\ \/ pending # NoUser /\ Show("signup", {})
       \/ pending = NoUser /\ Send("logout", user) /\ UNCHANGED <<screen, local>>

----------------------------------------------------------------------------
(* The dashboard: logging out, requests of its own, the account windows *)

Logout ==
    /\ screen = "dashboard" /\ modal = "none"
    /\ Send("logout", user)
    /\ UNCHANGED <<screen, account, signup, local>>

\* Both finally blocks: the stored token goes, the login page comes, whether
\* the server has answered, has ended the session before, or neither.
LoggedOut(c, reached) ==
    /\ c \in calls /\ c.op = "logout"
    /\ sessions' = IF reached /\ Valid(c)
                     THEN [sessions EXCEPT ![c.with] = NoUser] ELSE sessions
    /\ token' = 0
    /\ user' = NoUser /\ pending' = NoUser /\ slot' = FALSE
    /\ Show("login", {c})
    /\ UNCHANGED <<name, confirmed>>

Poll ==
    /\ screen = "dashboard"
    /\ Send("poll", user)
    /\ UNCHANGED <<screen, account, signup, local>>

PollAnswered(c) ==
    /\ c \in calls /\ c.op = "poll"
    /\ calls' = calls \ {c}
    /\ token' \in TokenAfterFailure(c)
    /\ UNCHANGED <<screen, user, sessions, signup, local>>

OpenModal(m) ==
    /\ screen = "dashboard" /\ modal = "none" /\ ~submitting
    /\ modal' = m
    /\ UNCHANGED <<screen, account, signup, check, recovered, submitting, calls>>

CloseModal ==
    /\ modal # "none" /\ ~submitting
    /\ modal' = "none"
    /\ UNCHANGED <<screen, account, signup, check, recovered, submitting, calls>>

SubmitModal == modal # "none" /\ Submit(modal, user)

\* A new nickname comes with the account, which replaces the user shown.
ModalSaved(c) ==
    /\ c \in calls /\ c.op \in Modals \ {"delete"} /\ Valid(c)
    /\ calls' = calls \ {c}
    /\ user' = IF c.op = "nickname" THEN sessions[c.with] ELSE user
    /\ modal' = IF c.here THEN "none" ELSE modal
    /\ submitting' = (submitting /\ ~c.here)
    /\ UNCHANGED <<screen, token, sessions, signup, check, recovered>>

AccountDeleted(c) ==
    /\ c \in calls /\ c.op = "delete" /\ Valid(c)
    /\ sessions' = Ended(sessions[c.with])
    /\ token' = 0 /\ user' = NoUser /\ pending' = NoUser /\ slot' = FALSE
    /\ Show("login", {c})
    /\ UNCHANGED <<name, confirmed>>

----------------------------------------------------------------------------
\* The other calls that fail: a message, and the button comes back.
Alerted == {"login", "loginPlaces", "verify", "reset", "complete", "create"}
             \cup Modals
NeedsSession == {"loginPlaces", "create"} \cup Modals

FaultyButtonAfter(c) == submitting /\ (c.op = "loginPlaces" \/ ~c.here)
ButtonAfter(c) == submitting /\ ~c.here

CallFails(c) ==
    /\ c \in calls /\ c.op \in Alerted
    /\ calls' = calls \ {c}
    /\ submitting' = ButtonAfter(c)
    /\ token' \in IF c.op \in NeedsSession THEN TokenAfterFailure(c) ELSE {token}
    /\ UNCHANGED <<screen, user, sessions, signup, check, recovered, modal>>

Answer(c) ==
    \/ MeAnswered(c) \/ RestoreFails(c)
    \/ \E s \in Home : Restored(c, s) \/ LoginCompleted(c, s)
    \/ LoggedIn(c) \/ SignedUp(c) \/ Verified(c) \/ PasswordReset(c)
    \/ \E a \in {"available", "taken", "error"} : NameChecked(c, a)
    \/ \E reached \in BOOLEAN : LoggedOut(c, reached)
    \/ PlaceCreated(c) \/ PollAnswered(c)
    \/ ModalSaved(c) \/ AccountDeleted(c) \/ CallFails(c)

Click ==
    \/ \E u \in Users : SubmitLogin(u) \/ SubmitRecovery(u)
    \/ \E n \in Names : TypeName(n)
    \/ ForgotPassword \/ StartSignup \/ SubmitReset \/ BackFromRecovery
    \/ CheckName \/ SubmitSignup \/ BackFromSignup
    \/ ChooseAircon \/ SubmitAircon \/ BackFromAircon
    \/ Logout \/ Poll \/ \E m \in Modals : OpenModal(m)
    \/ CloseModal \/ SubmitModal

Next == \/ \E c \in calls : Answer(c)
        \/ Click
        \/ \E s \in Sessions : SessionExpires(s)

\* fetch() settles some time, so every call is answered or fails; nobody has
\* to click, and the server may always fail.  The call a page waits for is
\* not starved by its polls.
Waited == {"me", "places"} \cup Alerted
Fairness == WF_vars(\E c \in calls : c.here /\ c.op \in Waited /\ Answer(c))
Spec == Init /\ [][Next]_vars /\ Fairness

----------------------------------------------------------------------------
(* Properties *)

\* The account that is about to be created has the very name the server has
\* called available for this signup: neither a name typed after the check nor
\* the late answer for an earlier name gets through (FlowApp.jsx:386-440).
NameConfirmed == pending # NoUser => pending \in confirmed

\* No button stays disabled and no screen stays "loading": whatever fails and
\* whatever else is clicked meanwhile, the page that waits for an answer goes
\* on or gives way to another (the finally blocks of the pages).
ButtonsComeBack == /\ submitting ~> ~submitting
                   /\ screen = "loading" ~> screen # "loading"
=============================================================================
