--------------------------- MODULE AccountPagesProofs ---------------------------
(***************************************************************************)
(* The pages around the dashboard, for any users, sessions, places and     *)
(* number of calls under way.                                              *)
(*                                                                         *)
(* SignIn: the account that is about to be created has a name the server   *)
(* has called available.  What the page says of a name is true of the name *)
(* it is about, whichever is typed by now; the names that were confirmed   *)
(* are forgotten only with the account that waits for one.  And a page     *)
(* that waits, waits for one call, which is under way: the page that made  *)
(* it is still mounted, so its screen is shown (OnScreen), and no call of  *)
(* a mounted page shows that very screen again (ShowAwaits).               *)
(*                                                                         *)
(* MyPlaces: what is shown of the places is what the server has, whenever  *)
(* nothing is under way and no change has crossed another request.  The    *)
(* invariant says it also of the time between: which read will repair a    *)
(* list, and what the answer of a change will make of it (TrustInv).       *)
(***************************************************************************)
EXTENDS SignIn, MyPlaces, NaturalsInduction, WellFoundedInduction, FiniteSetTheorems, TLAPS

(* Signing up *)

CheckInv == check.status = "available" => check.name \in confirmed

NameInv == NameConfirmed /\ CheckInv

\* All that the invariant is about.
Named == <<pending, confirmed, check>>

----------------------------------------------------------------------------
LEMMA NamesUntouched ==
    ASSUME NameInv, UNCHANGED Named
    PROVE  NameInv'
  BY DEF NameInv, NameConfirmed, CheckInv, Named

(* A screen that comes up has checked no name.                             *)
LEMMA ShowKeepsCheck ==
    ASSUME NEW s, NEW done, Show(s, done)
    PROVE  check' \in {check, Unchecked}
  BY DEF Show, local

LEMMA ShowKeepsNames ==
    ASSUME NameInv, NEW s, NEW done, Show(s, done),
           pending' \in {pending, NoUser}, confirmed' = confirmed
    PROVE  NameInv'
  BY ShowKeepsCheck DEF NameInv, NameConfirmed, CheckInv, Unchecked

LEMMA SubmitKeepsNames ==
    ASSUME NameInv, NEW op, NEW who, Submit(op, who)
    PROVE  NameInv'
  BY NamesUntouched DEF Submit, signup, Named

----------------------------------------------------------------------------
(* Signing up *)

LEMMA StartKeepsNames ==
    ASSUME NameInv, StartSignup
    PROVE  NameInv'
<1>1. check' = Unchecked
  BY DEF StartSignup, Show
<1> QED BY <1>1 DEF StartSignup, NameInv, NameConfirmed, CheckInv, Unchecked

LEMMA TypingKeepsNames ==
    ASSUME NameInv, TypeName(NoUser) \/ (\E n \in Names : TypeName(n)) \/ CheckName
    PROVE  NameInv'
  BY DEF TypeName, CheckName, signup, NameInv, NameConfirmed, CheckInv, Unchecked

LEMMA AnswerKeepsNames ==
    ASSUME NameInv, NEW c, NEW status, NameChecked(c, status)
    PROVE  NameInv'
<1>1. pending' = pending /\ confirmed \subseteq confirmed'
  BY DEF NameChecked
<1>2. check' \in {check, [status |-> status, name |-> c.who]}
  BY DEF NameChecked
<1>3. status = "available" => c.who \in confirmed'
  BY DEF NameChecked
<1> QED BY <1>1, <1>2, <1>3 DEF NameInv, NameConfirmed, CheckInv

\* The name that goes on is the one that is typed, and the one that was checked.
LEMMA NamePassesOn ==
    ASSUME NameInv, SubmitSignup
    PROVE  NameInv'
<1>1. name \in confirmed
  BY DEF SubmitSignup, IsUsernameAvailable, NameInv, CheckInv
<1>2. check' \in {check, Unchecked} /\ pending' = name /\ confirmed' = confirmed
  BY ShowKeepsCheck DEF SubmitSignup
<1> QED BY <1>1, <1>2 DEF NameInv, NameConfirmed, CheckInv, Unchecked

----------------------------------------------------------------------------
(* The other steps *)

LEMMA ClickKeepsNames ==
    ASSUME NameInv, Click
    PROVE  NameInv'
<1> USE DEF account, signup, local
<1>1. CASE \E u \in Users : SubmitLogin(u) \/ SubmitRecovery(u)
  BY <1>1, SubmitKeepsNames DEF SubmitLogin, SubmitRecovery
<1>2. CASE (\E n \in Names : TypeName(n)) \/ CheckName
  BY <1>2, TypingKeepsNames
<1>3. CASE ForgotPassword \/ BackFromRecovery
  BY <1>3, ShowKeepsNames DEF ForgotPassword, BackFromRecovery
<1>4. CASE StartSignup
  BY <1>4, StartKeepsNames
<1>5. CASE SubmitReset \/ SubmitModal \/ SubmitAircon
  BY <1>5, SubmitKeepsNames DEF SubmitReset, SubmitModal, SubmitAircon
<1>6. CASE SubmitSignup
  BY <1>6, NamePassesOn
<1>7. CASE BackFromSignup
  BY <1>7, ShowKeepsNames DEF BackFromSignup
<1>8. CASE BackFromAircon
  <2>1. CASE \E s \in Screens : Show(s, {})
    BY <1>8, <2>1, ShowKeepsNames DEF BackFromAircon
  <2>2. CASE UNCHANGED local
    BY <1>8, <2>2, NamesUntouched DEF BackFromAircon, Named
  <2> QED BY <1>8, <2>1, <2>2 DEF BackFromAircon, Screens
<1>9. CASE ChooseAircon \/ Logout \/ Poll \/ CloseModal \/ \E m \in Modals : OpenModal(m)
  BY <1>9, NamesUntouched DEF ChooseAircon, Logout, Poll, CloseModal, OpenModal, Named
<1> QED BY <1>1, <1>2, <1>3, <1>4, <1>5, <1>6, <1>7, <1>8, <1>9 DEF Click

LEMMA AnyAnswerKeepsNames ==
    ASSUME NameInv, NEW c, Answer(c)
    PROVE  NameInv'
<1> USE DEF account, signup, local
<1>1. CASE MeAnswered(c) \/ LoggedIn(c) \/ PollAnswered(c) \/ CallFails(c)
  BY <1>1, NamesUntouched DEF MeAnswered, LoggedIn, PollAnswered, CallFails, Named
<1>2. CASE Verified(c) \/ ModalSaved(c)
  BY <1>2, NamesUntouched DEF Verified, ModalSaved, Named
<1>3. CASE RestoreFails(c) \/ PasswordReset(c) \/ PlaceCreated(c) \/ AccountDeleted(c)
  BY <1>3, ShowKeepsNames DEF RestoreFails, PasswordReset, PlaceCreated, AccountDeleted
<1>4. CASE \E s \in Home : Restored(c, s) \/ LoginCompleted(c, s)
  BY <1>4, ShowKeepsNames DEF Restored, LoginCompleted
<1>5. CASE SignedUp(c) \/ \E reached \in BOOLEAN : LoggedOut(c, reached)
  BY <1>5, ShowKeepsNames DEF SignedUp, LoggedOut
<1>6. CASE \E a \in {"available", "taken", "error"} : NameChecked(c, a)
  BY <1>6, AnswerKeepsNames
<1> QED BY <1>1, <1>2, <1>3, <1>4, <1>5, <1>6 DEF Answer

LEMMA NameInvHolds == Spec => []NameInv
<1>1. Init => NameInv
  BY DEF Init, NameInv, NameConfirmed, CheckInv, Unchecked
<1>2. NameInv /\ [Next]_vars => NameInv'
  <2> SUFFICES ASSUME NameInv, [Next]_vars PROVE NameInv'
    OBVIOUS
  <2>1. CASE \E c \in calls : Answer(c)
    BY <2>1, AnyAnswerKeepsNames
  <2>2. CASE Click
    BY <2>2, ClickKeepsNames
  <2>3. CASE \E s \in Sessions : SessionExpires(s)
    BY <2>3, NamesUntouched DEF SessionExpires, signup, local, Named
  <2>4. CASE UNCHANGED vars
    BY <2>4, NamesUntouched DEF vars, signup, local, Named
  <2> QED BY <2>1, <2>2, <2>3, <2>4 DEF Next
<1> QED BY <1>1, <1>2, PTL DEF Spec

----------------------------------------------------------------------------
(* No account is created under a name that was typed after the check, nor  *)
(* under one the server was asked about earlier: however late the answers  *)
(* come, the name that waits is one called available for this signup       *)
(* (FlowApp.jsx:386-440).                                                  *)
THEOREM SignupNameIsConfirmed == Spec => []NameConfirmed
  BY NameInvHolds, PTL DEF NameInv

----------------------------------------------------------------------------
(* Who waits for what *)

LEMMA NewSessionFacts ==
    ASSUME Unused # {}
    PROVE  NewSession \in Sessions /\ NewSession # 0 /\ NewSession \in 0..MaxSessions
<1>1. MaxSessions \in Nat /\ Unused \in SUBSET Nat /\ Unused \in SUBSET Sessions
  BY SignInAssumption DEF Unused, Sessions
<1>2. IsWellFoundedOn(OpToRel(<, Nat), Nat)
  BY NatLessThanWellFounded
<1>3. PICK s \in Unused : \A t \in Unused : ~(<<t, s>> \in OpToRel(<, Nat))
  BY <1>1, <1>2, WFMin
<1>4. \A t \in Unused : ~(t < s)
  BY <1>1, <1>3 DEF OpToRel
<1>5. \A t \in Unused : s =< t
  BY <1>1, <1>4
<1>6. NewSession \in Unused
  BY <1>5 DEF NewSession
<1> QED BY <1>1, <1>6 DEF Sessions

LEMMA CallParts ==
    ASSUME NEW c \in Call
    PROVE  /\ c.op \in Ops /\ c.who \in Names /\ c.with \in 0..MaxSessions /\ c.here \in BOOLEAN
           /\ c = [op |-> c.op, who |-> c.who, with |-> c.with, here |-> c.here]
           /\ \A b \in BOOLEAN : [c EXCEPT !.here = b] \in Call
  BY DEF Call

LEMMA CallMade ==
    ASSUME NEW op \in Ops, NEW who \in Names, NEW with \in 0..MaxSessions
    PROVE  [op |-> op, who |-> who, with |-> with, here |-> TRUE] \in Call
  BY DEF Call

\* What is left of the calls when a screen is shown.
LEMMA ShownCalls ==
    ASSUME TypeOK, NEW s, NEW done, Show(s, done)
    PROVE  /\ calls' \subseteq Call
           /\ s = screen => calls' = calls \ done
           /\ s # screen => \A d \in calls' : ~d.here
           /\ \A d \in calls' : \E c \in calls \ done : d.op = c.op
<1> DEFINE left(c) == [c EXCEPT !.here = c.here /\ s = screen]
<1>1. calls \subseteq Call /\ calls' = {left(c) : c \in calls \ done}
  BY DEF TypeOK, Show
<1>2. ASSUME NEW c \in Call
      PROVE  /\ left(c) \in Call /\ left(c).op = c.op
             /\ s = screen => left(c) = c
             /\ s # screen => ~left(c).here
  <2>1. (c.here /\ s = screen) \in BOOLEAN
    OBVIOUS
  <2>2. s = screen => (c.here /\ s = screen) = c.here
    BY CallParts
  <2> DEFINE b == c.here /\ s = screen
  <2>3. left(c) = [op |-> c.op, who |-> c.who, with |-> c.with, here |-> b]
    BY DEF Call
  <2>4. left(c) \in Call
    BY <2>1, <2>3, CallParts DEF Call
  <2>5. s = screen => left(c) = c
    BY <2>2, <2>3, CallParts
  <2> QED BY <2>3, <2>4, <2>5
<1> HIDE DEF left
<1> QED BY <1>1, <1>2

LEMMA ShownLocals ==
    ASSUME TypeOK, NEW s, NEW done, Show(s, done)
    PROVE  /\ calls' \subseteq Call /\ screen' = s
           /\ check' \in Checks /\ recovered' \in Names /\ modal' \in Modals \cup {"none"}
           /\ submitting' \in BOOLEAN
<1>1. Unchecked \in Checks /\ NoUser \in Names
  BY DEF Unchecked, Checks, Names
<1>2. (submitting /\ \A c \in done : ~c.here) \in BOOLEAN
  OBVIOUS
<1>3. screen' = s /\ calls' \subseteq Call
  <2>1. screen' = s
    BY DEF Show
  <2>2. calls' \subseteq Call
    BY ShownCalls
  <2> QED BY <2>1, <2>2
<1>4. CASE s = screen
  <2>1. /\ submitting' = (submitting /\ \A c \in done : ~c.here)
        /\ check' = check /\ recovered' = recovered /\ modal' = modal
    BY <1>4 DEF Show
  <2>2. submitting' \in BOOLEAN
    BY <1>2, <2>1
  <2> QED BY <1>3, <2>1, <2>2 DEF TypeOK
<1>5. CASE s # screen
  <2>1. /\ check' = Unchecked /\ recovered' = NoUser
        /\ modal' = "none" /\ submitting' = FALSE
    BY <1>5 DEF Show
  <2> QED BY <1>1, <1>3, <2>1
<1> QED BY <1>4, <1>5

LEMMA SentTypes ==
    ASSUME TypeOK, NEW op \in Ops, NEW who \in Names
    PROVE  /\ New(op, who) \in Call /\ New(op, who).here /\ New(op, who).op = op
           /\ New(op, who).who = who
           /\ Send(op, who) => calls' \subseteq Call
<1>1. token \in 0..MaxSessions /\ calls \subseteq Call
  BY DEF TypeOK
<1>2. New(op, who) = [op |-> op, who |-> who, with |-> token, here |-> TRUE]
  BY DEF New
<1>3. New(op, who) \in Call
  BY <1>1, <1>2, CallMade
<1>4. Send(op, who) => calls' \subseteq Call
  BY <1>1, <1>3 DEF Send
<1> QED BY <1>2, <1>3, <1>4

LEMMA SubmitTypes ==
    ASSUME TypeOK, NEW op \in Ops, NEW who \in Names, Submit(op, who)
    PROVE  TypeOK'
  BY SentTypes DEF Submit, TypeOK, account, signup

LEMMA ClickTypes ==
    ASSUME TypeOK, Click
    PROVE  TypeOK'
<1> USE DEF account, signup, local
<1>0. /\ Users \subseteq Names /\ NoUser \in Names /\ Modals \subseteq Ops
      /\ {"login", "verify", "reset", "check", "complete", "create", "logout", "poll"} \subseteq Ops
      /\ Unchecked \in Checks
      /\ \A n \in Names : [status |-> "checking", name |-> n] \in Checks
  BY DEF Names, Ops, Unchecked, Checks
<1>1. {user, pending, name, recovered} \subseteq Names
  BY DEF TypeOK
<1>2. CASE \E u \in Users : SubmitLogin(u) \/ SubmitRecovery(u)
  BY <1>0, <1>2, SubmitTypes DEF SubmitLogin, SubmitRecovery
<1>3. CASE \E n \in Names : TypeName(n)
  BY <1>0, <1>3 DEF TypeName, TypeOK
<1>4. CASE ForgotPassword \/ BackFromRecovery
  <2>1. \E s \in Screens : Show(s, {})
    BY <1>4 DEF ForgotPassword, BackFromRecovery, Screens
  <2>2. UNCHANGED <<account, signup>>
    BY <1>4 DEF ForgotPassword, BackFromRecovery
  <2> QED BY <2>1, <2>2, ShownLocals DEF TypeOK
<1>5. CASE StartSignup
  <2>1. Show("signup", {}) /\ UNCHANGED account
        /\ pending' = NoUser /\ name' = NoUser /\ slot' = FALSE /\ confirmed' = {}
    BY <1>5 DEF StartSignup
  <2> QED BY <1>0, <2>1, ShownLocals DEF TypeOK, Screens
<1>6. CASE SubmitReset
  BY <1>0, <1>1, <1>6, SubmitTypes DEF SubmitReset
<1>7. CASE CheckName
  <2>1. Send("check", name) /\ check' = [status |-> "checking", name |-> name]
        /\ UNCHANGED <<screen, account, signup, recovered, modal, submitting>>
    BY <1>7 DEF CheckName
  <2>2. calls' \subseteq Call
    BY <1>0, <1>1, <2>1, SentTypes
  <2> QED BY <1>0, <1>1, <2>1, <2>2 DEF TypeOK
<1>8. CASE SubmitSignup
  <2>1. /\ Show("aircon", {}) /\ pending' = name /\ slot' = (slot /\ pending # NoUser)
        /\ UNCHANGED <<account, name, confirmed>>
    BY <1>8 DEF SubmitSignup
  <2>2. slot' \in BOOLEAN
    BY <2>1
  <2> QED BY <2>1, <2>2, ShownLocals DEF TypeOK, Screens
<1>9. CASE BackFromSignup
  <2>1. Show("login", {}) /\ pending' = NoUser /\ UNCHANGED <<account, slot, name, confirmed>>
    BY <1>9 DEF BackFromSignup
  <2> QED BY <1>0, <2>1, ShownLocals DEF TypeOK, Screens
<1>10. CASE ChooseAircon
  BY <1>10 DEF ChooseAircon, TypeOK
<1>11. CASE SubmitAircon
  BY <1>0, <1>1, <1>11, SubmitTypes DEF SubmitAircon
<1>12. CASE BackFromAircon
  <2>1. CASE Show("signup", {})
    BY <1>12, <2>1, ShownLocals DEF BackFromAircon, TypeOK, Screens
  <2>2. CASE Send("logout", user) /\ UNCHANGED <<screen, local>>
    BY <1>0, <1>1, <1>12, <2>2, SentTypes DEF BackFromAircon, TypeOK
  <2> QED BY <1>12, <2>1, <2>2 DEF BackFromAircon
<1>13. CASE Logout \/ Poll
  <2>1. calls' \subseteq Call
    BY <1>0, <1>1, <1>13, SentTypes DEF Logout, Poll
  <2> QED BY <1>13, <2>1 DEF Logout, Poll, TypeOK
<1>14. CASE CloseModal \/ \E m \in Modals : OpenModal(m)
  BY <1>14 DEF CloseModal, OpenModal, TypeOK
<1>15. CASE SubmitModal
  <2>1. modal \in Modals /\ Submit(modal, user)
    BY <1>15 DEF SubmitModal, TypeOK
  <2> QED BY <1>0, <1>1, <2>1, SubmitTypes
<1> QED BY <1>2, <1>3, <1>4, <1>5, <1>6, <1>7, <1>8, <1>9, <1>10, <1>11, <1>12, <1>13,
           <1>14, <1>15 DEF Click

LEMMA TokenTypes ==
    ASSUME TypeOK
    PROVE  /\ 0 \in 0..MaxSessions
           /\ \A c \in Call : /\ TokenAfterFailure(c) \subseteq 0..MaxSessions
                              /\ Valid(c) => sessions[c.with] \in Names
           /\ \A u : Ended(u) \in [Sessions -> Names]
<1>1. MaxSessions \in Nat
  BY SignInAssumption
<1>2. ASSUME NEW c \in Call
      PROVE  /\ TokenAfterFailure(c) \subseteq 0..MaxSessions
             /\ Valid(c) => sessions[c.with] \in Names
  <2>1. TokenAfterFailure(c) \subseteq 0..MaxSessions
    BY <1>1 DEF TokenAfterFailure, TypeOK
  <2>2. Valid(c) => c.with \in Sessions
    BY <1>1, CallParts DEF Valid, Sessions
  <2> QED BY <2>1, <2>2 DEF TypeOK
<1>3. \A u : Ended(u) \in [Sessions -> Names]
  BY DEF Ended, TypeOK, Names
<1> QED BY <1>1, <1>2, <1>3

LEMMA OpenedTypes ==
    ASSUME TypeOK, NEW u \in Names, Opens(u)
    PROVE  token' \in 0..MaxSessions /\ sessions' \in [Sessions -> Names]
<1>1. NewSession \in Sessions /\ NewSession \in 0..MaxSessions
  BY NewSessionFacts DEF Opens
<1> QED BY <1>1 DEF Opens, TypeOK

LEMMA AnswerTypes ==
    ASSUME TypeOK, NEW c \in calls, Answer(c)
    PROVE  TypeOK'
<1> USE DEF account, signup, local
<1>0. /\ c \in Call /\ c.who \in Names /\ NoUser \in Names /\ Home \subseteq Screens
      /\ calls \ {c} \subseteq Call /\ "login" \in Screens /\ "dashboard" \in Screens
      /\ "places" \in Ops /\ "loginPlaces" \in Ops
  BY CallParts DEF TypeOK, Names, Home, Screens, Ops
<1>a. 0 \in 0..MaxSessions
  BY TokenTypes
<1>1. CASE MeAnswered(c)
  <2>1. New("places", c.who) \in Call
    BY <1>0, SentTypes
  <2> QED BY <1>0, <1>1, <2>1 DEF MeAnswered, TypeOK
<1>2. CASE RestoreFails(c)
  <2>1. token' = 0 /\ Show("login", {c}) /\ UNCHANGED <<user, sessions, signup>>
    BY <1>2 DEF RestoreFails
  <2> QED BY <1>0, <1>a, <2>1, ShownLocals DEF TypeOK
<1>3. CASE \E s \in Home : Restored(c, s)
  BY <1>0, <1>3, ShownLocals DEF Restored, TypeOK
<1>4. CASE \E s \in Home : LoginCompleted(c, s)
  BY <1>0, <1>4, ShownLocals DEF LoginCompleted, TypeOK
<1>5. CASE LoggedIn(c)
  <2>1. token' \in 0..MaxSessions /\ sessions' \in [Sessions -> Names]
    BY <1>0, <1>5, OpenedTypes DEF LoggedIn
  <2>2. NewSession \in 0..MaxSessions
    BY <1>5, NewSessionFacts DEF LoggedIn, Opens
  <2>3. [c EXCEPT !.op = "loginPlaces", !.with = NewSession] \in Call
    BY <1>0, <2>2 DEF Call
  <2> QED BY <1>0, <1>5, <2>1, <2>3 DEF LoggedIn, TypeOK
<1>6. CASE SignedUp(c)
  <2>1. token' \in 0..MaxSessions /\ sessions' \in [Sessions -> Names]
    BY <1>0, <1>6, OpenedTypes DEF SignedUp
  <2>2. /\ Show("dashboard", {c}) /\ user' = c.who /\ pending' = NoUser
        /\ UNCHANGED <<slot, name, confirmed>>
    BY <1>6 DEF SignedUp
  <2> QED BY <1>0, <2>1, <2>2, ShownLocals DEF TypeOK
<1>7. CASE Verified(c)
  <2>1. recovered' \in Names /\ submitting' \in BOOLEAN /\ calls' \subseteq Call
    BY <1>0, <1>7 DEF Verified, TypeOK
  <2> QED BY <1>7, <2>1 DEF Verified, TypeOK
<1>8. CASE PasswordReset(c)
  <2>1. /\ Show("login", {c}) /\ UNCHANGED <<user, token, signup>>
        /\ sessions' \in [Sessions -> Names]
    BY <1>8, TokenTypes DEF PasswordReset
  <2> QED BY <1>0, <2>1, ShownLocals DEF TypeOK
<1>9. CASE \E a \in {"available", "taken", "error"} : NameChecked(c, a)
  <2>1. PICK a \in {"available", "taken", "error"} : NameChecked(c, a)
    BY <1>9
  <2>2. [status |-> a, name |-> c.who] \in Checks
    BY <1>0 DEF Checks
  <2>3. check' \in Checks /\ confirmed' \subseteq Names /\ calls' \subseteq Call
    BY <1>0, <2>1, <2>2 DEF NameChecked, TypeOK
  <2> QED BY <2>1, <2>3 DEF NameChecked, TypeOK
<1>10. CASE \E reached \in BOOLEAN : LoggedOut(c, reached)
  <2>1. /\ Show("login", {c}) /\ token' = 0 /\ user' = NoUser /\ pending' = NoUser
        /\ slot' = FALSE /\ UNCHANGED <<name, confirmed>>
    BY <1>10 DEF LoggedOut
  <2>2. sessions' \in [Sessions -> Names]
    BY <1>0, <1>10 DEF LoggedOut, TypeOK
  <2>3. /\ calls' \subseteq Call /\ screen' = "login" /\ submitting' \in BOOLEAN
        /\ check' \in Checks /\ recovered' \in Names /\ modal' \in Modals \cup {"none"}
    BY <2>1, ShownLocals
  <2>4. token' \in 0..MaxSessions /\ {slot', submitting'} \subseteq BOOLEAN
    BY <1>a, <2>1, <2>3
  <2> QED BY <1>0, <2>1, <2>2, <2>3, <2>4 DEF TypeOK
<1>11. CASE PlaceCreated(c)
  BY <1>0, <1>11, ShownLocals DEF PlaceCreated, TypeOK
<1>12. CASE PollAnswered(c)
  <2>1. token' \in 0..MaxSessions /\ calls' \subseteq Call
    <3>1. TokenAfterFailure(c) \subseteq 0..MaxSessions
      BY <1>0, TokenTypes
    <3> QED BY <1>0, <1>12, <3>1 DEF PollAnswered
  <2> QED BY <1>12, <2>1 DEF PollAnswered, TypeOK
<1>13. CASE ModalSaved(c)
  <2>1. user' \in Names /\ submitting' \in BOOLEAN /\ calls' \subseteq Call
    BY <1>0, <1>13, TokenTypes DEF ModalSaved, TypeOK
  <2>2. modal' \in Modals \cup {"none"}
    BY <1>13 DEF ModalSaved, TypeOK
  <2> QED BY <1>13, <2>1, <2>2 DEF ModalSaved, TypeOK
<1>14. CASE AccountDeleted(c)
  <2>1. /\ Show("login", {c}) /\ token' = 0 /\ user' = NoUser /\ pending' = NoUser
        /\ slot' = FALSE /\ UNCHANGED <<name, confirmed>>
        /\ sessions' \in [Sessions -> Names]
    BY <1>14, TokenTypes DEF AccountDeleted
  <2>2. /\ calls' \subseteq Call /\ screen' = "login" /\ submitting' \in BOOLEAN
        /\ check' \in Checks /\ recovered' \in Names /\ modal' \in Modals \cup {"none"}
    BY <2>1, ShownLocals
  <2>3. token' \in 0..MaxSessions /\ {slot', submitting'} \subseteq BOOLEAN
    BY <1>a, <2>1, <2>2
  <2> QED BY <1>0, <2>1, <2>2, <2>3 DEF TypeOK
<1>15. CASE CallFails(c)
  <2>1. submitting' \in BOOLEAN
    BY <1>15 DEF CallFails, ButtonAfter
  <2>2. token' \in 0..MaxSessions
    <3>1. TokenAfterFailure(c) \subseteq 0..MaxSessions
      BY <1>0, TokenTypes
    <3> QED BY <1>15, <3>1 DEF CallFails, TypeOK
  <2>3. /\ calls' \subseteq Call
        /\ UNCHANGED <<screen, user, sessions, signup, check, recovered, modal>>
    BY <1>0, <1>15 DEF CallFails
  <2> QED BY <2>1, <2>2, <2>3 DEF TypeOK
<1> QED BY <1>1, <1>2, <1>3, <1>4, <1>5, <1>6, <1>7, <1>8, <1>9, <1>10, <1>11, <1>12,
           <1>13, <1>14, <1>15 DEF Answer

LEMMA StartTypes == Init => TypeOK
<1> SUFFICES ASSUME Init PROVE TypeOK
  OBVIOUS
<1>1. MaxSessions \in Nat \ {0} /\ Unchecked \in Checks /\ NoUser \in Names /\ Users \subseteq Names
  BY SignInAssumption DEF Unchecked, Checks, Names
<1>2. PICK old \in {0, 1}, u \in Users, valid \in BOOLEAN :
        /\ token = old /\ screen = IF old = 0 THEN "login" ELSE "loading"
        /\ calls = IF old = 0 THEN {} ELSE {New("me", u)}
        /\ sessions = [s \in Sessions |-> IF valid /\ s = old THEN u ELSE NoUser]
  BY DEF Init
<1>3. token \in 0..MaxSessions /\ screen \in Screens /\ sessions \in [Sessions -> Names]
  BY <1>1, <1>2 DEF Screens
<1>4. calls \subseteq Call
  <2>1. New("me", u) = [op |-> "me", who |-> u, with |-> token, here |-> TRUE]
    BY DEF New
  <2>2. New("me", u) \in Call
    <3>1. "me" \in Ops /\ u \in Names /\ TRUE \in BOOLEAN
      BY <1>1 DEF Ops
    <3>2. token \in 0..MaxSessions
      BY <1>3
    <3> QED BY <2>1, <3>1, <3>2, CallMade
  <2> QED BY <1>2, <2>2
<1> QED BY <1>1, <1>3, <1>4 DEF Init, TypeOK

LEMMA TypesPass ==
    ASSUME TypeOK, [Next]_vars
    PROVE  TypeOK'
<1>1. CASE \E c \in calls : Answer(c)
  BY <1>1, AnswerTypes
<1>2. CASE Click
  BY <1>2, ClickTypes
<1>3. CASE \E s \in Sessions : SessionExpires(s)
  BY <1>3 DEF SessionExpires, TypeOK, signup, local, Names
<1>4. CASE UNCHANGED vars
  BY <1>4 DEF vars, account, signup, local, TypeOK
<1> QED BY <1>1, <1>2, <1>3, <1>4 DEF Next

(* The screens, tokens and calls of the sign-in are what they are meant to *)
(* be, for any users, sessions and calls under way (FlowApp.jsx, api.js).  *)
THEOREM SignInTypes == Spec => []TypeOK
  BY StartTypes, TypesPass, PTL DEF Spec

----------------------------------------------------------------------------
\* The screens on which the page that makes a call is mounted.
MadeOn(op) ==
    CASE op \in {"me", "places"}            -> {"loading"}
      [] op \in {"login", "loginPlaces"}    -> {"login"}
      [] op \in {"verify", "reset"}         -> {"forgot"}
      [] op = "check"                       -> {"signup"}
      [] op \in {"complete", "create"}      -> {"aircon"}
      [] op = "logout"                      -> {"aircon", "dashboard"}
      [] op \in Modals \cup {"poll"}        -> {"dashboard"}

Restoring == {c \in calls : c.op \in {"me", "places"}}
Own       == {c \in calls : c.here /\ c.op \in Alerted}

\* A call the page waits for is made by a page that is mounted.
OnScreen == \A c \in calls : c.here => screen \in MadeOn(c.op)
ModalInv == modal # "none" => screen = "dashboard"

\* A button is disabled exactly while the one call its page waits for is under
\* way.
OwnInv == /\ submitting <=> Own # {}
          /\ \A c, d \in Own : c = d

\* The page is "loading" exactly while a session is restored, and nothing else
\* is under way then.
LoadInv == /\ screen = "loading" <=> Restoring # {}
           /\ Restoring # {} => \A c, d \in calls : c = d

\* A name is "checking" only while the server is asked about it.
CheckingInv == check.status = "checking" =>
                 \E c \in calls : c.here /\ c.op = "check" /\ c.who = check.name

\* What a page waits for is under way, once (the finally blocks of LoginPage,
\* ForgotPasswordPage, AirconPage and MyPage; restoreSession() and
\* handleUsernameCheck()).
OneAnswerAwaited == OwnInv /\ LoadInv /\ CheckingInv

AwaitInv == TypeOK /\ OnScreen /\ ModalInv /\ OwnInv /\ LoadInv /\ CheckingInv

LEMMA OpFacts ==
    /\ Alerted \subseteq Ops /\ Modals \subseteq Alerted
    /\ \A op \in Alerted : op \notin {"me", "places", "check", "logout", "poll"}
    /\ \A op \in Modals : op \notin {"login", "loginPlaces", "verify", "reset", "complete", "create"}
    /\ \A op \in {"login", "loginPlaces"} : op \in Alerted /\ MadeOn(op) = {"login"}
    /\ \A op \in {"verify", "reset"} : op \in Alerted /\ MadeOn(op) = {"forgot"}
    /\ \A op \in {"complete", "create"} : op \in Alerted /\ MadeOn(op) = {"aircon"}
    /\ \A op \in Modals : MadeOn(op) = {"dashboard"}
    /\ \A op \in {"me", "places"} : MadeOn(op) = {"loading"}
    /\ MadeOn("check") = {"signup"} /\ MadeOn("poll") = {"dashboard"}
    /\ MadeOn("logout") = {"aircon", "dashboard"}
  BY DEF Alerted, Ops, Modals, MadeOn

(* A screen that is shown leaves nothing to wait for, unless it is the     *)
(* same screen and the calls that are over are none of its own.            *)
LEMMA ShowAwaits ==
    ASSUME AwaitInv, TypeOK', NEW s, NEW done \in SUBSET calls, Show(s, done),
           s # "loading", screen = "loading" => Restoring \subseteq done,
           \A c \in done : c.here => s # screen
    PROVE  AwaitInv'
<1>1. TypeOK /\ screen' = s
  BY DEF AwaitInv, Show
<1>2. Restoring' = {}
  <2>1. ASSUME NEW d \in calls', d.op \in {"me", "places"} PROVE FALSE
    <3>1. PICK c \in calls \ done : d.op = c.op
      BY <1>1, ShownCalls
    <3>2. c \in Restoring
      BY <2>1, <3>1 DEF Restoring
    <3>3. screen = "loading"
      BY <3>2 DEF AwaitInv, LoadInv
    <3> QED BY <3>1, <3>2, <3>3
  <2> QED BY <2>1 DEF Restoring
<1>3. CASE s = screen
  <2>1. calls' = calls \ done /\ UNCHANGED <<check, recovered, modal>>
        /\ submitting' = (submitting /\ \A c \in done : ~c.here)
    <3>1. calls' = calls \ done
      BY <1>1, <1>3, ShownCalls
    <3> QED BY <1>3, <3>1 DEF Show
  <2>2. \A c \in done : ~c.here
    BY <1>3
  <2>3. Own' = Own /\ (submitting' <=> submitting)
    BY <2>1, <2>2 DEF Own
  <2>4. CheckingInv'
    BY <2>1, <2>2 DEF AwaitInv, CheckingInv
  <2>5. OnScreen' /\ ModalInv'
    BY <1>1, <1>3, <2>1 DEF AwaitInv, OnScreen, ModalInv
  <2> QED BY <1>1, <1>2, <2>3, <2>4, <2>5 DEF AwaitInv, OwnInv, LoadInv
<1>4. CASE s # screen
  <2>1. \A d \in calls' : ~d.here
    BY <1>1, <1>4, ShownCalls
  <2>2. /\ check' = Unchecked /\ modal' = "none" /\ submitting' = FALSE
    BY <1>4 DEF Show
  <2>3. Own' = {}
    BY <2>1 DEF Own
  <2>4. CheckingInv'
    BY <2>2 DEF CheckingInv, Unchecked
  <2>5. OnScreen' /\ ModalInv'
    BY <2>1, <2>2 DEF OnScreen, ModalInv
  <2> QED BY <1>1, <1>2, <2>2, <2>3, <2>4, <2>5 DEF AwaitInv, OwnInv, LoadInv
<1> QED BY <1>3, <1>4

(* A call that is sent on a screen of its own, while nothing is restored.  *)
LEMMA SendAwaits ==
    ASSUME AwaitInv, TypeOK', NEW op \in Ops, NEW who \in Names, Send(op, who),
           op \notin {"me", "places"}, screen \in MadeOn(op), screen # "loading",
           UNCHANGED <<screen, modal>>,
           IF op \in Alerted THEN ~submitting /\ submitting' ELSE submitting' = submitting,
           IF op = "check" THEN check' = [status |-> "checking", name |-> who]
                           ELSE check' = check
    PROVE  AwaitInv'
<1> DEFINE n == New(op, who)
<1>1. calls' = calls \cup {n} /\ n.here = TRUE /\ n.op = op /\ n.who = who
  BY DEF Send, New
<1> HIDE DEF n
<1>2. Restoring = {} /\ Restoring' = {}
  <2>1. Restoring = {}
    BY DEF AwaitInv, LoadInv
  <2> QED BY <1>1, <2>1 DEF Restoring
<1>3. OnScreen' /\ ModalInv' /\ LoadInv'
  BY <1>1, <1>2 DEF AwaitInv, OnScreen, ModalInv, LoadInv
<1>4. OwnInv'
  <2>1. CASE op \in Alerted
    <3>1. Own = {} /\ Own' = {n}
      <4>1. Own = {}
        BY <2>1 DEF AwaitInv, OwnInv
      <4> QED BY <1>1, <2>1, <4>1 DEF Own
    <3> QED BY <2>1, <3>1 DEF OwnInv
  <2>2. CASE op \notin Alerted
    <3>1. Own' = Own
      BY <1>1, <2>2 DEF Own
    <3> QED BY <2>2, <3>1 DEF AwaitInv, OwnInv
  <2> QED BY <2>1, <2>2
<1>5. CheckingInv'
  <2>1. CASE op = "check"
    <3>1. check'.name = who
      BY <2>1
    <3>2. n \in calls' /\ n.here /\ n.op = "check" /\ n.who = check'.name
      BY <1>1, <2>1, <3>1
    <3> QED BY <3>2 DEF CheckingInv
  <2>2. CASE op # "check"
    BY <1>1, <2>2 DEF AwaitInv, CheckingInv
  <2> QED BY <2>1, <2>2
<1> QED BY <1>3, <1>4, <1>5 DEF AwaitInv

(* A call that is over, and nothing else changes but what was waiting for  *)
(* it.                                                                     *)
LEMMA EndAwaits ==
    ASSUME AwaitInv, TypeOK', NEW c \in calls, calls' = calls \ {c}, screen' = screen,
           c \notin Restoring, modal' \in {modal, "none"},
           IF c.op \in Alerted THEN submitting' = (submitting /\ ~c.here)
                               ELSE submitting' = submitting,
           IF c.op = "check" /\ c.here THEN check'.status # "checking" ELSE check' = check
    PROVE  AwaitInv'
<1>1. Restoring' = Restoring
  BY DEF Restoring
<1>2. OnScreen' /\ ModalInv' /\ LoadInv'
  BY <1>1 DEF AwaitInv, OnScreen, ModalInv, LoadInv
<1>3. OwnInv'
  <2>1. CASE c \in Own
    <3>1. Own' = {} /\ c.here /\ c.op \in Alerted
      BY <2>1 DEF AwaitInv, OwnInv, Own
    <3> QED BY <3>1 DEF OwnInv
  <2>2. CASE c \notin Own
    <3>1. Own' = Own
      BY <2>2 DEF Own
    <3>2. submitting' <=> submitting
      BY <2>2 DEF Own
    <3> QED BY <3>1, <3>2 DEF AwaitInv, OwnInv
  <2> QED BY <2>1, <2>2
<1>4. CheckingInv'
  BY DEF AwaitInv, CheckingInv
<1> QED BY <1>2, <1>3, <1>4 DEF AwaitInv

LEMMA ClickAwaits ==
    ASSUME AwaitInv, TypeOK', Click
    PROVE  AwaitInv'
<1> USE DEF account, signup, local
<1>0. /\ Users \subseteq Names /\ {user, pending, name, recovered} \subseteq Names
      /\ submitting \in BOOLEAN /\ modal \in Modals \cup {"none"}
  BY DEF AwaitInv, TypeOK, Names
<1>2. ASSUME NEW op \in Alerted, NEW who \in Names, Submit(op, who), screen \in MadeOn(op),
             screen # "loading"
      PROVE  AwaitInv'
  <2>1. op \in Ops /\ op \notin {"me", "places"} /\ op # "check"
    BY OpFacts
  <2>2. /\ ~submitting /\ submitting' = TRUE /\ Send(op, who)
        /\ UNCHANGED <<screen, check, modal>>
    BY <1>2 DEF Submit
  <2> QED BY <1>2, <2>1, <2>2, SendAwaits
<1>3. ASSUME NEW s, Show(s, {}), screen # "loading", s # "loading"
      PROVE  AwaitInv'
  BY <1>3, ShowAwaits
<1>4. CASE \E u \in Users : SubmitLogin(u) \/ SubmitRecovery(u)
  <2>1. PICK u \in Users : SubmitLogin(u) \/ SubmitRecovery(u)
    BY <1>4
  <2>2. \/ Submit("login", u) /\ screen = "login"
        \/ Submit("verify", u) /\ screen = "forgot"
    BY <2>1 DEF SubmitLogin, SubmitRecovery
  <2> QED BY <1>0, <1>2, <2>2, OpFacts
<1>5. CASE \E n \in Names : TypeName(n)
  BY <1>5 DEF TypeName, AwaitInv, OnScreen, ModalInv, OwnInv, Own, LoadInv, Restoring,
              CheckingInv, Unchecked
<1>6. CASE ForgotPassword \/ StartSignup
  BY <1>3, <1>6 DEF ForgotPassword, StartSignup
<1>7. CASE SubmitReset
  BY <1>0, <1>2, <1>7, OpFacts DEF SubmitReset
<1>8. CASE BackFromRecovery \/ SubmitSignup \/ BackFromSignup
  BY <1>3, <1>8 DEF BackFromRecovery, SubmitSignup, BackFromSignup
<1>9. CASE CheckName
  <2>1. /\ screen = "signup" /\ Send("check", name)
        /\ check' = [status |-> "checking", name |-> name]
        /\ UNCHANGED <<screen, modal, submitting>>
    BY <1>9 DEF CheckName
  <2>2. "check" \in Ops /\ "check" \notin Alerted
    BY OpFacts DEF Ops
  <2> QED BY <1>0, <2>1, <2>2, SendAwaits, OpFacts
<1>10. CASE SubmitAircon
  <2>1. \E op \in {"complete", "create"}, who \in Names : Submit(op, who)
    BY <1>0, <1>10 DEF SubmitAircon
  <2>2. screen = "aircon"
    BY <1>10 DEF SubmitAircon
  <2> QED BY <1>2, <2>1, <2>2, OpFacts
<1>11. CASE \/ BackFromAircon /\ Send("logout", user) /\ UNCHANGED <<screen, local>>
            \/ Logout
  <2>1. /\ screen \in {"aircon", "dashboard"} /\ Send("logout", user)
        /\ UNCHANGED <<screen, check, modal, submitting>>
    BY <1>11 DEF BackFromAircon, Logout
  <2>2. "logout" \in Ops /\ "logout" \notin Alerted
    BY OpFacts DEF Ops
  <2> QED BY <1>0, <2>1, <2>2, SendAwaits, OpFacts
<1>12. CASE BackFromAircon /\ Show("signup", {})
  BY <1>3, <1>12 DEF BackFromAircon
<1>13. CASE Poll
  <2>1. /\ screen = "dashboard" /\ Send("poll", user)
        /\ UNCHANGED <<screen, check, modal, submitting>>
    BY <1>13 DEF Poll
  <2>2. "poll" \in Ops /\ "poll" \notin Alerted
    BY OpFacts DEF Ops
  <2> QED BY <1>0, <2>1, <2>2, SendAwaits, OpFacts
<1>14. CASE ChooseAircon \/ CloseModal \/ \E m \in Modals : OpenModal(m)
  <2>1. /\ UNCHANGED <<screen, check, submitting, calls>>
        /\ modal' # "none" => screen = "dashboard"
    BY <1>14 DEF ChooseAircon, CloseModal, OpenModal, AwaitInv, ModalInv
  <2> QED BY <2>1 DEF AwaitInv, OnScreen, ModalInv, OwnInv, Own, LoadInv, Restoring, CheckingInv
<1>15. CASE SubmitModal
  <2>1. modal \in Modals /\ Submit(modal, user) /\ screen = "dashboard"
    BY <1>0, <1>15 DEF SubmitModal, AwaitInv, ModalInv
  <2> QED BY <1>0, <1>2, <2>1, OpFacts
<1> QED BY <1>4, <1>5, <1>6, <1>7, <1>8, <1>9, <1>10, <1>11, <1>12, <1>13, <1>14, <1>15
        DEF Click, BackFromAircon

LEMMA AnswerAwaits ==
    ASSUME AwaitInv, TypeOK', NEW c \in calls, Answer(c)
    PROVE  AwaitInv'
<1> USE DEF account, signup, local
<1>1. /\ c \in Call /\ submitting \in BOOLEAN /\ {c} \in SUBSET calls
      /\ c.here \in BOOLEAN
  BY CallParts DEF AwaitInv, TypeOK
<1>2. /\ c \in Restoring <=> c.op \in {"me", "places"}
      /\ screen = "loading" => Restoring = {c} /\ c \in Restoring
      /\ c \in Restoring => screen = "loading" /\ calls = {c}
      /\ c.here => screen \in MadeOn(c.op)
  BY DEF AwaitInv, LoadInv, OnScreen, Restoring
<1>3. ASSUME NEW s, Show(s, {c}), s # "loading", c.here => s \notin MadeOn(c.op)
      PROVE  AwaitInv'
  BY <1>1, <1>2, <1>3, ShowAwaits
<1>4. CASE MeAnswered(c)
  <2> DEFINE n == New("places", c.who)
  <2>1. /\ calls' = (calls \ {c}) \cup {n} /\ c.op = "me"
        /\ n.op = "places"
        /\ UNCHANGED <<screen, check, modal, submitting>>
    BY <1>4 DEF MeAnswered, New
  <2> HIDE DEF n
  <2>2. calls = {c} /\ screen = "loading" /\ calls' = {n}
    BY <1>2, <2>1
  <2>3. Restoring' = {n} /\ Own' = {} /\ Own = {}
    BY <2>1, <2>2, OpFacts DEF Restoring, Own
  <2>4. LoadInv'
    BY <2>1, <2>2, <2>3 DEF LoadInv
  <2>5. OwnInv' /\ ModalInv'
    BY <2>1, <2>3 DEF AwaitInv, OwnInv, ModalInv
  <2>6. OnScreen'
    BY <2>1, <2>2, OpFacts DEF OnScreen
  <2>7. CheckingInv'
    BY <2>1, <2>2 DEF AwaitInv, CheckingInv
  <2> QED BY <2>4, <2>5, <2>6, <2>7 DEF AwaitInv
<1>5. CASE RestoreFails(c)
  BY <1>3, <1>5, OpFacts DEF RestoreFails
<1>6. CASE \E s \in Home : Restored(c, s) \/ LoginCompleted(c, s)
  <2>1. PICK s \in Home : Show(s, {c}) /\ c.op \in {"places", "loginPlaces"}
    BY <1>6 DEF Restored, LoginCompleted
  <2> QED BY <1>3, <2>1, OpFacts DEF Home
<1>7. CASE LoggedIn(c)
  <2> DEFINE n == [c EXCEPT !.op = "loginPlaces", !.with = NewSession]
  <2>1. /\ calls' = (calls \ {c}) \cup {n} /\ c.op = "login"
        /\ UNCHANGED <<screen, check, modal, submitting>>
    BY <1>7 DEF LoggedIn
  <2>2. n.op = "loginPlaces" /\ n.here = c.here
    BY <1>1 DEF Call
  <2> HIDE DEF n
  <2>3. Restoring' = Restoring /\ screen # "loading"
    BY <1>2, <2>1, <2>2 DEF Restoring
  <2>4. OnScreen' /\ ModalInv' /\ LoadInv'
    BY <2>1, <2>2, <2>3, OpFacts DEF AwaitInv, OnScreen, ModalInv, LoadInv
  <2>5. OwnInv'
    <3>1. Own' = IF c.here THEN (Own \ {c}) \cup {n} ELSE Own
      BY <2>1, <2>2, OpFacts DEF Own
    <3>2. c.here => c \in Own
      BY <2>1, OpFacts DEF Own
    <3> QED BY <2>1, <3>1, <3>2 DEF AwaitInv, OwnInv
  <2>6. CheckingInv'
    BY <2>1 DEF AwaitInv, CheckingInv
  <2> QED BY <2>4, <2>5, <2>6 DEF AwaitInv
<1>8. CASE SignedUp(c) \/ PlaceCreated(c)
  BY <1>3, <1>8, OpFacts DEF SignedUp, PlaceCreated
<1>9. CASE PasswordReset(c) \/ AccountDeleted(c) \/ \E reached \in BOOLEAN : LoggedOut(c, reached)
  <2>1. Show("login", {c}) /\ c.op \in {"reset", "delete", "logout"}
    BY <1>9 DEF PasswordReset, AccountDeleted, LoggedOut
  <2> QED BY <1>3, <2>1, OpFacts DEF Modals
<1>10. CASE Verified(c)
  <2>1. /\ c.op = "verify" /\ calls' = calls \ {c} /\ submitting' = (submitting /\ ~c.here)
        /\ UNCHANGED <<screen, check, modal>>
    BY <1>10 DEF Verified
  <2> QED BY <1>2, <2>1, EndAwaits, OpFacts
<1>11. CASE \E a \in {"available", "taken", "error"} : NameChecked(c, a)
  <2>1. PICK a \in {"available", "taken", "error"} : NameChecked(c, a)
    BY <1>11
  <2>2. /\ c.op = "check" /\ calls' = calls \ {c}
        /\ check' = IF c.here THEN [status |-> a, name |-> c.who] ELSE check
        /\ UNCHANGED <<screen, modal, submitting>>
    BY <2>1 DEF NameChecked
  <2>3. c.here => check'.status # "checking"
    BY <2>2
  <2>4. c \notin Restoring /\ c.op \notin Alerted
    BY <1>2, <2>2, OpFacts
  <2> QED BY <2>2, <2>3, <2>4, EndAwaits
<1>12. CASE PollAnswered(c)
  <2>1. c.op = "poll" /\ calls' = calls \ {c} /\ UNCHANGED <<screen, check, modal, submitting>>
    BY <1>12 DEF PollAnswered
  <2> QED BY <1>2, <2>1, EndAwaits, OpFacts
<1>13. CASE ModalSaved(c)
  <2>1. /\ c.op \in Modals /\ calls' = calls \ {c} /\ submitting' = (submitting /\ ~c.here)
        /\ modal' \in {modal, "none"} /\ UNCHANGED <<screen, check>>
    BY <1>13 DEF ModalSaved
  <2>2. c.op \in Alerted /\ c.op # "check" /\ c \notin Restoring
    BY <1>2, <2>1, OpFacts
  <2> QED BY <2>1, <2>2, EndAwaits
<1>14. CASE CallFails(c)
  <2>1. /\ c.op \in Alerted /\ calls' = calls \ {c} /\ submitting' = (submitting /\ ~c.here)
        /\ UNCHANGED <<screen, check, modal>>
    BY <1>14 DEF CallFails, ButtonAfter
  <2>2. c.op # "check" /\ c \notin Restoring
    BY <1>2, <2>1, OpFacts
  <2> QED BY <2>1, <2>2, EndAwaits
<1> QED BY <1>4, <1>5, <1>6, <1>7, <1>8, <1>9, <1>10, <1>11, <1>12, <1>13, <1>14 DEF Answer

LEMMA AwaitInvHolds == Spec => [](TypeOK /\ AwaitInv)
<1>1. Init => AwaitInv
  <2> SUFFICES ASSUME Init PROVE AwaitInv
    OBVIOUS
  <2>1. TypeOK
    BY StartTypes
  <2>2. PICK u \in Users : \/ screen = "login" /\ calls = {}
                           \/ screen = "loading" /\ calls = {New("me", u)}
    BY DEF Init
  <2>3. New("me", u).op = "me" /\ New("me", u).here
    BY DEF New
  <2>4. check.status = "idle" /\ modal = "none" /\ submitting = FALSE
    BY DEF Init, Unchecked
  <2>5. Own = {} /\ OnScreen
    BY <2>2, <2>3, OpFacts DEF Own, OnScreen
  <2>6. LoadInv
    BY <2>2, <2>3 DEF LoadInv, Restoring
  <2> QED BY <2>1, <2>4, <2>5, <2>6 DEF AwaitInv, ModalInv, OwnInv, CheckingInv
<1>2. AwaitInv /\ TypeOK' /\ [Next]_vars => AwaitInv'
  <2> SUFFICES ASSUME AwaitInv, TypeOK', [Next]_vars PROVE AwaitInv'
    OBVIOUS
  <2>1. CASE (\E s \in Sessions : SessionExpires(s)) \/ UNCHANGED vars
    <3>1. UNCHANGED <<screen, check, modal, submitting, calls>>
      BY <2>1 DEF SessionExpires, vars, local
    <3> QED BY <3>1 DEF AwaitInv, OnScreen, ModalInv, OwnInv, Own, LoadInv, Restoring, CheckingInv
  <2> QED BY <2>1, ClickAwaits, AnswerAwaits DEF Next
<1> QED BY <1>1, <1>2, SignInTypes, PTL DEF Spec

(* A form is sent once, and its button is disabled exactly until its       *)
(* answer; a session is restored alone; whatever fails, comes late or is   *)
(* clicked meanwhile (FlowApp.jsx:78-92, 195-240, 413-447, 763-787,        *)
(* AirconPage.jsx:640-669, MyPage.jsx:608-727).                            *)
THEOREM AnswersAreAwaited == Spec => []OneAnswerAwaited
<1>1. AwaitInv => OneAnswerAwaited
  BY DEF AwaitInv, OneAnswerAwaited
<1> QED BY <1>1, AwaitInvHolds, PTL

----------------------------------------------------------------------------
(* The table of places *)

LEMMA OldestFacts ==
    ASSUME NEW S \in SUBSET Nat, S # {}
    PROVE  Oldest(S) \in S
<1>1. IsWellFoundedOn(OpToRel(<, Nat), Nat)
  BY NatLessThanWellFounded
<1>2. PICK p \in S : \A q \in S : ~(<<q, p>> \in OpToRel(<, Nat))
  BY <1>1, WFMin
<1>3. \A q \in S : ~(q < p)
  BY <1>2 DEF OpToRel
<1>4. \A q \in S : p <= q
  BY <1>3
<1> QED BY <1>4 DEF Oldest

(* Setting one field of a row.                                             *)
LEMMA InfoSet ==
    ASSUME NEW r \in Row, NEW n \in Versions, NEW new, new = [r EXCEPT !.info = n]
    PROVE  /\ new \in Row /\ new.units = r.units
           /\ Location(new) = [Location(r) EXCEPT !.info = n]
  BY DEF Row, Location

LEMMA UnitsSet ==
    ASSUME NEW r \in Row, NEW n \in Versions, NEW new, new = [r EXCEPT !.units = n]
    PROVE  new \in Row /\ new.units = n /\ Location(new) = Location(r)
  BY DEF Row, Location

LEMMA MainSet ==
    ASSUME NEW r \in Row, NEW b \in BOOLEAN, NEW new, new = [r EXCEPT !.main = b]
    PROVE  /\ new \in Row /\ new.units = r.units
           /\ Location(new) = [Location(r) EXCEPT !.main = b]
  BY DEF Row, Location

LEMMA RowFields ==
    ASSUME NEW r \in Row
    PROVE  /\ r.info \in Versions /\ r.units \in Versions /\ r.main \in BOOLEAN
           /\ Location(r) \in [info : Versions, main : BOOLEAN]
           /\ Location(r).main = r.main
  BY DEF Row, Location

(* What a change does to the table, to what a list shows of it and to its  *)
(* units.                                                                  *)
LEMMA AfterFacts ==
    ASSUME NEW t, IsTable(t), NEW c \in Change, c.place \in DOMAIN t \/ c.kind = "create"
    PROVE  /\ IsTable(After(t, c))
           /\ c.kind = "details" => LocationsOf(After(t, c)) =
                [p \in DOMAIN t |-> IF p = c.place THEN [Location(t[p]) EXCEPT !.info = c.n]
                                                   ELSE Location(t[p])]
           /\ c.kind = "default" =>
                /\ LocationsOf(After(t, c)) = WithMain(LocationsOf(t), c.place)
                /\ c.place \in DOMAIN After(t, c)
           /\ c.kind = "remove" =>
                /\ DOMAIN After(t, c) = DOMAIN t \ {c.place}
                /\ ~t[c.place].main =>
                     LocationsOf(After(t, c)) = [p \in DOMAIN t \ {c.place} |-> Location(t[p])]
           /\ c.kind \in {"units", "consent"} => LocationsOf(After(t, c)) = LocationsOf(t)
           /\ c.kind \notin {"create", "remove"} => DOMAIN After(t, c) = DOMAIN t
           /\ c.kind # "create" => DOMAIN After(t, c) \subseteq DOMAIN t
           /\ c.kind \notin {"create", "units", "consent"} =>
                \A p \in DOMAIN After(t, c) : After(t, c)[p].units = t[p].units
           /\ c.kind \in {"units", "consent"} =>
                \A p \in DOMAIN t :
                    After(t, c)[p].units = IF p = c.place THEN c.n ELSE t[p].units
<1> DEFINE a == After(t, c)
<1>1. /\ DOMAIN t \subseteq Places /\ \A p \in DOMAIN t : t[p] \in Row
      /\ c.place \in Places /\ c.n \in Versions /\ c.kind \in Kinds
  BY PlacesAssumption DEF IsTable, Change, Versions
<1>2. CASE c.kind = "create"
  <2>1. a = [q \in DOMAIN t \cup {c.place} |->
               IF q = c.place THEN [info |-> c.n, units |-> c.n, main |-> DOMAIN t = {}]
                              ELSE t[q]]
    BY <1>2 DEF After, WithNew
  <2>2. IsTable(a)
    BY <1>1, <2>1 DEF IsTable, Row
  <2> QED BY <1>2, <2>2
<1>3. CASE c.kind = "remove"
  <2> DEFINE rest == DOMAIN t \ {c.place}
             heir(q) == t[q].main \/ (t[c.place].main /\ q = Oldest(rest))
  <2>1. a = [q \in rest |-> [t[q] EXCEPT !.main = heir(q)]]
    BY <1>3 DEF After, Without
  <2>2. \A q \in rest : t[q] \in Row /\ t[q].main \in BOOLEAN /\ heir(q) \in BOOLEAN
    BY <1>1, <1>3, RowFields, PlacesAssumption DEF Versions
  <2>3. \A q \in rest : a[q] \in Row /\ a[q].units = t[q].units
                        /\ Location(a[q]) = [Location(t[q]) EXCEPT !.main = heir(q)]
    <3> SUFFICES ASSUME NEW q \in rest
                 PROVE  /\ a[q] \in Row /\ a[q].units = t[q].units
                        /\ Location(a[q]) = [Location(t[q]) EXCEPT !.main = heir(q)]
      OBVIOUS
    <3>1. a[q] = [t[q] EXCEPT !.main = heir(q)]
      BY <2>1
    <3>2. t[q] \in Row /\ heir(q) \in BOOLEAN
      BY <2>2
    <3> HIDE DEF a, heir
    <3> QED BY <3>1, <3>2, MainSet
  <2>4. DOMAIN a = rest
    BY <2>1
  <2>5. IsTable(a)
    BY <1>1, <2>3, <2>4 DEF IsTable
  <2>6. ASSUME ~t[c.place].main
        PROVE  LocationsOf(a) = [p \in rest |-> Location(t[p])]
    <3>1. \A q \in rest : heir(q) = t[q].main
      BY <2>2, <2>6
    <3>2. \A q \in rest : [Location(t[q]) EXCEPT !.main = t[q].main] = Location(t[q])
      BY DEF Location
    <3> HIDE DEF a, heir
    <3>3. \A q \in rest : Location(a[q]) = Location(t[q])
      BY <2>3, <3>1, <3>2
    <3> QED BY <2>4, <3>3 DEF LocationsOf
  <2> HIDE DEF a, heir
  <2> QED BY <1>3, <2>3, <2>4, <2>5, <2>6 DEF a
<1>4. CASE c.kind = "default"
  <2>1. a = [q \in DOMAIN t |-> [t[q] EXCEPT !.main = q = c.place]]
    BY <1>4 DEF After, WithMain
  <2>2. \A q \in DOMAIN t : a[q] \in Row /\ a[q].units = t[q].units
                        /\ Location(a[q]) = [Location(t[q]) EXCEPT !.main = q = c.place]
    <3> SUFFICES ASSUME NEW q \in DOMAIN t
                 PROVE  /\ a[q] \in Row /\ a[q].units = t[q].units
                        /\ Location(a[q]) = [Location(t[q]) EXCEPT !.main = q = c.place]
      OBVIOUS
    <3> DEFINE here == q = c.place
    <3>1. a[q] = [t[q] EXCEPT !.main = here] /\ here \in BOOLEAN
      BY <2>1
    <3> HIDE DEF a, here
    <3>2. /\ a[q] \in Row /\ a[q].units = t[q].units
          /\ Location(a[q]) = [Location(t[q]) EXCEPT !.main = here]
      BY <1>1, <3>1, MainSet
    <3> QED BY <3>2 DEF here
  <2>3. DOMAIN a = DOMAIN t
    BY <2>1
  <2> HIDE DEF a
  <2>4. IsTable(a)
    BY <1>1, <2>2, <2>3 DEF IsTable
  <2>5. LocationsOf(a) = WithMain(LocationsOf(t), c.place)
    BY <2>2, <2>3 DEF LocationsOf, WithMain
  <2> QED BY <1>4, <2>2, <2>3, <2>4, <2>5 DEF a
<1>5. CASE c.kind \in {"units", "consent"}
  <2>1. a = [t EXCEPT ![c.place].units = c.n] /\ c.place \in DOMAIN t
    BY <1>5 DEF After
  <2>2. \A q \in DOMAIN t : a[q] \in Row /\ Location(a[q]) = Location(t[q])
                        /\ a[q].units = IF q = c.place THEN c.n ELSE t[q].units
    <3> SUFFICES ASSUME NEW q \in DOMAIN t
                 PROVE  /\ a[q] \in Row /\ Location(a[q]) = Location(t[q])
                        /\ a[q].units = IF q = c.place THEN c.n ELSE t[q].units
      OBVIOUS
    <3>1. a[q] = IF q = c.place THEN [t[q] EXCEPT !.units = c.n] ELSE t[q]
      BY <2>1
    <3> HIDE DEF a
    <3>2. CASE q = c.place
      BY <1>1, <3>1, <3>2, UnitsSet
    <3>3. CASE q # c.place
      BY <1>1, <3>1, <3>3
    <3> QED BY <3>2, <3>3
  <2>3. DOMAIN a = DOMAIN t
    BY <2>1
  <2> HIDE DEF a
  <2>4. IsTable(a)
    BY <1>1, <2>2, <2>3 DEF IsTable
  <2>5. LocationsOf(a) = LocationsOf(t)
    BY <2>2, <2>3 DEF LocationsOf
  <2> QED BY <1>5, <2>2, <2>3, <2>4, <2>5 DEF a
<1>6. CASE c.kind \in {"details", "where", "heat"}
  <2>1. a = [t EXCEPT ![c.place].info = c.n] /\ c.place \in DOMAIN t
    BY <1>6 DEF After
  <2>2. \A q \in DOMAIN t : a[q] \in Row /\ a[q].units = t[q].units
                        /\ Location(a[q]) = IF q = c.place
                             THEN [Location(t[q]) EXCEPT !.info = c.n] ELSE Location(t[q])
    <3> SUFFICES ASSUME NEW q \in DOMAIN t
                 PROVE  /\ a[q] \in Row /\ a[q].units = t[q].units
                        /\ Location(a[q]) = IF q = c.place
                             THEN [Location(t[q]) EXCEPT !.info = c.n] ELSE Location(t[q])
      OBVIOUS
    <3>1. a[q] = IF q = c.place THEN [t[q] EXCEPT !.info = c.n] ELSE t[q]
      BY <2>1
    <3> HIDE DEF a
    <3>2. CASE q = c.place
      BY <1>1, <3>1, <3>2, InfoSet
    <3>3. CASE q # c.place
      BY <1>1, <3>1, <3>3
    <3> QED BY <3>2, <3>3
  <2>3. DOMAIN a = DOMAIN t
    BY <2>1
  <2> HIDE DEF a
  <2>4. IsTable(a)
    BY <1>1, <2>2, <2>3 DEF IsTable
  <2>5. LocationsOf(a) = [p \in DOMAIN t |-> IF p = c.place
                             THEN [Location(t[p]) EXCEPT !.info = c.n] ELSE Location(t[p])]
    BY <2>2, <2>3 DEF LocationsOf
  <2> QED BY <1>6, <2>2, <2>3, <2>4, <2>5 DEF a
<1>7. c.kind \in {"create", "remove", "default", "units", "consent", "details", "where", "heat"}
  BY <1>1 DEF Kinds
<1> QED BY <1>2, <1>3, <1>4, <1>5, <1>6, <1>7

----------------------------------------------------------------------------
(* The types of the places page *)

\* A read under way is a record, as Idle is.
IsFetch(f)    == f = [on |-> f.on, seen |-> f.seen, for |-> f.for]
FetchesAreFetches == \A i \in DOMAIN fetches : IsFetch(fetches[i])

ApiTypes  == ApiTypeOK /\ FetchesAreFetches
PageTypes ==
    /\ page \in {"home", "mypage"}
    /\ DOMAIN locations \subseteq Places
    /\ \A p \in DOMAIN locations :
         locations[p] \in [info : Versions, main : BOOLEAN]
    /\ DOMAIN aircons \subseteq Places
    /\ \A p \in DOMAIN aircons : aircons[p] \in Versions
    /\ {selected, deleting} \subseteq Places \cup {None}
    /\ {loading, waiting, trouble} \subseteq BOOLEAN
    /\ changes \subseteq Change /\ asked \in 0..MaxChanges
    /\ trust \subseteq Callers \cup {"cache"}

LEMMA FetchTypes ==
    ASSUME ApiTypes, NEW i \in DOMAIN fetches
    PROVE  /\ i \in 1..MaxFetches /\ i \in Nat /\ i # None
           /\ DOMAIN fetches[i] = {"on", "seen", "for"}
           /\ fetches[i].on \in BOOLEAN /\ fetches[i].for \subseteq Callers
           /\ \A t \in fetches[i].seen : IsTable(t)
<1>1. fetches[i] = [on |-> fetches[i].on, seen |-> fetches[i].seen, for |-> fetches[i].for]
  BY DEF ApiTypes, FetchesAreFetches, IsFetch
<1>2. i \in 1..MaxFetches /\ MaxFetches \in Nat
  BY PlacesAssumption DEF ApiTypes, ApiTypeOK
<1> QED BY <1>1, <1>2 DEF ApiTypes, ApiTypeOK, None

LEMMA OneTable ==
    ASSUME ApiTypes, NEW t, IsTable(t)
    PROVE  Cardinality({t}) <= 1 /\ \A u \in {t} : IsTable(u)
<1>1. Cardinality({t}) = 1
  BY FS_Singleton
<1> QED BY <1>1

\* One read of the several is replaced.
LEMMA OneFetch ==
    ASSUME ApiTypes, NEW i \in DOMAIN fetches, NEW f, IsFetch(f),
           f.on \in BOOLEAN, f.for \subseteq Callers, \A t \in f.seen : IsTable(t),
           fetches' = [fetches EXCEPT ![i] = f],
           inFlight' \in {None} \cup UnderWay', db' = db,
           cache' = cache \/ cache' = {} \/ \E t : IsTable(t) /\ cache' = {t}
    PROVE  ApiTypes'
<1>1. DOMAIN fetches' = DOMAIN fetches
      /\ \A j \in DOMAIN fetches : fetches'[j] = IF j = i THEN f ELSE fetches[j]
  OBVIOUS
<1>2. \A j \in DOMAIN fetches' : /\ fetches'[j].on \in BOOLEAN
                                 /\ fetches'[j].for \subseteq Callers
                                 /\ \A t \in fetches'[j].seen : IsTable(t)
  BY <1>1 DEF ApiTypes, ApiTypeOK
<1>3. FetchesAreFetches'
  BY <1>1 DEF ApiTypes, FetchesAreFetches, IsFetch
<1>4. \A t \in cache' : IsTable(t) /\ Cardinality(cache') <= 1
  <2>1. CASE cache' = cache
    BY <2>1 DEF ApiTypes, ApiTypeOK
  <2>2. CASE cache' = {}
    BY <2>2
  <2>3. CASE \E t : IsTable(t) /\ cache' = {t}
    BY <2>3, OneTable
  <2> QED BY <2>1, <2>2, <2>3
<1>5. IsTable(db)' /\ DOMAIN fetches' = 1..MaxFetches
  BY <1>1 DEF ApiTypes, ApiTypeOK, IsTable
<1> QED BY <1>2, <1>3, <1>4, <1>5 DEF ApiTypes, ApiTypeOK, IsTable

LEMMA AskTypes ==
    ASSUME ApiTypes, NEW who \in SUBSET Callers, NEW lone, Ask(who, lone)
    PROVE  ApiTypes'
<1>1. CASE UNCHANGED <<fetches, inFlight>>
  BY <1>1 DEF Ask, ApiTypes, ApiTypeOK, FetchesAreFetches, IsTable, UnderWay
<1>2. CASE Joined(who)
  <2> DEFINE i == inFlight
             f == [fetches[i] EXCEPT !.for = @ \cup who]
  <2>1. i \in DOMAIN fetches /\ i \in UnderWay
    BY <1>2 DEF Joined, ApiTypes, ApiTypeOK, UnderWay
  <2>2. /\ f = [on |-> fetches[i].on, seen |-> fetches[i].seen, for |-> fetches[i].for \cup who]
    BY <2>1 DEF ApiTypes, FetchesAreFetches, IsFetch
  <2>3. fetches' = [fetches EXCEPT ![i] = f] /\ inFlight' = i
    BY <1>2 DEF Joined
  <2>4. db' = db /\ cache' = cache
    BY DEF Ask
  <2>5. i \in UnderWay'
    BY <2>1, <2>2, <2>3 DEF UnderWay
  <2> HIDE DEF i
  <2>6. /\ IsFetch(f) /\ f.on \in BOOLEAN /\ f.for \subseteq Callers
        /\ \A t \in f.seen : IsTable(t)
    BY <2>1, <2>2, FetchTypes DEF IsFetch
  <2> HIDE DEF f
  <2> QED BY <2>1, <2>3, <2>4, <2>5, <2>6, OneFetch
<1>3. CASE Started(who)
  <2>1. PICK i \in DOMAIN fetches :
          /\ fetches' = [fetches EXCEPT ![i] = Begun(who)]
          /\ inFlight' = i
    BY <1>3 DEF Started
  <2> DEFINE f == Begun(who)
  <2>2. f = [on |-> TRUE, seen |-> {}, for |-> who]
    BY DEF Begun
  <2>3. db' = db /\ cache' = cache
    BY DEF Ask
  <2>4. i \in UnderWay'
    BY <2>1, <2>2 DEF UnderWay
  <2>5. /\ IsFetch(f) /\ f.on \in BOOLEAN /\ f.for \subseteq Callers
        /\ \A t \in f.seen : IsTable(t)
    BY <2>2 DEF IsFetch
  <2> HIDE DEF f
  <2> QED BY <2>1, <2>3, <2>4, <2>5, OneFetch DEF f
<1> QED BY <1>1, <1>2, <1>3 DEF Ask

LEMMA EndTypes ==
    ASSUME ApiTypes, NEW i \in DOMAIN fetches, ReadEnded(i), db' = db,
           cache' = cache \/ \E t : IsTable(t) /\ cache' = {t}
    PROVE  ApiTypes'
<1>1. /\ IsFetch(Idle) /\ Idle.on \in BOOLEAN /\ Idle.for \subseteq Callers
      /\ \A t \in Idle.seen : IsTable(t)
  BY DEF Idle, IsFetch
<1> QED BY <1>1, OneFetch DEF ReadEnded

\* What is shown of a table.
LEMMA ShownOf ==
    ASSUME NEW t, IsTable(t)
    PROVE  /\ DOMAIN LocationsOf(t) = DOMAIN t /\ DOMAIN AirconsOf(t) = DOMAIN t
           /\ DOMAIN t \subseteq Places
           /\ \A p \in DOMAIN t : /\ LocationsOf(t)[p] \in [info : Versions, main : BOOLEAN]
                                  /\ AirconsOf(t)[p] \in Versions
                                  /\ AirconsOf(t)[p] = t[p].units
           /\ Reselected(t) \in DOMAIN t \cup {selected, None}
           /\ DOMAIN t # {} => Reselected(t) \in DOMAIN t
<1>1. DOMAIN t \subseteq Places /\ \A p \in DOMAIN t : t[p] \in Row
  BY DEF IsTable
<1>2. \A p \in DOMAIN t : t[p].units \in Versions
                          /\ Location(t[p]) \in [info : Versions, main : BOOLEAN]
  BY <1>1, RowFields
<1>3. DOMAIN t # {} => Oldest(DOMAIN t) \in DOMAIN t
  BY <1>1, OldestFacts DEF Places
<1>4. /\ Reselected(t) \in DOMAIN t \cup {selected, None}
      /\ DOMAIN t # {} => Reselected(t) \in DOMAIN t
  BY <1>3 DEF Reselected
<1>5. /\ DOMAIN LocationsOf(t) = DOMAIN t /\ DOMAIN AirconsOf(t) = DOMAIN t
      /\ \A p \in DOMAIN t : LocationsOf(t)[p] = Location(t[p]) /\ AirconsOf(t)[p] = t[p].units
  BY DEF LocationsOf, AirconsOf
<1>6. \A p \in DOMAIN t : /\ LocationsOf(t)[p] \in [info : Versions, main : BOOLEAN]
                          /\ AirconsOf(t)[p] \in Versions /\ AirconsOf(t)[p] = t[p].units
  BY <1>2, <1>5
<1> QED BY <1>1, <1>4, <1>5, <1>6

LEMMA ShownTypes ==
    ASSUME PageTypes, NEW t, IsTable(t), NEW who, ShowTable(t, who), "locations" \in who
    PROVE  /\ DOMAIN locations' \subseteq Places
           /\ \A p \in DOMAIN locations' : locations'[p] \in [info : Versions, main : BOOLEAN]
           /\ selected' \in Places \cup {None} /\ loading' \in BOOLEAN
<1>1. locations' = LocationsOf(t) /\ selected' = Reselected(t) /\ loading' = FALSE
  BY DEF ShowTable
<1>2. selected \in Places \cup {None}
  BY DEF PageTypes
<1>3. selected' \in Places \cup {None}
  BY <1>1, <1>2, ShownOf
<1>4. DOMAIN locations' \subseteq Places
      /\ \A p \in DOMAIN locations' : locations'[p] \in [info : Versions, main : BOOLEAN]
  BY <1>1, ShownOf
<1> QED BY <1>1, <1>3, <1>4

\* What ShowTable() may change, and how.
LEMMA ShowTypes ==
    ASSUME PageTypes, NEW t, IsTable(t), NEW who, ShowTable(t, who),
           trouble' \in BOOLEAN, UNCHANGED <<page, deleting, asked>>,
           changes' \subseteq changes, trust' \subseteq Callers \cup {"cache"}
    PROVE  PageTypes'
<1>1. /\ DOMAIN locations' \subseteq Places
      /\ \A p \in DOMAIN locations' : locations'[p] \in [info : Versions, main : BOOLEAN]
      /\ selected' \in Places \cup {None} /\ loading' \in BOOLEAN
  <2>1. CASE "locations" \in who
    BY <2>1, ShownTypes
  <2>2. CASE "locations" \notin who
    BY <2>2 DEF ShowTable, PageTypes
  <2> QED BY <2>1, <2>2
<1>2. /\ DOMAIN aircons' \subseteq Places
      /\ \A p \in DOMAIN aircons' : aircons'[p] \in Versions
      /\ waiting' \in BOOLEAN
  <2>1. CASE "aircons" \in who
    BY <2>1, ShownOf DEF ShowTable, PageTypes
  <2>2. CASE "aircons" \notin who
    BY <2>2 DEF ShowTable, PageTypes
  <2> QED BY <2>1, <2>2
<1> QED BY <1>1, <1>2 DEF PageTypes

LEMMA AskPage ==
    ASSUME ApiTypes, PageTypes, NEW who \in SUBSET Callers, NEW lone, Ask(who, lone),
           page' \in {"home", "mypage"}, UNCHANGED <<deleting, asked>>,
           changes' \subseteq changes
    PROVE  PageTypes'
<1>1. trust' \subseteq Callers \cup {"cache"}
  BY DEF Ask, Vouched, PageTypes
<1>2. trouble \in BOOLEAN /\ loading \in BOOLEAN
  BY DEF PageTypes
<1>3. trouble' \in BOOLEAN
  BY <1>2 DEF Ask
<1>4. CASE \E t \in cache : ShowTable(t, who)
  <2>1. PICK t \in cache : ShowTable(t, who)
    BY <1>4
  <2>2. IsTable(t)
    BY DEF ApiTypes, ApiTypeOK
  <2>3. ASSUME "locations" \in who
        PROVE  /\ DOMAIN locations' \subseteq Places
               /\ \A p \in DOMAIN locations' : locations'[p] \in [info : Versions, main : BOOLEAN]
               /\ selected' \in Places \cup {None} /\ loading' \in BOOLEAN
    BY <2>1, <2>2, <2>3, ShownTypes
  <2>4. ASSUME "aircons" \in who
        PROVE  /\ DOMAIN aircons' \subseteq Places
               /\ \A p \in DOMAIN aircons' : aircons'[p] \in Versions
               /\ waiting' \in BOOLEAN
    BY <2>1, <2>2, <2>4, ShownOf DEF ShowTable, PageTypes
  <2>5. "locations" \notin who => UNCHANGED <<locations, selected, loading>>
    BY <2>1 DEF ShowTable
  <2>6. "aircons" \notin who => UNCHANGED <<aircons, waiting>>
    BY <2>1 DEF ShowTable
  <2> QED BY <1>1, <1>3, <2>3, <2>4, <2>5, <2>6 DEF PageTypes
<1>5. CASE loading' = (loading \/ "locations" \in who)
           /\ UNCHANGED <<locations, selected, aircons, waiting>>
  <2>1. loading' \in BOOLEAN
    BY <1>2, <1>5
  <2> QED BY <1>1, <1>3, <1>5, <2>1 DEF PageTypes
<1> QED BY <1>4, <1>5 DEF Ask

LEMMA SettleTypes ==
    ASSUME ApiTypes, PageTypes, NEW i \in 1..MaxFetches, Settle(i)
    PROVE  ApiTypes' /\ PageTypes'
<1>1. i \in DOMAIN fetches
  BY DEF ApiTypes, ApiTypeOK
<1>2. PICK t \in fetches[i].seen : cache' = {t} /\ ShowTable(t, fetches[i].for)
  BY DEF Settle
<1>3. IsTable(t)
  BY <1>1, FetchTypes
<1>4. ApiTypes'
  BY <1>1, <1>2, <1>3, EndTypes DEF Settle
<1>5. trouble' \in BOOLEAN /\ UNCHANGED <<page, deleting, asked, changes, trust>>
      /\ trust \subseteq Callers \cup {"cache"}
  BY DEF Settle, PageTypes
<1>6. PageTypes'
  BY <1>2, <1>3, <1>5, ShowTypes
<1> QED BY <1>4, <1>6

LEMMA FailTypes ==
    ASSUME ApiTypes, PageTypes, NEW i \in 1..MaxFetches, FetchFails(i)
    PROVE  ApiTypes' /\ PageTypes'
<1>1. i \in DOMAIN fetches
  BY DEF ApiTypes, ApiTypeOK
<1>2. ApiTypes'
  BY <1>1, EndTypes DEF FetchFails
<1>3. loading' \in BOOLEAN /\ waiting' \in BOOLEAN /\ trouble' \in BOOLEAN
  <2>1. loading \in BOOLEAN /\ waiting \in BOOLEAN /\ trouble \in BOOLEAN
    BY DEF PageTypes
  <2> QED BY <2>1 DEF FetchFails
<1>4. PageTypes'
  BY <1>3 DEF FetchFails, PageTypes
<1> QED BY <1>2, <1>4

LEMMA LookTypes ==
    ASSUME ApiTypes, NEW i \in 1..MaxFetches, Look(i)
    PROVE  ApiTypes'
<1> DEFINE f == [fetches[i] EXCEPT !.seen = {db}]
<1>1. i \in DOMAIN fetches
  BY DEF ApiTypes, ApiTypeOK
<1>2. f = [on |-> fetches[i].on, seen |-> {db}, for |-> fetches[i].for]
  BY <1>1 DEF ApiTypes, FetchesAreFetches, IsFetch
<1>3. /\ IsFetch(f) /\ f.on \in BOOLEAN /\ f.for \subseteq Callers
      /\ \A t \in f.seen : IsTable(t)
  BY <1>1, <1>2, FetchTypes DEF IsFetch, ApiTypes, ApiTypeOK
<1>4. fetches' = [fetches EXCEPT ![i] = f] /\ UNCHANGED <<db, cache, inFlight>>
  BY DEF Look
<1>5. inFlight' \in {None} \cup UnderWay'
  BY <1>1, <1>2, <1>4 DEF ApiTypes, ApiTypeOK, UnderWay
<1> HIDE DEF f
<1> QED BY <1>1, <1>3, <1>4, <1>5, OneFetch

LEMMA LeaveTypes ==
    ASSUME ApiTypes, PageTypes, Leave
    PROVE  ApiTypes' /\ PageTypes'
<1>1. /\ DOMAIN fetches' = DOMAIN fetches
      /\ \A i \in DOMAIN fetches :
            fetches'[i] = [on |-> fetches[i].on, seen |-> fetches[i].seen,
                           for |-> fetches[i].for \ {"aircons"}]
  <2> SUFFICES ASSUME NEW i \in DOMAIN fetches
               PROVE  [fetches[i] EXCEPT !.for = @ \ {"aircons"}] =
                        [on |-> fetches[i].on, seen |-> fetches[i].seen,
                         for |-> fetches[i].for \ {"aircons"}]
    BY DEF Leave
  <2> QED BY DEF ApiTypes, FetchesAreFetches, IsFetch
<1>2. \A i \in DOMAIN fetches : /\ fetches[i].on \in BOOLEAN /\ fetches[i].for \subseteq Callers
                                /\ \A t \in fetches[i].seen : IsTable(t)
  BY FetchTypes
<1>3. \A i \in DOMAIN fetches' : /\ fetches'[i].on \in BOOLEAN
                                 /\ fetches'[i].for \subseteq Callers
                                 /\ \A t \in fetches'[i].seen : IsTable(t)
  BY <1>1, <1>2
<1>4. UnderWay' = UnderWay
  BY <1>1 DEF UnderWay
<1>5. FetchesAreFetches'
  BY <1>1 DEF FetchesAreFetches, IsFetch
<1>6. ApiTypes'
  BY <1>1, <1>3, <1>4, <1>5 DEF Leave, ApiTypes, ApiTypeOK, IsTable
<1>7. changes' \subseteq Change
  <2> SUFFICES ASSUME NEW c \in changes PROVE [c EXCEPT !.mine = FALSE] \in Change
    BY DEF Leave
  <2> QED BY DEF PageTypes, Change
<1>8. aircons' = <<>> /\ DOMAIN <<>> = {}
  BY DEF Leave
<1>9. /\ DOMAIN aircons' \subseteq Places
      /\ \A p \in DOMAIN aircons' : aircons'[p] \in Versions
  BY <1>8
<1>10. trust' \subseteq Callers \cup {"cache"} /\ waiting' \in BOOLEAN /\ trouble' \in BOOLEAN
  BY DEF Leave, PageTypes
<1>11. PageTypes'
  BY <1>7, <1>9, <1>10 DEF Leave, PageTypes
<1> QED BY <1>6, <1>11

LEMMA SendTypes ==
    ASSUME ApiTypes, PageTypes, NEW p \in Places, NEW kind \in Kinds, SendChange(kind, p)
    PROVE  ApiTypes' /\ PageTypes'
<1>1. asked \in Nat /\ MaxChanges \in Nat /\ asked < MaxChanges /\ asked' = asked + 1
  BY PlacesAssumption DEF PageTypes, SendChange
<1>2. asked' \in 1..MaxChanges /\ asked' \in 0..MaxChanges
  BY <1>1
<1>4. PICK new \in Change : changes' = changes \cup {new}
  <2> DEFINE new == [n |-> asked', kind |-> kind, place |-> p, applied |-> FALSE,
                     chosen |-> kind = "remove" /\ p = selected, mine |-> page = "mypage"]
  <2>1. new \in Change
    BY <1>2 DEF Change
  <2>2. changes' = changes \cup {new}
    BY DEF SendChange
  <2> QED BY <2>1, <2>2
<1>5. changes' \subseteq Change /\ deleting' \in Places \cup {None}
      /\ trust' \subseteq Callers \cup {"cache"}
  BY <1>4 DEF SendChange, PageTypes
<1>6. PageTypes'
  BY <1>2, <1>5 DEF SendChange, PageTypes, shown
<1>7. /\ \A t \in cache' : IsTable(t) /\ Cardinality(cache') <= 1
      /\ inFlight' \in {None} \cup UnderWay /\ UNCHANGED <<db, fetches>>
  BY DEF SendChange, Invalidated, ApiTypes, ApiTypeOK
<1>8. ApiTypes'
  BY <1>7 DEF ApiTypes, ApiTypeOK, FetchesAreFetches, IsTable, UnderWay
<1> QED BY <1>6, <1>8

LEMMA ApplyTypes ==
    ASSUME ApiTypes, PageTypes, NEW c \in changes, Apply(c)
    PROVE  ApiTypes' /\ PageTypes'
<1>1. c \in Change /\ [c EXCEPT !.applied = TRUE] \in Change
  BY DEF PageTypes, Change
<1>2. IsTable(db')
  BY <1>1, AfterFacts DEF Apply, ApiTypes, ApiTypeOK
<1>3. ApiTypes'
  BY <1>2 DEF Apply, ApiTypes, ApiTypeOK, FetchesAreFetches, UnderWay, IsTable
<1>4. changes' \subseteq Change
  BY <1>1 DEF Apply, PageTypes
<1> QED BY <1>3, <1>4 DEF Apply, PageTypes, shown

LEMMA CopyTypes ==
    ASSUME ApiTypes, PageTypes, NEW c \in changes, AnswerCopied(c)
    PROVE  ApiTypes' /\ PageTypes'
<1>1. c \in Change
  BY DEF PageTypes
<1>2. c.place \in Places /\ c.n \in Versions /\ c.kind \in Kinds
  BY <1>1, PlacesAssumption DEF Change, Versions
<1>3. /\ DOMAIN locations' \subseteq Places
      /\ \A p \in DOMAIN locations' : locations'[p] \in [info : Versions, main : BOOLEAN]
  <2>1. DOMAIN locations \subseteq Places
        /\ \A p \in DOMAIN locations : locations[p] \in [info : Versions, main : BOOLEAN]
    BY DEF PageTypes
  <2>2. \A p \in DOMAIN locations :
           /\ [locations[p] EXCEPT !.info = c.n] \in [info : Versions, main : BOOLEAN]
           /\ [locations[p] EXCEPT !.main = p = c.place] \in [info : Versions, main : BOOLEAN]
    <3> SUFFICES ASSUME NEW l \in [info : Versions, main : BOOLEAN], NEW b \in BOOLEAN
                 PROVE  /\ [l EXCEPT !.info = c.n] \in [info : Versions, main : BOOLEAN]
                        /\ [l EXCEPT !.main = b] \in [info : Versions, main : BOOLEAN]
      BY <2>1
    <3> QED BY <1>2
  <2>3. locations' = Copied(c)
    BY DEF AnswerCopied
  <2>4. CASE c.kind = "details"
    BY <2>1, <2>2, <2>3, <2>4 DEF Copied
  <2>5. CASE c.kind = "default"
    BY <2>1, <2>2, <2>3, <2>5 DEF Copied, WithMain
  <2>6. CASE c.kind = "remove"
    BY <2>1, <2>3, <2>6 DEF Copied
  <2>7. CASE c.kind \notin {"details", "default", "remove"}
    BY <2>1, <2>3, <2>7 DEF Copied
  <2> QED BY <2>4, <2>5, <2>6, <2>7
<1>4. /\ DOMAIN aircons' \subseteq Places
      /\ \A p \in DOMAIN aircons' : aircons'[p] \in Versions
  BY <1>2 DEF AnswerCopied, CopiedUnits, PageTypes
<1>5. ApiTypes'
  BY DEF AnswerCopied, api, ApiTypes, ApiTypeOK, FetchesAreFetches, UnderWay, IsTable
<1>6. selected' \in Places \cup {None} /\ changes' \subseteq Change
  BY <1>2 DEF AnswerCopied, PageTypes
<1> QED BY <1>3, <1>4, <1>5, <1>6 DEF AnswerCopied, PageTypes

LEMMA ReadersAreCallers ==
    ASSUME NEW c \in Change
    PROVE  Readers(c) \in SUBSET Callers
<1>1. c.kind \in {"where", "heat", "remove", "create", "units"}
      \/ c.kind \notin {"where", "heat", "remove", "create", "units"}
  OBVIOUS
<1> QED BY DEF Readers, Callers

LEMMA SameTypes ==
    ASSUME ApiTypes, PageTypes, UNCHANGED <<api, page, shown, asked>>,
           deleting' \in Places \cup {None}, changes' \subseteq Change,
           trust' \subseteq Callers \cup {"cache"}
    PROVE  ApiTypes' /\ PageTypes'
  BY DEF ApiTypes, ApiTypeOK, FetchesAreFetches, PageTypes, api, shown, UnderWay, IsTable

LEMMA TypesHold == PlacesSpec => [](ApiTypes /\ PageTypes)
<1>1. PlacesInit => ApiTypes /\ PageTypes
  <2> SUFFICES ASSUME PlacesInit PROVE ApiTypes /\ PageTypes
    OBVIOUS
  <2> USE DEF PlacesInit, ApiInit
  <2>1. /\ MaxChanges \in Nat \ {0} /\ MaxFetches \in Nat \ {0}
        /\ Founders \subseteq Places /\ 0 \in Versions /\ 2 \in Places /\ 1 \in 1..MaxFetches
    BY PlacesAssumption DEF Founders, Places, Versions
  <2>2. IsTable(db)
    BY <2>1 DEF IsTable, Row
  <2>3. /\ DOMAIN fetches = 1..MaxFetches
        /\ \A i \in DOMAIN fetches : fetches[i] = IF i = 1 THEN Begun({"locations"}) ELSE Idle
    OBVIOUS
  <2>4. ASSUME NEW f \in {Begun({"locations"}), Idle}
        PROVE  /\ f.on \in BOOLEAN /\ f.for \subseteq Callers /\ f.seen = {} /\ IsFetch(f)
               /\ f = Begun({"locations"}) => f.on
    <3>1. CASE f = Begun({"locations"})
      <4>1. f = [on |-> TRUE, seen |-> {}, for |-> {"locations"}]
        BY <3>1 DEF Begun
      <4> QED BY <4>1 DEF IsFetch, Callers
    <3>2. CASE f = Idle
      <4>1. f = [on |-> FALSE, seen |-> {}, for |-> {}]
        BY <3>2 DEF Idle
      <4>2. f # Begun({"locations"})
        BY <4>1 DEF Begun
      <4> QED BY <4>1, <4>2 DEF IsFetch
    <3> QED BY <2>4, <3>1, <3>2
  <2>5. FetchesAreFetches
    BY <2>3, <2>4 DEF FetchesAreFetches
  <2>6. 1 \in UnderWay
    BY <2>1, <2>3, <2>4 DEF UnderWay
  <2>7. ApiTypes
    BY <2>2, <2>3, <2>4, <2>5, <2>6 DEF ApiTypes, ApiTypeOK
  <2>8. DOMAIN <<>> = {}
    OBVIOUS
  <2>9. /\ changes \subseteq Change /\ asked \in 0..MaxChanges
        /\ {selected, deleting} \subseteq Places \cup {None}
        /\ trust \subseteq Callers \cup {"cache"}
    BY <2>1 DEF Callers
  <2>10. PageTypes
    BY <2>8, <2>9 DEF PageTypes
  <2> QED BY <2>7, <2>10
<1>2. (ApiTypes /\ PageTypes) /\ [PlacesNext]_placesVars => (ApiTypes /\ PageTypes)'
  <2> SUFFICES ASSUME ApiTypes, PageTypes, [PlacesNext]_placesVars
               PROVE  ApiTypes' /\ PageTypes'
    OBVIOUS
  <2> USE DEF shown
  <2>1. CASE Expires /\ UNCHANGED <<page, shown, deleting, changes, asked, trust>>
    <3>1. ApiTypes'
      BY <2>1 DEF Expires, ApiTypes, ApiTypeOK, FetchesAreFetches, UnderWay, IsTable
    <3> QED BY <2>1, <3>1 DEF PageTypes
  <2>2. ASSUME NEW i \in 1..MaxFetches, Look(i),
               UNCHANGED <<page, shown, deleting, changes, asked, trust>>
        PROVE  ApiTypes' /\ PageTypes'
    <3>1. PageTypes'
      BY <2>2 DEF PageTypes
    <3> QED BY <2>2, <3>1, LookTypes
  <2>3. ASSUME NEW i \in 1..MaxFetches, Settle(i) \/ FetchFails(i)
        PROVE  ApiTypes' /\ PageTypes'
    BY <2>3, SettleTypes, FailTypes
  <2>4. CASE Enter
    <3>1. {"aircons"} \in SUBSET Callers /\ page' \in {"home", "mypage"} /\ changes' \subseteq changes
      BY <2>4 DEF Enter, Callers
    <3>2. Ask({"aircons"}, changes = {}) /\ UNCHANGED <<deleting, asked>>
      BY <2>4 DEF Enter
    <3> QED BY <3>1, <3>2, AskTypes, AskPage
  <2>5. CASE Leave
    BY <2>5, LeaveTypes
  <2>6. CASE CancelDelete \/ \E p \in Places : AskToDelete(p)
    <3>1. /\ UNCHANGED <<api, page, shown, asked>> /\ deleting' \in Places \cup {None}
          /\ changes' \subseteq Change /\ trust' \subseteq Callers \cup {"cache"}
      BY <2>6 DEF CancelDelete, AskToDelete, PageTypes
    <3> QED BY <3>1, SameTypes
  <2>7. ASSUME NEW p \in Places, Select(p)
        PROVE  ApiTypes' /\ PageTypes'
    <3>1. ApiTypes'
      BY <2>7 DEF Select, api, ApiTypes, ApiTypeOK, FetchesAreFetches, UnderWay, IsTable
    <3>2. PageTypes'
      BY <2>7 DEF Select, PageTypes
    <3> QED BY <3>1, <3>2
  <2>8. ASSUME NEW p \in Places, NEW kind \in Kinds, SendChange(kind, p)
        PROVE  ApiTypes' /\ PageTypes'
    BY <2>8, SendTypes
  <2>9. ASSUME NEW c \in changes, Apply(c) \/ AnswerCopied(c)
        PROVE  ApiTypes' /\ PageTypes'
    BY <2>9, ApplyTypes, CopyTypes
  <2>10. ASSUME NEW c \in changes, AnswerRead(c)
         PROVE  ApiTypes' /\ PageTypes'
    <3>1. Readers(c) \in SUBSET Callers
      BY ReadersAreCallers DEF PageTypes
    <3>2. /\ Ask(Readers(c), changes = {c}) /\ UNCHANGED <<deleting, asked>>
          /\ changes' \subseteq changes /\ page' \in {"home", "mypage"}
      BY <2>10 DEF AnswerRead, PageTypes
    <3> QED BY <3>1, <3>2, AskTypes, AskPage
  <2>11. ASSUME NEW c \in changes, ChangeFails(c)
         PROVE  ApiTypes' /\ PageTypes'
    <3>1. /\ UNCHANGED <<api, page, shown, asked>> /\ deleting' \in Places \cup {None}
          /\ changes' \subseteq Change /\ trust' \subseteq Callers \cup {"cache"}
      BY <2>11 DEF ChangeFails, PageTypes
    <3> QED BY <3>1, SameTypes
  <2>12. CASE UNCHANGED placesVars
    <3>1. /\ UNCHANGED <<api, page, shown, asked>> /\ deleting' \in Places \cup {None}
          /\ changes' \subseteq Change /\ trust' \subseteq Callers \cup {"cache"}
      BY <2>12 DEF placesVars, PageTypes
    <3> QED BY <3>1, SameTypes
  <2> QED BY <2>1, <2>2, <2>3, <2>4, <2>5, <2>6, <2>7, <2>8, <2>9, <2>10, <2>11, <2>12
          DEF PlacesNext
<1> QED BY <1>1, <1>2, PTL DEF PlacesSpec

(* Every state of the places page is made of places, versions and reads of *)
(* the ranges the source gives them, however changes, reads and visits of  *)
(* the page are mixed (placesApi.js, useSelectedLocation.js, MyPage.jsx).  *)
THEOREM PlacesTypes == PlacesSpec => []PlacesTypeOK
<1>1. ApiTypes /\ PageTypes => PlacesTypeOK
  BY DEF ApiTypes, PageTypes, PlacesTypeOK
<1> QED BY <1>1, TypesHold, PTL

----------------------------------------------------------------------------
(* What is shown of the places *)

WaitsFor(w)   == {i \in UnderWay : w \in fetches[i].for}

\* Nothing has changed since these reads were begun.
Fresh(S)      == changes = {} /\ \A i \in S : fetches[i].seen \subseteq {db}

SelectedIn(s) == DOMAIN db # {} => s \in DOMAIN db
LocationsNow  == locations = LocationsOf(db) /\ SelectedIn(selected)
UnitsIn(a)    == \A p \in DOMAIN db : p \in DOMAIN a /\ a[p] = db[p].units

\* What the list of a caller shows is what the server has,
Now(w) == IF w = "locations" THEN LocationsNow ELSE UnitsIn(aircons)

\* and so it is until a change is applied; what its answer makes of the list is
\* what the server has by then, or the answer makes the page read it again.
Soon(w, c) ==
    IF ~c.applied
      THEN /\ Now(w)
           /\ w = "locations" /\ c.kind = "remove" /\ ~c.chosen /\ c.place \in DOMAIN db
                => c.place # selected /\ ~db[c.place].main
      ELSE \/ w \in Readers(c)
           \/ /\ w = "locations"
              /\ Copied(c) = LocationsOf(db)
              /\ SelectedIn(IF c.kind = "default" THEN c.place ELSE selected)
           \/ w = "aircons" /\ UnitsIn(CopiedUnits(c))

Settled(w)   == (changes = {} => Now(w)) /\ \A c \in changes : Soon(w, c)
CallerInv(w) == IF WaitsFor(w) # {} THEN Fresh(WaitsFor(w)) ELSE Settled(w)

CacheInv == /\ cache # {} => changes = {} /\ cache \subseteq {db}
            /\ UnderWay # {} => Fresh(UnderWay)
OneChange == trust # {} => \A c, d \in changes : c = d
HomeInv   == /\ \A c \in changes : c.mine => page = "mypage"
             /\ "aircons" \in trust => page = "mypage" /\ \A c \in changes : c.mine

TrustInv ==
    /\ "cache" \in trust => CacheInv
    /\ OneChange /\ HomeInv
    /\ \A w \in Callers \cap trust : CallerInv(w)

\* The list of a caller, and the reads it waits for.
ListOf(w) == IF w = "locations" THEN <<locations, selected>> ELSE <<aircons>>

LEMMA SoonKept ==
    ASSUME NEW w \in Callers, NEW c, Soon(w, c), UNCHANGED <<db, ListOf(w)>>
    PROVE  Soon(w, c)'
<1>1. CASE w = "locations"
  BY <1>1 DEF ListOf, Soon, Now, LocationsNow, SelectedIn, UnitsIn, CopiedUnits, Copied,
              Readers, LocationsOf, Location
<1>2. CASE w = "aircons"
  BY <1>2 DEF ListOf, Soon, Now, LocationsNow, SelectedIn, UnitsIn, CopiedUnits, Copied,
              Readers, LocationsOf, Location
<1> QED BY <1>1, <1>2 DEF Callers

LEMMA NowKept ==
    ASSUME NEW w \in Callers, Now(w), UNCHANGED <<db, ListOf(w)>>
    PROVE  Now(w)'
BY DEF Callers, ListOf, Now, LocationsNow, SelectedIn, UnitsIn, LocationsOf, Location

LEMMA WaitKept ==
    ASSUME NEW w \in Callers, DOMAIN fetches' = DOMAIN fetches,
           \A i \in DOMAIN fetches : i \in WaitsFor(w)' <=> i \in WaitsFor(w)
    PROVE  WaitsFor(w)' = WaitsFor(w)
  BY DEF WaitsFor, UnderWay

LEMMA FreshKept ==
    ASSUME NEW S, NEW T, Fresh(S), T \subseteq S, UNCHANGED <<db, changes>>,
           \A i \in T : fetches'[i].seen \subseteq fetches[i].seen \cup {db}
    PROVE  Fresh(T)'
  BY DEF Fresh

\* A step that touches neither the list nor the reads that are waited for.
LEMMA CallerKept ==
    ASSUME NEW w \in Callers, CallerInv(w), UNCHANGED <<db, changes, ListOf(w)>>,
           WaitsFor(w)' = WaitsFor(w),
           \A i \in WaitsFor(w) : fetches'[i].seen \subseteq fetches[i].seen \cup {db}
    PROVE  CallerInv(w)'
<1>1. CASE WaitsFor(w) # {}
  <2>1. Fresh(WaitsFor(w))
    BY <1>1 DEF CallerInv
  <2>2. \A i \in WaitsFor(w)' : fetches'[i].seen \subseteq {db'} /\ changes' = {}
    BY <2>1 DEF Fresh
  <2>3. Fresh(WaitsFor(w))'
    BY <1>1, <2>2 DEF Fresh
  <2> QED BY <1>1, <2>3 DEF CallerInv
<1>2. CASE WaitsFor(w) = {}
  <2>1. Settled(w)
    BY <1>2 DEF CallerInv
  <2>2. Settled(w)'
    BY <2>1, SoonKept, NowKept DEF Settled
  <2> QED BY <1>2, <2>2 DEF CallerInv
<1> QED BY <1>1, <1>2

LEMMA CacheKept ==
    ASSUME CacheInv, UNCHANGED <<db, changes>>, cache' \subseteq cache, UnderWay' \subseteq UnderWay,
           \A i \in UnderWay' : fetches'[i].seen \subseteq fetches[i].seen \cup {db}
    PROVE  CacheInv'
<1>1. cache' # {} => changes' = {} /\ cache' \subseteq {db'}
  BY DEF CacheInv
<1>2. ASSUME UnderWay' # {} PROVE Fresh(UnderWay)'
  <2>1. Fresh(UnderWay)
    BY <1>2 DEF CacheInv
  <2>2. changes' = {} /\ \A i \in UnderWay' : fetches'[i].seen \subseteq {db'}
    BY <2>1 DEF Fresh
  <2> QED BY <2>2 DEF Fresh
<1> QED BY <1>1, <1>2 DEF CacheInv

\* A step that is about neither the lists nor the server.
LEMMA TrustKept ==
    ASSUME TrustInv, trust' \subseteq trust, UNCHANGED <<db, changes, locations, selected, aircons, page>>,
           cache' \subseteq cache, UnderWay' = UnderWay,
           \A i \in UnderWay : /\ fetches'[i].seen \subseteq fetches[i].seen \cup {db}
                               /\ fetches'[i].for = fetches[i].for
    PROVE  TrustInv'
<1>1. \A w \in Callers : WaitsFor(w)' = WaitsFor(w) /\ WaitsFor(w) \subseteq UnderWay
  BY DEF WaitsFor
<1>2. \A w \in Callers : UNCHANGED ListOf(w)
  BY DEF ListOf
<1>3. \A w \in Callers \cap trust' : CallerInv(w)'
  BY <1>1, <1>2, CallerKept DEF TrustInv
<1>4. "cache" \in trust' => CacheInv'
  BY CacheKept DEF TrustInv
<1>5. OneChange' /\ HomeInv'
  BY DEF TrustInv, OneChange, HomeInv
<1> QED BY <1>3, <1>4, <1>5 DEF TrustInv

----------------------------------------------------------------------------
(* Reading the table *)

\* The table as it is now makes the list of those who waited true.
LEMMA ShownNow ==
    ASSUME ApiTypes, NEW who, ShowTable(db, who), db' = db, NEW w \in Callers \cap who
    PROVE  Now(w)'
<1>1. IsTable(db)
  BY DEF ApiTypes, ApiTypeOK
<1>2. CASE w = "locations"
  <2>1. locations' = LocationsOf(db) /\ selected' = Reselected(db)
    BY <1>2 DEF ShowTable
  <2>2. DOMAIN db # {} => selected' \in DOMAIN db
    BY <1>1, <2>1, ShownOf
  <2> QED BY <1>2, <2>1, <2>2 DEF Now, LocationsNow, SelectedIn, LocationsOf, Location
<1>3. CASE w = "aircons"
  <2>1. aircons' = AirconsOf(db)
    BY <1>3 DEF ShowTable
  <2>2. UnitsIn(aircons)'
    BY <1>1, <2>1, ShownOf DEF UnitsIn
  <2> QED BY <1>3, <2>2 DEF Now
<1> QED BY <1>2, <1>3 DEF Callers

LEMMA OthersUnshown ==
    ASSUME NEW t, NEW who, ShowTable(t, who), NEW w \in Callers \ who
    PROVE  UNCHANGED ListOf(w)
  BY DEF ShowTable, ListOf, Callers

\* What Ask() leaves of a list that is still trusted: to those who asked, the
\* table as it is, now or with a read that was begun while nothing changed;
\* the others' it does not touch.
AskedWell(w)   == changes' = {} /\ CallerInv(w)'
LeftAlone(w)   == /\ w \in trust /\ UNCHANGED ListOf(w) /\ WaitsFor(w)' = WaitsFor(w)
                  /\ \A i \in WaitsFor(w) : fetches'[i].seen = fetches[i].seen

LEMMA AskCached ==
    ASSUME ApiTypes, TrustInv, NEW who \in SUBSET Callers, NEW lone, Ask(who, lone),
           cache # {}, changes' \subseteq changes
    PROVE  /\ "cache" \in trust' => CacheInv' /\ changes' = {}
           /\ \A w \in who \cap trust' : AskedWell(w)
           /\ \A w \in (Callers \ who) \cap trust' : LeftAlone(w)
           /\ trust' # {} => trust # {}
<1>1. PICK t \in cache : ShowTable(t, who)
  BY DEF Ask
<1>2. UNCHANGED <<db, cache, fetches, inFlight>>
  BY DEF Ask, Joined, Started
<1>3. trust' = IF "cache" \in trust THEN trust \cup who \cup {"cache"}
                                    ELSE trust \ (who \cup {"cache"})
  BY DEF Ask, Vouched
<1>4. UnderWay' = UnderWay /\ \A w : WaitsFor(w)' = WaitsFor(w) /\ WaitsFor(w) \subseteq UnderWay
  BY <1>2 DEF UnderWay, WaitsFor
<1>5. \A w \in (Callers \ who) \cap trust' : LeftAlone(w)
  BY <1>1, <1>2, <1>3, <1>4, OthersUnshown DEF LeftAlone, Callers
<1>6. CASE "cache" \notin trust
  BY <1>3, <1>5, <1>6
<1>7. CASE "cache" \in trust
  <2>1. /\ changes = {} /\ cache \subseteq {db}
        /\ UnderWay # {} => Fresh(UnderWay)
    BY <1>7 DEF TrustInv, CacheInv
  <2>2. changes' = {} /\ ShowTable(db, who)
    BY <1>1, <2>1
  <2>3. UnderWay' # {} => Fresh(UnderWay)'
    BY <1>2, <1>4, <2>1, <2>2 DEF Fresh
  <2>4. CacheInv'
    BY <1>2, <2>1, <2>2, <2>3 DEF CacheInv
  <2>5. ASSUME NEW w \in who PROVE AskedWell(w)
    <3>1. Now(w)'
      BY <1>2, <2>2, ShownNow
    <3>2. WaitsFor(w)' # {} => Fresh(WaitsFor(w))'
      BY <1>4, <2>3 DEF Fresh
    <3>3. Settled(w)'
      BY <2>2, <3>1 DEF Settled
    <3> QED BY <2>2, <3>2, <3>3 DEF AskedWell, CallerInv
  <2> QED BY <1>5, <1>7, <2>2, <2>4, <2>5
<1> QED BY <1>6, <1>7

LEMMA AskJoined ==
    ASSUME ApiTypes, TrustInv, NEW who \in SUBSET Callers, NEW lone, Ask(who, lone),
           cache = {}, Joined(who), changes' \subseteq changes
    PROVE  /\ "cache" \in trust' => CacheInv' /\ changes' = {}
           /\ \A w \in who \cap trust' : AskedWell(w)
           /\ \A w \in (Callers \ who) \cap trust' : LeftAlone(w)
           /\ trust' # {} => trust # {}
<1> DEFINE i == inFlight
<1>1. /\ UNCHANGED <<db, cache, locations, selected, aircons>>
      /\ fetches' = [fetches EXCEPT ![i].for = @ \cup who] /\ i # None
  BY DEF Ask, Joined
<1>2. trust' = IF "cache" \in trust THEN trust \cup who \cup {"cache"}
                                    ELSE trust \ (who \cup {"cache"})
  BY <1>1 DEF Ask, Vouched
<1>3. i \in UnderWay /\ i \in DOMAIN fetches
  BY <1>1 DEF ApiTypes, ApiTypeOK, UnderWay
<1> HIDE DEF i
<1>4. /\ DOMAIN fetches' = DOMAIN fetches
      /\ \A j \in DOMAIN fetches : /\ fetches'[j].on = fetches[j].on
                                   /\ fetches'[j].seen = fetches[j].seen
                                   /\ j # i => fetches'[j].for = fetches[j].for
      /\ fetches'[i].for = fetches[i].for \cup who
  <2>1. /\ DOMAIN fetches' = DOMAIN fetches
        /\ \A j \in DOMAIN fetches : j # i => fetches'[j] = fetches[j]
        /\ fetches'[i] = [fetches[i] EXCEPT !.for = fetches[i].for \cup who]
    BY <1>1, <1>3
  <2>2. DOMAIN fetches[i] = {"on", "seen", "for"}
    BY <1>3, FetchTypes
  <2> QED BY <2>1, <2>2
<1>5. UnderWay' = UnderWay
  BY <1>4 DEF UnderWay
<1>6. /\ \A w \in who : i \in WaitsFor(w)'
      /\ \A w : WaitsFor(w)' \subseteq UnderWay /\ WaitsFor(w) \subseteq UnderWay
      /\ \A w : w \notin who => WaitsFor(w)' = WaitsFor(w)
  <2>1. \A w : /\ WaitsFor(w)' = {j \in UnderWay : w \in fetches'[j].for}
               /\ WaitsFor(w) = {j \in UnderWay : w \in fetches[j].for}
    BY <1>5 DEF WaitsFor
  <2>2. \A w \in who : i \in WaitsFor(w)'
    BY <1>3, <1>4, <2>1
  <2>3. ASSUME NEW w, w \notin who PROVE WaitsFor(w)' = WaitsFor(w)
    <3>1. \A j \in UnderWay : w \in fetches'[j].for <=> w \in fetches[j].for
      BY <1>4, <2>3 DEF UnderWay
    <3> QED BY <2>1, <3>1
  <2> QED BY <2>1, <2>2, <2>3
<1>7. \A w \in (Callers \ who) \cap trust' : LeftAlone(w)
  BY <1>1, <1>2, <1>4, <1>6 DEF LeftAlone, ListOf, Callers, WaitsFor, UnderWay
<1>8. CASE "cache" \notin trust
  BY <1>2, <1>7, <1>8
<1>9. CASE "cache" \in trust
  <2>1. Fresh(UnderWay)
    BY <1>3, <1>9 DEF TrustInv, CacheInv
  <2>2. /\ changes' = {}
        /\ \A j \in UnderWay : fetches'[j].seen \subseteq {db'}
    BY <1>1, <1>4, <2>1 DEF Fresh, UnderWay
  <2>3. CacheInv'
    BY <1>1, <1>5, <2>2 DEF CacheInv, Fresh
  <2>4. ASSUME NEW w \in who PROVE AskedWell(w)
    <3>1. WaitsFor(w)' # {} /\ Fresh(WaitsFor(w))'
      BY <1>6, <2>2 DEF Fresh
    <3> QED BY <2>2, <3>1 DEF AskedWell, CallerInv
  <2> QED BY <1>7, <1>9, <2>2, <2>3, <2>4
<1> QED BY <1>8, <1>9

LEMMA AskStarted ==
    ASSUME ApiTypes, TrustInv, NEW who \in SUBSET Callers, NEW lone, Ask(who, lone),
           cache = {}, Started(who), changes' \subseteq changes, lone => changes' = {}
    PROVE  /\ "cache" \in trust' => CacheInv' /\ changes' = {}
           /\ \A w \in who \cap trust' : AskedWell(w)
           /\ \A w \in (Callers \ who) \cap trust' : LeftAlone(w)
           /\ trust' # {} => trust # {} \/ changes' = {}
<1>1. PICK i \in DOMAIN fetches \ UnderWay : fetches' = [fetches EXCEPT ![i] = Begun(who)]
  BY DEF Started
<1>2. UNCHANGED <<db, cache, locations, selected, aircons>> /\ inFlight = None
  BY DEF Ask, Started
<1>3. trust' = IF lone /\ UnderWay = {} THEN trust \cup who \cup {"cache"}
                                        ELSE trust \ (who \cup {"cache"})
  BY <1>2 DEF Ask, Vouched
<1>4. /\ DOMAIN fetches' = DOMAIN fetches
      /\ \A j \in DOMAIN fetches : j # i => fetches'[j] = fetches[j]
      /\ fetches'[i].on /\ fetches'[i].seen = {} /\ fetches'[i].for = who
  BY <1>1 DEF Begun
<1>5. UnderWay' = UnderWay \cup {i}
  BY <1>1, <1>4 DEF UnderWay
<1>6. \A w : WaitsFor(w)' = WaitsFor(w) \cup {j \in {i} : w \in who}
  BY <1>1, <1>4, <1>5 DEF WaitsFor, UnderWay
<1>7. \A w \in (Callers \ who) \cap trust' : LeftAlone(w)
  <2> SUFFICES ASSUME NEW w \in (Callers \ who) \cap trust' PROVE LeftAlone(w)
    OBVIOUS
  <2>1. WaitsFor(w)' = WaitsFor(w) /\ \A j \in WaitsFor(w) : j # i /\ j \in DOMAIN fetches
    BY <1>1, <1>6 DEF WaitsFor, UnderWay
  <2>2. UNCHANGED ListOf(w) /\ w \in trust
    BY <1>2, <1>3 DEF ListOf, Callers
  <2> QED BY <1>4, <2>1, <2>2 DEF LeftAlone
<1>8. CASE ~(lone /\ UnderWay = {})
  BY <1>3, <1>7, <1>8
<1>9. CASE lone /\ UnderWay = {}
  <2>1. changes' = {} /\ UnderWay' = {i} /\ fetches'[i].seen = {}
    BY <1>4, <1>5, <1>9
  <2>2. CacheInv'
    BY <1>2, <2>1 DEF CacheInv, Fresh
  <2>3. ASSUME NEW w \in who PROVE AskedWell(w)
    <3>1. WaitsFor(w)' = {i}
      BY <1>6, <1>9 DEF WaitsFor
    <3>2. Fresh(WaitsFor(w))'
      BY <2>1, <3>1 DEF Fresh
    <3> QED BY <2>1, <3>1, <3>2 DEF AskedWell, CallerInv
  <2> QED BY <1>7, <1>9, <2>1, <2>2, <2>3
<1> QED BY <1>8, <1>9

LEMMA AskFacts ==
    ASSUME ApiTypes, TrustInv, NEW who \in SUBSET Callers, NEW lone, Ask(who, lone),
           changes' \subseteq changes, lone => changes' = {}
    PROVE  /\ "cache" \in trust' => CacheInv' /\ changes' = {}
           /\ \A w \in who \cap trust' : AskedWell(w)
           /\ \A w \in (Callers \ who) \cap trust' : LeftAlone(w)
           /\ trust' # {} => trust # {} \/ changes' = {}
<1>1. CASE cache # {}
  BY <1>1, AskCached
<1>2. CASE cache = {} /\ Joined(who)
  BY <1>2, AskJoined
<1>3. CASE cache = {} /\ Started(who)
  BY <1>3, AskStarted
<1> QED BY <1>1, <1>2, <1>3 DEF Ask

LEMMA EnterKeepsTrust ==
    ASSUME ApiTypes, PageTypes, TrustInv, Enter
    PROVE  TrustInv'
<1> DEFINE who == {"aircons"}
           lone == changes = {}
<1>1. /\ who \in SUBSET Callers /\ Ask(who, lone) /\ changes' = changes
      /\ lone => changes' = {}
      /\ page' = "mypage" /\ db' = db
  BY DEF Enter, Callers, Ask
<1> HIDE DEF who, lone
<1>2. /\ "cache" \in trust' => CacheInv' /\ changes' = {}
      /\ \A w \in who \cap trust' : AskedWell(w)
      /\ \A w \in (Callers \ who) \cap trust' : LeftAlone(w)
      /\ trust' # {} => trust # {} \/ changes' = {}
  BY <1>1, AskFacts
<1>3. \A w \in Callers \cap trust' : CallerInv(w)'
  <2> SUFFICES ASSUME NEW w \in Callers \cap trust' PROVE CallerInv(w)'
    OBVIOUS
  <2>1. CASE w \in who
    BY <1>2, <2>1 DEF AskedWell
  <2>2. CASE w \notin who
    <3>1. LeftAlone(w)
      BY <1>2, <2>2
    <3>2. CallerInv(w)
      BY <3>1 DEF LeftAlone, TrustInv
    <3> QED BY <1>1, <3>1, <3>2, CallerKept DEF LeftAlone
  <2> QED BY <2>1, <2>2
<1>4. OneChange'
  BY <1>1, <1>2 DEF TrustInv, OneChange
<1>5. HomeInv'
  BY <1>1, <1>2 DEF HomeInv, AskedWell, who
<1> QED BY <1>2, <1>3, <1>4, <1>5 DEF TrustInv

\* What a list has when the answer of the only change is read again by others.
LEMMA AnsweredWithout ==
    ASSUME PageTypes, NEW c \in changes, c.applied, NEW w \in Callers, w \notin Readers(c),
           Soon(w, c), Rereads(c), UNCHANGED <<db, ListOf(w)>>
    PROVE  Now(w)'
<1>1. c \in Change /\ c.kind \in Kinds
  BY DEF PageTypes, Change
<1>2. CASE w = "locations"
  <2>1. c.kind = "units"
    BY <1>1, <1>2 DEF Rereads, Readers, Kinds
  <2>2. Copied(c) = locations
    BY <2>1 DEF Copied
  <2>3. locations = LocationsOf(db) /\ SelectedIn(selected)
    BY <1>2, <2>1, <2>2 DEF Soon
  <2>4. Now(w)
    BY <1>2, <2>3 DEF Now, LocationsNow
  <2> QED BY <2>4, NowKept
<1>3. CASE w = "aircons"
  <2>1. c.kind # "consent"
    BY <1>1 DEF Rereads, Readers, Kinds
  <2>2. UnitsIn(CopiedUnits(c))
    BY <1>3 DEF Soon
  <2>3. Now(w)
    BY <1>3, <2>1, <2>2 DEF Now, UnitsIn, CopiedUnits
  <2> QED BY <2>3, NowKept
<1> QED BY <1>2, <1>3 DEF Callers

\* A list is trusted while a change is under way: it is the only one, and no
\* read is waited for.
LEMMA OnlyChange ==
    ASSUME TrustInv, NEW c \in changes, NEW w \in Callers \cap trust
    PROVE  /\ changes = {c} /\ WaitsFor(w) = {} /\ Soon(w, c)
           /\ w = "aircons" => c.mine
<1>1. \A d \in changes : d = c
  BY DEF TrustInv, OneChange
<1>2. WaitsFor(w) = {} /\ Soon(w, c)
  BY DEF TrustInv, CallerInv, Fresh, Settled
<1>3. w = "aircons" => c.mine
  BY DEF TrustInv, HomeInv
<1> QED BY <1>1, <1>2, <1>3

LEMMA CacheWhileChange ==
    ASSUME TrustInv, NEW c \in changes, "cache" \in trust
    PROVE  changes = {c} /\ cache = {} /\ UnderWay = {}
  BY DEF TrustInv, OneChange, CacheInv, Fresh

LEMMA ReadAnswerKeepsTrust ==
    ASSUME ApiTypes, PageTypes, TrustInv, NEW c \in changes, AnswerRead(c)
    PROVE  TrustInv'
<1> DEFINE who == Readers(c)
           lone == changes = {c}
<1>1. /\ who \in SUBSET Callers /\ Ask(who, lone) /\ changes' = changes \ {c}
      /\ lone => changes' = {} /\ changes' \subseteq changes
      /\ page' = page /\ db' = db /\ c.applied /\ Rereads(c)
  BY ReadersAreCallers DEF AnswerRead, Ask, PageTypes
<1> HIDE DEF who, lone
<1>2. /\ "cache" \in trust' => CacheInv' /\ changes' = {}
      /\ \A w \in who \cap trust' : AskedWell(w)
      /\ \A w \in (Callers \ who) \cap trust' : LeftAlone(w)
      /\ trust' # {} => trust # {} \/ changes' = {}
  BY <1>1, AskFacts
<1>3. \A w \in Callers \cap trust' : CallerInv(w)' /\ changes' = {}
  <2> SUFFICES ASSUME NEW w \in Callers \cap trust' PROVE CallerInv(w)' /\ changes' = {}
    OBVIOUS
  <2>1. CASE w \in who
    BY <1>2, <2>1 DEF AskedWell
  <2>2. CASE w \notin who
    <3>1. LeftAlone(w)
      BY <1>2, <2>2
    <3>2. changes = {c} /\ WaitsFor(w) = {} /\ Soon(w, c)
      BY <3>1, OnlyChange DEF LeftAlone
    <3>3. Now(w)' /\ WaitsFor(w)' = {} /\ changes' = {}
      BY <1>1, <2>2, <3>1, <3>2, AnsweredWithout DEF LeftAlone, who
    <3> QED BY <3>3 DEF CallerInv, Settled
  <2> QED BY <2>1, <2>2
<1>4. OneChange'
  BY <1>1, <1>2 DEF TrustInv, OneChange
<1>5. HomeInv'
  <2>0. \A d \in changes' : d.mine => page' = "mypage"
    BY <1>1 DEF TrustInv, HomeInv
  <2> SUFFICES ASSUME "aircons" \in trust' PROVE page' = "mypage" /\ changes' = {}
    BY <2>0 DEF HomeInv
  <2>1. changes' = {}
    BY <1>3 DEF Callers
  <2>2. CASE "aircons" \in who
    <3>1. c \in Change
      BY DEF PageTypes
    <3>2. c.mine
      BY <2>2, <3>1 DEF who, Readers, Change, Kinds
    <3> QED BY <1>1, <2>1, <3>2 DEF TrustInv, HomeInv
  <2>3. CASE "aircons" \notin who
    <3>1. LeftAlone("aircons")
      BY <1>2, <2>3 DEF Callers
    <3> QED BY <1>1, <2>1, <3>1 DEF LeftAlone, TrustInv, HomeInv
  <2> QED BY <2>2, <2>3
<1> QED BY <1>2, <1>3, <1>4, <1>5 DEF TrustInv

LEMMA SettleKeepsTrust ==
    ASSUME ApiTypes, PageTypes, TrustInv, NEW i \in 1..MaxFetches, Settle(i)
    PROVE  TrustInv'
<1>1. i \in DOMAIN fetches /\ fetches[i].on /\ i \in UnderWay
  BY DEF Settle, ApiTypes, ApiTypeOK, UnderWay
<1>2. PICK t \in fetches[i].seen : cache' = {t} /\ ShowTable(t, fetches[i].for)
  BY DEF Settle
<1>3. /\ UNCHANGED <<db, page, changes, trust>>
      /\ fetches' = [fetches EXCEPT ![i] = Idle]
  BY DEF Settle, ReadEnded
<1>4. /\ DOMAIN fetches' = DOMAIN fetches
      /\ \A j \in DOMAIN fetches : j # i => fetches'[j] = fetches[j]
      /\ ~fetches'[i].on
  BY <1>1, <1>3 DEF Idle
<1>5. UnderWay' = UnderWay \ {i}
  BY <1>4 DEF UnderWay
<1>6. \A w : WaitsFor(w)' = WaitsFor(w) \ {i}
  BY <1>4, <1>5 DEF WaitsFor, UnderWay
<1>7. ASSUME NEW S, S \subseteq UnderWay, Fresh(S)
      PROVE  /\ changes' = {} /\ (i \in S => t = db)
             /\ \A j \in S \ {i} : fetches'[j].seen \subseteq {db'}
  <2>1. \A j \in S \ {i} : fetches'[j].seen \subseteq {db'}
    BY <1>3, <1>4, <1>7 DEF Fresh, UnderWay
  <2>2. changes' = {} /\ (i \in S => t = db)
    BY <1>2, <1>3, <1>7 DEF Fresh
  <2> QED BY <2>1, <2>2
<1>8. "cache" \in trust' => CacheInv'
  <2> SUFFICES ASSUME "cache" \in trust PROVE CacheInv'
    BY <1>3
  <2>1. Fresh(UnderWay)
    BY <1>1 DEF TrustInv, CacheInv
  <2>2. changes' = {} /\ t = db /\ \A j \in UnderWay \ {i} : fetches'[j].seen \subseteq {db'}
    BY <1>1, <1>7, <2>1
  <2>3. cache' \subseteq {db'}
    BY <1>2, <1>3, <2>2
  <2> QED BY <1>5, <2>2, <2>3 DEF CacheInv, Fresh
<1>9. ASSUME NEW w \in Callers \cap trust PROVE CallerInv(w)'
  <2>1. WaitsFor(w) \subseteq UnderWay
    BY DEF WaitsFor
  <2>2. CASE w \in fetches[i].for
    <3>1. i \in WaitsFor(w)
      BY <1>1, <2>2 DEF WaitsFor
    <3>2. Fresh(WaitsFor(w))
      BY <3>1 DEF TrustInv, CallerInv
    <3>3. /\ changes' = {} /\ t = db
          /\ \A j \in WaitsFor(w) \ {i} : fetches'[j].seen \subseteq {db'}
      BY <1>7, <2>1, <3>1, <3>2
    <3>4. Now(w)'
      BY <1>2, <1>3, <2>2, <3>3, ShownNow
    <3> QED BY <1>6, <3>3, <3>4 DEF CallerInv, Settled, Fresh
  <2>3. CASE w \notin fetches[i].for
    <3>1. WaitsFor(w)' = WaitsFor(w) /\ i \notin WaitsFor(w)
      BY <1>6, <2>3 DEF WaitsFor
    <3>2. UNCHANGED ListOf(w)
      BY <1>2, <2>3, OthersUnshown
    <3>3. \A j \in WaitsFor(w) : fetches'[j].seen = fetches[j].seen
      BY <1>4, <2>1, <3>1 DEF UnderWay
    <3>4. CallerInv(w)
      BY DEF TrustInv
    <3> QED BY <1>3, <3>1, <3>2, <3>3, <3>4, CallerKept
  <2> QED BY <2>2, <2>3
<1> QED BY <1>3, <1>8, <1>9 DEF TrustInv, OneChange, HomeInv

LEMMA FailKeepsTrust ==
    ASSUME ApiTypes, PageTypes, TrustInv, NEW i \in 1..MaxFetches, FetchFails(i)
    PROVE  TrustInv'
<1>1. i \in DOMAIN fetches
  BY DEF ApiTypes, ApiTypeOK
<1>2. /\ UNCHANGED <<db, cache, page, changes, locations, selected, aircons>>
      /\ fetches' = [fetches EXCEPT ![i] = Idle]
      /\ trust' = trust \ (fetches[i].for \cup {"cache"})
  BY DEF FetchFails, ReadEnded
<1>3. /\ DOMAIN fetches' = DOMAIN fetches
      /\ \A j \in DOMAIN fetches : j # i => fetches'[j] = fetches[j]
      /\ ~fetches'[i].on
  BY <1>1, <1>2 DEF Idle
<1>4. ASSUME NEW w \in Callers \cap trust' PROVE CallerInv(w)'
  <2>1. w \in trust /\ w \notin fetches[i].for
    BY <1>2
  <2>2. WaitsFor(w)' = WaitsFor(w) /\ \A j \in WaitsFor(w) : j # i /\ j \in DOMAIN fetches
    BY <1>3, <2>1 DEF WaitsFor, UnderWay
  <2>3. UNCHANGED ListOf(w) /\ CallerInv(w)
    BY <1>2, <2>1 DEF ListOf, TrustInv
  <2> QED BY <1>2, <1>3, <2>2, <2>3, CallerKept
<1>5. "cache" \notin trust'
  BY <1>2
<1> QED BY <1>2, <1>4, <1>5 DEF TrustInv, OneChange, HomeInv

LEMMA LookKeepsTrust ==
    ASSUME ApiTypes, PageTypes, TrustInv, NEW i \in 1..MaxFetches, Look(i),
           UNCHANGED <<page, shown, deleting, changes, asked, trust>>
    PROVE  TrustInv'
<1>1. i \in DOMAIN fetches /\ DOMAIN fetches[i] = {"on", "seen", "for"}
  BY FetchTypes DEF ApiTypes, ApiTypeOK
<1>2. fetches' = [fetches EXCEPT ![i].seen = {db}] /\ UNCHANGED <<db, cache>>
  BY DEF Look
<1>3. /\ DOMAIN fetches' = DOMAIN fetches
      /\ \A j \in DOMAIN fetches :
            /\ fetches'[j].on = fetches[j].on /\ fetches'[j].for = fetches[j].for
            /\ fetches'[j].seen \subseteq fetches[j].seen \cup {db}
  <2>1. /\ DOMAIN fetches' = DOMAIN fetches
        /\ \A j \in DOMAIN fetches : j # i => fetches'[j] = fetches[j]
        /\ fetches'[i] = [fetches[i] EXCEPT !.seen = {db}]
    BY <1>1, <1>2
  <2> QED BY <1>1, <2>1
<1>4. UnderWay' = UnderWay /\ UnderWay \subseteq DOMAIN fetches
  BY <1>3 DEF UnderWay
<1> QED BY <1>2, <1>3, <1>4, TrustKept DEF shown

LEMMA LeaveKeepsTrust ==
    ASSUME ApiTypes, PageTypes, TrustInv, Leave
    PROVE  TrustInv'
<1>1. /\ UNCHANGED <<db, cache, locations, selected>> /\ trust' = trust \ {"aircons"}
      /\ page' = "home"
      /\ changes' = {[c EXCEPT !.mine = FALSE] : c \in changes}
  BY DEF Leave
<1>2. /\ DOMAIN fetches' = DOMAIN fetches
      /\ \A i \in DOMAIN fetches : /\ fetches'[i].on = fetches[i].on
                                   /\ fetches'[i].seen = fetches[i].seen
                                   /\ fetches'[i].for = fetches[i].for \ {"aircons"}
  <2>1. \A i \in DOMAIN fetches : DOMAIN fetches[i] = {"on", "seen", "for"}
    BY FetchTypes
  <2>2. fetches' = [i \in DOMAIN fetches |-> [fetches[i] EXCEPT !.for = @ \ {"aircons"}]]
    BY DEF Leave
  <2> QED BY <2>1, <2>2
<1>3. UnderWay' = UnderWay /\ WaitsFor("locations")' = WaitsFor("locations")
      /\ WaitsFor("locations") \subseteq UnderWay /\ UnderWay \subseteq DOMAIN fetches
  BY <1>2 DEF UnderWay, WaitsFor
<1>4. \A c \in changes : c \in Change
  BY DEF PageTypes
<1>5. ASSUME NEW c \in changes, NEW d, d = [c EXCEPT !.mine = FALSE]
      PROVE  /\ ~d.mine /\ d.kind = c.kind /\ d.place = c.place /\ d.n = c.n
             /\ d.applied = c.applied /\ d.chosen = c.chosen
  BY <1>4, <1>5 DEF Change
<1>6. (changes = {} <=> changes' = {}) /\ \A d \in changes' : ~d.mine
  BY <1>1, <1>5
<1>7. ASSUME NEW S, S \subseteq UnderWay, Fresh(S)
      PROVE  changes' = {} /\ \A i \in S : fetches'[i].seen \subseteq {db'}
  BY <1>1, <1>2, <1>3, <1>6, <1>7 DEF Fresh
<1>8. "cache" \in trust' => CacheInv'
  <2> SUFFICES ASSUME "cache" \in trust PROVE CacheInv'
    BY <1>1
  <2>1. CacheInv
    BY DEF TrustInv
  <2>2. UnderWay # {} => Fresh(UnderWay)'
    <3> SUFFICES ASSUME UnderWay # {} PROVE Fresh(UnderWay)'
      OBVIOUS
    <3>1. changes' = {} /\ \A i \in UnderWay : fetches'[i].seen \subseteq {db'}
      BY <1>7, <2>1 DEF CacheInv
    <3> QED BY <1>3, <3>1 DEF Fresh
  <2> QED BY <1>1, <1>3, <1>6, <2>1, <2>2 DEF CacheInv, Fresh
<1>9. ASSUME "locations" \in trust PROVE CallerInv("locations")'
  <2>1. CallerInv("locations")
    BY <1>9 DEF TrustInv, Callers
  <2>2. CASE WaitsFor("locations") # {}
    <3>1. changes' = {}
          /\ \A i \in WaitsFor("locations") : fetches'[i].seen \subseteq {db'}
      BY <1>3, <1>7, <2>1, <2>2 DEF CallerInv
    <3> QED BY <1>3, <2>2, <3>1 DEF CallerInv, Fresh
  <2>3. CASE WaitsFor("locations") = {}
    <3>1. Settled("locations")
      BY <2>1, <2>3 DEF CallerInv
    <3>2. ASSUME NEW c \in changes, NEW d, d = [c EXCEPT !.mine = FALSE]
          PROVE  Soon("locations", d)'
      <4>1. /\ d.kind = c.kind /\ d.place = c.place /\ d.n = c.n
            /\ d.applied = c.applied /\ d.chosen = c.chosen /\ c \in Change
        BY <1>4, <1>5, <3>2
      <4>2. Copied(d) = Copied(c)
        BY <4>1 DEF Copied
      <4>3. "locations" \in Readers(c) => "locations" \in Readers(d)
        BY <4>1 DEF Readers, Change, Kinds
      <4>4. Soon("locations", c)
        BY <3>1 DEF Settled
      <4>5. Soon("locations", d)
        BY <4>1, <4>2, <4>3, <4>4 DEF Soon
      <4> QED BY <1>1, <4>5, SoonKept DEF Callers, ListOf
    <3>3. changes' = {} => Now("locations")'
      BY <1>1, <1>6, <3>1, NowKept DEF Settled, Callers, ListOf
    <3>4. Settled("locations")'
      BY <1>1, <3>2, <3>3 DEF Settled
    <3> QED BY <1>3, <2>3, <3>4 DEF CallerInv
  <2> QED BY <2>2, <2>3
<1>10. OneChange'
  BY <1>1 DEF TrustInv, OneChange
<1>11. HomeInv'
  BY <1>1, <1>6 DEF HomeInv
<1>12. \A w \in Callers \cap trust' : CallerInv(w)'
  BY <1>1, <1>9 DEF Callers
<1> QED BY <1>8, <1>10, <1>11, <1>12 DEF TrustInv

LEMMA SelectKeepsTrust ==
    ASSUME ApiTypes, PageTypes, TrustInv, NEW p \in Places, Select(p)
    PROVE  TrustInv'
<1>1. CASE changes # {}
  <2>1. trust' = {} /\ UNCHANGED <<changes, page>>
    BY <1>1 DEF Select
  <2> QED BY <2>1 DEF TrustInv, OneChange, HomeInv
<1>2. CASE changes = {}
  <2>1. /\ UNCHANGED <<db, cache, fetches, locations, aircons, page, changes, trust>>
        /\ selected' = p /\ p \in DOMAIN locations /\ page = "home"
    BY <1>2 DEF Select, api
  <2>2. "aircons" \notin trust
    BY <2>1 DEF TrustInv, HomeInv
  <2>3. UnderWay' = UnderWay /\ WaitsFor("locations")' = WaitsFor("locations")
    BY <2>1 DEF UnderWay, WaitsFor
  <2>4. "cache" \in trust' => CacheInv'
    BY <2>1, <2>3, CacheKept DEF TrustInv
  <2>5. ASSUME "locations" \in trust PROVE CallerInv("locations")'
    <3>1. CallerInv("locations")
      BY <2>5 DEF TrustInv, Callers
    <3>2. CASE WaitsFor("locations") # {}
      BY <2>1, <2>3, <3>1, <3>2 DEF CallerInv, Fresh
    <3>3. CASE WaitsFor("locations") = {}
      <4>1. locations = LocationsOf(db)
        BY <1>2, <3>1, <3>3 DEF CallerInv, Settled, Now, LocationsNow
      <4>2. DOMAIN locations = DOMAIN db
        BY <4>1 DEF LocationsOf
      <4>3. Now("locations")'
        BY <2>1, <4>1, <4>2 DEF Now, LocationsNow, SelectedIn, LocationsOf, Location
      <4> QED BY <1>2, <2>1, <2>3, <3>3, <4>3 DEF CallerInv, Settled
    <3> QED BY <3>2, <3>3
  <2>6. \A w \in Callers \cap trust' : CallerInv(w)'
    BY <2>1, <2>2, <2>5 DEF Callers
  <2> QED BY <2>1, <2>4, <2>6 DEF TrustInv, OneChange, HomeInv
<1> QED BY <1>1, <1>2

----------------------------------------------------------------------------
(* Changing the table *)

LEMMA SendKeepsTrust ==
    ASSUME ApiTypes, PageTypes, TrustInv, NEW p \in Places, NEW kind \in Kinds,
           SendChange(kind, p)
    PROVE  TrustInv'
<1>1. PICK new :
        new = [n |-> asked', kind |-> kind, place |-> p, applied |-> FALSE,
               chosen |-> kind = "remove" /\ p = selected, mine |-> page = "mypage"]
  OBVIOUS
<1>2. /\ UNCHANGED <<db, fetches, page, locations, selected, aircons>>
      /\ Invalidated(kind) /\ changes' = changes \cup {new}
      /\ trust' = IF changes # {} \/ UnderWay # {} \/ Orphaned(kind, p) THEN {}
                  ELSE IF kind \in Silent THEN trust \ {"cache"} ELSE trust
      /\ ~new.applied /\ new.kind = kind /\ new.place = p
      /\ (new.mine <=> page = "mypage")
      /\ (new.chosen <=> kind = "remove" /\ p = selected)
  BY <1>1 DEF SendChange, shown
<1>3. CASE trust' = {}
  <2>1. \A c \in changes' : c.mine => page' = "mypage"
    BY <1>2 DEF TrustInv, HomeInv
  <2> QED BY <1>3, <2>1 DEF TrustInv, OneChange, HomeInv
<1>4. CASE trust' # {}
  <2>1. /\ changes = {} /\ UnderWay = {} /\ ~Orphaned(kind, p)
        /\ trust' \subseteq trust /\ ("cache" \in trust' => kind \notin Silent)
    BY <1>2, <1>4
  <2>2. changes' = {new} /\ UnderWay' = {} /\ \A w : WaitsFor(w) = {} /\ WaitsFor(w)' = {}
    BY <1>2, <2>1 DEF UnderWay, WaitsFor
  <2>3. "cache" \in trust' => CacheInv'
    BY <1>2, <2>1, <2>2 DEF Invalidated, CacheInv
  <2>4. ASSUME NEW w \in Callers \cap trust' PROVE CallerInv(w)'
    <3>1. Now(w)
      BY <2>1, <2>2 DEF TrustInv, CallerInv, Settled
    <3>2. w = "locations" /\ kind = "remove" /\ ~new.chosen /\ p \in DOMAIN db
            => p # selected /\ ~db[p].main
      BY <1>2, <2>1 DEF Orphaned
    <3>3. Soon(w, new)
      BY <1>2, <3>1, <3>2 DEF Soon
    <3>4. UNCHANGED <<db, ListOf(w)>>
      BY <1>2 DEF ListOf
    <3>5. Soon(w, new)'
      BY <3>3, <3>4, SoonKept
    <3> QED BY <2>2, <3>5 DEF CallerInv, Settled
  <2>5. OneChange'
    BY <2>2 DEF OneChange
  <2>6. HomeInv'
    BY <1>2, <2>1, <2>2 DEF TrustInv, HomeInv
  <2> QED BY <2>3, <2>4, <2>5, <2>6 DEF TrustInv
<1> QED BY <1>3, <1>4

\* What the server has done is what the answer will make of the list.
LEMMA AppliedSoon ==
    ASSUME ApiTypes, PageTypes, NEW w \in Callers, NEW c \in changes, Apply(c), Soon(w, c),
           w = "aircons" => c.mine, NEW d, d = [c EXCEPT !.applied = TRUE]
    PROVE  Soon(w, d)'
<1>1. /\ ~c.applied /\ (c.place \in DOMAIN db \/ c.kind = "create")
      /\ db' = After(db, c) /\ UNCHANGED <<locations, selected, aircons>>
  BY DEF Apply, shown
<1>2. c \in Change /\ c.kind \in Kinds
  BY DEF PageTypes, Change
<1>3. /\ d.applied /\ d.kind = c.kind /\ d.place = c.place /\ d.n = c.n
      /\ d.chosen = c.chosen /\ d.mine = c.mine
  BY <1>2 DEF Change
<1>4. IsTable(db)
  BY DEF ApiTypes, ApiTypeOK
<1> DEFINE t == db
           a == After(t, c)
<1>5. /\ c.kind = "details" => LocationsOf(a) =
           [p \in DOMAIN t |-> IF p = c.place THEN [Location(t[p]) EXCEPT !.info = c.n]
                                              ELSE Location(t[p])]
      /\ c.kind = "default" =>
           /\ LocationsOf(a) = WithMain(LocationsOf(t), c.place)
           /\ c.place \in DOMAIN a
      /\ c.kind = "remove" =>
           /\ DOMAIN a = DOMAIN t \ {c.place}
           /\ ~t[c.place].main =>
                LocationsOf(a) = [p \in DOMAIN t \ {c.place} |-> Location(t[p])]
      /\ c.kind \in {"units", "consent"} => LocationsOf(a) = LocationsOf(t)
      /\ c.kind \notin {"create", "remove"} => DOMAIN a = DOMAIN t
      /\ c.kind # "create" => DOMAIN a \subseteq DOMAIN t
      /\ c.kind \notin {"create", "units", "consent"} =>
           \A p \in DOMAIN a : a[p].units = t[p].units
      /\ c.kind \in {"units", "consent"} =>
           \A p \in DOMAIN t : a[p].units = IF p = c.place THEN c.n ELSE t[p].units
  BY <1>1, <1>2, <1>4, AfterFacts
<1>6. db' = a /\ LocationsOf(db)' = LocationsOf(a)
  BY <1>1 DEF LocationsOf, Location
<1> HIDE DEF a
<1>7. CASE w = "locations"
  <2>1. locations = LocationsOf(t) /\ SelectedIn(selected)
    BY <1>1, <1>7 DEF Soon, Now, LocationsNow
  <2>2. DOMAIN locations = DOMAIN t /\ \A p \in DOMAIN t : locations[p] = Location(t[p])
    BY <2>1 DEF LocationsOf
  <2>3. Copied(d)' = Copied(d)
    BY <1>1 DEF Copied
  <2>4. CASE "locations" \in Readers(c)
    <3>1. "locations" \in Readers(d)
      BY <1>3, <2>4 DEF Readers
    <3> QED BY <1>3, <1>7, <3>1 DEF Soon, Readers
  <2>5. CASE "locations" \notin Readers(c)
    <3>1. c.kind \in {"details", "default", "units", "consent"} \/ (c.kind = "remove" /\ ~c.chosen)
      BY <1>2, <2>5 DEF Readers, Kinds
    <3>2. Copied(d) = LocationsOf(a)
      <4>1. CASE c.kind = "details"
        BY <1>3, <1>5, <2>2, <4>1 DEF Copied
      <4>2. CASE c.kind = "default"
        BY <1>3, <1>5, <2>1, <4>2 DEF Copied
      <4>3. CASE c.kind \in {"units", "consent"}
        BY <1>3, <1>5, <2>1, <4>3 DEF Copied
      <4>4. CASE c.kind = "remove" /\ ~c.chosen
        <5>1. ~t[c.place].main
          BY <1>1, <1>7, <4>4 DEF Soon
        <5> QED BY <1>3, <1>5, <2>2, <4>4, <5>1 DEF Copied
      <4> QED BY <3>1, <4>1, <4>2, <4>3, <4>4
    <3>3. DOMAIN a # {} => (IF d.kind = "default" THEN d.place ELSE selected) \in DOMAIN a
      <4>1. CASE c.kind = "default"
        BY <1>3, <1>5, <4>1
      <4>2. CASE c.kind \in {"details", "units", "consent"}
        BY <1>3, <1>5, <2>1, <4>2 DEF SelectedIn
      <4>3. CASE c.kind = "remove" /\ ~c.chosen
        <5>1. c.place # selected
          BY <1>1, <1>7, <4>3 DEF Soon
        <5> QED BY <1>3, <1>5, <2>1, <4>3, <5>1 DEF SelectedIn
      <4> QED BY <3>1, <4>1, <4>2, <4>3
    <3>4. SelectedIn(IF d.kind = "default" THEN d.place ELSE selected)'
      BY <1>1, <1>6, <3>3 DEF SelectedIn
    <3>5. (Copied(d) = LocationsOf(db))'
      BY <1>6, <2>3, <3>2
    <3> QED BY <1>3, <1>7, <3>4, <3>5 DEF Soon
  <2> QED BY <2>4, <2>5
<1>8. CASE w = "aircons"
  <2>1. c.mine /\ \A p \in DOMAIN t : p \in DOMAIN aircons /\ aircons[p] = t[p].units
    BY <1>1, <1>8 DEF Soon, Now, UnitsIn
  <2>2. CASE c.kind \in {"create", "units"}
    <3>1. "aircons" \in Readers(d)
      BY <1>3, <2>1, <2>2 DEF Readers
    <3> QED BY <1>3, <1>8, <3>1 DEF Soon, Readers
  <2>3. CASE c.kind \notin {"create", "units"}
    <3>1. \A p \in DOMAIN a : p \in DOMAIN t /\ p \in DOMAIN aircons
      BY <1>5, <2>1, <2>3
    <3>2. \A p \in DOMAIN a : CopiedUnits(d)[p] = a[p].units /\ p \in DOMAIN CopiedUnits(d)
      <4>1. CASE c.kind = "consent"
        BY <1>3, <1>5, <2>1, <3>1, <4>1 DEF CopiedUnits
      <4>2. CASE c.kind # "consent"
        BY <1>3, <1>5, <2>1, <2>3, <3>1, <4>2 DEF CopiedUnits
      <4> QED BY <4>1, <4>2
    <3>3. CopiedUnits(d)' = CopiedUnits(d)
      BY <1>1 DEF CopiedUnits
    <3>4. UnitsIn(CopiedUnits(d))'
      BY <1>6, <3>2, <3>3 DEF UnitsIn
    <3> QED BY <1>3, <1>8, <3>4 DEF Soon
  <2> QED BY <2>2, <2>3
<1> QED BY <1>7, <1>8 DEF Callers

LEMMA ApplyKeepsTrust ==
    ASSUME ApiTypes, PageTypes, TrustInv, NEW c \in changes, Apply(c)
    PROVE  TrustInv'
<1>1. /\ UNCHANGED <<cache, fetches, page, trust>>
      /\ changes' = (changes \ {c}) \cup {[c EXCEPT !.applied = TRUE]}
  BY DEF Apply
<1>2. c \in Change
  BY DEF PageTypes
<1>3. UnderWay' = UnderWay /\ \A w : WaitsFor(w)' = WaitsFor(w)
  BY <1>1 DEF UnderWay, WaitsFor
<1>4. "cache" \in trust' => CacheInv'
  BY <1>1, <1>3, CacheWhileChange DEF CacheInv
<1>5. ASSUME NEW w \in Callers \cap trust PROVE CallerInv(w)'
  <2>1. /\ changes = {c} /\ WaitsFor(w) = {} /\ Soon(w, c)
        /\ w = "aircons" => c.mine
    BY <1>5, OnlyChange
  <2>2. changes' = {[c EXCEPT !.applied = TRUE]}
    BY <1>1, <2>1
  <2>3. \A d \in changes' : Soon(w, d)'
    BY <2>1, <2>2, AppliedSoon
  <2> QED BY <1>3, <2>1, <2>2, <2>3 DEF CallerInv, Settled
<1>6. OneChange'
  <2>1. trust' # {} => changes = {c}
    BY <1>1 DEF TrustInv, OneChange
  <2> QED BY <1>1, <2>1 DEF OneChange
<1>7. [c EXCEPT !.applied = TRUE].mine = c.mine
  BY <1>2 DEF Change
<1>8. HomeInv'
  BY <1>1, <1>7 DEF TrustInv, HomeInv
<1> QED BY <1>1, <1>4, <1>5, <1>6, <1>8 DEF TrustInv

LEMMA CopyKeepsTrust ==
    ASSUME ApiTypes, PageTypes, TrustInv, NEW c \in changes, AnswerCopied(c)
    PROVE  TrustInv'
<1>1. /\ UNCHANGED <<db, cache, fetches, page, trust>>
      /\ changes' = changes \ {c} /\ c.applied /\ ~Rereads(c)
      /\ locations' = Copied(c) /\ aircons' = CopiedUnits(c)
      /\ selected' = IF c.kind = "default" THEN c.place ELSE selected
  BY DEF AnswerCopied, api
<1>2. UnderWay' = UnderWay /\ \A w : WaitsFor(w)' = WaitsFor(w)
  BY <1>1 DEF UnderWay, WaitsFor
<1>3. "cache" \in trust' => CacheInv'
  BY <1>1, <1>2, CacheWhileChange DEF CacheInv
<1>4. ASSUME NEW w \in Callers \cap trust PROVE CallerInv(w)'
  <2>1. changes = {c} /\ WaitsFor(w) = {} /\ Soon(w, c)
    BY <1>4, OnlyChange
  <2>2. changes' = {} /\ WaitsFor(w)' = {}
    BY <1>1, <1>2, <2>1
  <2>3. w \notin Readers(c)
    BY <1>1 DEF Rereads
  <2>4. LocationsOf(db)' = LocationsOf(db)
    BY <1>1 DEF LocationsOf, Location
  <2>5. Now(w)'
    <3>1. CASE w = "locations"
      <4>1. Copied(c) = LocationsOf(db)
            /\ SelectedIn(IF c.kind = "default" THEN c.place ELSE selected)
        BY <1>1, <2>1, <2>3, <3>1 DEF Soon
      <4> QED BY <1>1, <2>4, <3>1, <4>1 DEF Now, LocationsNow, SelectedIn
    <3>2. CASE w = "aircons"
      <4>1. UnitsIn(CopiedUnits(c))
        BY <1>1, <2>1, <2>3, <3>2 DEF Soon
      <4> QED BY <1>1, <3>2, <4>1 DEF Now, UnitsIn
    <3> QED BY <3>1, <3>2 DEF Callers
  <2> QED BY <2>2, <2>5 DEF CallerInv, Settled
<1>5. OneChange' /\ HomeInv'
  BY <1>1 DEF TrustInv, OneChange, HomeInv
<1> QED BY <1>1, <1>3, <1>4, <1>5 DEF TrustInv

LEMMA ChangeFailureKeepsTrust ==
    ASSUME ApiTypes, PageTypes, TrustInv, NEW c \in changes, ChangeFails(c)
    PROVE  TrustInv'
<1>1. /\ UNCHANGED <<db, cache, fetches, page, locations, selected, aircons>>
      /\ changes' = changes \ {c} /\ trust' = IF c.applied THEN {} ELSE trust
  BY DEF ChangeFails, api, shown
<1>2. UnderWay' = UnderWay /\ \A w : WaitsFor(w)' = WaitsFor(w)
  BY <1>1 DEF UnderWay, WaitsFor
<1>3. "cache" \in trust' => CacheInv'
  <2>1. "cache" \in trust' => "cache" \in trust
    BY <1>1
  <2> QED BY <1>1, <1>2, <2>1, CacheWhileChange DEF CacheInv
<1>4. ASSUME NEW w \in Callers \cap trust' PROVE CallerInv(w)'
  <2>1. w \in trust /\ ~c.applied
    BY <1>1
  <2>2. changes = {c} /\ WaitsFor(w) = {} /\ Soon(w, c)
    BY <2>1, OnlyChange
  <2>3. Now(w)
    BY <2>1, <2>2 DEF Soon
  <2>4. UNCHANGED <<db, ListOf(w)>>
    BY <1>1 DEF ListOf
  <2>5. Now(w)'
    BY <2>3, <2>4, NowKept
  <2> QED BY <1>1, <1>2, <2>2, <2>5 DEF CallerInv, Settled
<1>5. OneChange' /\ HomeInv'
  BY <1>1 DEF TrustInv, OneChange, HomeInv
<1> QED BY <1>3, <1>4, <1>5 DEF TrustInv

----------------------------------------------------------------------------
LEMMA TrustStart == PlacesInit => TrustInv
<1> SUFFICES ASSUME PlacesInit PROVE TrustInv
  OBVIOUS
<1>1. /\ cache = {} /\ changes = {} /\ trust = {"locations", "cache"}
      /\ DOMAIN fetches = 1..MaxFetches /\ 1 \in 1..MaxFetches
      /\ \A i \in DOMAIN fetches : fetches[i] = IF i = 1 THEN Begun({"locations"}) ELSE Idle
  BY PlacesAssumption DEF PlacesInit, ApiInit
<1>2. \A i \in DOMAIN fetches : /\ fetches[i].seen = {} /\ (fetches[i].on <=> i = 1)
                                /\ (i = 1 => fetches[i].for = {"locations"})
  BY <1>1 DEF Begun, Idle
<1>3. UnderWay = {1} /\ WaitsFor("locations") = {1}
  BY <1>1, <1>2 DEF UnderWay, WaitsFor
<1>4. Fresh(UnderWay) /\ Fresh(WaitsFor("locations"))
  BY <1>1, <1>2, <1>3 DEF Fresh
<1>5. CacheInv
  BY <1>1, <1>4 DEF CacheInv
<1>6. \A w \in Callers \cap trust : CallerInv(w)
  BY <1>1, <1>3, <1>4 DEF Callers, CallerInv
<1> QED BY <1>1, <1>5, <1>6 DEF TrustInv, OneChange, HomeInv

LEMMA TrustStep ==
    ASSUME ApiTypes, PageTypes, TrustInv, [PlacesNext]_placesVars
    PROVE  TrustInv'
<1>1. ASSUME UNCHANGED <<db, fetches, page, shown, changes, trust>>, cache' \subseteq cache
      PROVE  TrustInv'
  <2>1. UnderWay' = UnderWay
    BY <1>1 DEF UnderWay
  <2> QED BY <1>1, <2>1, TrustKept DEF shown
<1>2. CASE Expires /\ UNCHANGED <<page, shown, deleting, changes, asked, trust>>
  BY <1>1, <1>2 DEF Expires
<1>3. ASSUME NEW i \in 1..MaxFetches,
             \/ Look(i) /\ UNCHANGED <<page, shown, deleting, changes, asked, trust>>
             \/ Settle(i) \/ FetchFails(i)
      PROVE  TrustInv'
  BY <1>3, LookKeepsTrust, SettleKeepsTrust, FailKeepsTrust
<1>4. CASE Enter \/ Leave
  BY <1>4, EnterKeepsTrust, LeaveKeepsTrust
<1>5. CASE CancelDelete \/ (\E p \in Places : AskToDelete(p)) \/ UNCHANGED placesVars
  BY <1>1, <1>5 DEF CancelDelete, AskToDelete, placesVars, api
<1>6. ASSUME NEW p \in Places, Select(p) PROVE TrustInv'
  BY <1>6, SelectKeepsTrust
<1>7. ASSUME NEW p \in Places, NEW kind \in Kinds, SendChange(kind, p) PROVE TrustInv'
  BY <1>7, SendKeepsTrust
<1>8. ASSUME NEW c \in changes,
             Apply(c) \/ AnswerRead(c) \/ AnswerCopied(c) \/ ChangeFails(c)
      PROVE  TrustInv'
  BY <1>8, ApplyKeepsTrust, ReadAnswerKeepsTrust, CopyKeepsTrust, ChangeFailureKeepsTrust
<1> QED BY <1>2, <1>3, <1>4, <1>5, <1>6, <1>7, <1>8 DEF PlacesNext

(* Whenever nothing is under way, a list that nothing has crossed shows    *)
(* what the server has, however many changes, reads, failures and visits   *)
(* of the page went before: a change that is copied in without a read says *)
(* what the server did, and a read that began in quiet ends in the table   *)
(* of that moment (useSelectedLocation.js:48-157, MyPage.jsx:266-574,      *)
(* placesApi.js:85-214).                                                   *)
THEOREM ShownPlacesAreTrue == PlacesSpec => []ListsAreTrue
<1>1. ApiTypes /\ PageTypes /\ TrustInv /\ [PlacesNext]_placesVars => TrustInv'
  BY TrustStep
<1>2. TrustInv => ListsAreTrue
  <2> SUFFICES ASSUME TrustInv, Quiet
               PROVE  /\ "locations" \in trust =>
                           /\ locations = LocationsOf(db)
                           /\ DOMAIN db # {} => selected \in DOMAIN db
                      /\ "aircons" \in trust => \A p \in DOMAIN db : aircons[p] = db[p].units
    BY DEF ListsAreTrue
  <2>1. \A w \in Callers \cap trust : Now(w)
    BY DEF Quiet, TrustInv, CallerInv, WaitsFor, Settled
  <2>2. "locations" \in trust => LocationsNow
    BY <2>1 DEF Callers, Now
  <2>3. "aircons" \in trust => UnitsIn(aircons)
    BY <2>1 DEF Callers, Now
  <2> QED BY <2>2, <2>3 DEF LocationsNow, SelectedIn, UnitsIn
<1> QED BY <1>1, <1>2, TrustStart, TypesHold, PTL DEF PlacesSpec
=============================================================================
