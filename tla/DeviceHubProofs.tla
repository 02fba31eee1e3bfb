-------------------------- MODULE DeviceHubProofs --------------------------
(***************************************************************************)
(* Proofs about DeviceHub for any number of sockets and commands.          *)
(*                                                                         *)
(* HubInv is the inductive invariant.  The registry facts that the runs    *)
(* check are not inductive alone: that a waiter whose entry was taken away *)
(* has its answer rests on entries belonging to the registered connection, *)
(* and that a reported success was carried out rests on the same fact for  *)
(* the futures the answers are copied from.                                *)
(***************************************************************************)
EXTENDS DeviceHub, TLAPS

Active == {"queued", "writing", "waiting"}

\* What each phase of send_command() knows about its own command.
CallInv ==
    \A c \in Command :
        /\ call[c] = "idle" => c \notin pending \cup handed
        /\ call[c] \in Active => /\ future[c] # "cancelled"
                                 /\ reply[c] = "none"
        /\ call[c] = "idle" => future[c] = "unset" /\ reply[c] = "none"
        /\ call[c] \in Active => via[c] \in Socket
        /\ c \in handed => via[c] \in Socket
        /\ reply[c] = "not_connected" => call[c] = "answered" /\ c \notin handed

\* A future says "ok" only for a command that was carried out.
OkInv == \A c \in Command : future[c] = "ok" => c \in executed

HubInv ==
    /\ TypeOK
    /\ CallInv
    /\ OkInv
    /\ PendingOnCurrent
    /\ NoWaiterForgotten
    /\ SuccessMeansExecuted
    /\ CurrentHasHandler

-----------------------------------------------------------------------------

LEMMA InitHubInv == Init => HubInv
  BY NoneAssumption
     DEF Init, HubInv, TypeOK, CallInv, OkInv, PendingOnCurrent,
         NoWaiterForgotten, SuccessMeansExecuted, CurrentHasHandler, Active,
         Outcome, Result, Reply, Registered

\* Settling futures keeps their type, their "ok"s, and whatever was set.
LEMMA SettleFacts ==
    ASSUME TypeOK, NEW cs \in SUBSET Command, NEW outcome \in Outcome
    PROVE  /\ Settle(cs, outcome) \in [Command -> Outcome]
           /\ \A c \in Command :
                /\ future[c] # "unset" => Settle(cs, outcome)[c] = future[c]
                /\ c \notin cs => Settle(cs, outcome)[c] = future[c]
                /\ c \in cs /\ future[c] = "unset"
                      => Settle(cs, outcome)[c] = outcome
  BY DEF Settle, TypeOK

LEMMA TypeStep == TypeOK /\ CallInv /\ [Next]_vars => TypeOK'
  <1> SUFFICES ASSUME TypeOK, CallInv, [Next]_vars PROVE TypeOK'
    OBVIOUS
  <1> USE DEF TypeOK, hubVars, callVars, socketVars, Outcome, Result,
              Registered
  <1>1. ASSUME NEW c \in Command, CallStep(c) PROVE TypeOK'
    <2>1. CASE Refuse(c)      BY <2>1 DEF Refuse, Reply
    <2>2. CASE Submit(c)      BY <2>2 DEF Submit
    <2>3. CASE Write(c)       BY <2>3 DEF Write
    <2>4. CASE Written(c)     BY <2>4 DEF Written
    <2>5. CASE WriteFails(c)  BY <2>5 DEF WriteFails, Settle, CallInv, Active, Reply
    <2>6. CASE Return(c)
      BY <2>6 DEF Return, Answer, Settle, CallInv, Active, Reply
    <2>7. CASE Timeout(c)     BY <2>7 DEF Timeout, Answer, Settle, Reply
    <2> QED BY <1>1, <2>1, <2>2, <2>3, <2>4, <2>5, <2>6, <2>7 DEF CallStep
  <1>2. ASSUME NEW s \in Socket, HandlerStep(s) PROVE TypeOK'
    <2> USE DEF Goto, Loop, AnswerGateway
    <2>1. CASE AuthenticationFails(s) BY <2>1 DEF AuthenticationFails
    <2>2. CASE Register(s)
      BY <2>2 DEF Register, Replace, Settle, StartGreeting
    <2>3. CASE PreviousClosed(s)
      BY <2>3 DEF PreviousClosed, StartGreeting
    <2>4. CASE Greeted(s)             BY <2>4 DEF Greeted
    <2>5. CASE ReceiveRequest(s)      BY <2>5 DEF ReceiveRequest
    <2>6. CASE ReceiveSilently(s)     BY <2>6 DEF ReceiveSilently
    <2>7. CASE ReceiveState(s)        BY <2>7 DEF ReceiveState
    <2>8. CASE Broadcast(s)           BY <2>8 DEF Broadcast
    <2>9. CASE SendReply(s)           BY <2>9 DEF SendReply
    <2>10. CASE SendReplyFails(s)
      BY <2>10 DEF SendReplyFails, Remove, Settle
    <2>11. CASE WorkerSendFails(s)
      BY <2>11 DEF WorkerSendFails, Remove, Settle
    <2>12. CASE ReceiveDisconnect(s)  BY <2>12 DEF ReceiveDisconnect
    <2>13. CASE Stop(s)               BY <2>13 DEF Stop, Remove, Settle
    <2> QED BY <1>2, <2>1, <2>2, <2>3, <2>4, <2>5, <2>6, <2>7, <2>8, <2>9,
               <2>10, <2>11, <2>12, <2>13 DEF HandlerStep
  <1>3. ASSUME NEW s \in Socket, NEW c \in Command, NEW r \in Result,
               ReceiveResult(s, c, r)
        PROVE  TypeOK'
    BY <1>3 DEF ReceiveResult, Resolve, Settle, Goto, Loop
  <1>4. ASSUME NEW c \in Command, Execute(c) PROVE TypeOK'
    BY <1>4 DEF Execute
  <1>5. CASE UNCHANGED vars BY <1>5 DEF vars
  <1> QED BY <1>1, <1>2, <1>3, <1>4, <1>5 DEF Next

-----------------------------------------------------------------------------

\* A step that only moves a handler, and does not end the registered
\* socket's handler, disturbs nothing else.
LEMMA HandlerMove ==
    ASSUME HubInv, TypeOK',
           UNCHANGED <<hubVars, callVars, executed>>,
           current # None => handler'[current] \in Registered
    PROVE  HubInv'
  BY DEF HubInv, hubVars, callVars, CallInv, OkInv, PendingOnCurrent,
         NoWaiterForgotten, SuccessMeansExecuted, CurrentHasHandler

\* Removing a socket from the registry answers every waiter it had.
LEMMA RemoveStep ==
    ASSUME HubInv, TypeOK', NEW s \in Socket, Remove(s),
           UNCHANGED <<callVars, executed>>,
           \A q \in Socket \ {s} : handler'[q] = handler[q]
    PROVE  HubInv'
  <1> USE DEF HubInv, TypeOK, hubVars, callVars
  <1>1. CASE current = s
    <2>1. /\ current' = None /\ pending' = {}
          /\ future' = Settle(pending, "disconnected")
      BY <1>1 DEF Remove
    <2>2. \A c \in Command :
            /\ future[c] # "unset" => future'[c] = future[c]
            /\ c \notin pending => future'[c] = future[c]
            /\ c \in pending /\ future[c] = "unset"
                  => future'[c] = "disconnected"
      BY <2>1, SettleFacts DEF Outcome
    <2>3. CallInv' /\ OkInv'
      BY <2>1, <2>2 DEF CallInv, OkInv, Active
    <2>4. NoWaiterForgotten'
      BY <2>1, <2>2 DEF NoWaiterForgotten
    <2> QED
      BY <2>1, <2>3, <2>4 DEF PendingOnCurrent, SuccessMeansExecuted,
                              CurrentHasHandler
  <1>2. CASE current # s
    BY <1>2 DEF Remove, CallInv, OkInv, PendingOnCurrent, NoWaiterForgotten,
                SuccessMeansExecuted, CurrentHasHandler
  <1> QED BY <1>1, <1>2

\* A caller that leaves drops its own entry and nobody else's.
LEMMA AnswerStep ==
    ASSUME HubInv, TypeOK', NEW c \in Command, NEW r \in Reply, Answer(c, r),
           call[c] = "waiting", r # "not_connected",
           r = "ok" => c \in executed
    PROVE  HubInv'
  <1> USE DEF HubInv
  <1>1. /\ pending' = pending \ {c}
        /\ call' = [call EXCEPT ![c] = "answered"]
        /\ reply' = [reply EXCEPT ![c] = r]
        /\ current' = current /\ via' = via /\ handed' = handed
        /\ handler' = handler /\ executed' = executed
    BY DEF Answer, socketVars
  <1>2. \A d \in Command :
            \/ future'[d] = future[d]
            \/ d = c /\ future'[d] = "cancelled"
    <2>1. /\ TypeOK
          /\ future' = Settle(pending \cap {c}, "cancelled")
          /\ pending \cap {c} \in SUBSET Command
          /\ "cancelled" \in Outcome
      BY DEF Answer, Outcome
    <2>2. \A d \in Command :
            /\ future[d] # "unset" => future'[d] = future[d]
            /\ d \notin pending \cap {c} => future'[d] = future[d]
            /\ d \in pending \cap {c} /\ future[d] = "unset"
                  => future'[d] = "cancelled"
      BY <2>1, SettleFacts
    <2> QED BY <2>2
  <1>3. ASSUME NEW d \in Command, d # c
        PROVE  call'[d] = call[d] /\ reply'[d] = reply[d] /\ future'[d] = future[d]
    BY <1>1, <1>2, <1>3 DEF TypeOK
  <1>4. call'[c] = "answered" /\ reply'[c] = r
    BY <1>1 DEF TypeOK
  <1>5. CallInv'
    BY <1>1, <1>3, <1>4 DEF CallInv, Active
  <1>6. OkInv' /\ SuccessMeansExecuted'
    BY <1>1, <1>2, <1>3, <1>4 DEF OkInv, SuccessMeansExecuted
  <1>7. PendingOnCurrent'
    BY <1>1, <1>3 DEF PendingOnCurrent
  <1>8. NoWaiterForgotten'
    BY <1>1, <1>3, <1>4 DEF NoWaiterForgotten
  <1>9. CurrentHasHandler'
    BY <1>1 DEF CurrentHasHandler
  <1> QED BY <1>5, <1>6, <1>7, <1>8, <1>9

LEMMA CallStepHubInv ==
    ASSUME HubInv, TypeOK', NEW c \in Command, CallStep(c)
    PROVE  HubInv'
  <1> USE DEF HubInv
  <1>1. CASE Refuse(c)
    BY <1>1 DEF Refuse, TypeOK, hubVars, socketVars, CallInv, OkInv, Active,
                PendingOnCurrent, NoWaiterForgotten, SuccessMeansExecuted,
                CurrentHasHandler
  <1>2. CASE Submit(c)
    BY <1>2 DEF Submit, TypeOK, socketVars, CallInv, OkInv, Active,
                PendingOnCurrent, NoWaiterForgotten, SuccessMeansExecuted,
                CurrentHasHandler
  <1>3. CASE Write(c)
    BY <1>3 DEF Write, TypeOK, hubVars, CallInv, OkInv, Active,
                PendingOnCurrent, NoWaiterForgotten, SuccessMeansExecuted,
                CurrentHasHandler
  <1>4. CASE Written(c)
    BY <1>4 DEF Written, TypeOK, hubVars, socketVars, CallInv, OkInv, Active,
                PendingOnCurrent, NoWaiterForgotten, SuccessMeansExecuted,
                CurrentHasHandler
  <1>5. CASE WriteFails(c)
    <2> DEFINE evicts == current = via[c]
    <2>1. /\ current' = IF evicts THEN None ELSE current
          /\ pending' = IF evicts THEN {} ELSE pending \ {c}
          /\ call' = [call EXCEPT ![c] = "answered"]
          /\ reply' = [reply EXCEPT ![c] = "send_error"]
          /\ via' = via /\ handed' = handed
          /\ handler' = handler /\ executed' = executed
      BY <1>5 DEF WriteFails
    <2>2. /\ \A d \in Command : future[d] # "unset" => future'[d] = future[d]
          /\ \A d \in pending :
                evicts /\ future[d] = "unset" => future'[d] = "disconnected"
          /\ \A d \in Command :
                d \notin pending \/ (~evicts /\ d # c)
                    => future'[d] = future[d]
          /\ \A d \in Command : future[d] = "unset"
                => \/ future'[d] \in {"unset", "disconnected"}
                   \/ d = c /\ future'[d] = "cancelled"
      <3>1. pending \in SUBSET Command /\ pending \cap {c} \in SUBSET Command
        BY DEF TypeOK
      <3>2. CASE evicts
        <4>1. future' = Settle(pending, "disconnected")
          BY <1>5, <3>2 DEF WriteFails
        <4> QED BY <4>1, <3>1, <3>2, SettleFacts DEF Outcome
      <3>3. CASE ~evicts
        <4>1. future' = Settle(pending \cap {c}, "cancelled")
          BY <1>5, <3>3 DEF WriteFails
        <4> QED BY <4>1, <3>1, <3>3, SettleFacts DEF Outcome
      <3> QED BY <3>2, <3>3
    <2>3. /\ call'[c] = "answered" /\ reply'[c] = "send_error"
          /\ \A d \in Command \ {c} : call'[d] = call[d] /\ reply'[d] = reply[d]
      BY <2>1 DEF TypeOK
    <2>4. CallInv'
      <3> SUFFICES ASSUME NEW d \in Command PROVE CallInv!(d)'
        BY DEF CallInv
      <3>1. pending' \subseteq pending
        BY <2>1
      <3>2. CASE d = c
        BY <2>1, <2>3, <3>1, <3>2 DEF CallInv, Active
      <3>3. CASE d # c
        BY <2>1, <2>2, <2>3, <3>1, <3>3 DEF CallInv, Active
      <3> QED BY <3>2, <3>3
    <2>5. OkInv' /\ SuccessMeansExecuted'
      BY <2>1, <2>2, <2>3 DEF OkInv, SuccessMeansExecuted, TypeOK
    <2>6. PendingOnCurrent'
      BY <2>1, <2>3 DEF PendingOnCurrent, TypeOK
    <2>7. NoWaiterForgotten'
      BY <2>1, <2>2, <2>3 DEF NoWaiterForgotten
    <2>8. CurrentHasHandler'
      BY <2>1 DEF CurrentHasHandler
    <2> QED BY <2>4, <2>5, <2>6, <2>7, <2>8
  <1>6. CASE Return(c)
    <2>1. future[c] \in Outcome \ {"unset", "cancelled"}
      BY <1>6 DEF Return, TypeOK, CallInv, Active
    <2>2. future[c] \in Reply /\ future[c] # "not_connected"
      BY <2>1 DEF Outcome, Reply, Result
    <2> QED BY <1>6, <2>2, AnswerStep DEF Return, OkInv
  <1>7. CASE Timeout(c)
    BY <1>7, AnswerStep DEF Timeout, Reply
  <1> QED
    BY <1>1, <1>2, <1>3, <1>4, <1>5, <1>6, <1>7 DEF CallStep

LEMMA HandlerStepHubInv ==
    ASSUME HubInv, TypeOK', NEW s \in Socket, HandlerStep(s)
    PROVE  HubInv'
  <1> USE DEF Goto, Loop, AnswerGateway
  <1>0. /\ TypeOK
        /\ current # None => current \in Socket /\ handler[current] \in Registered
    BY DEF HubInv, TypeOK, CurrentHasHandler
  <1>1. CASE AuthenticationFails(s)
    BY <1>0, <1>1, HandlerMove DEF AuthenticationFails, TypeOK, Registered, hubVars
  <1>2. CASE Register(s)
    <2>1. /\ current' = s
          /\ UNCHANGED <<callVars, executed>>
          /\ handler'[s] \in Registered
      BY <1>2 DEF Register, Replace, StartGreeting, TypeOK, HubInv, Registered
    <2>2. CASE current = None \/ current = s
      <3>1. pending' = pending /\ future' = future /\ pending = {}
        BY <1>0, <1>2, <2>2
           DEF Register, Replace, HubInv, PendingOnCurrent, Registered
      <3> QED
        BY <2>1, <3>1
           DEF HubInv, CallInv, OkInv, PendingOnCurrent, NoWaiterForgotten,
               SuccessMeansExecuted, CurrentHasHandler, callVars
    <2>3. CASE ~(current = None \/ current = s)
      <3>1. pending' = {} /\ future' = Settle(pending, "replaced")
        BY <1>2, <2>3 DEF Register, Replace
      <3>2. \A c \in Command :
              /\ future[c] # "unset" => future'[c] = future[c]
              /\ c \notin pending => future'[c] = future[c]
              /\ c \in pending /\ future[c] = "unset"
                    => future'[c] = "replaced"
        <4>1. pending \in SUBSET Command
          BY <1>0 DEF TypeOK
        <4> QED BY <1>0, <3>1, <4>1, SettleFacts DEF Outcome
      <3>3. CallInv' /\ OkInv'
        BY <2>1, <3>1, <3>2 DEF HubInv, CallInv, OkInv, Active, callVars
      <3>4. NoWaiterForgotten'
        BY <2>1, <3>1, <3>2 DEF HubInv, NoWaiterForgotten, callVars
      <3> QED
        BY <2>1, <3>1, <3>3, <3>4
           DEF HubInv, PendingOnCurrent, SuccessMeansExecuted,
               CurrentHasHandler, callVars
    <2> QED BY <2>2, <2>3
  <1>3. CASE PreviousClosed(s)
    BY <1>0, <1>3, HandlerMove
       DEF PreviousClosed, StartGreeting, TypeOK, Registered
  <1>4. CASE Greeted(s)
    BY <1>0, <1>4, HandlerMove DEF Greeted, TypeOK, Registered
  <1>5. CASE ReceiveRequest(s)
    BY <1>0, <1>5, HandlerMove DEF ReceiveRequest, TypeOK, Registered
  <1>6. CASE ReceiveSilently(s)
    BY <1>0, <1>6, HandlerMove DEF ReceiveSilently, TypeOK, Registered
  <1>7. CASE ReceiveState(s)
    BY <1>0, <1>7, HandlerMove DEF ReceiveState, TypeOK, Registered
  <1>8. CASE Broadcast(s)
    BY <1>0, <1>8, HandlerMove DEF Broadcast, TypeOK, Registered
  <1>9. CASE SendReply(s)
    BY <1>0, <1>9, HandlerMove DEF SendReply, TypeOK, Registered
  <1>10. CASE SendReplyFails(s)
    BY <1>0, <1>10, RemoveStep DEF SendReplyFails, TypeOK
  <1>11. CASE WorkerSendFails(s)
    BY <1>0, <1>11, RemoveStep DEF WorkerSendFails, TypeOK
  <1>12. CASE ReceiveDisconnect(s)
    BY <1>0, <1>12, HandlerMove DEF ReceiveDisconnect, TypeOK, Registered
  <1>13. CASE Stop(s)
    BY <1>0, <1>13, RemoveStep DEF Stop, TypeOK
  <1> QED
    BY <1>1, <1>2, <1>3, <1>4, <1>5, <1>6, <1>7, <1>8, <1>9, <1>10, <1>11,
       <1>12, <1>13 DEF HandlerStep

\* A result settles at most the named command, while it is pending.
LEMMA ResultHubInv ==
    ASSUME HubInv, TypeOK', NEW s \in Socket, NEW c \in Command,
           NEW r \in Result, ReceiveResult(s, c, r)
    PROVE  HubInv'
  <1>1. /\ TypeOK /\ pending \in SUBSET Command /\ {c} \in SUBSET Command
        /\ r \in Outcome /\ r \notin {"unset", "cancelled"}
    BY DEF HubInv, TypeOK, Outcome, Result
  <1>2. /\ pending' = pending /\ current' = current /\ executed' = executed
        /\ call' = call /\ reply' = reply /\ via' = via /\ handed' = handed
        /\ r = "ok" => c \in executed
        /\ c \in handed
    BY DEF ReceiveResult, callVars
  <1>3. \A d \in Command :
            \/ future'[d] = future[d]
            \/ d = c /\ future[d] = "unset" /\ future'[d] = r
    <2>1. CASE future' = future
      BY <2>1
    <2>2. CASE future' = Settle({c}, r)
      BY <1>1, <2>2, SettleFacts
    <2> QED BY <2>1, <2>2 DEF ReceiveResult, Resolve
  <1>4. CallInv' /\ OkInv'
    BY <1>1, <1>2, <1>3 DEF HubInv, CallInv, OkInv, Active
  <1>5. NoWaiterForgotten'
    BY <1>1, <1>2, <1>3 DEF HubInv, NoWaiterForgotten
  <1>6. CurrentHasHandler'
    BY <1>2 DEF HubInv, TypeOK, CurrentHasHandler, ReceiveResult, Goto, Loop,
                Registered
  <1> QED
    BY <1>2, <1>4, <1>5, <1>6 DEF HubInv, PendingOnCurrent,
                                  SuccessMeansExecuted

LEMMA NextHubInv == HubInv /\ [Next]_vars => HubInv'
  <1> SUFFICES ASSUME HubInv, [Next]_vars PROVE HubInv'
    OBVIOUS
  <1>1. TypeOK'
    BY TypeStep DEF HubInv
  <1>2. ASSUME NEW c \in Command, Execute(c) PROVE HubInv'
    BY <1>1, <1>2
       DEF HubInv, Execute, CallInv, OkInv, PendingOnCurrent,
           NoWaiterForgotten, SuccessMeansExecuted, CurrentHasHandler,
           hubVars, callVars, socketVars
  <1>3. CASE UNCHANGED vars
    BY <1>1, <1>3, HandlerMove
       DEF vars, socketVars, HubInv, CurrentHasHandler, hubVars
  <1> QED
    BY <1>1, <1>2, <1>3, CallStepHubInv, HandlerStepHubInv, ResultHubInv
       DEF Next

LEMMA HubInvariance == Spec => []HubInv
  BY InitHubInv, NextHubInv, PTL DEF Spec

-----------------------------------------------------------------------------
(* The invariants the runs check *)

\* The registry, the futures and the answers stay within their types: a caller
\* is never given the content of a future that is not set (send_command).
THEOREM HubTypes == Spec => []TypeOK
  BY HubInvariance, PTL DEF HubInv

\* No entry of the pending table outlives its connection or its caller
\* (connect, disconnect and the finally block of send_command).
THEOREM EntriesBelongToTheConnection == Spec => []PendingOnCurrent
  BY HubInvariance, PTL DEF HubInv

\* A caller that lost its entry has its answer (connect, disconnect, _send).
THEOREM WaitersAreAnswered == Spec => []NoWaiterForgotten
  BY HubInvariance, PTL DEF HubInv

\* "success" reaches HTTP only for a command the device carried out.
THEOREM SuccessIsReal == Spec => []SuccessMeansExecuted
  BY HubInvariance, PTL DEF HubInv

\* A registered socket has a handler that will still unregister it.
THEOREM RegistrationIsOwned == Spec => []CurrentHasHandler
  BY HubInvariance, PTL DEF HubInv

-----------------------------------------------------------------------------
(* What a step may never do *)

\* The guards on future.done() keep every future at its first result.
THEOREM FuturesAreSetOnce == Spec => SettledOnce
  <1> DEFINE Once == \A c \in Command :
                        future[c] # "unset" => future'[c] = future[c]
  <1>1. ASSUME HubInv, [Next]_vars PROVE [Once]_vars
    <2> SUFFICES ASSUME ~UNCHANGED vars, NEW c \in Command, future[c] # "unset"
                 PROVE  future'[c] = future[c]
      OBVIOUS
    <2>1. TypeOK BY <1>1 DEF HubInv
    <2>2. ASSUME NEW cs, NEW o, future' = Settle(cs, o)
          PROVE  future'[c] = future[c]
      BY <2>2 DEF Settle
    <2>3. ASSUME NEW d \in Command, CallStep(d) PROVE future'[c] = future[c]
      BY <2>2, <2>3
         DEF CallStep, Refuse, Submit, Write, Written, WriteFails, Return,
             Timeout, Answer, hubVars
    <2>4. ASSUME NEW s \in Socket, HandlerStep(s) PROVE future'[c] = future[c]
      BY <2>2, <2>4
         DEF HandlerStep, AuthenticationFails, Register, Replace,
             PreviousClosed, Greeted, ReceiveRequest, ReceiveSilently,
             ReceiveState, Broadcast, SendReply, SendReplyFails,
             WorkerSendFails, ReceiveDisconnect, Stop, Remove, hubVars
    <2>5. ASSUME NEW s \in Socket, NEW d \in Command, NEW r \in Result,
                 ReceiveResult(s, d, r)
          PROVE  future'[c] = future[c]
      BY <2>2, <2>5 DEF ReceiveResult, Resolve
    <2>6. ASSUME NEW d \in Command, Execute(d) PROVE future'[c] = future[c]
      BY <2>6 DEF Execute, hubVars
    <2> QED BY <1>1, <2>3, <2>4, <2>5, <2>6 DEF Next
  <1> QED BY <1>1, HubInvariance, PTL DEF Spec, SettledOnce

\* The identity checks keep a working socket registered until it fails, ends
\* or is replaced.
THEOREM LiveSocketStays == Spec => LiveSocketKeepsRegistration
  <1> DEFINE Keeps == current # None /\ current' # current => current \in dead'
  <1>1. ASSUME HubInv, [Next]_vars PROVE [Keeps]_vars
    <2> SUFFICES ASSUME current # None, current' # current
                 PROVE  current \in dead'
      OBVIOUS
    <2>1. CASE UNCHANGED vars
      BY <2>1 DEF vars, hubVars
    <2>2. ASSUME NEW c \in Command, CallStep(c) PROVE current \in dead'
      BY <2>2 DEF CallStep, Refuse, Submit, Write, Written, WriteFails,
                  Return, Timeout, Answer, hubVars
    <2>3. ASSUME NEW s \in Socket, HandlerStep(s) PROVE current \in dead'
      BY <2>3 DEF HandlerStep, AuthenticationFails, Register, Replace,
             PreviousClosed, Greeted, ReceiveRequest, ReceiveSilently,
             ReceiveState, Broadcast, SendReply, SendReplyFails,
             WorkerSendFails, ReceiveDisconnect, Stop, Remove, hubVars
    <2>4. ASSUME NEW s \in Socket, NEW d \in Command, NEW r \in Result,
                 ReceiveResult(s, d, r)
          PROVE  current \in dead'
      BY <2>4 DEF ReceiveResult
    <2>5. ASSUME NEW d \in Command, Execute(d) PROVE current \in dead'
      BY <2>5 DEF Execute, hubVars
    <2> QED BY <1>1, <2>1, <2>2, <2>3, <2>4, <2>5 DEF Next
  <1> QED
    BY <1>1, HubInvariance, PTL DEF Spec, LiveSocketKeepsRegistration

-----------------------------------------------------------------------------
(* DeviceHub implements CommandService *)

LEMMA InitImplements == Init => Promise!Init
  BY DEF Init, Promise!Init, request

\* Steps that leave calls, replies and the device alone stutter.
LEMMA Stutter ==
    ASSUME UNCHANGED <<call, reply, executed>>
    PROVE  UNCHANGED Promise!vars
  BY DEF Promise!vars, request

\* A call that becomes answered closes its open request with that answer.
LEMMA Closes ==
    ASSUME HubInv, NEW c \in Command, NEW r \in Reply,
           call[c] \in Active, r \notin {"none", "not_connected"},
           r = "ok" => c \in executed,
           call' = [call EXCEPT ![c] = "answered"],
           reply' = [reply EXCEPT ![c] = r],
           executed' = executed
    PROVE  Promise!Close(c)
  <1>1. request[c] = "open"
    BY DEF request, Active
  <1>2. request' = [request EXCEPT ![c] = "closed"]
    BY DEF request, HubInv, TypeOK
  <1> QED BY <1>1, <1>2 DEF Promise!Close

LEMMA StepImplements ==
    ASSUME HubInv, [Next]_vars
    PROVE  [Promise!Next]_(Promise!vars)
  <1>1. TypeOK /\ CallInv /\ OkInv
    BY DEF HubInv
  <1>2. ASSUME NEW c \in Command, CallStep(c)
        PROVE  [Promise!Next]_(Promise!vars)
    <2>1. CASE Refuse(c)
      <3>1. request[c] = "new" /\ request' = [request EXCEPT ![c] = "closed"]
        BY <1>1, <2>1 DEF Refuse, request, TypeOK
      <3>2. Promise!TurnAway(c)
        BY <2>1, <3>1 DEF Refuse, Promise!TurnAway
      <3> QED BY <3>2 DEF Promise!Next
    <2>2. CASE Submit(c)
      <3>1. request[c] = "new" /\ request' = [request EXCEPT ![c] = "open"]
        BY <1>1, <2>2 DEF Submit, request, TypeOK
      <3>2. Promise!Take(c)
        BY <2>2, <3>1 DEF Submit, Promise!Take
      <3> QED BY <3>2 DEF Promise!Next
    <2>3. CASE Write(c) \/ Written(c)
      <3>1. request' = request
        BY <1>1, <2>3 DEF Write, Written, request, TypeOK
      <3> QED BY <2>3, <3>1 DEF Write, Written, Promise!vars
    <2>4. CASE WriteFails(c)
      BY <2>4, Closes DEF WriteFails, Active, Reply, Promise!Next
    <2>5. CASE Return(c)
      <3>1. future[c] \in Reply \ {"none", "not_connected"}
        BY <1>1, <2>5
           DEF Return, TypeOK, CallInv, Active, Outcome, Reply, Result
      <3> QED
        BY <1>1, <2>5, <3>1, Closes
           DEF Return, Answer, Active, OkInv, Promise!Next
    <2>6. CASE Timeout(c)
      BY <2>6, Closes DEF Timeout, Answer, Active, Reply, Promise!Next
    <2> QED BY <1>2, <2>1, <2>2, <2>3, <2>4, <2>5, <2>6 DEF CallStep
  <1>3. ASSUME NEW c \in Command, Execute(c)
        PROVE  [Promise!Next]_(Promise!vars)
    <2>1. request[c] # "new" /\ reply[c] # "not_connected"
      BY <1>1, <1>3 DEF Execute, CallInv, request
    <2>2. Promise!CarryOut(c)
      BY <1>3, <2>1 DEF Execute, Promise!CarryOut, callVars, request
    <2> QED BY <2>2 DEF Promise!Next
  <1>4. ASSUME NEW s \in Socket, HandlerStep(s)
        PROVE  [Promise!Next]_(Promise!vars)
    <2>1. UNCHANGED <<call, reply, executed>>
      BY <1>4 DEF HandlerStep, AuthenticationFails, Register, PreviousClosed,
             Greeted, ReceiveRequest, ReceiveSilently, ReceiveState,
             Broadcast, SendReply, SendReplyFails, WorkerSendFails,
             ReceiveDisconnect, Stop, callVars
    <2> QED BY <2>1, Stutter
  <1>5. ASSUME NEW s \in Socket, NEW c \in Command, NEW r \in Result,
               ReceiveResult(s, c, r)
        PROVE  [Promise!Next]_(Promise!vars)
    BY <1>5, Stutter DEF ReceiveResult, callVars
  <1>6. CASE UNCHANGED vars
    BY <1>6, Stutter DEF vars, callVars
  <1> QED BY <1>2, <1>3, <1>4, <1>5, <1>6 DEF Next

\* Sockets, futures, replacements and timeouts together keep the promise of
\* CommandService.
THEOREM HubImplementsCommandService == Spec => CommandPromise
  <1>1. HubInv /\ [Next]_vars => [Promise!Next]_(Promise!vars)
    BY StepImplements
  <1> QED
    BY <1>1, InitImplements, HubInvariance, PTL
       DEF Spec, CommandPromise, Promise!Spec
=============================================================================
