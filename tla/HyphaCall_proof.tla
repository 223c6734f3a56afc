--------------------------- MODULE HyphaCall_proof ---------------------------
(***************************************************************************)
(* Proofs about HyphaCall: the inductive invariant behind its safety       *)
(* properties, and that it implements RpcPromise.                          *)
(***************************************************************************)
EXTENDS HyphaCall, TLAPS

(* The request was put on the network, if only to be lost. *)
Sent(c) == emitTask[c] \in {"sent", "done", "failed"}

(* A request is on the way only while the method has not run. *)
RequestInv(c) ==
  /\ Msg("method", c) \in net => method[c] = "idle" /\ Sent(c)
  /\ method[c] # "idle" => Sent(c)
  /\ future[c] = "idle" => emitTask[c] = "idle" /\ c \notin session

(* An answer on the way, or taken, is the one the method gave. *)
AnswerInv(c) ==
  /\ Msg("resolve", c) \in net => method[c] = "returned"
  /\ Msg("reject", c) \in net => method[c] \in {"raised", "refused"}
  /\ future[c] = "resolved" => method[c] = "returned"
  /\ future[c] = "rejected" => method[c] \in {"raised", "refused"}

(* Only an answer closes a session, so the method is over by then. *)
SessionInv(c) ==
  /\ future[c] = "pending" => c \in session
  /\ future[c] # "idle" /\ c \notin session => method[c] \notin {"idle", "running"}
  /\ c \in session /\ future[c] \in {"resolved", "rejected"} => c \in Interface

(* What guards the wait of the caller and the run at the callee. *)
WatchInv(c) ==
  /\ emitTask[c] = "done" /\ future[c] = "pending" => timer[c] = "sleeping"
  /\ method[c] = "running" => heartbeat[c] # "off"

CallInv(c) == RequestInv(c) /\ AnswerInv(c) /\ SessionInv(c) /\ WatchInv(c)

IInv == TypeOK /\ \A c \in Call : CallInv(c)

-----------------------------------------------------------------------------
(* Two messages are the same when they agree on type and call. *)
LEMMA MsgInjective ==
  ASSUME NEW t, NEW u, NEW c, NEW d
  PROVE  Msg(t, c) = Msg(u, d) <=> t = u /\ c = d
  BY DEF Msg

(* Msg builds messages. *)
LEMMA MsgType ==
  ASSUME NEW c \in Call,
         NEW t \in {"method", "heartbeat", "beat", "resolve", "reject"}
  PROVE  Msg(t, c) \in Message
  BY DEF Msg, Message

(* A callee answers with at most the one message it means. *)
LEMMA AnswerType ==
  ASSUME NEW c \in Call, NEW t \in {"resolve", "reject"}
  PROVE  Answer(t, c) \subseteq {Msg(t, c)} /\ Answer(t, c) \subseteq Message
  BY MsgType DEF Answer

(* All variables hold values of their types, whatever the calls and peers. *)
LEMMA TypeStep == TypeOK /\ [Next]_vars => TypeOK'
<1> SUFFICES ASSUME TypeOK, [Next]_vars PROVE TypeOK'
  OBVIOUS
<1> USE CallAssumption DEF TypeOK
<1>1. ASSUME NEW c \in Call, CallerStep(c) PROVE TypeOK'
  <2>1. CASE RemoteMethod(c)
    BY <2>1 DEF RemoteMethod
  <2>2. CASE Transmit(c)
    BY <2>2, MsgType DEF Transmit
  <2>3. CASE EmitFailed(c)
    BY <2>3 DEF EmitFailed, Settle
  <2>4. CASE EmitSucceeded(c)
    BY <2>4 DEF EmitSucceeded
  <2>5. CASE TimerFires(c)
    BY <2>5 DEF TimerFires, Settle
  <2>6. CASE HandleHeartbeat(c)
    BY <2>6, MsgType DEF HandleHeartbeat
  <2>7. CASE HandleResolve(c) \/ HandleReject(c)
    BY <2>7 DEF HandleResolve, HandleReject, HandleAnswer, Settle
  <2>8. CASE EmitHangs(c)
    BY <2>8 DEF EmitHangs
  <2>9. QED
    BY <1>1, <2>1, <2>2, <2>3, <2>4, <2>5, <2>6, <2>7, <2>8 DEF CallerStep
<1>2. ASSUME NEW c \in Call, CalleeStep(c) PROVE TypeOK'
  <2>1. CASE Refuse(c)
    BY <2>1, AnswerType DEF Refuse
  <2>2. CASE RunSync(c)
    <3>1. net' \subseteq Message
      BY <2>2, AnswerType DEF RunSync, ReturnValue
    <3>2. QED
      BY <2>2, <3>1 DEF RunSync
  <2>3. CASE RunAsync(c)
    BY <2>3 DEF RunAsync
  <2>4. CASE MethodReturns(c)
    BY <2>4, AnswerType DEF MethodReturns, ReturnValue
  <2>5. CASE MethodRaises(c)
    BY <2>5, AnswerType DEF MethodRaises
  <2>6. CASE SendHeartbeat(c)
    BY <2>6, MsgType DEF SendHeartbeat
  <2>7. CASE HeartbeatAnswered(c)
    BY <2>7 DEF HeartbeatAnswered
  <2>8. CASE HeartbeatWakes(c)
    BY <2>8 DEF HeartbeatWakes
  <2>9. CASE HeartbeatFails(c)
    BY <2>9 DEF HeartbeatFails
  <2>10. QED
    BY <1>2, <2>1, <2>2, <2>3, <2>4, <2>5, <2>6, <2>7, <2>8, <2>9 DEF CalleeStep
<1>3. ASSUME NEW m \in net, Lose(m) PROVE TypeOK'
  BY <1>3 DEF Lose
<1>4. ASSUME NEW p \in Mortal, Stop(p) PROVE TypeOK'
  BY <1>4 DEF Stop
<1>5. ASSUME NEW p \in Hanging, Hang(p) PROVE TypeOK'
  BY <1>5 DEF Hang
<1>6. CASE UNCHANGED vars
  BY <1>6 DEF vars
<1>7. QED
  BY <1>1, <1>2, <1>3, <1>4, <1>5, <1>6 DEF Next

-----------------------------------------------------------------------------
(***************************************************************************)
(* A step that changes nothing of a call, and sends no request or answer   *)
(* for it, keeps what is known of the call.                                *)
(***************************************************************************)
LEMMA CallFrame ==
  ASSUME NEW d \in Call, CallInv(d),
         emitTask'[d] = emitTask[d], future'[d] = future[d],
         timer'[d] = timer[d], method'[d] = method[d],
         heartbeat'[d] = heartbeat[d],
         d \in session' <=> d \in session,
         \A t \in {"method", "resolve", "reject"} :
            Msg(t, d) \in net' => Msg(t, d) \in net
  PROVE  CallInv(d)'
  BY DEF CallInv, RequestInv, AnswerInv, SessionInv, WatchInv, Sent

(***************************************************************************)
(* A step of a call's caller or callee changes nothing of another call.    *)
(***************************************************************************)
LEMMA OtherCalls ==
  ASSUME TypeOK, NEW c \in Call, NEW d \in Call, d # c,
         CallInv(d), CallerStep(c) \/ CalleeStep(c)
  PROVE  CallInv(d)'
<1> USE MsgInjective DEF TypeOK
<1>1. CASE CallerStep(c)
  <2> DEFINE Kept ==
        /\ emitTask'[d] = emitTask[d] /\ future'[d] = future[d]
        /\ timer'[d] = timer[d] /\ method'[d] = method[d]
        /\ heartbeat'[d] = heartbeat[d]
        /\ d \in session' <=> d \in session
        /\ \A t \in {"method", "resolve", "reject"} :
             Msg(t, d) \in net' => Msg(t, d) \in net
  <2>1. CASE RemoteMethod(c)
    <3>1. Kept
      BY <2>1 DEF RemoteMethod
    <3>2. QED
      BY <3>1, CallFrame
  <2>2. CASE Transmit(c)
    <3>1. Kept
      BY <2>2 DEF Transmit
    <3>2. QED
      BY <3>1, CallFrame
  <2>3. CASE EmitFailed(c)
    <3>1. Kept
      BY <2>3 DEF EmitFailed, Settle
    <3>2. QED
      BY <3>1, CallFrame
  <2>4. CASE EmitSucceeded(c)
    <3>1. Kept
      BY <2>4 DEF EmitSucceeded
    <3>2. QED
      BY <3>1, CallFrame
  <2>5. CASE TimerFires(c)
    <3>1. Kept
      BY <2>5 DEF TimerFires, Settle
    <3>2. QED
      BY <3>1, CallFrame
  <2>6. CASE HandleHeartbeat(c)
    <3>1. Kept
      BY <2>6 DEF HandleHeartbeat
    <3>2. QED
      BY <3>1, CallFrame
  <2>7. CASE HandleResolve(c) \/ HandleReject(c)
    <3>1. Kept
      BY <2>7 DEF HandleResolve, HandleReject, HandleAnswer, Settle
    <3>2. QED
      BY <3>1, CallFrame
  <2>8. CASE EmitHangs(c)
    <3>1. Kept
      BY <2>8 DEF EmitHangs
    <3>2. QED
      BY <3>1, CallFrame
  <2>9. QED
    BY <1>1, <2>1, <2>2, <2>3, <2>4, <2>5, <2>6, <2>7, <2>8 DEF CallerStep
<1>2. CASE CalleeStep(c)
  <2>1. /\ emitTask' = emitTask /\ future' = future
        /\ timer' = timer /\ session' = session
    BY <1>2 DEF CalleeStep, Refuse, RunSync, RunAsync, MethodReturns, MethodRaises,
                SendHeartbeat, HeartbeatAnswered, HeartbeatWakes, HeartbeatFails
  <2>2. method'[d] = method[d] /\ heartbeat'[d] = heartbeat[d]
    BY <1>2 DEF CalleeStep, Refuse, RunSync, RunAsync, MethodReturns, MethodRaises,
                SendHeartbeat, HeartbeatAnswered, HeartbeatWakes, HeartbeatFails
  <2>3. ASSUME NEW t \in {"method", "resolve", "reject"}, Msg(t, d) \in net'
        PROVE  Msg(t, d) \in net
    BY <1>2, <2>3, AnswerType
       DEF CalleeStep, Refuse, RunSync, RunAsync, MethodReturns, MethodRaises,
           SendHeartbeat, HeartbeatAnswered, HeartbeatWakes, HeartbeatFails, ReturnValue
  <2>4. QED
    BY <2>1, <2>2, <2>3, CallFrame
<1>3. QED
  BY <1>1, <1>2

(* A step of its caller keeps what is known of a call. *)
LEMMA CallerKeeps ==
  ASSUME TypeOK, NEW c \in Call, CallInv(c), CallerStep(c)
  PROVE  CallInv(c)'
<1> USE MsgInjective DEF TypeOK, CallInv, RequestInv, AnswerInv, SessionInv, WatchInv, Sent
<1>1. CASE RemoteMethod(c)
  BY <1>1 DEF RemoteMethod
<1>2. CASE Transmit(c)
  BY <1>2 DEF Transmit
<1>3. CASE EmitFailed(c)
  BY <1>3 DEF EmitFailed, Settle
<1>4. CASE EmitSucceeded(c)
  BY <1>4 DEF EmitSucceeded
<1>5. CASE TimerFires(c)
  BY <1>5 DEF TimerFires, Settle
<1>6. CASE HandleHeartbeat(c)
  BY <1>6 DEF HandleHeartbeat
<1>7. CASE HandleResolve(c)
  BY <1>7 DEF HandleResolve, HandleAnswer, Settle
<1>8. CASE HandleReject(c)
  BY <1>8 DEF HandleReject, HandleAnswer, Settle
<1>9. CASE EmitHangs(c)
  BY <1>9 DEF EmitHangs
<1>10. QED
  BY <1>1, <1>2, <1>3, <1>4, <1>5, <1>6, <1>7, <1>8, <1>9 DEF CallerStep

(* So does a step of its callee. *)
LEMMA CalleeKeeps ==
  ASSUME TypeOK, NEW c \in Call, CallInv(c), CalleeStep(c)
  PROVE  CallInv(c)'
<1> USE MsgInjective, AnswerType
    DEF TypeOK, CallInv, RequestInv, AnswerInv, SessionInv, WatchInv, Sent
<1>1. CASE Refuse(c)
  BY <1>1 DEF Refuse
<1>2. CASE RunSync(c)
  BY <1>2 DEF RunSync, ReturnValue
<1>3. CASE RunAsync(c)
  BY <1>3 DEF RunAsync
<1>4. CASE MethodReturns(c)
  BY <1>4 DEF MethodReturns, ReturnValue
<1>5. CASE MethodRaises(c)
  BY <1>5 DEF MethodRaises
<1>6. CASE SendHeartbeat(c)
  BY <1>6 DEF SendHeartbeat
<1>7. CASE HeartbeatAnswered(c)
  BY <1>7 DEF HeartbeatAnswered
<1>8. CASE HeartbeatWakes(c)
  BY <1>8 DEF HeartbeatWakes
<1>9. CASE HeartbeatFails(c)
  BY <1>9 DEF HeartbeatFails
<1>10. QED
  BY <1>1, <1>2, <1>3, <1>4, <1>5, <1>6, <1>7, <1>8, <1>9 DEF CalleeStep

-----------------------------------------------------------------------------
(* IInv holds initially and is kept by every step. *)
THEOREM Inductive == Spec => []IInv
<1>1. Init => IInv
  BY CallAssumption
     DEF Init, IInv, TypeOK, CallInv, RequestInv, AnswerInv, SessionInv, WatchInv
<1>2. IInv /\ [Next]_vars => IInv'
  <2> SUFFICES ASSUME IInv, [Next]_vars PROVE IInv'
    OBVIOUS
  <2>1. TypeOK /\ TypeOK'
    BY TypeStep DEF IInv
  <2>2. ASSUME NEW d \in Call PROVE CallInv(d)'
    <3>1. CallInv(d)
      BY DEF IInv
    <3>2. ASSUME NEW c \in Call, CallerStep(c) \/ CalleeStep(c) PROVE CallInv(d)'
      BY <2>1, <3>1, <3>2, OtherCalls, CallerKeeps, CalleeKeeps
    <3>3. ASSUME NEW m \in net, Lose(m) PROVE CallInv(d)'
      BY <3>1, <3>3, CallFrame DEF Lose
    <3>4. ASSUME NEW p \in Mortal, Stop(p) PROVE CallInv(d)'
      BY <3>1, <3>4, CallFrame DEF Stop
    <3>5. ASSUME NEW p \in Hanging, Hang(p) PROVE CallInv(d)'
      BY <3>1, <3>5, CallFrame DEF Hang
    <3>6. CASE UNCHANGED vars
      BY <3>1, <3>6, CallFrame DEF vars
    <3>7. QED
      BY <3>2, <3>3, <3>4, <3>5, <3>6 DEF Next
  <2>3. QED
    BY <2>1, <2>2 DEF IInv
<1>3. QED
  BY <1>1, <1>2, PTL DEF Spec

(* Every variable keeps its type, for any calls, nesting and peers. *)
THEOREM TypeCorrect == Spec => []TypeOK
<1>1. IInv => TypeOK
  BY DEF IInv
<1>2. QED
  BY <1>1, Inductive, PTL

(***************************************************************************)
(* No order of answers, heartbeats, timeouts and sending results leaves a  *)
(* caller waiting for a sent request without a running timer.              *)
(***************************************************************************)
THEOREM NoUntimedWait == Spec => []PendingIsTimed
<1>1. IInv => PendingIsTimed
  BY DEF IInv, CallInv, WatchInv, PendingIsTimed
<1>2. QED
  BY <1>1, Inductive, PTL

(***************************************************************************)
(* The callbacks of a call stay in the object store of the caller while it *)
(* waits and while the method runs, and are removed with the answer.       *)
(***************************************************************************)
THEOREM SessionLifetime == Spec => [](SessionDuringCall /\ AnswerClosesSession)
<1>1. IInv => SessionDuringCall /\ AnswerClosesSession
  BY DEF IInv, TypeOK, CallInv, SessionInv, RequestInv, Sent,
         SessionDuringCall, AnswerClosesSession
<1>2. QED
  BY <1>1, Inductive, PTL

(* An asynchronous method always has the heartbeat that can cancel it. *)
THEOREM NoUnwatchedRun == Spec => []RunningIsWatched
<1>1. IInv => RunningIsWatched
  BY DEF IInv, CallInv, WatchInv, RunningIsWatched
<1>2. QED
  BY <1>1, Inductive, PTL

-----------------------------------------------------------------------------
(* The steps of HyphaCall as steps of RpcPromise. *)

(* A change of one future is the same change of the caller's view. *)
LEMMA OutcomeOf ==
  ASSUME TypeOK, NEW c \in Call, NEW f,
         future' = [future EXCEPT ![c] = f]
  PROVE  [d \in Call |-> Outcome(d)]'
           = [[d \in Call |-> Outcome(d)] EXCEPT
                ![c] = IF f \in {"timeout", "unsent"} THEN "failed" ELSE f]
  BY DEF Outcome, TypeOK

(* Settling changes nothing, or ends the wait. *)
LEMMA SettleCases ==
  ASSUME TypeOK, NEW c \in Call, NEW f, Settle(c, f)
  PROVE  \/ future' = future
         \/ future[c] = "pending" /\ future' = [future EXCEPT ![c] = f]
  BY DEF Settle, TypeOK

LEMMA CallerImplements ==
  ASSUME IInv, NEW c \in Call, CallerStep(c)
  PROVE  [Promise!Next]_(Promise!vars)
<1> USE DEF Promise!vars
<1>t. TypeOK
  BY DEF IInv
<1>i. CallInv(c)
  BY DEF IInv
<1>0. CASE future' = future /\ method' = method
  BY <1>0 DEF Outcome
<1>1. CASE RemoteMethod(c)
  <2>1. PICK f \in {"pending", "unsent"} : future' = [future EXCEPT ![c] = f]
    BY <1>1 DEF RemoteMethod
  <2>2. [d \in Call |-> Outcome(d)]'
           = [[d \in Call |-> Outcome(d)] EXCEPT
                ![c] = IF f \in {"timeout", "unsent"} THEN "failed" ELSE f]
    BY <1>t, <2>1, OutcomeOf
  <2>3. Promise!Issue(c)
    BY <1>1, <2>2 DEF RemoteMethod, Promise!Issue, Promise!Started, Started, Outcome
  <2>4. QED
    BY <2>3 DEF Promise!Next
<1>2. ASSUME NEW f \in {"timeout", "unsent"}, Settle(c, f), method' = method
      PROVE  [Promise!Next]_(Promise!vars)
  <2>1. CASE future[c] = "pending" /\ future' = [future EXCEPT ![c] = f]
    <3>1. [d \in Call |-> Outcome(d)]'
             = [[d \in Call |-> Outcome(d)] EXCEPT ![c] = "failed"]
      BY <1>t, <2>1, OutcomeOf
    <3>2. Promise!GiveUp(c)
      BY <1>2, <2>1, <3>1 DEF Promise!GiveUp, Outcome
    <3>3. QED
      BY <3>2 DEF Promise!Next
  <2>2. QED
    BY <1>t, <1>0, <1>2, <2>1, SettleCases
<1>3. ASSUME NEW f \in {"resolved", "rejected"}, Settle(c, f), method' = method,
             f = "resolved" => method[c] = "returned",
             f = "rejected" => method[c] \in {"raised", "refused"}
      PROVE  [Promise!Next]_(Promise!vars)
  <2>1. CASE future[c] = "pending" /\ future' = [future EXCEPT ![c] = f]
    <3>1. [d \in Call |-> Outcome(d)]'
             = [[d \in Call |-> Outcome(d)] EXCEPT ![c] = f]
      BY <1>t, <2>1, OutcomeOf
    <3>2. Promise!Deliver(c)
      BY <1>3, <2>1, <3>1 DEF Promise!Deliver, Outcome
    <3>3. QED
      BY <3>2 DEF Promise!Next
  <2>2. QED
    BY <1>t, <1>0, <1>3, <2>1, SettleCases
<1>4. CASE EmitFailed(c)
  BY <1>2, <1>4 DEF EmitFailed
<1>5. CASE TimerFires(c)
  BY <1>2, <1>5 DEF TimerFires
<1>6. CASE HandleResolve(c)
  BY <1>i, <1>0, <1>3, <1>6 DEF HandleResolve, HandleAnswer, CallInv, AnswerInv
<1>7. CASE HandleReject(c)
  BY <1>i, <1>0, <1>3, <1>7 DEF HandleReject, HandleAnswer, CallInv, AnswerInv
<1>8. CASE Transmit(c) \/ EmitHangs(c) \/ EmitSucceeded(c) \/ HandleHeartbeat(c)
  BY <1>0, <1>8 DEF Transmit, EmitHangs, EmitSucceeded, HandleHeartbeat
<1>9. QED
  BY <1>1, <1>4, <1>5, <1>6, <1>7, <1>8 DEF CallerStep

LEMMA CalleeImplements ==
  ASSUME IInv, NEW c \in Call, CalleeStep(c)
  PROVE  [Promise!Next]_(Promise!vars)
<1> USE DEF Promise!vars
<1>1. TypeOK /\ CallInv(c)
  BY DEF IInv
<1>2. future' = future
  BY DEF CalleeStep, Refuse, RunSync, RunAsync, MethodReturns, MethodRaises,
         SendHeartbeat, HeartbeatAnswered, HeartbeatWakes, HeartbeatFails
<1>3. [d \in Call |-> Outcome(d)]' = [d \in Call |-> Outcome(d)]
  BY <1>2 DEF Outcome
<1>4. CASE method' = method
  BY <1>3, <1>4
<1>5. CASE Refuse(c) \/ RunSync(c) \/ RunAsync(c)
  <2>1. method[c] = "idle" /\ Outcome(c) # "idle"
    BY <1>1, <1>5 DEF Refuse, RunSync, RunAsync, CallInv, RequestInv, Sent, Outcome
  <2>2. Promise!Execute(c)
    BY <1>3, <1>5, <2>1 DEF Refuse, RunSync, RunAsync, Promise!Execute
  <2>3. QED
    BY <2>2 DEF Promise!Next
<1>6. CASE MethodReturns(c) \/ MethodRaises(c)
  <2>1. Promise!Finish(c)
    BY <1>3, <1>6 DEF MethodReturns, MethodRaises, Promise!Finish
  <2>2. QED
    BY <2>1 DEF Promise!Next
<1>7. CASE HeartbeatFails(c)
  <2>1. CASE method[c] = "running"
    <3>1. Promise!Finish(c)
      BY <1>1, <1>3, <1>7, <2>1 DEF HeartbeatFails, Promise!Finish, TypeOK
    <3>2. QED
      BY <3>1 DEF Promise!Next
  <2>2. CASE method[c] # "running"
    BY <1>1, <1>4, <1>7, <2>2 DEF HeartbeatFails, TypeOK
  <2>3. QED
    BY <2>1, <2>2
<1>8. CASE SendHeartbeat(c) \/ HeartbeatAnswered(c) \/ HeartbeatWakes(c)
  BY <1>4, <1>8 DEF SendHeartbeat, HeartbeatAnswered, HeartbeatWakes
<1>9. QED
  BY <1>5, <1>6, <1>7, <1>8 DEF CalleeStep

(***************************************************************************)
(* The calls implement RpcPromise: a method runs at most once for a call,  *)
(* and its future is settled once, by what the method did or by a failure  *)
(* of the caller, whatever messages are lost or overtaken and whoever      *)
(* stops or loses the connection.                                          *)
(***************************************************************************)
THEOREM Implements == Spec => CallsKeepPromise
<1>1. Init => Promise!Init
  BY DEF Init, Promise!Init, Outcome
<1>2. IInv /\ [Next]_vars => [Promise!Next]_(Promise!vars)
  <2> SUFFICES ASSUME IInv, [Next]_vars PROVE [Promise!Next]_(Promise!vars)
    OBVIOUS
  <2>1. CASE future' = future /\ method' = method
    BY <2>1 DEF Promise!vars, Outcome
  <2>2. CASE Next
    BY <2>1, <2>2, CallerImplements, CalleeImplements DEF Next, Lose, Stop, Hang
  <2>3. QED
    BY <2>1, <2>2 DEF vars
<1>3. QED
  BY <1>1, <1>2, Inductive, PTL DEF Spec, CallsKeepPromise, Promise!Spec
=============================================================================
