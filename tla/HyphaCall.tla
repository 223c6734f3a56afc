------------------------------ MODULE HyphaCall ------------------------------
(***************************************************************************)
(* Remote method calls of the hypha RPC, python/imjoy_rpc/hypha/rpc.py.    *)
(*                                                                         *)
(* A call that wants an answer goes through these steps.  The caller opens *)
(* a session in its object store, encodes the arguments and a promise      *)
(* (resolve, reject, heartbeat) into it and starts a task that sends the   *)
(* request (pfunc).  When the task is done its callback arms a watchdog    *)
(* timer, or rejects the future (handle_result).  The callee runs the      *)
(* method (_handle_method); while an asynchronous method runs, a heartbeat *)
(* task calls back the caller's timer.reset.  The answer is a call of the  *)
(* promise's resolve or reject, which settles the future, closes the       *)
(* session and stops the timer (wrapped_callback).                         *)
(*                                                                         *)
(* A callback found in the arguments is called the same way, in the other  *)
(* direction, with the session of the outer call as its parent: the peer   *)
(* that runs the callback keeps everything it needs to answer (the promise *)
(* functions' own sessions) under the parent session, so that closing the  *)
(* parent session cuts the callback off.                                   *)
(*                                                                         *)
(* The network may lose and reorder messages; a peer may stop for good, or *)
(* lose its connection and hang in open(), with its event loop running on: *)
(* see WsConnection.                                                       *)
(***************************************************************************)
CONSTANTS
  Peer,       \* RPC objects
  Call,       \* remote method calls
  NoCall,     \* the parent of a call that is not a callback
  Parent,     \* the call whose arguments held the function being called
  Caller,     \* the peer that makes the call
  Callee,     \* the peer that runs the method
  Interface,  \* calls with an _rintf argument, whose session is kept
  Mortal,     \* peers that may stop
  Hanging     \* peers whose connection may break for good

ASSUME CallAssumption ==
  /\ NoCall \notin Call
  /\ Parent \in [Call -> Call \cup {NoCall}]
  /\ Caller \in [Call -> Peer]
  /\ Callee \in [Call -> Peer]
  /\ Interface \subseteq Call
  /\ Mortal \subseteq Peer
  /\ Hanging \subseteq Peer
  /\ \A c \in Call : Parent[c] # NoCall =>
        Caller[c] = Callee[Parent[c]] /\ Callee[c] = Caller[Parent[c]]

VARIABLES
  emitTask,   \* the task that sends the request
  future,     \* the FuturePromise the caller awaits
  session,    \* calls with a session in their caller's object store
  timer,      \* the watchdog of the call
  method,     \* the run of the method at the callee
  heartbeat,  \* the callee's heartbeat task for the call
  net,        \* messages under way
  up,         \* peers that have not stopped
  hung        \* peers whose open() never returns

vars == <<emitTask, future, session, timer, method, heartbeat, net, up, hung>>

Message ==
  [type : {"method", "heartbeat", "beat", "resolve", "reject"}, call : Call]

Msg(t, c) == [type |-> t, call |-> c]

TypeOK ==
  /\ emitTask \in [Call -> {"idle", "sending", "sent", "done", "failed", "stuck"}]
  /\ future \in [Call -> {"idle", "pending", "resolved", "rejected", "timeout", "unsent"}]
  /\ session \subseteq Call
  /\ timer \in [Call -> {"none", "sleeping", "fired"}]
  /\ method \in [Call -> {"idle", "refused", "running", "returned", "raised", "cancelled"}]
  /\ heartbeat \in [Call -> {"off", "ready", "calling", "sleeping", "stuck"}]
  /\ net \subseteq Message
  /\ up \subseteq Peer
  /\ hung \subseteq Peer

Init ==
  /\ emitTask = [c \in Call |-> "idle"]
  /\ future = [c \in Call |-> "idle"]
  /\ session = {}
  /\ timer = [c \in Call |-> "none"]
  /\ method = [c \in Call |-> "idle"]
  /\ heartbeat = [c \in Call |-> "off"]
  /\ net = {}
  /\ up = Peer
  /\ hung = {}

(* The peer gets messages, and what it sends leaves it. *)
Online(p) == p \in up \ hung

Settled(c) == future[c] \notin {"idle", "pending"}

(* The method got its arguments, and with them the callbacks they hold. *)
Started(c) == method[c] \in {"running", "returned", "raised", "cancelled"}

(***************************************************************************)
(* The callee can call the promise functions of c only while the parent    *)
(* session of c is in its own store: it puts their sessions under it.      *)
(***************************************************************************)
ParentOpen(c) == Parent[c] # NoCall => Parent[c] \in session

(* Mutant: a future that is done can be set again. *)
SettleAgain(c, outcome) == future' = [future EXCEPT ![c] = outcome]

(* set_result and set_exception leave a future that is done as it is. *)
Settle(c, outcome) ==
  future' = [future EXCEPT ![c] = IF @ = "pending" THEN outcome ELSE @]

-----------------------------------------------------------------------------
(* The caller.                                                             *)

(***************************************************************************)
(* remote_method(...): open the session, encode, start the sending task.   *)
(* When the arguments cannot be encoded, FuturePromise catches the error   *)
(* and rejects, after the session was opened.                              *)
(***************************************************************************)
RemoteMethod(c) ==
  /\ Caller[c] \in up
  /\ future[c] = "idle"
  /\ Parent[c] # NoCall => Started(Parent[c])
  /\ session' = session \cup {c}
  /\ \/ /\ future' = [future EXCEPT ![c] = "pending"]
        /\ emitTask' = [emitTask EXCEPT ![c] = "sending"]
     \/ /\ future' = [future EXCEPT ![c] = "unsent"]
        /\ UNCHANGED emitTask
  /\ UNCHANGED <<timer, method, heartbeat, net, up, hung>>

(***************************************************************************)
(* The request leaves the caller.  The sending task is not done yet: the   *)
(* write waits for the transport to drain, and a request sent in chunks    *)
(* waits for the answer of message_cache.process, which the callee gives   *)
(* after it ran the method.                                                *)
(***************************************************************************)
Transmit(c) ==
  /\ Online(Caller[c])
  /\ emitTask[c] = "sending"
  /\ emitTask' = [emitTask EXCEPT ![c] = "sent"]
  /\ net' = net \cup {Msg("method", c)}
  /\ UNCHANGED <<future, session, timer, method, heartbeat, up, hung>>

(* emit_message awaits open(), which never returns: no handle_result. *)
EmitHangs(c) ==
  /\ Caller[c] \in up \cap hung
  /\ emitTask[c] = "sending"
  /\ emitTask' = [emitTask EXCEPT ![c] = "stuck"]
  /\ UNCHANGED <<future, session, timer, method, heartbeat, net, up, hung>>

(* Mutant: handle_result overlooks that the task raised. *)
EmitFailedUnnoticed(c) ==
  /\ Caller[c] \in up
  /\ emitTask[c] \in {"sending", "sent"}
  /\ emitTask' = [emitTask EXCEPT ![c] = "failed"]
  /\ UNCHANGED <<future, session, timer, method, heartbeat, net, up, hung>>

(* handle_result when the task raised, before or after the request left. *)
EmitFailed(c) ==
  /\ Caller[c] \in up
  /\ emitTask[c] \in {"sending", "sent"}
  /\ emitTask' = [emitTask EXCEPT ![c] = "failed"]
  /\ Settle(c, "unsent")
  /\ UNCHANGED <<session, timer, method, heartbeat, net, up, hung>>

(* Mutant: handle_result leaves it to the first heartbeat to arm the timer. *)
EmitSucceededUntimed(c) ==
  /\ Caller[c] \in up
  /\ emitTask[c] = "sent"
  /\ emitTask' = [emitTask EXCEPT ![c] = "done"]
  /\ UNCHANGED <<future, session, timer, method, heartbeat, net, up, hung>>

(* handle_result when the task succeeded: Timer.start arms or re-arms. *)
EmitSucceeded(c) ==
  /\ Caller[c] \in up
  /\ emitTask[c] = "sent"
  /\ emitTask' = [emitTask EXCEPT ![c] = "done"]
  /\ timer' = [timer EXCEPT ![c] = "sleeping"]
  /\ UNCHANGED <<future, session, method, heartbeat, net, up, hung>>

(* Mutant: the timer calls the wrapped reject, which closes the session. *)
TimerFiresClosing(c) ==
  /\ Caller[c] \in up
  /\ timer[c] = "sleeping"
  /\ timer' = [timer EXCEPT ![c] = "fired"]
  /\ session' = session \ {c}
  /\ Settle(c, "timeout")
  /\ UNCHANGED <<emitTask, method, heartbeat, net, up, hung>>

(* Timer._job: the timer calls the bare reject, the session stays. *)
TimerFires(c) ==
  /\ Caller[c] \in up
  /\ timer[c] = "sleeping"
  /\ timer' = [timer EXCEPT ![c] = "fired"]
  /\ Settle(c, "timeout")
  /\ UNCHANGED <<emitTask, session, method, heartbeat, net, up, hung>>

(***************************************************************************)
(* The caller handles a heartbeat.  Timer.reset starts a timer that is not *)
(* running, and one that has fired.  When the session is gone the method   *)
(* is not found, and the error cannot be sent: the functions of the        *)
(* heartbeat's own promise need the very same session.                     *)
(***************************************************************************)
HandleHeartbeat(c) ==
  /\ Online(Caller[c])
  /\ Msg("heartbeat", c) \in net
  /\ \/ /\ c \in session
        /\ timer' = [timer EXCEPT ![c] = "sleeping"]
        /\ net' = (net \ {Msg("heartbeat", c)}) \cup {Msg("beat", c)}
     \/ /\ c \notin session
        /\ net' = net \ {Msg("heartbeat", c)}
        /\ UNCHANGED timer
  /\ UNCHANGED <<emitTask, future, session, method, heartbeat, up, hung>>

(***************************************************************************)
(* The caller handles an answer: wrapped_callback settles the future,      *)
(* deletes the session unless it is to be kept, and clears the timer.      *)
(***************************************************************************)
HandleAnswer(c, answer, outcome) ==
  /\ Online(Caller[c])
  /\ Msg(answer, c) \in net
  /\ net' = net \ {Msg(answer, c)}
  /\ \/ /\ c \in session
        /\ Settle(c, outcome)
        /\ session' = IF c \in Interface THEN session ELSE session \ {c}
        /\ timer' = [timer EXCEPT ![c] = "none"]
     \/ /\ c \notin session
        /\ UNCHANGED <<future, session, timer>>
  /\ UNCHANGED <<emitTask, method, heartbeat, up, hung>>

(* Mutant: what the callee reports is taken for the state of the future. *)
HandleResolveRaw(c) == HandleAnswer(c, "resolve", method[c])

HandleResolve(c) == HandleAnswer(c, "resolve", "resolved")
HandleReject(c) == HandleAnswer(c, "reject", "rejected")

-----------------------------------------------------------------------------
(* The callee.                                                             *)

(***************************************************************************)
(* Calling resolve or reject sends nothing once the parent session closed, *)
(* or when the sending task hangs in open().                               *)
(***************************************************************************)
Answer(t, c) ==
  IF ParentOpen(c) /\ Callee[c] \notin hung THEN {Msg(t, c)} ELSE {}

(* The answer to a value returned; one that cannot be encoded is dropped. *)
ReturnValue(c) == {Answer("resolve", c), {}}

(***************************************************************************)
(* _handle_method raises before the method runs: it is not found, access   *)
(* is denied, the arguments do not decode, or the parent session of a      *)
(* callback was closed.  The heartbeat task is cancelled before it ran.    *)
(***************************************************************************)
Refuse(c) ==
  /\ Online(Callee[c])
  /\ Msg("method", c) \in net
  /\ method' = [method EXCEPT ![c] = "refused"]
  /\ net' = (net \ {Msg("method", c)}) \cup Answer("reject", c)
  /\ UNCHANGED <<emitTask, future, session, timer, heartbeat, up, hung>>

(***************************************************************************)
(* A synchronous method holds the event loop of the callee until it has    *)
(* answered; its heartbeat task never runs.  How long it takes is a matter *)
(* of HeartbeatTiming.                                                     *)
(***************************************************************************)
RunSync(c) ==
  /\ Online(Callee[c])
  /\ Msg("method", c) \in net
  /\ ParentOpen(c)
  /\ \/ /\ method' = [method EXCEPT ![c] = "returned"]
        /\ \E out \in ReturnValue(c) : net' = (net \ {Msg("method", c)}) \cup out
     \/ /\ method' = [method EXCEPT ![c] = "raised"]
        /\ net' = (net \ {Msg("method", c)}) \cup Answer("reject", c)
  /\ UNCHANGED <<emitTask, future, session, timer, heartbeat, up, hung>>

(* An awaitable result becomes a task, and the heartbeat task goes on. *)
RunAsync(c) ==
  /\ Online(Callee[c])
  /\ Msg("method", c) \in net
  /\ ParentOpen(c)
  /\ method' = [method EXCEPT ![c] = "running"]
  /\ heartbeat' = [heartbeat EXCEPT ![c] = "ready"]
  /\ net' = net \ {Msg("method", c)}
  /\ UNCHANGED <<emitTask, future, session, timer, up, hung>>

(* _wait: the method returned; the heartbeat is cancelled, then resolve. *)
MethodReturns(c) ==
  /\ Callee[c] \in up
  /\ method[c] = "running"
  /\ method' = [method EXCEPT ![c] = "returned"]
  /\ heartbeat' = [heartbeat EXCEPT ![c] = "off"]
  /\ \E out \in ReturnValue(c) : net' = net \cup out
  /\ UNCHANGED <<emitTask, future, session, timer, up, hung>>

(* _wait: the method raised; reject, and the heartbeat is left alone. *)
MethodRaises(c) ==
  /\ Callee[c] \in up
  /\ method[c] = "running"
  /\ method' = [method EXCEPT ![c] = "raised"]
  /\ net' = net \cup Answer("reject", c)
  /\ UNCHANGED <<emitTask, future, session, timer, heartbeat, up, hung>>

(***************************************************************************)
(* heartbeat(interval): call the caller's timer.reset and await it.  When  *)
(* that call hangs in open() it has no timer, and the loop awaits it for   *)
(* ever.                                                                   *)
(***************************************************************************)
SendHeartbeat(c) ==
  /\ Callee[c] \in up
  /\ heartbeat[c] = "ready"
  /\ ParentOpen(c)
  /\ \/ /\ Callee[c] \notin hung
        /\ heartbeat' = [heartbeat EXCEPT ![c] = "calling"]
        /\ net' = net \cup {Msg("heartbeat", c)}
     \/ /\ Callee[c] \in hung
        /\ heartbeat' = [heartbeat EXCEPT ![c] = "stuck"]
        /\ UNCHANGED net
  /\ UNCHANGED <<emitTask, future, session, timer, method, up, hung>>

(* Mutant: the loop does not look whether the method is done. *)
HeartbeatAnsweredForever(c) ==
  /\ Online(Callee[c])
  /\ Msg("beat", c) \in net
  /\ net' = net \ {Msg("beat", c)}
  /\ heartbeat' = [heartbeat EXCEPT
        ![c] = IF @ = "calling" /\ ParentOpen(c) THEN "sleeping" ELSE @]
  /\ UNCHANGED <<emitTask, future, session, timer, method, up, hung>>

(***************************************************************************)
(* The heartbeat call was answered.  Its session is below the parent       *)
(* session of c, so the answer is lost when that one was closed.           *)
(***************************************************************************)
HeartbeatAnswered(c) ==
  /\ Online(Callee[c])
  /\ Msg("beat", c) \in net
  /\ net' = net \ {Msg("beat", c)}
  /\ \/ /\ heartbeat[c] = "calling" /\ ParentOpen(c)
        /\ heartbeat' = [heartbeat EXCEPT
              ![c] = IF method[c] = "running" THEN "sleeping" ELSE "off"]
     \/ /\ ~(heartbeat[c] = "calling" /\ ParentOpen(c))
        /\ UNCHANGED heartbeat
  /\ UNCHANGED <<emitTask, future, session, timer, method, up, hung>>

(* asyncio.sleep(interval) is over. *)
HeartbeatWakes(c) ==
  /\ Callee[c] \in up
  /\ heartbeat[c] = "sleeping"
  /\ heartbeat' = [heartbeat EXCEPT ![c] = "ready"]
  /\ UNCHANGED <<emitTask, future, session, timer, method, net, up, hung>>

(* Mutant: a failed heartbeat ends the loop and nothing else. *)
HeartbeatFailsAlone(c) ==
  /\ Callee[c] \in up
  /\ heartbeat[c] = "calling" \/ (heartbeat[c] = "ready" /\ ~ParentOpen(c))
  /\ heartbeat' = [heartbeat EXCEPT ![c] = "off"]
  /\ UNCHANGED <<emitTask, future, session, timer, method, net, up, hung>>

(***************************************************************************)
(* The heartbeat call failed: it timed out, it could not be sent, or its   *)
(* session could not be opened.  The method is cancelled unless it is      *)
(* done, and a cancelled method answers nothing.                           *)
(***************************************************************************)
HeartbeatFails(c) ==
  /\ Callee[c] \in up
  /\ heartbeat[c] = "calling" \/ (heartbeat[c] = "ready" /\ ~ParentOpen(c))
  /\ heartbeat' = [heartbeat EXCEPT ![c] = "off"]
  /\ method' = [method EXCEPT ![c] = IF @ = "running" THEN "cancelled" ELSE @]
  /\ UNCHANGED <<emitTask, future, session, timer, net, up, hung>>

-----------------------------------------------------------------------------
(* The environment.                                                        *)

Receiver(m) ==
  IF m.type \in {"method", "beat"} THEN Callee[m.call] ELSE Caller[m.call]

(* What is on its way to a peer that is not there is lost with it. *)
Unreachable(p) == {m \in net : Receiver(m) = p}

Lose(m) ==
  /\ Online(Receiver(m))
  /\ net' = net \ {m}
  /\ UNCHANGED <<emitTask, future, session, timer, method, heartbeat, up, hung>>

Stop(p) ==
  /\ p \in up
  /\ up' = up \ {p}
  /\ net' = net \ Unreachable(p)
  /\ UNCHANGED <<emitTask, future, session, timer, method, heartbeat, hung>>

(***************************************************************************)
(* The connection of a peer breaks and the attempt to open another one     *)
(* fails: _opening is awaited by everybody who sends, and never completed. *)
(***************************************************************************)
Hang(p) ==
  /\ Online(p)
  /\ hung' = hung \cup {p}
  /\ net' = net \ Unreachable(p)
  /\ UNCHANGED <<emitTask, future, session, timer, method, heartbeat, up>>

CallerStep(c) ==
  \/ RemoteMethod(c) \/ Transmit(c) \/ EmitHangs(c) \/ EmitFailed(c) \/ EmitSucceeded(c)
  \/ TimerFires(c) \/ HandleHeartbeat(c)
  \/ HandleResolve(c) \/ HandleReject(c)

CalleeStep(c) ==
  \/ Refuse(c) \/ RunSync(c) \/ RunAsync(c)
  \/ MethodReturns(c) \/ MethodRaises(c)
  \/ SendHeartbeat(c) \/ HeartbeatAnswered(c)
  \/ HeartbeatWakes(c) \/ HeartbeatFails(c)

Next ==
  \/ \E c \in Call : CallerStep(c) \/ CalleeStep(c)
  \/ \E m \in net : Lose(m)
  \/ \E p \in Mortal : Stop(p)
  \/ \E p \in Hanging : Hang(p)

Spec == Init /\ [][Next]_vars

-----------------------------------------------------------------------------
(* Fairness.                                                               *)

(***************************************************************************)
(* The callee still resets the timer of c: while it does, asyncio.sleep of *)
(* the timer need not ever be over.                                        *)
(***************************************************************************)
Beating(c) ==
  /\ Online(Caller[c])
  /\ \/ heartbeat[c] \notin {"off", "stuck"} /\ Callee[c] \in up
     \/ Msg("heartbeat", c) \in net

(***************************************************************************)
(* The event loops run what is ready: tasks that send, handlers of         *)
(* messages that are not lost, sleeps.  A heartbeat call that was sent and *)
(* is never answered times out.  A sending task of a peer that hangs need  *)
(* not end: it fails, as a write to a broken connection does, or is stuck. *)
(***************************************************************************)
Fairness ==
  \A c \in Call :
    /\ WF_vars(Transmit(c) \/ EmitHangs(c) \/ EmitSucceeded(c) \/ EmitFailed(c))
    /\ WF_vars(~Beating(c) /\ TimerFires(c))
    /\ WF_vars(HandleHeartbeat(c) \/ HandleResolve(c) \/ HandleReject(c))
    /\ WF_vars(Refuse(c) \/ RunSync(c) \/ RunAsync(c))
    /\ WF_vars(\/ SendHeartbeat(c) \/ HeartbeatAnswered(c)
               \/ HeartbeatWakes(c) \/ HeartbeatFails(c))

FairSpec == Spec /\ Fairness

-----------------------------------------------------------------------------
(* Properties.                                                             *)

(***************************************************************************)
(* A call whose request was sent is pending only under a running timer:    *)
(* no order of the answer, the heartbeats and handle_result leaves the     *)
(* caller to wait with nothing to wake it.                                 *)
(***************************************************************************)
PendingIsTimed ==
  \A c \in Call :
    emitTask[c] = "done" /\ future[c] = "pending" => timer[c] = "sleeping"

(***************************************************************************)
(* The session that holds resolve, reject and the callbacks of a call      *)
(* outlives the wait for its answer and the run of its method: nothing     *)
(* closes it under a call that could still be answered.                    *)
(***************************************************************************)
SessionDuringCall ==
  \A c \in Call :
    future[c] = "pending" \/ method[c] = "running" => c \in session

(***************************************************************************)
(* A call that was answered keeps its session only if an argument was an   *)
(* interface: wrapped_callback removes the others.                         *)
(***************************************************************************)
AnswerClosesSession ==
  \A c \in Call :
    c \in session /\ future[c] \in {"resolved", "rejected"} => c \in Interface

(***************************************************************************)
(* An asynchronous method never runs without its heartbeat task, the only  *)
(* thing that cancels it when the caller is gone, be that task stuck.      *)
(***************************************************************************)
RunningIsWatched ==
  \A c \in Call : method[c] = "running" => heartbeat[c] # "off"

(* The method of the call runs on: nothing makes it end by itself.         *)
Runs(c) == method[c] = "running" /\ Callee[c] \in up

(***************************************************************************)
(* No call is pending for ever: its answer, its timer or the failure to    *)
(* send it settles it, unless the caller itself stops, the method runs on, *)
(* or the request never gets out of emit_message, whose open()             *)
(* (websocket_client.py:113) does not return after an attempt that failed: *)
(* then no handle_result starts the timer.  It is settled after a method   *)
(* that ended, was cancelled or went down with its peer, whatever the      *)
(* network lost, and when either connection breaks after the request left. *)
(***************************************************************************)
Settles ==
  \A c \in Call :
    []<>(future[c] # "pending" \/ Runs(c)
           \/ Caller[c] \notin up \/ emitTask[c] = "stuck")

(***************************************************************************)
(* No heartbeat task is there for ever once its method is done, also when  *)
(* the method raised and _wait did not cancel it, unless a heartbeat is    *)
(* stuck in the callee's own open().                                       *)
(***************************************************************************)
HeartbeatEnds ==
  \A c \in Call :
    []<>(heartbeat[c] \in {"off", "stuck"} \/ method[c] = "running"
           \/ Callee[c] \notin up)

(* The method runs for nobody: its caller stopped, or it is a callback     *)
(* whose outer call was answered.                                          *)
Orphan(c) == method[c] = "running" /\ (Caller[c] \notin up \/ ~ParentOpen(c))

(***************************************************************************)
(* A method does not run for nobody for ever: the heartbeat fails and the  *)
(* method is cancelled if it does not end by itself, unless the heartbeat  *)
(* is stuck in the callee's own open().                                    *)
(***************************************************************************)
OrphanStops ==
  \A c \in Call :
    []<>(~Orphan(c) \/ Callee[c] \notin up \/ heartbeat[c] = "stuck")

-----------------------------------------------------------------------------
(* Refinement.                                                             *)

Outcome(c) ==
  IF future[c] \in {"timeout", "unsent"} THEN "failed" ELSE future[c]

Promise == INSTANCE RpcPromise
             WITH outcome <- [c \in Call |-> Outcome(c)], run <- method

(***************************************************************************)
(* The calls keep the promise of RpcPromise: a method runs at most once    *)
(* for a call, and a future is settled once, by what the method did or by  *)
(* a failure of the caller's own, whatever the network loses or reorders.  *)
(***************************************************************************)
CallsKeepPromise == Promise!Spec
=============================================================================
