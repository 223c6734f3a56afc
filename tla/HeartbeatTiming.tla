-------------------------- MODULE HeartbeatTiming --------------------------
(***************************************************************************)
(* The clock of one remote call of hypha/rpc.py.                           *)
(*                                                                         *)
(* The caller gives up after _method_timeout seconds without a heartbeat;  *)
(* it tells the callee to send one every _method_timeout / 2 seconds.  A   *)
(* heartbeat is itself a call that times out, after the callee's own       *)
(* _method_timeout, and then the callee cancels the method.  So a slow     *)
(* network can make the caller give up on a method that runs, or the       *)
(* callee cancel a method somebody waits for.  A method that is not        *)
(* asynchronous holds the event loop of the callee, heartbeats included,   *)
(* for as long as it runs.                                                 *)
(*                                                                         *)
(* Time is a count of ticks.  A message takes at most Delay ticks, handled *)
(* included; none is lost here, and nothing but the method of this call    *)
(* holds the callee's loop.  The caller may stop at any time.              *)
(***************************************************************************)
EXTENDS Integers

CONSTANTS
  Half,           \* half of the caller's _method_timeout
  CalleeTimeout,  \* the callee's _method_timeout
  Delay           \* the longest time a message takes

ASSUME TimingAssumption ==
  /\ Half \in Nat /\ CalleeTimeout \in Nat /\ Delay \in Nat
  /\ 2 * Delay < Half
  /\ 2 * Delay < CalleeTimeout

Timeout == 2 * Half

(* How long a method may run on for a caller that stopped. *)
OrphanTime == Delay + Half + CalleeTimeout

VARIABLES
  emitTask,   \* the task that sends the request
  outcome,    \* the caller's future
  armed,      \* is the watchdog sleeping?
  timer,      \* ticks before it fires, when armed
  run,        \* the method at the callee
  hold,       \* ticks for which it held the loop, counted up to Timeout
  heartbeat,  \* the heartbeat task at the callee
  wait,       \* ticks before its sleep is over, or its call times out
  left,       \* by kind of message, ticks before it must have arrived
  up,         \* has the caller not stopped?
  gone        \* ticks since it stopped

vars == <<emitTask, outcome, armed, timer, run, hold, heartbeat, wait, left, up, gone>>

Kind == {"request", "heartbeat", "beat", "answer"}
Absent == -1

TypeOK ==
  /\ emitTask \in {"sending", "sent", "done"}
  /\ outcome \in {"pending", "answered", "timeout"}
  /\ armed \in BOOLEAN
  /\ timer \in 0..Timeout
  /\ run \in {"idle", "running", "holding", "done", "cancelled"}
  /\ hold \in 0..Timeout
  /\ heartbeat \in {"off", "ready", "calling", "sleeping"}
  /\ wait \in 0..(Half + CalleeTimeout)
  /\ left \in [Kind -> Absent..Delay]
  /\ up \in BOOLEAN
  /\ gone \in 0..(OrphanTime + 1)

Init ==
  /\ emitTask = "sending"
  /\ outcome = "pending"
  /\ armed = FALSE
  /\ timer = 0
  /\ run = "idle"
  /\ hold = 0
  /\ heartbeat = "off"
  /\ wait = 0
  /\ left = [k \in Kind |-> Absent]
  /\ up = TRUE
  /\ gone = 0

UnderWay(k) == left[k] # Absent

-----------------------------------------------------------------------------
Transmit ==
  /\ up
  /\ emitTask = "sending"
  /\ emitTask' = "sent"
  /\ left' = [left EXCEPT !["request"] = Delay]
  /\ UNCHANGED <<outcome, armed, timer, run, hold, heartbeat, wait, up, gone>>

(* Mutant: the timer is armed with twice the timeout. *)
EmitSucceededTwice ==
  /\ up
  /\ emitTask = "sent"
  /\ emitTask' = "done"
  /\ armed' = TRUE
  /\ timer' = 2 * Timeout
  /\ UNCHANGED <<outcome, run, hold, heartbeat, wait, left, up, gone>>

(* Timer.start, once the request was sent. *)
EmitSucceeded ==
  /\ up
  /\ emitTask = "sent"
  /\ emitTask' = "done"
  /\ armed' = TRUE
  /\ timer' = Timeout
  /\ UNCHANGED <<outcome, run, hold, heartbeat, wait, left, up, gone>>

TimerFires ==
  /\ up /\ armed /\ timer = 0
  /\ armed' = FALSE
  /\ outcome' = IF outcome = "pending" THEN "timeout" ELSE outcome
  /\ UNCHANGED <<emitTask, timer, run, hold, heartbeat, wait, left, up, gone>>

(* Mutant: the timer is reset, the heartbeat not answered. *)
HandleHeartbeatMute ==
  /\ UnderWay("heartbeat")
  /\ left' = [left EXCEPT !["heartbeat"] = Absent]
  /\ \/ /\ up /\ outcome # "answered"
        /\ armed' = TRUE
        /\ timer' = Timeout
     \/ /\ ~up \/ outcome = "answered"
        /\ UNCHANGED <<armed, timer>>
  /\ UNCHANGED <<emitTask, outcome, run, hold, heartbeat, wait, up, gone>>

(***************************************************************************)
(* Timer.reset.  The session is there as long as the call was not          *)
(* answered; without it nothing can be sent back.                          *)
(***************************************************************************)
HandleHeartbeat ==
  /\ UnderWay("heartbeat")
  /\ \/ /\ up /\ outcome # "answered"
        /\ armed' = TRUE
        /\ timer' = Timeout
        /\ left' = [left EXCEPT !["heartbeat"] = Absent, !["beat"] = Delay]
     \/ /\ ~up \/ outcome = "answered"
        /\ left' = [left EXCEPT !["heartbeat"] = Absent]
        /\ UNCHANGED <<armed, timer>>
  /\ UNCHANGED <<emitTask, outcome, run, hold, heartbeat, wait, up, gone>>

HandleAnswer ==
  /\ UnderWay("answer")
  /\ left' = [left EXCEPT !["answer"] = Absent]
  /\ \/ /\ up
        /\ outcome' = IF outcome = "pending" THEN "answered" ELSE outcome
        /\ armed' = FALSE
     \/ ~up /\ UNCHANGED <<outcome, armed>>
  /\ UNCHANGED <<emitTask, timer, run, hold, heartbeat, wait, up, gone>>

-----------------------------------------------------------------------------
(***************************************************************************)
(* An asynchronous method becomes a task, any other one is called within   *)
(* _call_method, and a call that is refused is answered at once.  The      *)
(* heartbeat task is cancelled in the last two cases before it ran.        *)
(***************************************************************************)
HandleMethod ==
  /\ UnderWay("request")
  /\ \/ /\ run' = "running"
        /\ heartbeat' = "ready"
        /\ left' = [left EXCEPT !["request"] = Absent]
     \/ /\ run' = "holding"
        /\ left' = [left EXCEPT !["request"] = Absent]
        /\ UNCHANGED heartbeat
     \/ /\ run' = "done"
        /\ left' = [left EXCEPT !["request"] = Absent, !["answer"] = Delay]
        /\ UNCHANGED heartbeat
  /\ UNCHANGED <<emitTask, outcome, armed, timer, hold, wait, up, gone>>

(* A method that held the loop returns or raises. *)
InlineEnds ==
  /\ run = "holding"
  /\ run' = "done"
  /\ left' = [left EXCEPT !["answer"] = Delay]
  /\ UNCHANGED <<emitTask, outcome, armed, timer, hold, heartbeat, wait, up, gone>>

(* _wait; the heartbeat is cancelled only when the method did not raise. *)
MethodEnds ==
  /\ run = "running"
  /\ run' = "done"
  /\ heartbeat' \in {heartbeat, "off"}
  /\ left' = [left EXCEPT !["answer"] = Delay]
  /\ UNCHANGED <<emitTask, outcome, armed, timer, hold, wait, up, gone>>

SendHeartbeat ==
  /\ heartbeat = "ready"
  /\ heartbeat' = "calling"
  /\ wait' = CalleeTimeout
  /\ left' = [left EXCEPT !["heartbeat"] = Delay]
  /\ UNCHANGED <<emitTask, outcome, armed, timer, run, hold, up, gone>>

(* Mutant: the interval is the caller's whole timeout. *)
HeartbeatAnsweredRarely ==
  /\ UnderWay("beat")
  /\ left' = [left EXCEPT !["beat"] = Absent]
  /\ \/ /\ heartbeat = "calling" /\ run = "running"
        /\ heartbeat' = "sleeping"
        /\ wait' = Timeout
     \/ /\ ~(heartbeat = "calling" /\ run = "running")
        /\ heartbeat' = "off"
        /\ UNCHANGED wait
  /\ UNCHANGED <<emitTask, outcome, armed, timer, run, hold, up, gone>>

(* The interval the promise came with is half of the caller's timeout. *)
HeartbeatAnswered ==
  /\ UnderWay("beat")
  /\ left' = [left EXCEPT !["beat"] = Absent]
  /\ \/ /\ heartbeat = "calling" /\ run = "running"
        /\ heartbeat' = "sleeping"
        /\ wait' = Half
     \/ /\ ~(heartbeat = "calling" /\ run = "running")
        /\ heartbeat' = "off"
        /\ UNCHANGED wait
  /\ UNCHANGED <<emitTask, outcome, armed, timer, run, hold, up, gone>>

HeartbeatWakes ==
  /\ heartbeat = "sleeping" /\ wait = 0
  /\ heartbeat' = "ready"
  /\ UNCHANGED <<emitTask, outcome, armed, timer, run, hold, wait, left, up, gone>>
(* Mutant: a heartbeat that timed out is sent again. *)
HeartbeatTimesOutAgain ==
  /\ heartbeat = "calling" /\ wait = 0
  /\ heartbeat' = "ready"
  /\ UNCHANGED <<emitTask, outcome, armed, timer, run, hold, wait, left, up, gone>>

HeartbeatTimesOut ==
  /\ heartbeat = "calling" /\ wait = 0
  /\ heartbeat' = "off"
  /\ run' = IF run = "running" THEN "cancelled" ELSE run
  /\ UNCHANGED <<emitTask, outcome, armed, timer, hold, wait, left, up, gone>>

-----------------------------------------------------------------------------
Stop ==
  /\ up
  /\ up' = FALSE
  /\ UNCHANGED <<emitTask, outcome, armed, timer, run, hold, heartbeat, wait, left, gone>>

(***************************************************************************)
(* Time passes only when nothing is due: no message is at the end of its   *)
(* delay, no sleep is over, and a task that is ready has run.  The count   *)
(* of gone ends past OrphanTime.                                           *)
(***************************************************************************)
Tick ==
  /\ \A k \in Kind : left[k] # 0
  /\ up /\ armed => timer > 0
  /\ heartbeat # "ready"
  /\ heartbeat \in {"calling", "sleeping"} => wait > 0
  /\ gone <= OrphanTime
  /\ left' = [k \in Kind |-> IF UnderWay(k) THEN left[k] - 1 ELSE Absent]
  /\ timer' = IF up /\ armed THEN timer - 1 ELSE timer
  /\ wait' = IF heartbeat \in {"calling", "sleeping"} THEN wait - 1 ELSE wait
  /\ gone' = IF up THEN gone ELSE gone + 1
  /\ hold' = IF run = "holding" /\ hold < Timeout THEN hold + 1 ELSE hold
  /\ UNCHANGED <<emitTask, outcome, armed, run, heartbeat, up>>

Next ==
  \/ Transmit \/ EmitSucceeded \/ TimerFires \/ HandleHeartbeat \/ HandleAnswer
  \/ HandleMethod \/ InlineEnds \/ MethodEnds
  \/ SendHeartbeat \/ HeartbeatAnswered \/ HeartbeatWakes \/ HeartbeatTimesOut
  \/ Stop \/ Tick

Spec == Init /\ [][Next]_vars

-----------------------------------------------------------------------------
(***************************************************************************)
(* A caller does not give up on an asynchronous method that is at work,    *)
(* however long it runs and whenever it ends: with messages that take less *)
(* than a quarter of the timeout, the next heartbeat or the answer always  *)
(* comes before the timer fires.  The only call that times out is that of  *)
(* a method that held the callee's loop, and this for almost the whole     *)
(* timeout: less by no more than the trips of the request and the answer.  *)
(***************************************************************************)
NoSpuriousTimeout == outcome = "timeout" => hold >= Timeout - 2 * Delay

(***************************************************************************)
(* A callee does not cancel a method whose caller is there: a heartbeat is *)
(* answered before the callee's own timeout.                               *)
(***************************************************************************)
NoSpuriousCancel == up => run # "cancelled"

(***************************************************************************)
(* An asynchronous method that never ends by itself is cancelled within    *)
(* OrphanTime of the moment its caller stopped.                            *)
(***************************************************************************)
OrphanTimeBound == run = "running" => gone <= OrphanTime
=============================================================================
