------------------------ MODULE HeartbeatTiming_proof ------------------------
(***************************************************************************)
(* The timing properties of HeartbeatTiming, for every timeout and delay   *)
(* that meet TimingAssumption.                                             *)
(***************************************************************************)
EXTENDS HeartbeatTiming, TLAPS

(* What is under way fits the state of the method and of its heartbeat. *)
FlowInv ==
  /\ emitTask = "sending" =>
        run = "idle" /\ ~armed /\ ~UnderWay("request") /\ outcome = "pending"
  /\ emitTask # "sending" => (UnderWay("request") <=> run = "idle")
  /\ run = "idle" =>
        /\ heartbeat = "off"
        /\ ~UnderWay("heartbeat") /\ ~UnderWay("beat") /\ ~UnderWay("answer")
  /\ run = "holding" => heartbeat = "off" /\ ~UnderWay("heartbeat") /\ ~UnderWay("beat")
  /\ UnderWay("answer") => run = "done"
  /\ outcome = "answered" => run = "done"
  /\ outcome = "pending" /\ up /\ run = "done" => UnderWay("answer")
  /\ heartbeat \in {"ready", "sleeping"} => ~UnderWay("heartbeat") /\ ~UnderWay("beat")
  /\ ~(UnderWay("heartbeat") /\ UnderWay("beat"))
  /\ heartbeat = "sleeping" => wait <= Half
  /\ heartbeat = "calling" => wait <= CalleeTimeout
  /\ run = "running" => heartbeat # "off"
  /\ up => gone = 0

(* A heartbeat that is being answered is answered before it times out. *)
CancelInv ==
  up /\ run = "running" /\ heartbeat = "calling" =>
    \/ UnderWay("heartbeat") /\ wait > left["heartbeat"] + Delay
    \/ UnderWay("beat") /\ wait > left["beat"]

(* The armed timer is later than the next heartbeat or the answer, if the  *)
(* method did not hold the loop for what it would be late.                 *)
TimerInv ==
  up /\ armed /\ outcome = "pending" =>
    /\ run = "idle" => timer >= left["request"] + Timeout - Delay
    /\ run = "holding" => timer + hold >= Timeout - Delay
    /\ run = "running" =>
         /\ heartbeat = "ready" => timer > Delay
         /\ heartbeat = "calling" /\ UnderWay("heartbeat") => timer > left["heartbeat"]
         /\ heartbeat = "calling" /\ UnderWay("beat") => timer > left["beat"] + Half + Delay
         /\ heartbeat = "sleeping" => timer > wait + Delay
    /\ run = "done" =>
         \/ timer > left["answer"]
         \/ timer + hold >= left["answer"] + Timeout - 2 * Delay
         \/ UnderWay("heartbeat") /\ timer > left["heartbeat"]

(* What is left to run of the time an orphan has. *)
OrphanInv ==
  ~up =>
    /\ UnderWay("request") => gone + left["request"] <= Delay
    /\ run = "running" =>
         /\ heartbeat = "ready" => gone <= Delay + Half
         /\ heartbeat = "sleeping" => gone + wait <= Delay + Half
         /\ heartbeat = "calling" =>
              IF UnderWay("beat") THEN gone + left["beat"] <= Delay
                                  ELSE gone + wait <= OrphanTime

TInv ==
  /\ TypeOK /\ FlowInv /\ CancelInv /\ TimerInv /\ OrphanInv
  /\ NoSpuriousTimeout /\ NoSpuriousCancel

-----------------------------------------------------------------------------
(* Every step keeps the types. *)
LEMMA TypeStep == TypeOK /\ FlowInv /\ [Next]_vars => TypeOK'
<1> SUFFICES ASSUME TypeOK, FlowInv, [Next]_vars PROVE TypeOK'
  OBVIOUS
<1> USE TimingAssumption DEF TypeOK, Timeout, OrphanTime, Kind, Absent, UnderWay
<1>1. CASE Transmit
  BY <1>1 DEF Transmit
<1>2. CASE EmitSucceeded
  BY <1>2 DEF EmitSucceeded
<1>3. CASE TimerFires
  BY <1>3 DEF TimerFires
<1>4. CASE HandleHeartbeat
  <2>1. left' \in [Kind -> Absent..Delay]
    BY <1>4 DEF HandleHeartbeat
  <2>2. timer' \in 0..Timeout
    BY <1>4 DEF HandleHeartbeat
  <2>3. armed' \in BOOLEAN
    BY <1>4, Zenon DEF HandleHeartbeat
  <2>4. QED
    BY <1>4, <2>1, <2>2, <2>3 DEF HandleHeartbeat
<1>5. CASE HandleAnswer
  <2>1. left' \in [Kind -> Absent..Delay]
    BY <1>5 DEF HandleAnswer
  <2>2. armed' \in BOOLEAN /\ outcome' \in {"pending", "answered", "timeout"}
    BY <1>5 DEF HandleAnswer
  <2>3. QED
    BY <1>5, <2>1, <2>2 DEF HandleAnswer
<1>6. CASE HandleMethod
  BY <1>6 DEF HandleMethod
<1>7. CASE MethodEnds
  BY <1>7 DEF MethodEnds
<1>8. CASE SendHeartbeat
  BY <1>8 DEF SendHeartbeat
<1>16. CASE InlineEnds
  BY <1>16 DEF InlineEnds
<1>9. CASE HeartbeatAnswered
  BY <1>9 DEF HeartbeatAnswered
<1>10. CASE HeartbeatWakes
  BY <1>10 DEF HeartbeatWakes
<1>11. CASE HeartbeatTimesOut
  BY <1>11 DEF HeartbeatTimesOut
<1>12. CASE Stop
  BY <1>12 DEF Stop
<1>13. CASE Tick
  BY <1>13 DEF Tick, FlowInv
<1>14. CASE UNCHANGED vars
  BY <1>14 DEF vars
<1>15. QED
  BY <1>1, <1>2, <1>3, <1>4, <1>5, <1>6, <1>7, <1>8, <1>9, <1>10, <1>11, <1>12,
     <1>13, <1>14, <1>16 DEF Next

(* Every step keeps the rest of the invariant. *)
LEMMA TimingStep == TInv /\ [Next]_vars => TInv'
<1> SUFFICES ASSUME TInv, [Next]_vars PROVE TInv'
  OBVIOUS
<1>t. TypeOK /\ TypeOK'
  BY TypeStep DEF TInv
<1> USE TimingAssumption, <1>t
    DEF TInv, TypeOK, FlowInv, CancelInv, TimerInv, OrphanInv, NoSpuriousTimeout,
        NoSpuriousCancel, Timeout, OrphanTime, Kind, Absent, UnderWay
<1>1. CASE Transmit
  BY <1>1 DEF Transmit
<1>2. CASE EmitSucceeded
  BY <1>2 DEF EmitSucceeded
<1>3. CASE TimerFires
  BY <1>3 DEF TimerFires
<1>4. CASE HandleHeartbeat
  <2>1. CASE up /\ outcome # "answered"
    <3>1. FlowInv'
      BY <1>4, <2>1 DEF HandleHeartbeat
    <3>2. CancelInv'
      BY <1>4, <2>1 DEF HandleHeartbeat
    <3>3. TimerInv'
      BY <1>4, <2>1 DEF HandleHeartbeat
    <3>4. OrphanInv' /\ NoSpuriousTimeout' /\ NoSpuriousCancel'
      BY <1>4, <2>1 DEF HandleHeartbeat
    <3>5. QED
      BY <3>1, <3>2, <3>3, <3>4
  <2>2. CASE ~up \/ outcome = "answered"
    BY <1>4, <2>2 DEF HandleHeartbeat
  <2>3. QED
    BY <2>1, <2>2
<1>5. CASE HandleAnswer
  BY <1>5 DEF HandleAnswer
<1>6. CASE HandleMethod
  BY <1>6 DEF HandleMethod
<1>7. CASE MethodEnds
  BY <1>7 DEF MethodEnds
<1>8. CASE SendHeartbeat
  BY <1>8 DEF SendHeartbeat
<1>16. CASE InlineEnds
  BY <1>16 DEF InlineEnds
<1>9. CASE HeartbeatAnswered
  <2>1. CASE heartbeat = "calling" /\ run = "running"
    BY <1>9, <2>1 DEF HeartbeatAnswered
  <2>2. CASE ~(heartbeat = "calling" /\ run = "running")
    BY <1>9, <2>2 DEF HeartbeatAnswered
  <2>3. QED
    BY <2>1, <2>2
<1>10. CASE HeartbeatWakes
  BY <1>10 DEF HeartbeatWakes
<1>11. CASE HeartbeatTimesOut
  BY <1>11 DEF HeartbeatTimesOut
<1>12. CASE Stop
  BY <1>12 DEF Stop
<1>13. CASE Tick
  BY <1>13 DEF Tick
<1>14. CASE UNCHANGED vars
  BY <1>14 DEF vars
<1>15. QED
  BY <1>1, <1>2, <1>3, <1>4, <1>5, <1>6, <1>7, <1>8, <1>9, <1>10, <1>11, <1>12,
     <1>13, <1>14, <1>16 DEF Next

-----------------------------------------------------------------------------
(* The invariant holds in every reachable state. *)
THEOREM TimingInductive == Spec => []TInv
<1>1. Init => TInv
  <2> SUFFICES ASSUME Init PROVE TInv
    OBVIOUS
  <2> USE TimingAssumption DEF Init
  <2>1. TypeOK
    <3>1. timer \in 0..Timeout /\ hold \in 0..Timeout /\ wait \in 0..(Half + CalleeTimeout)
          /\ gone \in 0..(OrphanTime + 1)
      BY DEF Timeout, OrphanTime
    <3>2. left \in [Kind -> Absent..Delay]
      BY DEF Absent
    <3>3. armed \in BOOLEAN /\ up \in BOOLEAN
      BY Zenon
    <3>4. QED
      BY <3>1, <3>2, <3>3 DEF TypeOK
  <2>2. FlowInv
    BY DEF FlowInv, UnderWay, Kind, Absent
  <2>3. CancelInv /\ TimerInv /\ OrphanInv /\ NoSpuriousTimeout /\ NoSpuriousCancel
    BY DEF CancelInv, TimerInv, OrphanInv, NoSpuriousTimeout, NoSpuriousCancel
  <2>4. QED
    BY <2>1, <2>2, <2>3 DEF TInv
<1>2. QED
  BY <1>1, TimingStep, PTL DEF Spec

(***************************************************************************)
(* The caller's timer fires only on a callee whose method held its loop    *)
(* for the timeout less two messages: for an asynchronous method whose     *)
(* messages take less than a quarter of the timeout a period of half the   *)
(* timeout is short enough, for every timeout.                             *)
(***************************************************************************)
THEOREM NeverSpuriousTimeout == Spec => []NoSpuriousTimeout
<1>1. TInv => NoSpuriousTimeout
  BY DEF TInv
<1>2. QED
  BY <1>1, TimingInductive, PTL

(* The callee never cancels a method whose caller is still there. *)
THEOREM NeverSpuriousCancel == Spec => []NoSpuriousCancel
<1>1. TInv => NoSpuriousCancel
  BY DEF TInv
<1>2. QED
  BY <1>1, TimingInductive, PTL

(***************************************************************************)
(* A method outlives its caller by no more than one message, one interval  *)
(* and the callee's own timeout.                                           *)
(***************************************************************************)
THEOREM OrphanTimeBounded == Spec => []OrphanTimeBound
<1>1. TInv => OrphanTimeBound
  BY TimingAssumption
     DEF TInv, TypeOK, FlowInv, OrphanInv, OrphanTimeBound, OrphanTime, Kind, Absent, UnderWay
<1>2. QED
  BY <1>1, TimingInductive, PTL

(* Clocks, timers and messages stay within their bounds for all timeouts. *)
THEOREM TypeCorrect == Spec => []TypeOK
<1>1. TInv => TypeOK
  BY DEF TInv
<1> QED
  BY <1>1, TimingInductive, PTL
=============================================================================
