------------------------ MODULE SyncExecutor_proof -------------------------
(***************************************************************************)
(* Proofs about SyncExecutor: for any servers, calls and workers, queues   *)
(* and functions agree, and a thread gets what its function did.  The only *)
(* deadlocks are of workers that wait for one another and of a loop that   *)
(* waits for itself.                                                       *)
(***************************************************************************)
EXTENDS SyncExecutor, WellFoundedInduction, TLAPS

(* A call has a task if and only if its function was submitted. *)
SubmittedByTask == \A c \in Call : task[c] = "none" <=> function[c] = "none"

(* A task and a thread that ended did so as the function did. *)
EndsAgree ==
  \A c \in Call :
    /\ task[c] \in {"returned", "raised"} => function[c] = task[c]
    /\ thread[c] \in {"returned", "raised"} => task[c] = thread[c]

(* The inductive invariant. *)
IInv == TypeOK /\ QueuedOnce /\ SubmittedByTask /\ EndsAgree

-----------------------------------------------------------------------------
(***************************************************************************)
(* Submitting adds the call to the queue of one server, where it was not.  *)
(***************************************************************************)
LEMMA SubmitQueues ==
  ASSUME IInv, NEW c \in Call, Submit(c)
  PROVE  QueuedOnce'
<1>1. function[c] = "none"
  BY DEF IInv, SubmittedByTask, Submit
<1>2. SUFFICES ASSUME NEW s \in Server
               PROVE  /\ Queued(s)' = {d \in Call : Callee[d] = s /\ function'[d] = "queued"}
                      /\ \A i, j \in 1..Len(queue'[s]) : queue'[s][i] = queue'[s][j] => i = j
  BY DEF QueuedOnce
<1>3. queue[s] \in Seq(Call) /\ queue \in [Server -> Seq(Call)]
  BY DEF IInv, TypeOK
<1>4. /\ Queued(s) = {d \in Call : Callee[d] = s /\ function[d] = "queued"}
      /\ \A i, j \in 1..Len(queue[s]) : queue[s][i] = queue[s][j] => i = j
  BY DEF IInv, QueuedOnce
<1>5. \A d \in Call : function'[d] = IF d = c THEN "queued" ELSE function[d]
  BY DEF Submit, IInv, TypeOK
<1>6. CASE Callee[c] # s
  <2>1. queue'[s] = queue[s]
    BY <1>3, <1>6 DEF Submit
  <2> QED
    BY <2>1, <1>4, <1>5, <1>6 DEF Queued
<1>7. CASE Callee[c] = s
  <2>1. queue'[s] = Append(queue[s], c)
    BY <1>3, <1>7 DEF Submit
  <2>2. c \notin Queued(s)
    BY <1>1, <1>4
  <2>3. /\ Len(queue'[s]) = Len(queue[s]) + 1
        /\ Len(queue[s]) \in Nat
        /\ queue'[s][Len(queue[s]) + 1] = c
        /\ \A i \in 1..Len(queue[s]) : queue'[s][i] = queue[s][i]
    BY <2>1, <1>3
  <2>4. Queued(s)' = Queued(s) \cup {c}
    BY <2>3 DEF Queued
  <2>5. Queued(s)' = {d \in Call : Callee[d] = s /\ function'[d] = "queued"}
    BY <2>4, <1>4, <1>5, <1>7
  <2>6. \A i \in 1..Len(queue[s]) : queue[s][i] # c
    BY <2>2 DEF Queued
  <2>7. \A i, j \in 1..Len(queue'[s]) : queue'[s][i] = queue'[s][j] => i = j
    <3> SUFFICES ASSUME NEW i \in 1..Len(queue'[s]), NEW j \in 1..Len(queue'[s]),
                        queue'[s][i] = queue'[s][j]
                 PROVE  i = j
      OBVIOUS
    <3> DEFINE n == Len(queue[s])
    <3>1. CASE i \in 1..n /\ j \in 1..n
      BY <3>1, <2>3, <1>4
    <3>2. CASE i = n + 1 /\ j \in 1..n
      BY <3>2, <2>3, <2>6
    <3>3. CASE i \in 1..n /\ j = n + 1
      BY <3>3, <2>3, <2>6
    <3> QED
      BY <3>1, <3>2, <3>3, <2>3
  <2> QED
    BY <2>5, <2>7
<1> QED
  BY <1>6, <1>7

(***************************************************************************)
(* Starting the first function of a queue takes it, and it only, away.     *)
(***************************************************************************)
LEMMA StartDequeues ==
  ASSUME IInv, NEW t \in Server, StartWork(t)
  PROVE  QueuedOnce' /\ Head(queue[t]) \in Call /\ function[Head(queue[t])] = "queued"
<1> DEFINE h == Head(queue[t])
<1>1. queue[t] \in Seq(Call) /\ queue \in [Server -> Seq(Call)] /\ queue[t] # <<>>
  BY DEF IInv, TypeOK, StartWork
<1>2. Len(queue[t]) \in Nat \ {0} /\ h = queue[t][1] /\ h \in Call
  BY <1>1
<1>3. h \in Queued(t)
  BY <1>2 DEF Queued
<1>4. function[h] = "queued" /\ Callee[h] = t
  BY <1>3 DEF IInv, QueuedOnce
<1>5. ASSUME NEW s \in Server
      PROVE  /\ Queued(s)' = {d \in Call : Callee[d] = s /\ function'[d] = "queued"}
             /\ \A i, j \in 1..Len(queue'[s]) : queue'[s][i] = queue'[s][j] => i = j
  <2>1. /\ Queued(s) = {d \in Call : Callee[d] = s /\ function[d] = "queued"}
        /\ \A i, j \in 1..Len(queue[s]) : queue[s][i] = queue[s][j] => i = j
    BY DEF IInv, QueuedOnce
  <2>2. \A d \in Call : function'[d] = IF d = h THEN "running" ELSE function[d]
    BY <1>2 DEF StartWork, IInv, TypeOK
  <2>3. CASE s # t
    <3>1. queue'[s] = queue[s]
      BY <1>1, <2>3 DEF StartWork
    <3> QED
      BY <3>1, <2>1, <2>2, <2>3, <1>2, <1>4 DEF Queued
  <2>4. CASE s = t
    <3>1. queue'[t] = Tail(queue[t])
      BY <1>1 DEF StartWork
    <3>2. /\ Len(queue'[t]) = Len(queue[t]) - 1
          /\ \A i \in 1..Len(queue'[t]) : queue'[t][i] = queue[t][i + 1]
      BY <3>1, <1>1, <1>2
    <3>3. Queued(t)' = Queued(t) \ {h}
      <4>1. ASSUME NEW x \in Queued(t)'
            PROVE  x \in Queued(t) \ {h}
        <5>1. PICK i \in 1..Len(queue'[t]) : x = queue'[t][i]
          BY DEF Queued
        <5>2. i + 1 \in 1..Len(queue[t]) /\ x = queue[t][i + 1] /\ i + 1 # 1
          BY <5>1, <3>2, <1>2
        <5>3. x # h
          BY <5>2, <1>2, <2>1, <2>4
        <5> QED
          BY <5>2, <5>3 DEF Queued
      <4>2. ASSUME NEW x \in Queued(t) \ {h}
            PROVE  x \in Queued(t)'
        <5>1. PICK i \in 1..Len(queue[t]) : x = queue[t][i]
          BY DEF Queued
        <5>2. i # 1
          BY <5>1, <4>2, <1>2
        <5>3. i - 1 \in 1..Len(queue'[t]) /\ queue'[t][i - 1] = x
          BY <5>1, <5>2, <3>2, <1>2
        <5> QED
          BY <5>3 DEF Queued
      <4> QED
        BY <4>1, <4>2
    <3>4. Queued(s)' = {d \in Call : Callee[d] = s /\ function'[d] = "queued"}
      BY <3>3, <2>1, <2>2, <2>4, <1>2, <1>4
    <3>5. \A i, j \in 1..Len(queue'[t]) : queue'[t][i] = queue'[t][j] => i = j
      <4> SUFFICES ASSUME NEW i \in 1..Len(queue'[t]), NEW j \in 1..Len(queue'[t]),
                          queue'[t][i] = queue'[t][j]
                   PROVE  i = j
        OBVIOUS
      <4>1. i + 1 \in 1..Len(queue[t]) /\ j + 1 \in 1..Len(queue[t])
        BY <3>2, <1>2
      <4>2. queue[t][i + 1] = queue[t][j + 1]
        BY <3>2
      <4>3. i + 1 = j + 1
        BY <4>1, <4>2, <2>1, <2>4
      <4> QED
        BY <4>3
    <3> QED
      BY <3>4, <3>5, <2>4
  <2> QED
    BY <2>3, <2>4
<1> QED
  BY <1>2, <1>4, <1>5 DEF QueuedOnce

(***************************************************************************)
(* Actions that leave the queues alone and queue or start no function.     *)
(***************************************************************************)
LEMMA QueueFrame ==
  ASSUME QueuedOnce, UNCHANGED queue,
         \A c \in Call : function'[c] = "queued" <=> function[c] = "queued"
  PROVE  QueuedOnce'
BY DEF QueuedOnce, Queued

LEMMA TypeInit ==
  ASSUME Init
  PROVE  IInv
<1>1. TypeOK
  BY DEF Init, TypeOK
<1>2. QueuedOnce
  <2> SUFFICES ASSUME NEW s \in Server
               PROVE  /\ Queued(s) = {c \in Call : Callee[c] = s /\ function[c] = "queued"}
                      /\ \A i, j \in 1..Len(queue[s]) : queue[s][i] = queue[s][j] => i = j
    BY DEF QueuedOnce
  <2>1. Len(queue[s]) = 0
    BY DEF Init
  <2>2. Queued(s) = {}
    BY <2>1 DEF Queued
  <2> QED
    BY <2>1, <2>2 DEF Init
<1>3. SubmittedByTask /\ EndsAgree
  BY DEF Init, SubmittedByTask, EndsAgree
<1> QED
  BY <1>1, <1>2, <1>3 DEF IInv

(* Every step keeps the inductive invariant. *)
LEMMA Step ==
  ASSUME IInv, [Next]_vars
  PROVE  IInv'
<1>1. ASSUME NEW c \in Call, CallSync(c)
      PROVE  IInv'
  <2>1. TypeOK'
    BY <1>1 DEF IInv, TypeOK, CallSync
  <2>2. QueuedOnce'
    BY <1>1, QueueFrame DEF IInv, CallSync
  <2>3. SubmittedByTask' /\ EndsAgree'
    BY <1>1 DEF IInv, TypeOK, CallSync, SubmittedByTask, EndsAgree
  <2> QED
    BY <2>1, <2>2, <2>3 DEF IInv
<1>2. ASSUME NEW c \in Call, Submit(c)
      PROVE  IInv'
  <2>1. TypeOK'
    <3> DEFINE s == Callee[c]
    <3>1. s \in Server
      BY ExecutorAssumption DEF ExecutorAssumption
    <3>2. queue \in [Server -> Seq(Call)] /\ Append(queue[s], c) \in Seq(Call)
      BY <3>1 DEF IInv, TypeOK
    <3>3. queue' = [queue EXCEPT ![s] = Append(queue[s], c)]
      BY <1>2 DEF Submit
    <3>4. queue' \in [Server -> Seq(Call)]
      <4> HIDE DEF s
      <4> QED
        BY <3>1, <3>2, <3>3
    <3>5. /\ task' \in [Call -> {"none", "awaiting", "returned", "raised", "cancelled"}]
          /\ function' \in [Call -> {"none", "queued", "running", "returned", "raised"}]
          /\ thread' \in [Call -> {"idle", "blocked", "returned", "raised", "timeout", "gone"}]
          /\ held' \in SUBSET Server
      BY <1>2 DEF IInv, TypeOK, Submit
    <3> QED
      BY <3>4, <3>5 DEF TypeOK
  <2>2. QueuedOnce'
    BY <1>2, SubmitQueues
  <2>3. SubmittedByTask' /\ EndsAgree'
    BY <1>2 DEF IInv, TypeOK, Submit, SubmittedByTask, EndsAgree
  <2> QED
    BY <2>1, <2>2, <2>3 DEF IInv
<1>8. ASSUME NEW c \in Call, HoldLoop(c)
      PROVE  IInv'
  <2>1. TypeOK'
    BY <1>8, ExecutorAssumption DEF IInv, TypeOK, HoldLoop, ExecutorAssumption
  <2>2. QueuedOnce' /\ SubmittedByTask' /\ EndsAgree'
    BY <1>8, QueueFrame DEF IInv, HoldLoop, SubmittedByTask, EndsAgree
  <2> QED
    BY <2>1, <2>2 DEF IInv
<1>3. ASSUME NEW s \in Server, StartWork(s)
      PROVE  IInv'
  <2>1. QueuedOnce' /\ Head(queue[s]) \in Call /\ function[Head(queue[s])] = "queued"
    BY <1>3, StartDequeues
  <2>2. Tail(queue[s]) \in Seq(Call)
    BY <1>3 DEF IInv, TypeOK, StartWork
  <2>3. TypeOK'
    <3>1. queue' \in [Server -> Seq(Call)]
      BY <1>3, <2>2 DEF IInv, TypeOK, StartWork
    <3>2. function' \in [Call -> {"none", "queued", "running", "returned", "raised"}]
      BY <1>3, <2>1 DEF IInv, TypeOK, StartWork
    <3> QED
      BY <1>3, <3>1, <3>2 DEF IInv, TypeOK, StartWork
  <2>4. SubmittedByTask' /\ EndsAgree'
    BY <1>3, <2>1 DEF IInv, TypeOK, StartWork, SubmittedByTask, EndsAgree
  <2> QED
    BY <2>1, <2>3, <2>4 DEF IInv
<1>4. ASSUME NEW c \in Call, FunctionEnds(c)
      PROVE  IInv'
  <2>1. TypeOK'
    BY <1>4 DEF IInv, TypeOK, FunctionEnds
  <2>2. \A d \in Call : function'[d] = "queued" <=> function[d] = "queued"
    BY <1>4 DEF IInv, TypeOK, FunctionEnds
  <2>3. QueuedOnce'
    BY <1>4, <2>2, QueueFrame DEF IInv, FunctionEnds
  <2>4. SubmittedByTask' /\ EndsAgree'
    BY <1>4 DEF IInv, TypeOK, FunctionEnds, SubmittedByTask, EndsAgree
  <2> QED
    BY <2>1, <2>3, <2>4 DEF IInv
<1>5. ASSUME NEW c \in Call, SetResult(c) \/ HeartbeatFails(c)
      PROVE  IInv'
  <2>1. TypeOK'
    BY <1>5 DEF IInv, TypeOK, SetResult, HeartbeatFails
  <2>2. QueuedOnce'
    BY <1>5, QueueFrame DEF IInv, SetResult, HeartbeatFails
  <2>3. SubmittedByTask' /\ EndsAgree'
    BY <1>5 DEF IInv, TypeOK, SetResult, HeartbeatFails, SubmittedByTask, EndsAgree
  <2> QED
    BY <2>1, <2>2, <2>3 DEF IInv
<1>6. ASSUME NEW c \in Call, ResultReturns(c) \/ ClientStops(c) \/ CallTimesOut(c)
      PROVE  IInv'
  <2>1. TypeOK'
    BY <1>6 DEF IInv, TypeOK, ResultReturns, ClientStops, CallTimesOut
  <2>2. QueuedOnce'
    BY <1>6, QueueFrame DEF IInv, ResultReturns, ClientStops, CallTimesOut
  <2>3. SubmittedByTask' /\ EndsAgree'
    BY <1>6 DEF IInv, TypeOK, ResultReturns, ClientStops, CallTimesOut, SubmittedByTask, EndsAgree
  <2> QED
    BY <2>1, <2>2, <2>3 DEF IInv
<1>7. CASE UNCHANGED vars
  BY <1>7 DEF IInv, TypeOK, vars, QueuedOnce, Queued, SubmittedByTask, EndsAgree
<1> QED
  BY <1>1, <1>2, <1>3, <1>4, <1>5, <1>6, <1>7, <1>8 DEF Next, LoopStep

-----------------------------------------------------------------------------
THEOREM Inductive == Spec => []IInv
<1>1. Init => IInv
  BY TypeInit
<1>2. IInv /\ [Next]_vars => IInv'
  BY Step
<1> QED
  BY <1>1, <1>2, PTL DEF Spec

(***************************************************************************)
(* The queues of the executors and the functions' states agree: no         *)
(* function is queued twice, or lost, or run twice for its call.           *)
(***************************************************************************)
THEOREM QueuesAgree == Spec => []QueuedOnce
<1>1. IInv => QueuedOnce
  BY DEF IInv
<1> QED
  BY <1>1, Inductive, PTL

(***************************************************************************)
(* A thread gets what the function of its own call did, whichever workers  *)
(* and loops took part and whatever was cancelled meanwhile.               *)
(***************************************************************************)
THEOREM ResultsAreFunctions == Spec => ResultIsFunctions
<1> DEFINE Right(c) == /\ thread'[c] \in {"returned", "raised"} => function[c] = thread'[c]
                       /\ task[c] = "cancelled" => task'[c] = "cancelled"
<1>1. IInv /\ [Next]_vars => [\A c \in Call : Right(c)]_vars
  <2> SUFFICES ASSUME IInv, Next, NEW c \in Call
               PROVE  Right(c)
    OBVIOUS
  <2> USE DEF IInv, TypeOK, EndsAgree, SubmittedByTask
  <2>1. ASSUME NEW d \in Call, \/ CallSync(d) \/ FunctionEnds(d) \/ ClientStops(d)
                            \/ HoldLoop(d) \/ CallTimesOut(d)
        PROVE  Right(c)
    BY <2>1 DEF CallSync, FunctionEnds, ClientStops, HoldLoop, CallTimesOut
  <2>2. ASSUME NEW d \in Call, Submit(d) \/ SetResult(d) \/ HeartbeatFails(d)
        PROVE  Right(c)
    BY <2>2 DEF Submit, SetResult, HeartbeatFails
  <2>3. ASSUME NEW d \in Call, ResultReturns(d)
        PROVE  Right(c)
    BY <2>3 DEF ResultReturns
  <2>4. ASSUME NEW s \in Server, StartWork(s)
        PROVE  Right(c)
    BY <2>4 DEF StartWork
  <2> QED
    BY <2>1, <2>2, <2>3, <2>4 DEF Next, LoopStep
<1>2. Spec => [][\A c \in Call : Right(c)]_vars
  BY <1>1, Inductive, PTL DEF Spec
<1> QED
  BY <1>2 DEF ResultIsFunctions

(* The state is well typed for any servers, calls and number of workers.  *)
THEOREM TypeCorrect == Spec => []TypeOK
<1>1. IInv => TypeOK
  BY DEF IInv
<1> QED
  BY <1>1, Inductive, PTL

-----------------------------------------------------------------------------
(* Functions do not call one another for ever.                             *)
MadeBy == {p \in Call \X Call : Parent[p[1]] = p[2]}
CallsEnd == IsWellFoundedOn(MadeBy, Call)

(* The guards of LoopStep, FunctionEnds and StartWork.                     *)
LoopCanStep(c) ==
  \/ CalleeRuns(c) /\ thread[c] # "idle" /\ task[c] = "none"
  \/ CalleeRuns(c) /\ function[c] \in {"returned", "raised"} /\ task[c] = "awaiting"
  \/ CallerRuns(c) /\ thread[c] = "blocked" /\ task[c] \in {"returned", "raised"}
  \/ CallerRuns(c) /\ ~CalleeRuns(c) /\ thread[c] = "blocked"

CanEnd(c) == function[c] = "running" /\ ~Blocked(c)

CanStart(s) == queue[s] # <<>> /\ WorkerIsFree(s)

(***************************************************************************)
(* Whoever waits for a call waits for a call that this one made, or for a  *)
(* step that can be taken: one of the call itself, or at its server, where *)
(* it is queued, a worker that starts or a function that ends.  Otherwise  *)
(* the workers of that server are all blocked, or the caller's loop is.    *)
(***************************************************************************)
WaitIsFor(c) ==
  \/ Blocked(c)
  \/ LoopCanStep(c) \/ CanEnd(c)
  \/ CanStart(Callee[c]) \/ \E d \in Busy(Callee[c]) : CanEnd(d)
  \/ Starved(Callee[c])
  \/ ~CallerRuns(c)

WaitsAreFor == \A c \in Call : thread[c] = "blocked" => WaitIsFor(c)

(* A thread waits and no step can be taken: workers or a loop are why.     *)
OnlyDeadlocks ==
  (\E c \in Call : thread[c] = "blocked") =>
    \/ \E c \in Call : LoopCanStep(c) \/ CanEnd(c)
    \/ \E s \in Server : CanStart(s) \/ Starved(s)
    \/ \E c \in Call : thread[c] = "blocked" /\ ~CallerRuns(c)

(* Only the calls whose caller stopped, or is held, are cancelled.         *)
CancelledIsGone ==
  \A c \in Call : task[c] = "cancelled" => thread[c] = "gone" \/ ~CallerRuns(c)

LEMMA CancelledStaysGone ==
  ASSUME IInv, CancelledIsGone, [Next]_vars
  PROVE  CancelledIsGone'
<1> USE DEF CancelledIsGone, CallerRuns, IInv, TypeOK, SubmittedByTask, EndsAgree
<1>1. ASSUME NEW c \in Call, CallSync(c) \/ ResultReturns(c) \/ ClientStops(c) \/ CallTimesOut(c)
      PROVE  CancelledIsGone'
  BY <1>1 DEF CallSync, ResultReturns, ClientStops, CallTimesOut
<1>2. ASSUME NEW c \in Call, Submit(c) \/ SetResult(c) \/ HeartbeatFails(c)
      PROVE  CancelledIsGone'
  BY <1>2 DEF Submit, SetResult, HeartbeatFails
<1>3. ASSUME NEW c \in Call, FunctionEnds(c) \/ HoldLoop(c)
      PROVE  CancelledIsGone'
  BY <1>3 DEF FunctionEnds, HoldLoop
<1>4. ASSUME NEW s \in Server, StartWork(s)
      PROVE  CancelledIsGone'
  BY <1>4 DEF StartWork
<1>5. CASE UNCHANGED vars
  BY <1>5 DEF vars
<1> QED
  BY <1>1, <1>2, <1>3, <1>4, <1>5 DEF Next, LoopStep

(* A call that waits is in one of the states that WaitIsFor names.         *)
LEMMA WaitsExplained ==
  ASSUME IInv, CancelledIsGone
  PROVE  WaitsAreFor
<1> SUFFICES ASSUME NEW c \in Call, thread[c] = "blocked", ~Blocked(c),
                    CallerRuns(c), CalleeRuns(c)
             PROVE  WaitIsFor(c)
  BY DEF WaitsAreFor, WaitIsFor, LoopCanStep
<1>1. task[c] \in {"none", "awaiting", "returned", "raised"}
  BY DEF IInv, TypeOK, CancelledIsGone
<1>2. CASE task[c] # "awaiting"
  BY <1>1, <1>2 DEF LoopCanStep, WaitIsFor
<1>3. CASE task[c] = "awaiting"
  <2>1. function[c] \in {"queued", "running", "returned", "raised"}
    BY <1>3 DEF IInv, TypeOK, SubmittedByTask
  <2>2. CASE function[c] \in {"returned", "raised"}
    BY <1>3, <2>2 DEF LoopCanStep, WaitIsFor
  <2>3. CASE function[c] = "running"
    BY <2>3 DEF CanEnd, WaitIsFor
  <2>4. CASE function[c] = "queued"
    <3> DEFINE s == Callee[c]
    <3>1. s \in Server
      BY ExecutorAssumption DEF ExecutorAssumption
    <3>2. c \in Queued(s)
      BY <2>4, <3>1 DEF IInv, QueuedOnce
    <3>3. queue[s] # <<>>
      BY <3>2 DEF Queued
    <3>4. CanStart(s) \/ Starved(s) \/ \E d \in Busy(s) : CanEnd(d)
      BY <3>3 DEF CanStart, Starved, Busy, CanEnd
    <3> QED
      BY <3>4 DEF WaitIsFor
  <2> QED
    BY <2>1, <2>2, <2>3, <2>4
<1> QED
  BY <1>2, <1>3

(* Of the calls that wait one has a function that waits for none of them.  *)
LEMMA InnermostGoesOn ==
  ASSUME WaitsAreFor, CallsEnd
  PROVE  OnlyDeadlocks
<1> DEFINE W == {c \in Call : thread[c] = "blocked"}
<1> SUFFICES ASSUME W # {}
             PROVE  \/ \E c \in Call : LoopCanStep(c) \/ CanEnd(c)
                    \/ \E s \in Server : CanStart(s) \/ Starved(s)
                    \/ \E c \in Call : thread[c] = "blocked" /\ ~CallerRuns(c)
  BY DEF OnlyDeadlocks
<1>1. PICK c \in W : \A d \in W : <<d, c>> \notin MadeBy
  <2>1. W \subseteq Call
    OBVIOUS
  <2> HIDE DEF W
  <2> QED
    BY <2>1, WFMin DEF CallsEnd
<1>2. c \in Call /\ thread[c] = "blocked" /\ ~Blocked(c)
  BY <1>1 DEF Blocked, MadeBy
<1>3. Callee[c] \in Server
  BY <1>2, ExecutorAssumption DEF ExecutorAssumption
<1>4. Busy(Callee[c]) \subseteq Call
  BY DEF Busy
<1> QED
  BY <1>2, <1>3, <1>4 DEF WaitsAreFor, WaitIsFor

(* Both in every reachable state.                                          *)
LEMMA WaitsInductive == Spec => []WaitsAreFor
<1>1. Init => CancelledIsGone
  BY DEF Init, CancelledIsGone
<1>2. IInv /\ CancelledIsGone /\ [Next]_vars => CancelledIsGone'
  BY CancelledStaysGone
<1>3. IInv /\ CancelledIsGone => WaitsAreFor
  BY WaitsExplained
<1> QED
  BY <1>1, <1>2, <1>3, Inductive, PTL DEF Spec

(***************************************************************************)
(* "we need at least 2 workers to avoid deadlock" (sync.py:100), which is  *)
(* not enough: what deadlocks there are, for any number of workers.  When  *)
(* a thread waits and no step is left but new calls, then either a call is *)
(* queued at a server all of whose workers run functions that wait for     *)
(* calls themselves, or the thread's own loop runs a function that was     *)
(* returned.  Nothing else leaves a thread waiting.                        *)
(***************************************************************************)
THEOREM NoOtherDeadlock ==
  ASSUME CallsEnd
  PROVE  Spec => []OnlyDeadlocks
<1>1. WaitsAreFor => OnlyDeadlocks
  BY InnermostGoesOn
<1> QED
  BY <1>1, WaitsInductive, PTL
=============================================================================
