---------------------------- MODULE SyncExecutor ----------------------------
(***************************************************************************)
(* The synchronous wrapper of the hypha client, hypha/sync.py.             *)
(*                                                                         *)
(* Every SyncHyphaServer has an event loop in a thread of its own and an   *)
(* executor with a few worker threads.  A registered synchronous function  *)
(* is made asynchronous (convert_sync_to_async): the loop submits it to    *)
(* the executor and awaits a future that the worker has the loop set.  A   *)
(* remote function is made synchronous (convert_async_to_sync): it blocks  *)
(* the thread that calls it, be it a worker, until the answer has come.    *)
(* So a chain of calls that comes back to a server needs another worker    *)
(* there, while its first one is blocked.                                  *)
(*                                                                         *)
(* Functions in what a registered function returns are made synchronous    *)
(* like remote ones.  When such a function is called its server's loop     *)
(* runs it itself: it waits for a coroutine on that same loop, for ever.   *)
(*                                                                         *)
(* A loop that runs sends heartbeats for the functions that run or wait    *)
(* to, so a call times out only when the callee's loop is held.  When the  *)
(* caller's is held, or a client outside stopped, the heartbeat fails and  *)
(* the task of the call is cancelled.                                      *)
(***************************************************************************)
EXTENDS Naturals, Sequences, FiniteSets

CONSTANTS
  Server,   \* SyncHyphaServers
  Call,     \* calls of synchronous functions
  NoCall,   \* the parent of a call from outside
  Parent,   \* the call whose function makes the call
  Callee,   \* the server whose function is called
  From,     \* for calls of returned functions, the call that returned it
  Workers   \* sync_max_workers

ASSUME ExecutorAssumption ==
  /\ NoCall \notin Call
  /\ Parent \in [Call -> Call \cup {NoCall}]
  /\ Callee \in [Call -> Server]
  /\ \E Given \in SUBSET Call : From \in [Given -> Call]
  /\ \A c \in DOMAIN From : Callee[From[c]] = Callee[c] /\ Parent[From[c]] = Parent[c]
  /\ Workers \in Nat \ {0}

VARIABLES
  thread,   \* the thread that makes the call
  task,     \* the coroutine wrapped_async of the call, and its future
  function, \* the function submitted for the call
  queue,    \* the work queues of the executors
  held      \* the servers whose loop waits for itself

vars == <<thread, task, function, queue, held>>

TypeOK ==
  /\ thread \in [Call -> {"idle", "blocked", "returned", "raised", "timeout", "gone"}]
  /\ task \in [Call -> {"none", "awaiting", "returned", "raised", "cancelled"}]
  /\ function \in [Call -> {"none", "queued", "running", "returned", "raised"}]
  /\ queue \in [Server -> Seq(Call)]
  /\ held \in SUBSET Server

Init ==
  /\ thread = [c \in Call |-> "idle"]
  /\ task = [c \in Call |-> "none"]
  /\ function = [c \in Call |-> "none"]
  /\ queue = [s \in Server |-> <<>>]
  /\ held = {}

Busy(s) == {c \in Call : Callee[c] = s /\ function[c] = "running"}
WorkerIsFree(s) == Cardinality(Busy(s)) < Workers

(* Do the loops of the caller and of the callee run? *)
CallerRuns(c) == Parent[c] # NoCall => Callee[Parent[c]] \notin held
CalleeRuns(c) == Callee[c] \notin held

(* The thread that runs the function of c waits for a call it has made. *)
Blocked(c) == \E d \in Call : Parent[d] = c /\ thread[d] = "blocked"

-----------------------------------------------------------------------------
(***************************************************************************)
(* wrapped_sync: run_coroutine_threadsafe(...).result().  A function that  *)
(* was returned can be called once the call that returned it is over.      *)
(***************************************************************************)
CallSync(c) ==
  /\ thread[c] = "idle"
  /\ Parent[c] # NoCall => function[Parent[c]] = "running" /\ ~Blocked(Parent[c])
  /\ c \in DOMAIN From => thread[From[c]] = "returned"
  /\ thread' = [thread EXCEPT ![c] = "blocked"]
  /\ UNCHANGED <<task, function, queue, held>>

(* Mutant: a function that can start at once stays in the queue as well. *)
SubmitTwice(c) ==
  /\ c \notin DOMAIN From /\ CalleeRuns(c)
  /\ thread[c] # "idle" /\ task[c] = "none"
  /\ task' = [task EXCEPT ![c] = "awaiting"]
  /\ function' = [function EXCEPT ![c] = IF Busy(Callee[c]) = {} THEN "running" ELSE "queued"]
  /\ queue' = [queue EXCEPT ![Callee[c]] = Append(@, c)]
  /\ UNCHANGED <<thread, held>>

(* wrapped_async, run by the callee's loop: executor.submit. *)
Submit(c) ==
  /\ c \notin DOMAIN From /\ CalleeRuns(c)
  /\ thread[c] # "idle" /\ task[c] = "none"
  /\ task' = [task EXCEPT ![c] = "awaiting"]
  /\ function' = [function EXCEPT ![c] = "queued"]
  /\ queue' = [queue EXCEPT ![Callee[c]] = Append(@, c)]
  /\ UNCHANGED <<thread, held>>

(***************************************************************************)
(* A function that was returned is wrapped_sync, which _handle_method runs *)
(* in the loop: run_coroutine_threadsafe(..., loop).result() never comes.  *)
(***************************************************************************)
HoldLoop(c) ==
  /\ c \in DOMAIN From /\ CalleeRuns(c)
  /\ thread[c] # "idle"
  /\ held' = held \cup {Callee[c]}
  /\ UNCHANGED <<thread, task, function, queue>>

(* A worker that has nothing to do takes the first function. *)
StartWork(s) ==
  /\ queue[s] # <<>>
  /\ WorkerIsFree(s)
  /\ function' = [function EXCEPT ![Head(queue[s])] = "running"]
  /\ queue' = [queue EXCEPT ![s] = Tail(@)]
  /\ UNCHANGED <<thread, task, held>>

(* Mutant: the worker waits for somebody to take the result. *)
FunctionEndsAwaited(c) ==
  /\ function[c] = "running" /\ ~Blocked(c)
  /\ task[c] = "awaiting"
  /\ \E r \in {"returned", "raised"} : function' = [function EXCEPT ![c] = r]
  /\ UNCHANGED <<thread, task, queue, held>>

(* run_and_set_result: the worker hands the result to the loop, is free. *)
FunctionEnds(c) ==
  /\ function[c] = "running" /\ ~Blocked(c)
  /\ \E r \in {"returned", "raised"} : function' = [function EXCEPT ![c] = r]
  /\ UNCHANGED <<thread, task, queue, held>>

(* Mutant: run_and_set_result does not catch what the function raises. *)
SetResultOnly(c) ==
  /\ CalleeRuns(c)
  /\ function[c] = "returned"
  /\ task[c] = "awaiting"
  /\ task' = [task EXCEPT ![c] = "returned"]
  /\ UNCHANGED <<thread, function, queue, held>>

(* Mutant: a future that was cancelled is set all the same. *)
SetResultAlways(c) ==
  /\ CalleeRuns(c)
  /\ function[c] \in {"returned", "raised"}
  /\ task[c] \in {"awaiting", "cancelled"}
  /\ task' = [task EXCEPT ![c] = function[c]]
  /\ UNCHANGED <<thread, function, queue, held>>

(***************************************************************************)
(* call_soon_threadsafe: the loop sets the future, and wrapped_async ends. *)
(* The future of a task that was cancelled is cancelled too: set_result    *)
(* raises in the loop and changes nothing.                                 *)
(***************************************************************************)
SetResult(c) ==
  /\ CalleeRuns(c)
  /\ function[c] \in {"returned", "raised"}
  /\ task[c] = "awaiting"
  /\ task' = [task EXCEPT ![c] = function[c]]
  /\ UNCHANGED <<thread, function, queue, held>>

(* Mutant: result() does not wait. *)
ResultReturnsEarly(c) ==
  /\ CallerRuns(c)
  /\ thread[c] = "blocked"
  /\ task[c] # "none"
  /\ thread' = [thread EXCEPT ![c] = task[c]]
  /\ UNCHANGED <<task, function, queue, held>>

(* The answer reaches the caller's loop, and result() returns or raises. *)
ResultReturns(c) ==
  /\ CallerRuns(c)
  /\ thread[c] = "blocked"
  /\ task[c] \in {"returned", "raised"}
  /\ thread' = [thread EXCEPT ![c] = task[c]]
  /\ UNCHANGED <<task, function, queue, held>>

(* No heartbeat comes from a loop that is held: the call is given up. *)
CallTimesOut(c) ==
  /\ CallerRuns(c) /\ ~CalleeRuns(c)
  /\ thread[c] = "blocked"
  /\ thread' = [thread EXCEPT ![c] = "timeout"]
  /\ UNCHANGED <<task, function, queue, held>>

-----------------------------------------------------------------------------
(* A client outside stops while it waits. *)
ClientStops(c) ==
  /\ Parent[c] = NoCall
  /\ thread[c] = "blocked"
  /\ thread' = [thread EXCEPT ![c] = "gone"]
  /\ UNCHANGED <<task, function, queue, held>>

(***************************************************************************)
(* Nobody answers the heartbeat any more: the task is cancelled, the       *)
(* function is not.                                                        *)
(***************************************************************************)
HeartbeatFails(c) ==
  /\ CalleeRuns(c)
  /\ thread[c] = "gone" \/ ~CallerRuns(c)
  /\ task[c] = "awaiting"
  /\ task' = [task EXCEPT ![c] = "cancelled"]
  /\ UNCHANGED <<thread, function, queue, held>>

LoopStep(c) ==
  Submit(c) \/ HoldLoop(c) \/ SetResult(c) \/ ResultReturns(c) \/ CallTimesOut(c)

Next ==
  \/ \E c \in Call :
       CallSync(c) \/ LoopStep(c) \/ FunctionEnds(c) \/ ClientStops(c) \/ HeartbeatFails(c)
  \/ \E s \in Server : StartWork(s)

Spec == Init /\ [][Next]_vars

(***************************************************************************)
(* The loops and the workers run what they can, functions end by           *)
(* themselves.  A function need not make every call it could.              *)
(***************************************************************************)
FairSpec ==
  /\ Spec
  /\ \A c \in Call : WF_vars(LoopStep(c)) /\ WF_vars(FunctionEnds(c))
  /\ \A s \in Server : WF_vars(StartWork(s))

-----------------------------------------------------------------------------
(* The functions in the work queue of a server. *)
Queued(s) == {queue[s][i] : i \in 1..Len(queue[s])}

(***************************************************************************)
(* The work queue and the functions' states agree: a function that is      *)
(* queued stands in the queue of its server once, and no other does.  A    *)
(* function never runs twice for a call, also not after its call was       *)
(* cancelled.                                                              *)
(***************************************************************************)
QueuedOnce ==
  \A s \in Server :
    /\ Queued(s) = {c \in Call : Callee[c] = s /\ function[c] = "queued"}
    /\ \A i, j \in 1..Len(queue[s]) : queue[s][i] = queue[s][j] => i = j

(***************************************************************************)
(* A thread gets what the function of its own call returned or raised, and *)
(* only when it has; the task of a client that stopped stays cancelled.    *)
(***************************************************************************)
ResultIsFunctions ==
  [][\A c \in Call :
       /\ thread'[c] \in {"returned", "raised"} => function[c] = thread'[c]
       /\ task[c] = "cancelled" => task'[c] = "cancelled"]_vars

(***************************************************************************)
(* Every call made returns or raises in the end, unless its client stops:  *)
(* "Note: we need at least 2 workers to avoid deadlock" (sync.py:100), of  *)
(* the default of 2 workers.  The workers of a server may all be blocked   *)
(* in calls that wait for a worker of it: two chains of calls that come    *)
(* back to a server are enough.                                            *)
(***************************************************************************)
CallsReturn == \A c \in Call : thread[c] = "blocked" ~> thread[c] # "blocked"

(***************************************************************************)
(* A function waits for a worker of s, and all workers wait for calls.     *)
(***************************************************************************)
Starved(s) ==
  /\ queue[s] # <<>>
  /\ ~WorkerIsFree(s)
  /\ \A c \in Busy(s) : Blocked(c)

(***************************************************************************)
(* There are two ways for a call not to end: its caller's loop waits for   *)
(* itself, or the workers of a server wait for one another.  No result is  *)
(* lost otherwise, whether the function returned or raised, and a caller   *)
(* whose callee's loop is held is told so.                                 *)
(***************************************************************************)
OnlyDeadlockHangs ==
  \A c \in Call :
    []<>(thread[c] # "blocked") \/ <>[](~CallerRuns(c) \/ \E s \in Server : Starved(s))

(***************************************************************************)
(* A function keeps its worker for ever only for one of these reasons, not *)
(* because its client stopped or its task was cancelled.                   *)
(***************************************************************************)
WorkersAreFreed ==
  \A c \in Call :
    []<>(function[c] # "running") \/ <>[](~CalleeRuns(c) \/ \E s \in Server : Starved(s))
=============================================================================
