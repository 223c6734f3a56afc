---------------------------- MODULE WsConnection ----------------------------
(***************************************************************************)
(* The websocket of a hypha client, WebsocketRPCConnection of              *)
(* python/imjoy_rpc/hypha/websocket_client.py: open, emit_message, _listen *)
(* and disconnect, as tasks of one event loop that are switched only where *)
(* they await.                                                             *)
(*                                                                         *)
(* Every successful open makes a connection and starts a listener for it;  *)
(* both have the same number here.  The future _opening lets the tasks     *)
(* that find the connection closed share one attempt.  A future wakes the  *)
(* tasks that await it in the step that completes it, and a listener whose *)
(* connection broke sees it before any new connection is there: each takes *)
(* one turn of the event loop, where a connection takes a network trip.    *)
(***************************************************************************)
EXTENDS Integers, FiniteSets

CONSTANTS
  Emitter,  \* tasks that send one message each
  Main,     \* the task that opens the first connection and disconnects
  Nobody,   \* no task
  MaxConn,  \* connections that can be made
  MaxFail,  \* attempts that can fail
  Denial    \* can the server answer an attempt with 403?

Listener == 1..MaxConn

ASSUME ConnectionAssumption ==
  /\ MaxConn \in Nat /\ MaxFail \in Nat /\ Denial \in BOOLEAN
  /\ IsFiniteSet(Emitter)
  /\ (Emitter \cup {Main, Nobody}) \cap Listener = {}
  /\ Main \notin Emitter /\ Nobody \notin Emitter \cup {Main}

Task == Emitter \cup {Main} \cup Listener

(* Stands for 10000: more than the failures explored here. *)
MAX_RETRY == MaxFail + 2

VARIABLES
  pc,        \* where each task is
  conn,      \* the number of _websocket, 0 when there is none
  alive,     \* connections that are not closed
  queued,    \* connections with a message that was not read yet
  socket,    \* the connection that each listener reads
  opening,   \* the state of the future _opening
  opener,    \* the task whose open() made that future
  retry,     \* _retry_count
  closing,   \* _closing
  spinning   \* is the event loop held by a task that never awaits?

vars == <<pc, conn, alive, queued, socket, opening, opener, retry, closing, spinning>>

TypeOK ==
  /\ pc \in [Task -> {"none", "start", "connecting", "waiting", "stuck", "connected",
                      "sending", "sent", "failed", "receiving", "sleeping",
                      "closing", "ended"}]
  /\ conn \in 0..MaxConn
  /\ alive \subseteq Listener
  /\ queued \subseteq Listener
  /\ socket \in [Listener -> 0..MaxConn]
  /\ opening \in {"none", "pending", "denied", "cancelled"}
  /\ opener \in Task \cup {Nobody}
  /\ retry \in Nat
  /\ closing \in BOOLEAN
  /\ spinning \in BOOLEAN

Init ==
  /\ pc = [t \in Task |-> IF t \in Listener THEN "none" ELSE "start"]
  /\ conn = 0
  /\ alive = {}
  /\ queued = {}
  /\ socket = [l \in Listener |-> 0]
  /\ opening = "none"
  /\ opener = Nobody
  /\ retry = 0
  /\ closing = FALSE
  /\ spinning = FALSE

(* Where a task goes on when its open() returned, or raised. *)
Opened(t) == CASE t \in Emitter -> "sending" [] t = Main -> "connected" [] OTHER -> "sleeping"
Raised(t) == IF t \in Listener THEN "ended" ELSE "failed"

Waiters == {t \in Task : pc[t] = "waiting"}

(* A listener that is about to see that its connection broke. *)
Unnoticed == {l \in Listener : pc[l] = "receiving" /\ socket[l] \notin alive}

-----------------------------------------------------------------------------
(* Mutant: open() does not look at _opening. *)
EnterOpenAlways(t) ==
  /\ pc' = [pc EXCEPT ![t] = "connecting"]
  /\ opening' = "pending" /\ opener' = t
  /\ UNCHANGED <<conn, alive, queued, socket, retry, closing, spinning>>

(***************************************************************************)
(* open() up to its first await: make the future and connect, or await the *)
(* future of another task.  After a 403 or a cancellation the future stays *)
(* in _opening and raises in everybody who awaits it; the error of a 403   *)
(* is an Exception and is counted by each of them, also beyond MAX_RETRY.  *)
(***************************************************************************)
EnterOpen(t) ==
  /\ pc' = [pc EXCEPT ![t] =
       CASE opening = "none" -> "connecting"
         [] opening = "pending" -> "waiting"
         [] OTHER -> Raised(t)]
  /\ IF opening = "none" THEN opening' = "pending" /\ opener' = t
                         ELSE UNCHANGED <<opening, opener>>
  /\ retry' = IF opening = "denied" THEN retry + 1 ELSE retry
  /\ UNCHANGED <<conn, alive, queued, socket, closing, spinning>>

(* Mutant: the attempts that are left are counted. *)
RetriedLess == retry - 1

(* One attempt more has failed. *)
Retried == retry + 1

(* The future is completed; its waiters go on, or raise, with its maker. *)
Wake(t, where(_)) == [u \in Task |-> IF u \in Waiters \cup {t} THEN where(u) ELSE pc[u]]

(* Mutant: nobody listens to the new connection. *)
ConnectOkUnread(t) ==
  /\ pc[t] = "connecting"
  /\ Unnoticed = {}
  /\ conn < MaxConn
  /\ conn' = conn + 1
  /\ alive' = alive \cup {conn + 1}
  /\ opening = "pending"
  /\ pc' = Wake(t, Opened)
  /\ opening' = "none" /\ opener' = Nobody /\ retry' = 0
  /\ UNCHANGED <<queued, socket, closing, spinning>>

(* Mutant: _opening is dropped before it is set, its waiters wait on. *)
ConnectOkUnset(t) ==
  /\ pc[t] = "connecting"
  /\ Unnoticed = {}
  /\ conn < MaxConn
  /\ conn' = conn + 1
  /\ alive' = alive \cup {conn + 1}
  /\ pc' = [pc EXCEPT ![t] = Opened(t), ![conn + 1] = "start"]
  /\ opening' = "none" /\ opener' = Nobody /\ retry' = 0
  /\ UNCHANGED <<queued, socket, closing, spinning>>

(***************************************************************************)
(* The connection is there: a listener is started, the future set.  When   *)
(* the future was cancelled meanwhile, set_result raises, and so does the  *)
(* await in open()'s finally.                                              *)
(***************************************************************************)
ConnectOk(t) ==
  /\ pc[t] = "connecting"
  /\ Unnoticed = {}
  /\ conn < MaxConn
  /\ conn' = conn + 1
  /\ alive' = alive \cup {conn + 1}
  /\ \/ /\ opening = "pending"
        /\ pc' = [Wake(t, Opened) EXCEPT ![conn + 1] = "start"]
        /\ opening' = "none" /\ opener' = Nobody /\ retry' = 0
     \/ /\ opening # "pending"
        /\ pc' = [pc EXCEPT ![t] = Raised(t), ![conn + 1] = "start"]
        /\ retry' = Retried
        /\ UNCHANGED <<opening, opener>>
  /\ UNCHANGED <<queued, socket, closing, spinning>>

(* Mutant: _opening is reset after a 403 as after any attempt. *)
ConnectDeniedForgotten(t) ==
  /\ Denial
  /\ pc[t] = "connecting"
  /\ opening = "pending"
  /\ opening' = "none"
  /\ retry' = MAX_RETRY
  /\ pc' = Wake(t, Raised)
  /\ UNCHANGED <<conn, alive, queued, socket, opener, closing, spinning>>

(***************************************************************************)
(* 403: the future gets an exception and, the await raising, stays set.    *)
(* Every task that awaited it counts the error once more.  A future that   *)
(* was cancelled meanwhile cannot get an exception, and the task raises.   *)
(***************************************************************************)
ConnectDenied(t) ==
  /\ Denial
  /\ pc[t] = "connecting"
  /\ \/ /\ opening = "pending"
        /\ opening' = "denied"
        /\ retry' = MAX_RETRY + Cardinality(Waiters)
        /\ pc' = Wake(t, Raised)
     \/ /\ opening # "pending"
        /\ pc' = [pc EXCEPT ![t] = Raised(t)]
        /\ UNCHANGED <<opening, retry>>
  /\ UNCHANGED <<conn, alive, queued, socket, opener, closing, spinning>>

(***************************************************************************)
(* Any other failure, the timeout included: the error is logged, and the   *)
(* finally of open() awaits a future that nobody completes.  MaxFail       *)
(* bounds the failures in a row.                                           *)
(***************************************************************************)
ConnectFails(t) ==
  /\ pc[t] = "connecting"
  /\ retry < MaxFail
  /\ retry' = Retried
  /\ pc' = [pc EXCEPT ![t] = IF opening = "pending" THEN "stuck" ELSE Raised(t)]
  /\ UNCHANGED <<conn, alive, queued, socket, opening, opener, closing, spinning>>

-----------------------------------------------------------------------------
(* connect_to_server opens the first connection. *)
MainOpens == pc[Main] = "start" /\ EnterOpen(Main)

(* emit_message: send at once on a live connection, else open() first. *)
Emit(e) ==
  /\ pc[Main] \in {"connected", "closing", "ended"}
  /\ pc[e] = "start"
  /\ \/ /\ conn \in alive
        /\ pc' = [pc EXCEPT ![e] = "sending"]
        /\ UNCHANGED <<conn, alive, queued, socket, opening, opener, retry, closing, spinning>>
     \/ conn \notin alive /\ EnterOpen(e)

Send(e) ==
  /\ pc[e] = "sending"
  /\ pc' = [pc EXCEPT ![e] = IF conn \in alive THEN "sent" ELSE "failed"]
  /\ UNCHANGED <<conn, alive, queued, socket, opening, opener, retry, closing, spinning>>

(***************************************************************************)
(* The loop of _listen up to an await.  Only one task may await recv, the  *)
(* next one is killed by a RuntimeError.  With a closed connection neither *)
(* loop has an await: the event loop runs nothing else any more.  That the *)
(* limit of retries is looked at after open() changes nothing: open() only *)
(* returns when a connection was made, which resets the count.             *)
(***************************************************************************)
Loop(l) ==
  /\ pc' = [pc EXCEPT ![l] =
       IF closing \/ \E k \in Listener \ {l} : pc[k] = "receiving" /\ socket[k] = conn
         THEN "ended" ELSE "receiving"]
  /\ socket' = [socket EXCEPT ![l] = conn]
  /\ spinning' = (~closing /\ conn \notin alive)
  /\ UNCHANGED <<conn, alive, opening, opener, retry, closing>>

ListenerStarts(l) == pc[l] = "start" /\ Loop(l) /\ UNCHANGED queued
ListenerWakes(l) == pc[l] = "sleeping" /\ Loop(l) /\ UNCHANGED queued

(***************************************************************************)
(* recv returns a message, which it also does when the connection closed   *)
(* after the message had come, and the handler runs.                       *)
(***************************************************************************)
Receive(l) ==
  /\ pc[l] = "receiving"
  /\ socket[l] \in queued
  /\ queued' = queued \ {socket[l]}
  /\ \/ /\ socket[l] \in alive
        /\ UNCHANGED <<pc, conn, alive, socket, opening, opener, retry, closing, spinning>>
     \/ socket[l] \notin alive /\ Loop(l)

(* recv raises: the listener of a broken connection opens a new one. *)
ConnectionClosed(l) ==
  /\ pc[l] = "receiving"
  /\ socket[l] \notin alive \cup queued
  /\ \/ ~closing /\ EnterOpen(l)
     \/ closing /\ Loop(l) /\ UNCHANGED queued

(***************************************************************************)
(* The end of disconnect(): cancel the last listener started.  Cancelling  *)
(* a task that awaits _opening, be it a waiter or the stuck opener in its  *)
(* finally, cancels the future; it and all who await it raise, in the turn *)
(* of the event loop that follows, which is part of this step.  A task     *)
(* that is connecting goes on to await its own future in finally.          *)
(***************************************************************************)
CancelListener ==
  \/ /\ pc[conn] = "connecting"
     /\ pc' = [pc EXCEPT ![Main] = "ended", ![conn] = "stuck"]
     /\ UNCHANGED opening
  \/ /\ pc[conn] \in {"waiting", "stuck"}
     /\ pc' = [Wake(conn, Raised) EXCEPT ![Main] = "ended"]
     /\ opening' = "cancelled"
  \/ /\ pc[conn] \notin {"connecting", "waiting", "stuck"}
     /\ pc' = [pc EXCEPT ![Main] = "ended", ![conn] = "ended"]
     /\ UNCHANGED opening

(* disconnect() awaits the end of a connection that is still alive. *)
Disconnect ==
  /\ pc[Main] = "connected"
  /\ closing' = TRUE
  /\ \/ /\ conn \in alive
        /\ alive' = alive \ {conn}
        /\ pc' = [pc EXCEPT ![Main] = "closing"]
        /\ UNCHANGED opening
     \/ conn \notin alive /\ CancelListener /\ UNCHANGED alive
  /\ UNCHANGED <<conn, queued, socket, opener, retry, spinning>>

Disconnected ==
  /\ pc[Main] = "closing"
  /\ CancelListener
  /\ UNCHANGED <<conn, alive, queued, socket, opener, retry, closing, spinning>>

-----------------------------------------------------------------------------
(* The server and the network. *)
MessageComes(c) ==
  /\ c \in alive
  /\ queued' = queued \cup {c}
  /\ UNCHANGED <<pc, conn, alive, socket, opening, opener, retry, closing, spinning>>

(***************************************************************************)
(* A connection breaks once its listener has run up to its first await.    *)
(* The last one does not break: the bound on what is explored.             *)
(***************************************************************************)
Break(c) ==
  /\ c \in alive
  /\ c < MaxConn
  /\ pc[c] # "start"
  /\ alive' = alive \ {c}
  /\ UNCHANGED <<pc, conn, queued, socket, opening, opener, retry, closing, spinning>>

Connect(t) == ConnectOk(t) \/ ConnectDenied(t) \/ ConnectFails(t)

Emitting(e) == Emit(e) \/ Send(e)

Listening(l) ==
  ListenerStarts(l) \/ ListenerWakes(l) \/ Receive(l) \/ ConnectionClosed(l)

TaskStep ==
  \/ \E t \in Task : Connect(t)
  \/ MainOpens \/ Disconnect \/ Disconnected
  \/ \E e \in Emitter : Emitting(e)
  \/ \E l \in Listener : Listening(l)

Next ==
  \/ ~spinning /\ TaskStep
  \/ \E c \in Listener : MessageComes(c) \/ Break(c)

Spec == Init /\ [][Next]_vars

(***************************************************************************)
(* The event loop, unless it is held, runs every task that can go on, and  *)
(* attempts end.                                                           *)
(***************************************************************************)
FairSpec ==
  /\ Spec
  /\ \A t \in Task : WF_vars(~spinning /\ Connect(t))
  /\ \A e \in Emitter : WF_vars(~spinning /\ Emitting(e))
  /\ \A l \in Listener : WF_vars(~spinning /\ Listening(l))

-----------------------------------------------------------------------------
(* Properties.                                                             *)

(***************************************************************************)
(* The tasks that find the connection closed share one attempt: there is   *)
(* one at a time, whoever listens, emits or disconnects, and the future    *)
(* that the others await belongs to a task that is still inside its open().*)
(***************************************************************************)
SingleAttempt ==
  /\ Cardinality({t \in Task : pc[t] = "connecting"}) <= 1
  /\ Waiters # {} => opening = "pending" /\ pc[opener] \in {"connecting", "stuck"}

(***************************************************************************)
(* The current connection has a reader.  After a reconnection the listener *)
(* that reopened and the one that was started both try to read it, and one *)
(* of them is killed, but never both.                                      *)
(***************************************************************************)
ConnectionIsRead ==
  conn \in alive /\ ~closing /\ ~spinning =>
    \E l \in Listener :
      pc[l] = "start" \/ (pc[l] = "receiving" /\ socket[l] = conn)

(***************************************************************************)
(* After a 403 ("stop retrying"), which the future and the count of        *)
(* retries both tell, no connection is made and no attempt either, by a    *)
(* listener or by a message to send, however many of them still get the    *)
(* error and count it.                                                     *)
(***************************************************************************)
DeniedIsFinal ==
  [][opening = "denied" \/ retry >= MAX_RETRY =>
       conn' = conn /\ \A t \in Task : pc'[t] # "connecting"]_vars

(***************************************************************************)
(* A message that waits for a connection is sent, or its task raises,      *)
(* unless an attempt failed without a 403 (its task is stuck in finally),  *)
(* disconnect() interferes or the event loop is held.                      *)
(***************************************************************************)
EmitEnds ==
  \A e \in Emitter :
    pc[e] \in {"connecting", "waiting", "sending"}
      ~> (pc[e] \in {"sent", "failed"} \/ closing \/ spinning
            \/ \E t \in Task : pc[t] = "stuck")

(***************************************************************************)
(* The log says "Failed to connect to %s, retrying %d/%d": a failed        *)
(* attempt is followed by another one, which succeeds or is counted.       *)
(***************************************************************************)
FailureIsRetried == (retry = 1) ~> (retry # 1 \/ closing)
=============================================================================
