---------------------------- MODULE MessageCache ----------------------------
(***************************************************************************)
(* Messages too large for one frame, hypha/rpc.py.  The sender             *)
(* (_send_chunks) calls create, append for every chunk and process of the  *)
(* receiver's built-in message_cache, and awaits each call.  The key of    *)
(* the message is the session at the receiver that the message belongs to  *)
(* (the parent of a callback or of an answer), or a fresh one.  Two large  *)
(* messages of one session therefore share a key.                          *)
(*                                                                         *)
(* A call may be lost or be late: the sender gives up after a timeout,     *)
(* and the request it gave up on may still arrive.                         *)
(***************************************************************************)
EXTENDS Naturals, Sequences

CONSTANTS
  Sender,   \* large messages; each has a sending task
  Key,      \* keys of the receiver's cache
  KeyOf,    \* the key of each message
  Session,  \* the keys that are sessions: calls for them pass heartbeat=True
  Chunks,   \* chunks of a message
  Removable \* the keys for which a peer calls message_cache.remove

(* A peer removes by hand only what nobody else sends under the same key.  *)
ASSUME CacheAssumption ==
  /\ KeyOf \in [Sender -> Key]
  /\ Session \subseteq Key
  /\ Chunks \in Nat \ {0}
  /\ Removable \subseteq Key
  /\ \A s, t \in Sender : KeyOf[s] = KeyOf[t] /\ KeyOf[s] \in Removable => s = t

VARIABLES
  sender,    \* the sending tasks
  step,      \* the call a task is at: create, the chunks, process
  request,   \* tasks whose call has not reached the receiver
  reply,     \* what the receiver answered to the last call of a task
  sessions,  \* the sessions in the receiver's object store
  timer,     \* their watchdogs
  cache,     \* message_cache: by key, the chunks received
  fired      \* the messages processed, in order

vars == <<sender, step, request, reply, sessions, timer, cache, fired>>

Chunk == Sender \X (1..Chunks)

TypeOK ==
  /\ sender \in [Sender -> {"idle", "waiting", "done", "failed"}]
  /\ step \in [Sender -> 0..(Chunks + 1)]
  /\ request \subseteq Sender
  /\ reply \in [Sender -> {"none", "ok", "error"}]
  /\ sessions \subseteq Session
  /\ timer \in [Session -> {"sleeping", "fired"}]
  /\ DOMAIN cache \subseteq Key
  /\ \A k \in DOMAIN cache : cache[k] \in Seq(Chunk)
  /\ fired \in Seq(Seq(Chunk))

Init ==
  /\ sender = [s \in Sender |-> "idle"]
  /\ step = [s \in Sender |-> 0]
  /\ request = {}
  /\ reply = [s \in Sender |-> "none"]
  /\ sessions = Session
  /\ timer = [k \in Session |-> "sleeping"]
  /\ cache = <<>>
  /\ fired = <<>>

-----------------------------------------------------------------------------
(* The sender.                                                             *)

(* get_remote_service of the built-in services, then create. *)
SendChunks(s) ==
  /\ sender[s] = "idle"
  /\ \/ /\ sender' = [sender EXCEPT ![s] = "waiting"]
        /\ request' = request \cup {s}
     \/ /\ sender' = [sender EXCEPT ![s] = "failed"]
        /\ UNCHANGED request
  /\ UNCHANGED <<step, reply, sessions, timer, cache, fired>>

(* Mutant: one call too many. *)
NextCallOnceMore(s) ==
  /\ sender[s] = "waiting" /\ reply[s] = "ok"
  /\ reply' = [reply EXCEPT ![s] = "none"]
  /\ IF step[s] <= Chunks + 1
       THEN /\ step' = [step EXCEPT ![s] = @ + 1]
            /\ request' = request \cup {s}
            /\ UNCHANGED sender
       ELSE /\ sender' = [sender EXCEPT ![s] = "done"]
            /\ UNCHANGED <<step, request>>
  /\ UNCHANGED <<sessions, timer, cache, fired>>

(* The call returned: go on to the next one. *)
NextCall(s) ==
  /\ sender[s] = "waiting" /\ reply[s] = "ok"
  /\ reply' = [reply EXCEPT ![s] = "none"]
  /\ IF step[s] <= Chunks
       THEN /\ step' = [step EXCEPT ![s] = @ + 1]
            /\ request' = request \cup {s}
            /\ UNCHANGED sender
       ELSE /\ sender' = [sender EXCEPT ![s] = "done"]
            /\ UNCHANGED <<step, request>>
  /\ UNCHANGED <<sessions, timer, cache, fired>>

(* The call raised, or timed out: so does the task, and removes nothing. *)
GiveUp(s) ==
  /\ sender[s] = "waiting" /\ reply[s] # "ok"
  /\ sender' = [sender EXCEPT ![s] = "failed"]
  /\ UNCHANGED <<step, request, reply, sessions, timer, cache, fired>>

-----------------------------------------------------------------------------
(* The receiver.                                                           *)

Answered(s, r) ==
  /\ request' = request \ {s}
  /\ reply' = [reply EXCEPT ![s] = r]
  /\ UNCHANGED <<sender, step>>

(* heartbeat=True: the session must be there, and its timer is reset. *)
SessionOpen(k) == k \in Session => k \in sessions

ResetTimer(k) ==
  timer' = IF k \in sessions THEN [timer EXCEPT ![k] = "sleeping"] ELSE timer

With(k, package) ==
  [j \in DOMAIN cache \cup {k} |-> IF j = k THEN package ELSE cache[j]]

Without(k) == [j \in DOMAIN cache \ {k} |-> cache[j]]

CreateMessage(s, overwrite) ==
  /\ s \in request /\ step[s] = 0
  /\ ResetTimer(KeyOf[s])
  /\ IF SessionOpen(KeyOf[s]) /\ (overwrite \/ KeyOf[s] \notin DOMAIN cache)
       THEN cache' = With(KeyOf[s], <<>>) /\ Answered(s, "ok")
       ELSE UNCHANGED cache /\ Answered(s, "error")
  /\ UNCHANGED <<sessions, fired>>

(* Mutant: the sending task asks to overwrite. *)
HandleCreateOver(s) == CreateMessage(s, TRUE)

(* The sending task does not ask to overwrite. *)
HandleCreate(s) == CreateMessage(s, FALSE)

AppendMessage(s) ==
  /\ s \in request /\ step[s] \in 1..Chunks
  /\ ResetTimer(KeyOf[s])
  /\ IF SessionOpen(KeyOf[s]) /\ KeyOf[s] \in DOMAIN cache
       THEN /\ cache' = With(KeyOf[s], Append(cache[KeyOf[s]], <<s, step[s]>>))
            /\ Answered(s, "ok")
       ELSE UNCHANGED cache /\ Answered(s, "error")
  /\ UNCHANGED <<sessions, fired>>

(* Mutant: a message that is not there any more is no error. *)
ProcessMessageLenient(s) ==
  /\ s \in request /\ step[s] = Chunks + 1
  /\ ResetTimer(KeyOf[s])
  /\ Answered(s, "ok")
  /\ IF SessionOpen(KeyOf[s]) /\ KeyOf[s] \in DOMAIN cache
       THEN /\ fired' = Append(fired, cache[KeyOf[s]])
            /\ cache' = Without(KeyOf[s])
            /\ sessions' \in {sessions, sessions \ {KeyOf[s]}}
       ELSE UNCHANGED <<fired, cache, sessions>>

(***************************************************************************)
(* The message is handled as if it had come in one frame, then deleted.  A *)
(* message that is the answer to the session's call closes the session.    *)
(***************************************************************************)
ProcessMessage(s) ==
  /\ s \in request /\ step[s] = Chunks + 1
  /\ ResetTimer(KeyOf[s])
  /\ IF SessionOpen(KeyOf[s]) /\ KeyOf[s] \in DOMAIN cache
       THEN /\ fired' = Append(fired, cache[KeyOf[s]])
            /\ cache' = Without(KeyOf[s])
            /\ sessions' \in {sessions, sessions \ {KeyOf[s]}}
            /\ Answered(s, "ok")
       ELSE UNCHANGED <<fired, cache, sessions>> /\ Answered(s, "error")

RemoveMessage(k) ==
  /\ k \in Removable \cap DOMAIN cache
  /\ cache' = Without(k)
  /\ UNCHANGED <<sender, step, request, reply, sessions, timer, fired>>

-----------------------------------------------------------------------------
(* The watchdog of the session's call, and its answer in a small message. *)
TimerFires(k) ==
  /\ k \in sessions /\ timer[k] = "sleeping"
  /\ timer' = [timer EXCEPT ![k] = "fired"]
  /\ UNCHANGED <<sender, step, request, reply, sessions, cache, fired>>

CloseSession(k) ==
  /\ k \in sessions
  /\ sessions' = sessions \ {k}
  /\ UNCHANGED <<sender, step, request, reply, timer, cache, fired>>

Lose(s) ==
  /\ s \in request
  /\ request' = request \ {s}
  /\ UNCHANGED <<sender, step, reply, sessions, timer, cache, fired>>

Next ==
  \/ \E s \in Sender :
       \/ SendChunks(s) \/ NextCall(s) \/ GiveUp(s)
       \/ HandleCreate(s) \/ AppendMessage(s) \/ ProcessMessage(s) \/ Lose(s)
  \/ \E k \in Key : RemoveMessage(k)
  \/ \E k \in Session : TimerFires(k) \/ CloseSession(k)

Spec == Init /\ [][Next]_vars

-----------------------------------------------------------------------------
(* The chunks of a message, in order. *)
Package(s) == [i \in 1..Chunks |-> <<s, i>>]

(***************************************************************************)
(* A message that is processed consists of the chunks of one sender, all   *)
(* of them, in order: concurrent messages with one key, and requests that  *)
(* arrive after their sender gave up, never mix.  It holds because create  *)
(* refuses a key in use and a sender that failed leaves its key behind.    *)
(***************************************************************************)
MessagesAreWhole ==
  \A i \in 1..Len(fired) : \E s \in Sender : fired[i] = Package(s)

(***************************************************************************)
(* A task that ended without an error has had its message processed, and   *)
(* once: no other task of the session took or repeated it.                 *)
(***************************************************************************)
DoneIsProcessed ==
  \A s \in Sender :
    sender[s] = "done" =>
      \E i \in 1..Len(fired) : \A j \in 1..Len(fired) : fired[j] = Package(s) <=> j = i
=============================================================================
