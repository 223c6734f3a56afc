------------------------- MODULE WsConnection_proof -------------------------
(***************************************************************************)
(* Proofs about WsConnection: for any number of senders, connections and   *)
(* failures there is one attempt at a time, a connection is read, and a    *)
(* 403 is final.                                                           *)
(***************************************************************************)
EXTENDS WsConnection, FiniteSetTheorems, TLAPS

(***************************************************************************)
(* A task inside open() that made _opening is its opener, and there is one *)
(* as long as the future is pending.  After the future was cancelled the   *)
(* opener may still be connecting.                                         *)
(***************************************************************************)
OneOpener ==
  /\ \A t \in Task : pc[t] \in {"connecting", "stuck"} =>
       opener = t /\ opening \in {"pending", "cancelled"}
  /\ opening = "pending" => opener \in Task /\ pc[opener] \in {"connecting", "stuck"}
  /\ \A t \in Task : pc[t] = "waiting" => opening = "pending"

(* Listeners are started one by one with the connections. *)
Numbered ==
  /\ \A l \in Listener : l > conn => pc[l] = "none"
  /\ pc[Main] \in {"connected", "closing"} => conn > 0

ClosingIsSet == pc[Main] = "closing" => closing

(***************************************************************************)
(* The limit is reached by a 403 only.  One more than MaxFail is counted   *)
(* when an attempt succeeds whose future was cancelled; nobody connects    *)
(* after that one.                                                         *)
(***************************************************************************)
DeniedStays ==
  /\ opening # "denied" => retry <= MaxFail + 1
  /\ \/ opening \in {"none", "pending"}
     \/ \E t \in Task : pc[t] = "connecting"
     => retry <= MaxFail

(* The inductive invariant. *)
IInv == TypeOK /\ OneOpener /\ Numbered /\ ClosingIsSet /\ DeniedStays /\ ConnectionIsRead

-----------------------------------------------------------------------------
Place == {"none", "start", "connecting", "waiting", "stuck", "connected", "sending",
          "sent", "failed", "receiving", "sleeping", "closing", "ended"}

LEMMA Limit == MAX_RETRY \in Nat /\ MAX_RETRY > MaxFail + 1
BY ConnectionAssumption DEF MAX_RETRY, ConnectionAssumption

LEMMA Tasks ==
  /\ Main \in Task /\ Emitter \subseteq Task /\ Listener \subseteq Task
  /\ Main \notin Listener /\ Main \notin Emitter /\ Emitter \cap Listener = {}
  /\ MaxConn \in Nat /\ MaxFail \in Nat
  /\ Listener = {l \in 0..MaxConn : l > 0}
BY ConnectionAssumption DEF Task, Listener, ConnectionAssumption

LEMMA WaitersAreCounted == Cardinality(Waiters) \in Nat
<1>1. IsFiniteSet(Emitter) /\ MaxConn \in Int
  BY ConnectionAssumption DEF ConnectionAssumption
<1>2. IsFiniteSet(Task)
  <2>1. IsFiniteSet({Main})
    BY FS_Singleton
  <2>2. IsFiniteSet(1..MaxConn)
    BY <1>1, FS_Interval
  <2> QED
    BY <1>1, <2>1, <2>2, FS_Union DEF Task, Listener
<1> QED
  BY <1>2, FS_Subset, FS_CardinalityType DEF Waiters

(* Where tasks go on when open() ends is neither inside nor before open(). *)
LEMMA Outcomes ==
  ASSUME NEW t \in Task
  PROVE  /\ Opened(t) \in {"sending", "connected", "sleeping"}
         /\ Opened(t) = "connected" => t = Main
         /\ Raised(t) \in {"failed", "ended"}
BY Tasks DEF Opened, Raised, Task

(* open() of a task that is outside of it. *)
LEMMA EnterOpenKeeps ==
  ASSUME IInv, NEW t \in Task, EnterOpen(t), ~ spinning,
         pc[t] \in {"start", "receiving"}, t = Main => pc[t] = "start",
         t \in Listener => (pc[t] = "receiving" /\ socket[t] \notin alive)
  PROVE  IInv'
<1> USE Tasks DEF IInv
<1> DEFINE there == CASE opening = "none" -> "connecting"
                      [] opening = "pending" -> "waiting"
                      [] OTHER -> Raised(t)
<1>1. /\ pc' = [pc EXCEPT ![t] = there]
      /\ UNCHANGED <<conn, alive, queued, socket, closing, spinning>>
      /\ retry' = IF opening = "denied" THEN retry + 1 ELSE retry
  BY DEF EnterOpen
<1>2. /\ opening = "none" => there = "connecting" /\ opening' = "pending" /\ opener' = t
      /\ opening = "pending" => there = "waiting" /\ UNCHANGED <<opening, opener>>
      /\ opening \in {"denied", "cancelled"} =>
           there \in {"failed", "ended"} /\ UNCHANGED <<opening, opener>>
  BY Outcomes DEF EnterOpen
<1> HIDE DEF there
<1>3. opening \in {"none", "pending", "denied", "cancelled"}
  BY DEF TypeOK
<1>4. TypeOK'
  BY <1>1, <1>2, <1>3 DEF TypeOK
<1>5. OneOpener'
  BY <1>1, <1>2, <1>3 DEF OneOpener, TypeOK
<1>6. Numbered'
  <2>1. t \in Listener => ~ (t > conn)
    BY DEF Numbered
  <2>2. there \notin {"connected", "closing"}
    BY <1>2, <1>3
  <2> QED
    BY <1>1, <2>1, <2>2 DEF Numbered, TypeOK
<1>7. ClosingIsSet'
  BY <1>1, <1>2, <1>3 DEF ClosingIsSet, TypeOK
<1>9. DeniedStays'
  BY <1>1, <1>2, <1>3 DEF DeniedStays, TypeOK, OneOpener
<1>8. ConnectionIsRead'
  BY <1>1 DEF ConnectionIsRead, TypeOK
<1> QED
  BY <1>4, <1>5, <1>6, <1>7, <1>8, <1>9

(* The loop of a listener that was outside of open(). *)
LEMMA LoopKeeps ==
  ASSUME IInv, NEW l \in Listener, Loop(l), queued' \subseteq queued, ~ spinning,
         pc[l] \in {"start", "sleeping", "receiving"}
  PROVE  IInv'
<1> USE Tasks DEF IInv
<1> DEFINE other == \E k \in Listener \ {l} : pc[k] = "receiving" /\ socket[k] = conn
           there == IF closing \/ other THEN "ended" ELSE "receiving"
<1>1. /\ pc' = [pc EXCEPT ![l] = there] /\ socket' = [socket EXCEPT ![l] = conn]
      /\ spinning' = (~closing /\ conn \notin alive)
      /\ UNCHANGED <<conn, alive, opening, opener, retry, closing>>
  BY DEF Loop
<1>2. there \in {"ended", "receiving"} /\ l # Main /\ l \in Task
  OBVIOUS
<1>3. ConnectionIsRead'
  <2>1. CASE closing
    BY <1>1, <2>1 DEF ConnectionIsRead
  <2>2. CASE ~ closing /\ other
    BY <1>1, <2>2 DEF ConnectionIsRead, TypeOK
  <2>3. CASE ~ closing /\ ~ other
    BY <1>1, <1>2, <2>3 DEF ConnectionIsRead, TypeOK
  <2> QED
    BY <2>1, <2>2, <2>3
<1> HIDE DEF there
<1>4. TypeOK'
  BY <1>1, <1>2 DEF TypeOK
<1>5. OneOpener'
  BY <1>1, <1>2 DEF OneOpener, TypeOK
<1>6. Numbered' /\ ClosingIsSet' /\ DeniedStays'
  BY <1>1, <1>2 DEF Numbered, ClosingIsSet, DeniedStays, TypeOK
<1> QED
  BY <1>3, <1>4, <1>5, <1>6

(* The attempt ends: the task that connects is the opener, and wakes all.  *)
LEMMA ConnectKeeps ==
  ASSUME IInv, NEW t \in Task, Connect(t), ~ spinning
  PROVE  IInv'
<1> USE Tasks, Outcomes DEF IInv
<1>1. pc[t] = "connecting"
  BY DEF Connect, ConnectOk, ConnectDenied, ConnectFails
<1>2. opener = t /\ opening \in {"pending", "cancelled"} /\ retry <= MaxFail
  BY <1>1 DEF OneOpener, DeniedStays
<1>3. \A u \in Task : pc[u] \in {"connecting", "stuck"} => u = t
  BY <1>2 DEF OneOpener
<1>4. Retried \in Nat /\ Retried <= MaxFail + 1
  BY <1>2 DEF Retried, TypeOK
<1>5. CASE ConnectOk(t) /\ opening = "pending"
  <2>1. conn + 1 \in Listener /\ conn \in Nat /\ pc[conn + 1] = "none"
    BY <1>5 DEF ConnectOk, TypeOK, Numbered
  <2>2. /\ conn' = conn + 1 /\ alive' = alive \cup {conn + 1}
        /\ opening' = "none" /\ opener' = Nobody /\ retry' = 0
        /\ UNCHANGED <<queued, socket, closing, spinning>>
        /\ pc' = [Wake(t, Opened) EXCEPT ![conn + 1] = "start"]
    BY <1>5 DEF ConnectOk
  <2>3. \A u \in Task : pc'[u] = IF u = conn + 1 THEN "start"
                                 ELSE IF pc[u] = "waiting" \/ u = t THEN Opened(u)
                                 ELSE pc[u]
    BY <2>1, <2>2 DEF Wake, Waiters
  <2>4. pc' \in [Task -> Place]
    <3>1. Wake(t, Opened) \in [Task -> Place]
      BY DEF Wake, TypeOK, Place
    <3> QED
      BY <2>2, <3>1 DEF Place
  <2>5. TypeOK'
    <3>1. conn' \in 0..MaxConn /\ alive' \subseteq Listener
      BY <2>1, <2>2 DEF TypeOK
    <3> QED
      BY <2>2, <2>4, <3>1 DEF TypeOK, Place
  <2>6. OneOpener'
    <3>1. \A u \in Task : pc'[u] \notin {"connecting", "stuck", "waiting"}
      BY <1>3, <2>3
    <3> QED
      BY <2>2, <3>1 DEF OneOpener
  <2>7. Numbered'
    <3>1. ASSUME NEW l \in Listener, l > conn + 1
          PROVE  pc'[l] = "none"
      <4>1. l > conn /\ l # conn + 1
        BY <2>1, <3>1
      <4>2. pc[l] = "none"
        BY <4>1 DEF Numbered
      <4> QED
        BY <1>1, <2>3, <4>1, <4>2
    <3>2. conn + 1 > 0
      BY <2>1
    <3> QED
      BY <2>2, <3>1, <3>2 DEF Numbered
  <2>8. ClosingIsSet' /\ DeniedStays'
    <3>1. pc'[Main] # "closing" \/ pc[Main] = "closing"
      BY <2>1, <2>3
    <3>2. ClosingIsSet'
      BY <2>2, <3>1 DEF ClosingIsSet
    <3>3. DeniedStays'
      BY <2>2 DEF DeniedStays
    <3> QED
      BY <3>2, <3>3
  <2>9. ConnectionIsRead'
    BY <2>1, <2>3 DEF ConnectionIsRead
  <2> QED
    BY <2>5, <2>6, <2>7, <2>8, <2>9
<1>6. CASE ConnectOk(t) /\ opening # "pending"
  <2>1. conn + 1 \in Listener /\ conn \in Nat /\ pc[conn + 1] = "none"
    BY <1>6 DEF ConnectOk, TypeOK, Numbered
  <2>2. /\ conn' = conn + 1 /\ alive' = alive \cup {conn + 1}
        /\ pc' = [pc EXCEPT ![t] = Raised(t), ![conn + 1] = "start"]
        /\ retry' = Retried
        /\ UNCHANGED <<queued, socket, closing, spinning, opening, opener>>
    BY <1>6 DEF ConnectOk
  <2>3. \A u \in Task : pc'[u] = IF u = conn + 1 THEN "start"
                                 ELSE IF u = t THEN Raised(t) ELSE pc[u]
    BY <2>1, <2>2 DEF TypeOK
  <2>4. TypeOK'
    <3>1. conn' \in 0..MaxConn /\ alive' \subseteq Listener
      BY <2>1, <2>2 DEF TypeOK
    <3> QED
      BY <1>4, <2>1, <2>2, <3>1 DEF TypeOK
  <2>5. OneOpener'
    <3>1. \A u \in Task : pc'[u] \notin {"connecting", "stuck"}
      BY <1>3, <2>3
    <3>2. \A u \in Task : pc'[u] # "waiting"
      BY <1>6, <2>3 DEF OneOpener
    <3> QED
      BY <1>6, <2>2, <3>1, <3>2 DEF OneOpener
  <2>6. Numbered'
    <3>1. ASSUME NEW l \in Listener, l > conn + 1
          PROVE  pc'[l] = "none"
      <4>1. l > conn /\ l # conn + 1
        BY <2>1, <3>1
      <4>2. pc[l] = "none"
        BY <4>1 DEF Numbered
      <4> QED
        BY <1>1, <2>3, <4>1, <4>2
    <3>2. conn + 1 > 0
      BY <2>1
    <3> QED
      BY <2>2, <3>1, <3>2 DEF Numbered
  <2>7. ClosingIsSet' /\ DeniedStays'
    <3>1. \A u \in Task : pc'[u] # "connecting"
      BY <1>3, <2>3
    <3>2. DeniedStays'
      BY <1>4, <1>6, <1>2, <2>2, <3>1 DEF DeniedStays
    <3> QED
      BY <2>1, <2>2, <2>3, <3>2 DEF ClosingIsSet
  <2>8. ConnectionIsRead'
    BY <2>1, <2>3 DEF ConnectionIsRead
  <2> QED
    BY <2>4, <2>5, <2>6, <2>7, <2>8
<1>7. CASE ConnectDenied(t) /\ opening = "pending"
  <2>1. /\ pc' = Wake(t, Raised) /\ opening' = "denied" /\ retry' \in Nat
        /\ UNCHANGED <<conn, alive, queued, socket, opener, closing, spinning>>
    BY <1>7, WaitersAreCounted, Limit DEF ConnectDenied
  <2>2. \A u \in Task : pc'[u] = IF pc[u] = "waiting" \/ u = t THEN Raised(u) ELSE pc[u]
    BY <2>1 DEF Wake, Waiters
  <2>3. TypeOK'
    <3>1. DOMAIN pc' = Task /\ pc' = [u \in Task |-> pc'[u]]
      BY <2>1 DEF Wake
    <3>2. \A u \in Task : pc'[u] \in
            {"none", "start", "connecting", "waiting", "stuck", "connected",
             "sending", "sent", "failed", "receiving", "sleeping", "closing", "ended"}
      BY <2>2 DEF TypeOK
    <3> QED
      BY <2>1, <3>1, <3>2 DEF TypeOK
  <2>4. OneOpener'
    BY <1>3, <2>1, <2>2 DEF OneOpener
  <2>5. Numbered' /\ ClosingIsSet' /\ DeniedStays'
    BY <1>1, <2>1, <2>2 DEF Numbered, ClosingIsSet, DeniedStays, OneOpener
  <2>6. ConnectionIsRead'
    BY <1>1, <2>1, <2>2 DEF ConnectionIsRead, OneOpener
  <2> QED
    BY <2>3, <2>4, <2>5, <2>6
<1>9. CASE ConnectDenied(t) /\ opening # "pending"
  <2>1. /\ pc' = [pc EXCEPT ![t] = Raised(t)]
        /\ UNCHANGED <<conn, alive, queued, socket, opening, opener, retry, closing, spinning>>
    BY <1>9 DEF ConnectDenied
  <2>2. TypeOK'
    BY <2>1 DEF TypeOK
  <2>3. OneOpener'
    BY <1>9, <1>3, <2>1 DEF OneOpener, TypeOK
  <2>4. Numbered' /\ ClosingIsSet' /\ DeniedStays'
    BY <1>1, <2>1 DEF Numbered, ClosingIsSet, DeniedStays, TypeOK
  <2>5. ConnectionIsRead'
    BY <1>1, <2>1 DEF ConnectionIsRead, TypeOK
  <2> QED
    BY <2>2, <2>3, <2>4, <2>5
<1>8. CASE ConnectFails(t)
  <2> DEFINE there == IF opening = "pending" THEN "stuck" ELSE Raised(t)
  <2>1. /\ pc' = [pc EXCEPT ![t] = there] /\ retry' = Retried
        /\ UNCHANGED <<conn, alive, queued, socket, opening, opener, closing, spinning>>
    BY <1>8 DEF ConnectFails
  <2>2. there \in {"stuck", "failed", "ended"} /\ (opening = "pending" <=> there = "stuck")
    OBVIOUS
  <2> HIDE DEF there
  <2>3. TypeOK'
    BY <1>4, <2>1, <2>2 DEF TypeOK
  <2>4. OneOpener'
    BY <1>2, <1>3, <2>1, <2>2 DEF OneOpener, TypeOK
  <2>5. Numbered' /\ ClosingIsSet'
    BY <1>1, <2>1, <2>2 DEF Numbered, ClosingIsSet, TypeOK
  <2>6. DeniedStays'
    BY <1>8, <2>1 DEF ConnectFails, Retried, DeniedStays, TypeOK
  <2>7. ConnectionIsRead'
    BY <1>1, <2>1 DEF ConnectionIsRead, TypeOK
  <2> QED
    BY <2>3, <2>4, <2>5, <2>6, <2>7
<1> QED
  BY <1>5, <1>6, <1>7, <1>8, <1>9 DEF Connect

(* emit_message: Send, and Emit on a live connection. *)
LEMMA EmittingKeeps ==
  ASSUME IInv, NEW e \in Emitter, Emitting(e), ~ spinning
  PROVE  IInv'
<1> USE Tasks DEF IInv
<1>1. CASE conn \notin alive /\ pc[e] = "start" /\ EnterOpen(e)
  BY <1>1, EnterOpenKeeps
<1>2. ASSUME NEW where \in {"sending", "sent", "failed"}, pc[e] \in {"start", "sending"},
             pc' = [pc EXCEPT ![e] = where],
             UNCHANGED <<conn, alive, queued, socket, opening, opener, retry,
                         closing, spinning>>
      PROVE  IInv'
  <2>1. TypeOK'
    BY <1>2 DEF TypeOK
  <2>2. OneOpener'
    BY <1>2 DEF OneOpener, TypeOK
  <2>3. Numbered' /\ ClosingIsSet' /\ DeniedStays'
    BY <1>2 DEF Numbered, ClosingIsSet, DeniedStays, TypeOK
  <2>4. ConnectionIsRead'
    BY <1>2 DEF ConnectionIsRead, TypeOK
  <2> QED
    BY <2>1, <2>2, <2>3, <2>4
<1> QED
  BY <1>1, <1>2 DEF Emitting, Emit, Send

LEMMA ListeningKeeps ==
  ASSUME IInv, NEW l \in Listener, Listening(l), ~ spinning
  PROVE  IInv'
<1> USE Tasks DEF IInv
<1>1. CASE ListenerStarts(l) \/ ListenerWakes(l)
  BY <1>1, LoopKeeps DEF ListenerStarts, ListenerWakes
<1>2. CASE Receive(l)
  <2>1. CASE socket[l] \notin alive /\ Loop(l)
    BY <1>2, <2>1, LoopKeeps DEF Receive
  <2>2. CASE UNCHANGED <<pc, conn, alive, socket, opening, opener, retry, closing, spinning>>
    <3>1. TypeOK'
      BY <1>2, <2>2 DEF Receive, TypeOK
    <3> QED
      BY <2>2, <3>1 DEF OneOpener, Numbered, ClosingIsSet, DeniedStays,
                        ConnectionIsRead
  <2> QED
    BY <1>2, <2>1, <2>2 DEF Receive
<1>3. CASE ConnectionClosed(l)
  BY <1>3, EnterOpenKeeps, LoopKeeps DEF ConnectionClosed
<1> QED
  BY <1>1, <1>2, <1>3 DEF Listening

(***************************************************************************)
(* disconnect(): whatever the last listener is doing, cancelling it leaves *)
(* at most the opener inside open(), and nobody who waits for it.          *)
(***************************************************************************)
LEMMA CancelKeeps ==
  ASSUME IInv, CancelListener, pc[Main] \in {"connected", "closing"},
         closing', alive' \subseteq alive, alive' \subseteq Listener,
         UNCHANGED <<conn, queued, socket, opener, retry, spinning>>
  PROVE  IInv'
<1> USE Tasks, Outcomes DEF IInv
<1>1. conn \in Listener /\ conn # Main
  BY DEF Numbered, TypeOK
<1>2. closing' = TRUE
  BY DEF ConnectionIsRead
<1>3. ConnectionIsRead'
  BY DEF ConnectionIsRead
<1>4. /\ DOMAIN pc' = Task /\ pc' = [u \in Task |-> pc'[u]]
      /\ pc'[Main] = "ended"
      /\ \A u \in Task : pc'[u] \in {pc[u], "ended", "stuck", "failed"}
      /\ opening' \in {opening, "cancelled"}
  BY <1>1 DEF CancelListener, Wake, Waiters, TypeOK
<1>5. TypeOK'
  <2>1. \A u \in Task : pc'[u] \in
          {"none", "start", "connecting", "waiting", "stuck", "connected",
           "sending", "sent", "failed", "receiving", "sleeping", "closing", "ended"}
    BY <1>4 DEF TypeOK
  <2> QED
    BY <1>2, <1>4, <2>1 DEF TypeOK
<1>6. CASE /\ pc[conn] = "connecting"
           /\ pc' = [pc EXCEPT ![Main] = "ended", ![conn] = "stuck"]
           /\ UNCHANGED opening
  <2>1. \A u \in Task : pc'[u] = IF u = Main THEN "ended"
                                 ELSE IF u = conn THEN "stuck" ELSE pc[u]
    BY <1>1, <1>6 DEF TypeOK
  <2>2. OneOpener'
    <3>1. opener = conn /\ opening \in {"pending", "cancelled"}
      BY <1>1, <1>6 DEF OneOpener
    <3>2. \A u \in Task : pc'[u] \in {"connecting", "stuck"} => u = opener
      BY <2>1, <3>1 DEF OneOpener
    <3>3. \A u \in Task : pc'[u] = "waiting" => opening = "pending"
      BY <2>1 DEF OneOpener
    <3>4. opener \in Task /\ pc'[opener] = "stuck"
      BY <1>1, <2>1, <3>1
    <3> QED
      BY <1>6, <3>1, <3>2, <3>3, <3>4 DEF OneOpener
  <2>3. Numbered'
    BY <1>1, <1>6, <2>1 DEF Numbered
  <2>4. ClosingIsSet' /\ DeniedStays'
    BY <1>1, <1>2, <1>6, <2>1 DEF ClosingIsSet, DeniedStays
  <2> QED
    BY <1>3, <1>5, <2>2, <2>3, <2>4
<1>7. CASE /\ pc[conn] \in {"waiting", "stuck"}
           /\ pc' = [Wake(conn, Raised) EXCEPT ![Main] = "ended"]
           /\ opening' = "cancelled"
  <2>1. \A u \in Task : pc'[u] = IF u = Main THEN "ended"
                                 ELSE IF pc[u] = "waiting" \/ u = conn THEN Raised(u)
                                 ELSE pc[u]
    BY <1>1, <1>7 DEF Wake, Waiters
  <2>2. OneOpener'
    <3>1. ASSUME NEW u \in Task, pc'[u] \in {"connecting", "stuck", "waiting"}
          PROVE  u = opener /\ pc'[u] # "waiting"
      BY <2>1, <3>1 DEF OneOpener
    <3> QED
      BY <1>7, <3>1 DEF OneOpener
  <2>3. opening # "denied"
    BY <1>1, <1>7 DEF OneOpener
  <2>4. Numbered'
    BY <1>1, <1>7, <2>1 DEF Numbered
  <2>5. \A u \in Task : pc'[u] = "connecting" => pc[u] = "connecting"
    BY <2>1, Outcomes
  <2>6. retry <= MaxFail + 1
    BY <2>3 DEF DeniedStays
  <2>7. ClosingIsSet' /\ DeniedStays'
    BY <1>2, <1>7, <2>5, <2>6 DEF ClosingIsSet, DeniedStays
  <2> QED
    BY <1>3, <1>5, <2>2, <2>4, <2>7
<1>8. CASE /\ pc[conn] \notin {"connecting", "waiting", "stuck"}
           /\ pc' = [pc EXCEPT ![Main] = "ended", ![conn] = "ended"]
           /\ UNCHANGED opening
  <2>1. \A u \in Task : pc'[u] = IF u \in {Main, conn} THEN "ended" ELSE pc[u]
    BY <1>1, <1>8 DEF TypeOK
  <2>2. OneOpener'
    <3>1. \A u \in Task : pc'[u] \in {"connecting", "stuck"} =>
                            opener = u /\ opening \in {"pending", "cancelled"}
      BY <2>1 DEF OneOpener
    <3>2. \A u \in Task : pc'[u] = "waiting" => opening = "pending"
      BY <2>1 DEF OneOpener
    <3>3. ASSUME opening = "pending"
          PROVE  opener \in Task /\ pc'[opener] \in {"connecting", "stuck"}
      <4>1. opener \in Task /\ pc[opener] \in {"connecting", "stuck"}
        BY <3>3 DEF OneOpener
      <4>2. opener # Main /\ opener # conn
        BY <1>8, <4>1
      <4> QED
        BY <2>1, <4>1, <4>2
    <3> QED
      BY <1>8, <3>1, <3>2, <3>3 DEF OneOpener
  <2>3. Numbered'
    <3>1. ~ (conn > conn)
      BY DEF TypeOK
    <3>2. \A l \in Listener : l > conn => pc[l] = "none" /\ l # conn /\ l # Main
      BY <3>1 DEF Numbered
    <3> QED
      BY <1>4, <2>1, <3>2 DEF Numbered
  <2>4. ClosingIsSet' /\ DeniedStays'
    <3>1. \A u \in Task : pc'[u] = "connecting" => pc[u] = "connecting"
      BY <2>1
    <3> QED
      BY <1>2, <1>8, <3>1 DEF ClosingIsSet, DeniedStays
  <2> QED
    BY <1>3, <1>5, <2>2, <2>3, <2>4
<1> QED
  BY <1>6, <1>7, <1>8 DEF CancelListener

LEMMA MainKeeps ==
  ASSUME IInv, MainOpens \/ Disconnect \/ Disconnected, ~ spinning
  PROVE  IInv'
<1> USE Tasks DEF IInv
<1>1. CASE MainOpens
  BY <1>1, EnterOpenKeeps DEF MainOpens
<1>2. CASE Disconnect /\ CancelListener
  BY <1>2, CancelKeeps DEF Disconnect, TypeOK
<1>3. CASE Disconnect /\ alive' = alive \ {conn}
           /\ pc' = [pc EXCEPT ![Main] = "closing"] /\ UNCHANGED opening
  <2>1. pc[Main] = "connected" /\ closing' = TRUE
        /\ UNCHANGED <<conn, queued, socket, opener, retry, spinning>>
    BY <1>3 DEF Disconnect
  <2>2. TypeOK'
    BY <1>3, <2>1 DEF TypeOK
  <2>3. OneOpener'
    BY <1>3, <2>1 DEF OneOpener, TypeOK
  <2>4. Numbered' /\ ClosingIsSet' /\ DeniedStays' /\ ConnectionIsRead'
    BY <1>3, <2>1 DEF Numbered, ClosingIsSet, DeniedStays, ConnectionIsRead,
                      TypeOK
  <2> QED
    BY <2>2, <2>3, <2>4
<1>4. CASE Disconnected
  BY <1>4, CancelKeeps DEF Disconnected, ClosingIsSet, TypeOK
<1> QED
  BY <1>1, <1>2, <1>3, <1>4 DEF Disconnect

LEMMA NetworkKeeps ==
  ASSUME IInv, NEW c \in Listener, MessageComes(c) \/ Break(c)
  PROVE  IInv'
<1> USE DEF IInv, MessageComes, Break
<1>1. TypeOK'
  BY DEF TypeOK
<1>2. OneOpener' /\ Numbered' /\ ClosingIsSet' /\ DeniedStays' /\ ConnectionIsRead'
  BY DEF OneOpener, Numbered, ClosingIsSet, DeniedStays, ConnectionIsRead
<1> QED
  BY <1>1, <1>2

-----------------------------------------------------------------------------
(* IInv holds at first and is kept by every step. *)
LEMMA InitIInv == Init => IInv
<1> SUFFICES ASSUME Init PROVE IInv
  OBVIOUS
<1> USE Tasks DEF Init
<1>1. \A t \in Task : pc[t] \in {"none", "start"}
  OBVIOUS
<1>2. TypeOK
  <2>1. pc \in [Task -> Place] /\ socket \in [Listener -> 0..MaxConn] /\ conn \in 0..MaxConn
    BY DEF Place
  <2> QED
    BY <2>1 DEF TypeOK, Place
<1>3. OneOpener /\ ClosingIsSet /\ DeniedStays /\ ConnectionIsRead
  BY <1>1 DEF OneOpener, ClosingIsSet, DeniedStays, ConnectionIsRead
<1>4. Numbered
  BY DEF Numbered
<1> QED
  BY <1>2, <1>3, <1>4 DEF IInv

LEMMA NextIInv == IInv /\ [Next]_vars => IInv'
<1> SUFFICES ASSUME IInv, [Next]_vars PROVE IInv'
  OBVIOUS
<1>1. CASE ~ spinning /\ TaskStep
  BY <1>1, ConnectKeeps, MainKeeps, EmittingKeeps, ListeningKeeps DEF TaskStep
<1>2. ASSUME NEW c \in Listener, MessageComes(c) \/ Break(c) PROVE IInv'
  BY <1>2, NetworkKeeps
<1>3. CASE UNCHANGED vars
  BY <1>3 DEF vars, IInv, TypeOK, OneOpener, Numbered, ClosingIsSet, DeniedStays,
              ConnectionIsRead
<1> QED
  BY <1>1, <1>2, <1>3 DEF Next

(* There is an opener at most. *)
LEMMA OneConnects == IInv => SingleAttempt
<1> SUFFICES ASSUME IInv PROVE SingleAttempt
  OBVIOUS
<1> DEFINE C == {t \in Task : pc[t] = "connecting"}
<1>1. C \subseteq {opener}
  BY DEF IInv, OneOpener
<1>2. Cardinality(C) <= 1
  <2>1. IsFiniteSet({opener}) /\ Cardinality({opener}) = 1
    BY FS_Singleton
  <2>2. Cardinality(C) <= Cardinality({opener})
    BY <1>1, <2>1, FS_Subset
  <2> QED
    BY <2>1, <2>2
<1> QED
  BY <1>2 DEF SingleAttempt, Waiters, IInv, OneOpener

(* The state is well typed for any senders, connections and failures.      *)
THEOREM TypeCorrect == Spec => []TypeOK
<1>1. IInv => TypeOK
  BY DEF IInv
<1> QED
  BY InitIInv, NextIInv, <1>1, PTL DEF Spec

(* However many senders and listeners find the connection closed, and      *)
(* however attempts end, one task connects at a time and the future that   *)
(* the others await is its own (WebsocketRPCConnection.open).              *)
THEOREM OneAttempt == Spec => []SingleAttempt
BY InitIInv, NextIInv, OneConnects, PTL DEF Spec

(* A live connection always has a listener that reads it, or will.         *)
THEOREM ReaderExists == Spec => []ConnectionIsRead
<1>1. IInv => ConnectionIsRead
  BY DEF IInv
<1> QED
  BY InitIInv, NextIInv, <1>1, PTL DEF Spec

(* After a 403 nothing connects any more ("stop retrying"): neither the    *)
(* failed future in _opening nor the count, which goes beyond MAX_RETRY,   *)
(* is ever followed by an attempt.                                         *)
THEOREM NoRetryAfterDenial == Spec => DeniedIsFinal
<1> DEFINE A == opening = "denied" \/ retry >= MAX_RETRY =>
                  conn' = conn /\ \A t \in Task : pc'[t] # "connecting"
<1>1. IInv /\ [Next]_vars => [A]_vars
  <2> SUFFICES ASSUME IInv, Next, opening = "denied" \/ retry >= MAX_RETRY
               PROVE  conn' = conn /\ \A t \in Task : pc'[t] # "connecting"
    OBVIOUS
  <2> USE Tasks
  <2>1. opening = "denied" /\ \A t \in Task : pc[t] \notin {"connecting", "stuck", "waiting"}
    BY Limit DEF IInv, TypeOK, DeniedStays, OneOpener
  <2>2. ASSUME NEW t \in Task, EnterOpen(t)
        PROVE  conn' = conn /\ \A u \in Task : pc'[u] # "connecting"
    BY <2>1, <2>2, Outcomes DEF EnterOpen, IInv, TypeOK
  <2>3. ASSUME NEW l \in Listener, Loop(l)
        PROVE  conn' = conn /\ \A u \in Task : pc'[u] # "connecting"
    BY <2>1, <2>3 DEF Loop, IInv, TypeOK
  <2>4. ASSUME NEW t \in Task, Connect(t)
        PROVE  FALSE
    BY <2>1, <2>4 DEF Connect, ConnectOk, ConnectDenied, ConnectFails
  <2>5. ASSUME NEW e \in Emitter, Emitting(e)
        PROVE  conn' = conn /\ \A u \in Task : pc'[u] # "connecting"
    BY <2>1, <2>2, <2>5 DEF Emitting, Emit, Send, IInv, TypeOK
  <2>6. ASSUME NEW l \in Listener, Listening(l)
        PROVE  conn' = conn /\ \A u \in Task : pc'[u] # "connecting"
    BY <2>1, <2>2, <2>3, <2>6
       DEF Listening, ListenerStarts, ListenerWakes, Receive, ConnectionClosed
  <2>7. ASSUME CancelListener, pc[Main] \in {"connected", "closing"}
        PROVE  \A u \in Task : pc'[u] # "connecting"
    <3>1. conn \in Listener
      BY <2>7 DEF IInv, Numbered, TypeOK
    <3> QED
      BY <2>1, <2>7, <3>1 DEF CancelListener, IInv, TypeOK
  <2>8. ASSUME MainOpens \/ Disconnect \/ Disconnected
        PROVE  conn' = conn /\ \A u \in Task : pc'[u] # "connecting"
    BY <2>1, <2>2, <2>7, <2>8 DEF MainOpens, Disconnect, Disconnected, IInv, TypeOK
  <2>9. ASSUME NEW c \in Listener, MessageComes(c) \/ Break(c)
        PROVE  conn' = conn /\ \A u \in Task : pc'[u] # "connecting"
    BY <2>1, <2>9 DEF MessageComes, Break
  <2> QED
    BY <2>4, <2>5, <2>6, <2>8, <2>9 DEF Next, TaskStep
<1> QED
  BY InitIInv, NextIInv, <1>1, PTL DEF Spec, DeniedIsFinal
=============================================================================
