------------------------- MODULE MessageCache_proof -------------------------
(***************************************************************************)
(* Proofs about MessageCache: for any messages, keys, sessions and number  *)
(* of chunks, messages are processed whole, and once if the sender's task  *)
(* ends without an error.                                                  *)
(***************************************************************************)
EXTENDS MessageCache, SequenceTheorems, TLAPS

(* The message was created, and it was processed. *)
Created(s) == step[s] > 0 \/ reply[s] = "ok"
Over(s) == step[s] = Chunks + 1 /\ (reply[s] = "ok" \/ sender[s] = "done")
Holding(s) == Created(s) /\ ~ Over(s)

(* The chunks that the receiver has got: the last call may be unanswered. *)
Made(s) ==
  IF step[s] = 0 THEN 0
  ELSE IF reply[s] = "ok" /\ step[s] <= Chunks THEN step[s] ELSE step[s] - 1

Prefix(s, n) == [i \in 1..n |-> <<s, i>>]

(* A call that has not come is the last one of its task. *)
Requests ==
  \A s \in Sender :
    /\ s \in request => reply[s] = "none" /\ sender[s] # "done"
    /\ sender[s] = "idle" => step[s] = 0 /\ reply[s] = "none" /\ s \notin request
    /\ sender[s] = "done" => step[s] = Chunks + 1

(***************************************************************************)
(* The cache has under a key what its one holder has sent so far.  Nobody  *)
(* but the holder removes a key that is not removable.                     *)
(***************************************************************************)
Kept ==
  /\ \A s \in Sender : Holding(s) =>
       /\ KeyOf[s] \in DOMAIN cache => cache[KeyOf[s]] = Prefix(s, Made(s))
       /\ KeyOf[s] \notin Removable => KeyOf[s] \in DOMAIN cache
  /\ \A s, t \in Sender :
       Holding(s) /\ Holding(t) /\ KeyOf[s] = KeyOf[t] => s = t

Once ==
  \A s \in Sender :
    IF Over(s)
    THEN \E i \in 1..Len(fired) : \A j \in 1..Len(fired) : fired[j] = Package(s) <=> j = i
    ELSE \A j \in 1..Len(fired) : fired[j] # Package(s)

(* The inductive invariant. *)
IInv == TypeOK /\ Requests /\ Kept /\ Once /\ MessagesAreWhole

-----------------------------------------------------------------------------
(* Facts about the chunks of a message. *)
LEMMA PrefixGrows ==
  ASSUME NEW s \in Sender, NEW n \in Nat
  PROVE  Append(Prefix(s, n), <<s, n + 1>>) = Prefix(s, n + 1)
<1> DEFINE p == Prefix(s, n)
<1>1. p \in Seq(Sender \X Nat) /\ Len(p) = n
  BY DEF Prefix
<1>2. /\ Append(p, <<s, n + 1>>) = [i \in 1..(n + 1) |->
                                      IF i \in 1..n THEN p[i] ELSE <<s, n + 1>>]
  BY <1>1
<1> QED
  BY <1>2 DEF Prefix

LEMMA PrefixTyped ==
  ASSUME NEW s \in Sender, NEW n \in 0..Chunks
  PROVE  Prefix(s, n) \in Seq(Chunk)
BY CacheAssumption DEF Prefix, Chunk, CacheAssumption

LEMMA PackagesDiffer ==
  ASSUME NEW s \in Sender, NEW t \in Sender, Package(s) = Package(t)
  PROVE  s = t
<1>1. 1 \in 1..Chunks
  BY CacheAssumption DEF CacheAssumption
<1>2. Package(s)[1] = <<s, 1>> /\ Package(t)[1] = <<t, 1>>
  BY <1>1 DEF Package
<1> QED
  BY <1>2

LEMMA ConstantTypes ==
  /\ Chunks \in Nat /\ Chunks > 0
  /\ \A s \in Sender : KeyOf[s] \in Key
BY CacheAssumption DEF CacheAssumption

-----------------------------------------------------------------------------
(* A step that leaves the cache, and what every message has achieved. *)
LEMMA CacheFrame ==
  ASSUME Kept, Once, MessagesAreWhole, UNCHANGED <<cache, fired>>,
         \A s \in Sender : /\ Created(s)' <=> Created(s)
                           /\ Over(s)' <=> Over(s)
                           /\ Created(s) => Made(s)' = Made(s)
  PROVE  Kept' /\ Once' /\ MessagesAreWhole'
<1>1. \A s \in Sender : Holding(s)' <=> Holding(s)
  BY DEF Holding
<1>2. \A s \in Sender : Holding(s) => Made(s)' = Made(s)
  BY DEF Holding
<1>3. Kept'
  BY <1>1, <1>2 DEF Kept
<1>4. Once' /\ MessagesAreWhole'
  BY DEF Once, MessagesAreWhole
<1> QED
  BY <1>3, <1>4

LEMMA SenderKeeps ==
  ASSUME IInv, NEW s \in Sender,
         SendChunks(s) \/ NextCall(s) \/ GiveUp(s) \/ Lose(s)
  PROVE  IInv'
<1> USE ConstantTypes DEF IInv
<1>1. CASE SendChunks(s)
  <2>1. TypeOK' /\ Requests'
    BY <1>1 DEF SendChunks, TypeOK, Requests
  <2>2. \A t \in Sender : /\ Created(t)' <=> Created(t)
                          /\ Over(t)' <=> Over(t)
                          /\ Made(t)' = Made(t)
    BY <1>1 DEF SendChunks, TypeOK, Created, Over, Made
  <2> QED
    BY <1>1, <2>1, <2>2, CacheFrame DEF SendChunks
<1>2. CASE NextCall(s)
  <2>1. TypeOK'
    <3>1. step[s] <= Chunks => step[s] + 1 \in 0..(Chunks + 1)
      BY DEF TypeOK
    <3> QED
      BY <1>2, <3>1 DEF NextCall, TypeOK
  <2>2. Requests'
    BY <1>2 DEF NextCall, TypeOK, Requests
  <2>3. \A t \in Sender : /\ Created(t)' <=> Created(t)
                          /\ Over(t)' <=> Over(t)
                          /\ Made(t)' = Made(t)
    BY <1>2 DEF NextCall, TypeOK, Created, Over, Made
  <2> QED
    BY <1>2, <2>1, <2>2, <2>3, CacheFrame DEF NextCall
<1>3. CASE GiveUp(s)
  <2>1. TypeOK' /\ Requests'
    BY <1>3 DEF GiveUp, TypeOK, Requests
  <2>2. \A t \in Sender : /\ Created(t)' <=> Created(t)
                          /\ Over(t)' <=> Over(t)
                          /\ Made(t)' = Made(t)
    BY <1>3 DEF GiveUp, TypeOK, Created, Over, Made
  <2> QED
    BY <1>3, <2>1, <2>2, CacheFrame DEF GiveUp
<1>4. CASE Lose(s)
  <2>1. TypeOK' /\ Requests'
    BY <1>4 DEF Lose, TypeOK, Requests
  <2>2. \A t \in Sender : /\ Created(t)' <=> Created(t)
                          /\ Over(t)' <=> Over(t)
                          /\ Made(t)' = Made(t)
    BY <1>4 DEF Lose, Created, Over, Made
  <2> QED
    BY <1>4, <2>1, <2>2, CacheFrame DEF Lose
<1> QED
  BY <1>1, <1>2, <1>3, <1>4

LEMMA SessionKeeps ==
  ASSUME IInv, NEW k \in Session, TimerFires(k) \/ CloseSession(k)
  PROVE  IInv'
<1> USE DEF IInv, TimerFires, CloseSession
<1>1. TypeOK' /\ Requests'
  BY DEF TypeOK, Requests
<1>2. \A t \in Sender : /\ Created(t)' <=> Created(t)
                        /\ Over(t)' <=> Over(t)
                        /\ Made(t)' = Made(t)
  BY DEF Created, Over, Made
<1> QED
  BY <1>1, <1>2, CacheFrame

-----------------------------------------------------------------------------
(* What an answer changes of the tasks. *)
LEMMA AnswerTyped ==
  ASSUME TypeOK, Requests, NEW s \in Sender, NEW r \in {"ok", "error"},
         s \in request, Answered(s, r)
  PROVE  /\ sender' \in [Sender -> {"idle", "waiting", "done", "failed"}]
         /\ step' \in [Sender -> 0..(Chunks + 1)]
         /\ request' \subseteq Sender
         /\ reply' \in [Sender -> {"none", "ok", "error"}]
         /\ Requests'
         /\ \A t \in Sender \ {s} : /\ Created(t)' <=> Created(t)
                                    /\ Over(t)' <=> Over(t)
                                    /\ Made(t)' = Made(t)
<1>1. reply' = [reply EXCEPT ![s] = r] /\ request' = request \ {s}
      /\ UNCHANGED <<sender, step>>
  BY DEF Answered
<1>2. \A t \in Sender \ {s} : reply'[t] = reply[t]
  BY <1>1 DEF TypeOK
<1>3. Requests'
  BY <1>1, <1>2 DEF TypeOK, Requests
<1> QED
  BY <1>1, <1>2, <1>3 DEF TypeOK, Created, Over, Made

(* A call that is answered with an error changes nothing in the cache. *)
LEMMA RefusalKeeps ==
  ASSUME IInv, NEW s \in Sender, s \in request, Answered(s, "error"),
         ResetTimer(KeyOf[s]), UNCHANGED <<cache, fired, sessions>>
  PROVE  IInv'
<1> USE ConstantTypes DEF IInv
<1>1. TypeOK' /\ Requests'
  <2>1. timer' \in [Session -> {"sleeping", "fired"}]
    BY DEF ResetTimer, TypeOK
  <2> QED
    BY <2>1, AnswerTyped DEF TypeOK
<1>2. reply[s] = "none" /\ reply'[s] = "error" /\ sender'[s] = sender[s] /\ step'[s] = step[s]
  BY DEF Answered, Requests, TypeOK
<1>3. \A t \in Sender : /\ Created(t)' <=> Created(t)
                        /\ Over(t)' <=> Over(t)
                        /\ Made(t)' = Made(t)
  BY <1>2, AnswerTyped DEF Created, Over, Made
<1> QED
  BY <1>1, <1>3, CacheFrame

(* create: the key is free, so that nobody else holds it. *)
LEMMA CreateKeeps ==
  ASSUME IInv, NEW s \in Sender, HandleCreate(s)
  PROVE  IInv'
<1> USE ConstantTypes DEF IInv
<1> DEFINE k == KeyOf[s]
<1>1. s \in request /\ step[s] = 0 /\ ResetTimer(k) /\ UNCHANGED <<sessions, fired>>
  BY DEF HandleCreate, CreateMessage
<1>2. CASE UNCHANGED cache /\ Answered(s, "error")
  BY <1>1, <1>2, RefusalKeeps
<1>3. CASE k \notin DOMAIN cache /\ cache' = With(k, <<>>) /\ Answered(s, "ok")
  <2>1. /\ DOMAIN cache' = DOMAIN cache \cup {k} /\ cache'[k] = <<>>
        /\ \A j \in DOMAIN cache : cache'[j] = cache[j]
    BY <1>3 DEF With
  <2>2. TypeOK' /\ Requests'
    <3>1. timer' \in [Session -> {"sleeping", "fired"}]
      BY <1>1 DEF ResetTimer, TypeOK
    <3>2. DOMAIN cache' \subseteq Key /\ \A j \in DOMAIN cache' : cache'[j] \in Seq(Chunk)
      <4>1. <<>> \in Seq(Chunk)
        OBVIOUS
      <4>2. k \in Key
        OBVIOUS
      <4> QED
        BY <2>1, <4>1, <4>2 DEF TypeOK
    <3> QED
      BY <1>1, <1>3, <3>1, <3>2, AnswerTyped DEF TypeOK
  <2>3. reply[s] = "none" /\ sender[s] # "done"
        /\ reply'[s] = "ok" /\ step'[s] = 0 /\ sender'[s] = sender[s]
    BY <1>1, <1>3 DEF Answered, Requests, TypeOK
  <2>4. /\ ~ Created(s) /\ ~ Over(s) /\ Holding(s)' /\ Made(s)' = 0 /\ ~ Over(s)'
    BY <1>1, <2>3 DEF Created, Over, Holding, Made
  <2>5. \A t \in Sender \ {s} : /\ Holding(t)' <=> Holding(t)
                                /\ Over(t)' <=> Over(t)
                                /\ Made(t)' = Made(t)
    BY <1>1, <1>3, AnswerTyped DEF Holding
  <2>6. \A t \in Sender \ {s} : KeyOf[t] = k => ~ Holding(t)
    BY <1>3, CacheAssumption DEF Kept, CacheAssumption
  <2>7. Prefix(s, 0) = <<>>
    BY DEF Prefix
  <2>8. Kept'
    <3>1. ASSUME NEW t \in Sender, Holding(t)'
          PROVE  /\ KeyOf[t] \in DOMAIN cache' => cache'[KeyOf[t]] = Prefix(t, Made(t)')
                 /\ KeyOf[t] \notin Removable => KeyOf[t] \in DOMAIN cache'
      BY <2>1, <2>4, <2>5, <2>6, <2>7, <3>1 DEF Kept
    <3>2. ASSUME NEW t \in Sender, NEW u \in Sender,
                 Holding(t)', Holding(u)', KeyOf[t] = KeyOf[u]
          PROVE  t = u
      BY <2>5, <2>6, <3>2 DEF Kept
    <3> QED
      BY <3>1, <3>2 DEF Kept
  <2>9. Once' /\ MessagesAreWhole'
    BY <1>1, <2>4, <2>5 DEF Once, MessagesAreWhole
  <2> QED
    BY <2>2, <2>8, <2>9
<1> QED
  BY <1>2, <1>3 DEF HandleCreate, CreateMessage

(* append: the chunk goes to the end of the message of its own task. *)
LEMMA AppendKeeps ==
  ASSUME IInv, NEW s \in Sender, AppendMessage(s)
  PROVE  IInv'
<1> USE ConstantTypes DEF IInv
<1> DEFINE k == KeyOf[s]
<1>1. s \in request /\ step[s] \in 1..Chunks /\ ResetTimer(k)
      /\ UNCHANGED <<sessions, fired>>
  BY DEF AppendMessage
<1>2. CASE UNCHANGED cache /\ Answered(s, "error")
  BY <1>1, <1>2, RefusalKeeps
<1>3. CASE /\ k \in DOMAIN cache /\ Answered(s, "ok")
           /\ cache' = With(k, Append(cache[k], <<s, step[s]>>))
  <2>1. /\ DOMAIN cache' = DOMAIN cache
        /\ cache'[k] = Append(cache[k], <<s, step[s]>>)
        /\ \A j \in DOMAIN cache \ {k} : cache'[j] = cache[j]
    BY <1>3 DEF With
  <2>2. TypeOK' /\ Requests'
    <3>1. timer' \in [Session -> {"sleeping", "fired"}]
      BY <1>1 DEF ResetTimer, TypeOK
    <3>2. <<s, step[s]>> \in Chunk
      BY <1>1 DEF Chunk
    <3>3. cache'[k] \in Seq(Chunk)
      <4>1. cache[k] \in Seq(Chunk)
        BY <1>3 DEF TypeOK
      <4> HIDE DEF k
      <4> QED
        BY <2>1, <3>2, <4>1
    <3>4. DOMAIN cache' \subseteq Key /\ \A j \in DOMAIN cache' : cache'[j] \in Seq(Chunk)
      BY <2>1, <3>3 DEF TypeOK
    <3> QED
      BY <1>1, <1>3, <3>1, <3>4, AnswerTyped DEF TypeOK
  <2>3. reply[s] = "none" /\ reply'[s] = "ok" /\ step'[s] = step[s] /\ sender'[s] = sender[s]
    BY <1>1, <1>3 DEF Answered, Requests, TypeOK
  <2>4. /\ Holding(s) /\ Holding(s)' /\ ~ Over(s) /\ ~ Over(s)'
        /\ Made(s) = step[s] - 1 /\ Made(s)' = step[s]
    BY <1>1, <2>3 DEF Created, Over, Holding, Made
  <2>5. \A t \in Sender \ {s} : /\ Holding(t)' <=> Holding(t)
                                /\ Over(t)' <=> Over(t)
                                /\ Made(t)' = Made(t)
    BY <1>1, <1>3, AnswerTyped DEF Holding
  <2>6. cache'[k] = Prefix(s, Made(s)')
    <3>1. cache[k] = Prefix(s, step[s] - 1)
      BY <1>3, <2>4 DEF Kept
    <3>2. step[s] - 1 \in Nat /\ (step[s] - 1) + 1 = step[s]
      BY <1>1
    <3> QED
      BY <2>1, <2>4, <3>1, <3>2, PrefixGrows
  <2>7. \A t \in Sender \ {s} : Holding(t) => KeyOf[t] # k
    BY <2>4 DEF Kept
  <2>8. Kept'
    <3>1. ASSUME NEW t \in Sender, Holding(t)'
          PROVE  /\ KeyOf[t] \in DOMAIN cache' => cache'[KeyOf[t]] = Prefix(t, Made(t)')
                 /\ KeyOf[t] \notin Removable => KeyOf[t] \in DOMAIN cache'
      BY <2>1, <2>4, <2>5, <2>6, <2>7, <3>1 DEF Kept
    <3>2. ASSUME NEW t \in Sender, NEW u \in Sender,
                 Holding(t)', Holding(u)', KeyOf[t] = KeyOf[u]
          PROVE  t = u
      BY <2>4, <2>5, <3>2 DEF Kept
    <3> QED
      BY <3>1, <3>2 DEF Kept
  <2>9. Once' /\ MessagesAreWhole'
    BY <1>1, <2>4, <2>5 DEF Once, MessagesAreWhole
  <2> QED
    BY <2>2, <2>8, <2>9
<1> QED
  BY <1>2, <1>3 DEF AppendMessage

(***************************************************************************)
(* process: the holder has sent all of its chunks, so that its message is  *)
(* whole; it holds the key no longer, and nobody else does.                *)
(***************************************************************************)
LEMMA ProcessKeeps ==
  ASSUME IInv, NEW s \in Sender, ProcessMessage(s)
  PROVE  IInv'
<1> USE ConstantTypes DEF IInv
<1> DEFINE k == KeyOf[s]
<1>1. s \in request /\ step[s] = Chunks + 1 /\ ResetTimer(k)
  BY DEF ProcessMessage
<1>2. CASE UNCHANGED <<fired, cache, sessions>> /\ Answered(s, "error")
  BY <1>1, <1>2, RefusalKeeps
<1>3. CASE /\ k \in DOMAIN cache /\ Answered(s, "ok")
           /\ fired' = Append(fired, cache[k])
           /\ cache' = Without(k)
           /\ sessions' \in {sessions, sessions \ {k}}
  <2>1. /\ DOMAIN cache' = DOMAIN cache \ {k}
        /\ \A j \in DOMAIN cache \ {k} : cache'[j] = cache[j]
    BY <1>3 DEF Without
  <2>2. TypeOK' /\ Requests'
    <3>1. timer' \in [Session -> {"sleeping", "fired"}]
      BY <1>1 DEF ResetTimer, TypeOK
    <3>2. DOMAIN cache' \subseteq Key /\ \A j \in DOMAIN cache' : cache'[j] \in Seq(Chunk)
      BY <2>1 DEF TypeOK
    <3>3. fired' \in Seq(Seq(Chunk))
      BY <1>3 DEF TypeOK
    <3> QED
      BY <1>1, <1>3, <3>1, <3>2, <3>3, AnswerTyped DEF TypeOK
  <2>3. reply[s] = "none" /\ sender[s] # "done"
        /\ reply'[s] = "ok" /\ step'[s] = step[s] /\ sender'[s] = sender[s]
    BY <1>1, <1>3 DEF Answered, Requests, TypeOK
  <2>4. /\ Holding(s) /\ ~ Over(s) /\ ~ Holding(s)' /\ Over(s)' /\ Made(s) = Chunks
    BY <1>1, <2>3 DEF Created, Over, Holding, Made
  <2>5. \A t \in Sender \ {s} : /\ Holding(t)' <=> Holding(t)
                                /\ Over(t)' <=> Over(t)
                                /\ Made(t)' = Made(t)
    BY <1>1, <1>3, AnswerTyped DEF Holding
  <2>6. cache[k] = Package(s)
    BY <1>3, <2>4 DEF Kept, Prefix, Package
  <2>7. \A t \in Sender \ {s} : Holding(t) => KeyOf[t] # k
    BY <2>4 DEF Kept
  <2>8. Kept'
    BY <2>1, <2>4, <2>5, <2>7 DEF Kept
  <2>9. /\ Len(fired') = Len(fired) + 1 /\ Len(fired) \in Nat
        /\ fired'[Len(fired) + 1] = Package(s)
        /\ \A j \in 1..Len(fired) : fired'[j] = fired[j]
    BY <1>3, <2>6 DEF TypeOK
  <2>10. Once'
    <3>1. \A j \in 1..Len(fired') : fired'[j] = Package(s) <=> j = Len(fired) + 1
      BY <2>4, <2>9 DEF Once
    <3>2. \A t \in Sender \ {s} : fired'[Len(fired) + 1] # Package(t)
      BY <2>9, PackagesDiffer
    <3>3. ASSUME NEW t \in Sender \ {s}, Over(t)
          PROVE  \E i \in 1..Len(fired') :
                   \A j \in 1..Len(fired') : fired'[j] = Package(t) <=> j = i
      <4>1. PICK i \in 1..Len(fired) :
              \A j \in 1..Len(fired) : fired[j] = Package(t) <=> j = i
        BY <3>3 DEF Once
      <4>2. i \in 1..Len(fired') /\ i # Len(fired) + 1
        BY <2>9
      <4>3. \A j \in 1..Len(fired') : fired'[j] = Package(t) <=> j = i
        BY <2>9, <3>2, <4>1, <4>2
      <4> QED
        BY <4>2, <4>3
    <3>4. ASSUME NEW t \in Sender \ {s}, ~ Over(t)
          PROVE  \A j \in 1..Len(fired') : fired'[j] # Package(t)
      BY <2>9, <3>2, <3>4 DEF Once
    <3>5. Package(s)' = Package(s) /\ \A t \in Sender : Package(t)' = Package(t)
      BY DEF Package
    <3>6. Len(fired) + 1 \in 1..Len(fired')
      BY <2>9
    <3> QED
      BY <2>4, <2>5, <3>1, <3>3, <3>4, <3>6 DEF Once
  <2>11. MessagesAreWhole'
    BY <2>9 DEF MessagesAreWhole
  <2> QED
    BY <2>2, <2>8, <2>10, <2>11
<1> QED
  BY <1>2, <1>3 DEF ProcessMessage

(* remove: of a key that only one message has. *)
LEMMA RemoveKeeps ==
  ASSUME IInv, NEW k \in Key, RemoveMessage(k)
  PROVE  IInv'
<1> USE DEF IInv, RemoveMessage
<1>1. /\ DOMAIN cache' = DOMAIN cache \ {k} /\ k \in Removable
      /\ \A j \in DOMAIN cache \ {k} : cache'[j] = cache[j]
  BY DEF Without
<1>2. TypeOK' /\ Requests'
  BY <1>1 DEF TypeOK, Requests
<1>3. \A t \in Sender : /\ Holding(t)' <=> Holding(t)
                        /\ Over(t)' <=> Over(t)
                        /\ Made(t)' = Made(t)
  BY DEF Holding, Created, Over, Made
<1>4. Kept'
  BY <1>1, <1>3 DEF Kept
<1>5. Once' /\ MessagesAreWhole'
  BY <1>3 DEF Once, MessagesAreWhole
<1> QED
  BY <1>2, <1>4, <1>5

-----------------------------------------------------------------------------
(* IInv holds at first and is kept by every step. *)
LEMMA InitIInv == Init => IInv
<1> SUFFICES ASSUME Init PROVE IInv
  OBVIOUS
<1> USE ConstantTypes DEF Init
<1>1. DOMAIN cache = {} /\ fired = <<>> /\ Len(fired) = 0
  OBVIOUS
<1>2. TypeOK
  BY <1>1 DEF TypeOK
<1>3. Requests
  BY DEF Requests
<1>4. ASSUME NEW s \in Sender PROVE ~ Created(s) /\ ~ Over(s)
  <2>1. step[s] = 0 /\ reply[s] = "none" /\ sender[s] = "idle"
    OBVIOUS
  <2> QED
    BY <2>1 DEF Created, Over
<1>5. Kept /\ Once /\ MessagesAreWhole
  BY <1>1, <1>4 DEF Kept, Holding, Once, MessagesAreWhole
<1> QED
  BY <1>2, <1>3, <1>5 DEF IInv

LEMMA NextIInv == IInv /\ [Next]_vars => IInv'
<1> SUFFICES ASSUME IInv, [Next]_vars PROVE IInv'
  OBVIOUS
<1>1. ASSUME NEW s \in Sender,
             \/ SendChunks(s) \/ NextCall(s) \/ GiveUp(s)
             \/ HandleCreate(s) \/ AppendMessage(s) \/ ProcessMessage(s) \/ Lose(s)
      PROVE  IInv'
  BY <1>1, SenderKeeps, CreateKeeps, AppendKeeps, ProcessKeeps
<1>2. ASSUME NEW k \in Key, RemoveMessage(k) PROVE IInv'
  BY <1>2, RemoveKeeps
<1>3. ASSUME NEW k \in Session, TimerFires(k) \/ CloseSession(k) PROVE IInv'
  BY <1>3, SessionKeeps
<1>4. CASE UNCHANGED vars
  BY <1>4 DEF vars, IInv, TypeOK, Requests, Kept, Holding, Created, Over, Made,
              Once, MessagesAreWhole
<1> QED
  BY <1>1, <1>2, <1>3, <1>4 DEF Next

(***************************************************************************)
(* For any messages that share keys in any way, any number of chunks, and  *)
(* whatever is lost, late or given up, the state is well typed             *)
(* (_send_chunks, message_cache).                                          *)
(***************************************************************************)
THEOREM TypeCorrect == Spec => []TypeOK
<1>1. IInv => TypeOK
  BY DEF IInv
<1> QED
  BY InitIInv, NextIInv, <1>1, PTL DEF Spec

(* What is processed is always the whole message of one sender, although   *)
(* large messages of a session share a key (message_cache.process).        *)
THEOREM WholeMessages == Spec => []MessagesAreWhole
<1>1. IInv => MessagesAreWhole
  BY DEF IInv
<1> QED
  BY InitIInv, NextIInv, <1>1, PTL DEF Spec

(* A sending task that ended without an error has had its message          *)
(* processed exactly once.                                                 *)
THEOREM ProcessedOnce == Spec => []DoneIsProcessed
<1>1. IInv => DoneIsProcessed
  BY DEF IInv, Requests, Once, Over, DoneIsProcessed
<1> QED
  BY InitIInv, NextIInv, <1>1, PTL DEF Spec
=============================================================================
