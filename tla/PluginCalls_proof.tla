----------------------- MODULE PluginCalls_proof -----------------------
(***************************************************************************)
(* Proofs about the calls and callbacks of RPC version 1, for any calls,   *)
(* functions and handlers.                                                 *)
(*                                                                         *)
(* Layer 1 is about one ReferenceStore: what Put, PutAll, Trim and Fetch   *)
(* do to a store that is Good.  PutAll is a fold; that it is the chain of  *)
(* its Puts is shown by induction, as the minimum of a set of counter-     *)
(* examples.  Layer 2 is about the steps.  Base is inductive and needs no  *)
(* more than CallsAssumption.  Full is inductive when no function of the   *)
(* host's is called twice (CalledOnce): the host uses the id of a function *)
(* that was called again, and a second call takes what is there now.       *)
(* Layer 3 rests on Full: that a pending call is under way, and, with a    *)
(* history variable for what each method did, that the calls keep the      *)
(* promise of RpcPromise.                                                  *)
(***************************************************************************)
EXTENDS PluginCalls, WellFoundedInduction, TLAPS

-----------------------------------------------------------------------------
(* Induction, least elements and the fold that PutAll is.                  *)

(* Induction over Nat, for a set instead of a predicate.                   *)
LEMMA Natural ==
  ASSUME NEW S, 0 \in S, \A n \in Nat : n \in S => n + 1 \in S
  PROVE  Nat \subseteq S
<1> DEFINE Less == OpToRel(<, Nat)
           T == Nat \ S
<1>1. IsWellFoundedOn(Less, Nat)
  BY NatLessThanWellFounded, Zenon
<1>2. \A m, n \in Nat : m < n => <<m, n>> \in Less
  BY DEF OpToRel
<1> SUFFICES ASSUME T # {} PROVE FALSE
  OBVIOUS
<1> HIDE DEF Less
<1>3. PICK n \in T : \A m \in T : ~ (<<m, n>> \in Less)
  <2>1. T \subseteq Nat
    OBVIOUS
  <2> HIDE DEF T
  <2> QED
    BY <1>1, <2>1, WFMin
<1>4. n \in Nat /\ n # 0 /\ n \notin S
  OBVIOUS
<1>5. n - 1 \in Nat /\ <<n - 1, n>> \in Less
  BY <1>2, <1>4
<1>6. n - 1 \in S
  BY <1>3, <1>5
<1>7. (n - 1) + 1 = n
  BY <1>4
<1> QED
  BY <1>4, <1>5, <1>6, <1>7

(* A set of numbers that is not empty has a least element.                 *)
LEMMA Least ==
  ASSUME NEW S, S \subseteq Nat, S # {}
  PROVE  \E n \in S : \A m \in S : n <= m
<1> DEFINE Less == OpToRel(<, Nat)
<1>1. IsWellFoundedOn(Less, Nat)
  BY NatLessThanWellFounded, Zenon
<1>2. \A m, n \in Nat : m < n => <<m, n>> \in Less
  BY DEF OpToRel
<1> HIDE DEF Less
<1>3. PICK n \in S : \A m \in S : ~ (<<m, n>> \in Less)
  BY <1>1, WFMin
<1>4. ASSUME NEW m \in S
      PROVE  n <= m
  <2>1. ~ (m < n)
    BY <1>2, <1>3
  <2> QED
    BY <2>1
<1> QED
  BY <1>4

(* Max and Min of the community modules are the greatest and the least.    *)
LEMMA MaxIs ==
  ASSUME NEW S, S \subseteq Int, NEW m \in S, \A i \in S : i <= m
  PROVE  Max(S) = m
<1>1. Max(S) \in S /\ \A i \in S : i <= Max(S)
  BY DEF Max
<1>2. m \in Int /\ Max(S) \in Int /\ m <= Max(S) /\ Max(S) <= m
  BY <1>1
<1> QED
  BY <1>2

(* The same for Min.                                                       *)
LEMMA MinIs ==
  ASSUME NEW S, S \subseteq Int, NEW m \in S, \A i \in S : m <= i
  PROVE  Min(S) = m
<1>1. Min(S) \in S /\ \A i \in S : Min(S) <= i
  BY DEF Min
<1>2. m \in Int /\ Min(S) \in Int /\ m <= Min(S) /\ Min(S) <= m
  BY <1>1
<1> QED
  BY <1>2

(* What FoldLeft chooses: the fold of t over every set of its positions.   *)
Folds(g, s, t, n) ==
  g = [S \in SUBSET (1..n) |->
         IF S = {} THEN s ELSE Put(g[S \ {Max(S)}], t[Max(S)])]

(* PutAll is the fold over all the positions.                              *)
LEMMA FoldIs ==
  ASSUME NEW s, NEW t, NEW n \in Nat, DOMAIN t = 1..n
  PROVE  PutAll(s, t) = (CHOOSE g : Folds(g, s, t, n))[1..n]
BY DEF PutAll, FoldLeft, MapThenFoldSet, Folds

(* There is such a fold, so that the CHOOSE is not arbitrary.              *)
LEMMA FoldExists ==
  ASSUME NEW s, NEW t, NEW n \in Nat
  PROVE  \E g : Folds(g, s, t, n)
<1> DEFINE N == {m \in Nat : \E g : Folds(g, s, t, m)}
<1>1. 0 \in N
  <2>1. Folds([S \in SUBSET (1..0) |-> s], s, t, 0)
    BY DEF Folds
  <2> QED
    BY <2>1
<1>2. ASSUME NEW m \in Nat, m \in N
      PROVE  m + 1 \in N
  <2>1. PICK g : Folds(g, s, t, m)
    BY <1>2
  <2> DEFINE h == [S \in SUBSET (1..(m + 1)) |->
                     IF m + 1 \in S THEN Put(g[S \ {m + 1}], t[m + 1]) ELSE g[S]]
  <2>2. ASSUME NEW S \in SUBSET (1..(m + 1)), m + 1 \in S
        PROVE  h[S] = Put(h[S \ {Max(S)}], t[Max(S)])
    <3>1. Max(S) = m + 1
      <4>1. S \subseteq Int /\ \A i \in S : i <= m + 1
        OBVIOUS
      <4> QED
        BY <2>2, <4>1, MaxIs
    <3>2. h[S \ {m + 1}] = g[S \ {m + 1}]
      OBVIOUS
    <3> QED
      BY <2>2, <3>1, <3>2
  <2>3. ASSUME NEW S \in SUBSET (1..(m + 1)), m + 1 \notin S, S # {}
        PROVE  h[S] = Put(h[S \ {Max(S)}], t[Max(S)])
    <3>1. S \in SUBSET (1..m)
      BY <2>3
    <3>2. h[S] = g[S] /\ h[S \ {Max(S)}] = g[S \ {Max(S)}]
      BY <2>3
    <3>3. g[S] = Put(g[S \ {Max(S)}], t[Max(S)])
      BY <2>1, <2>3, <3>1 DEF Folds
    <3> QED
      BY <3>2, <3>3
  <2>4. h[{}] = s
    BY <2>1 DEF Folds
  <2> HIDE DEF h
  <2>5. h = [S \in SUBSET (1..(m + 1)) |-> h[S]]
    BY DEF h
  <2>6. \A S \in SUBSET (1..(m + 1)) :
          h[S] = IF S = {} THEN s ELSE Put(h[S \ {Max(S)}], t[Max(S)])
    BY <2>2, <2>3, <2>4
  <2>7. Folds(h, s, t, m + 1)
    BY <2>5, <2>6 DEF Folds
  <2> QED
    BY <2>7
<1> HIDE DEF N
<1>3. n \in N
  BY <1>1, <1>2, Natural
<1> QED
  BY <1>3 DEF N

(* PutAll is the last of a chain of stores, each one Put after the other.  *)
Chain(chain, s, t, n) == /\ chain[0] = s
                         /\ \A k \in 1..n : chain[k] = Put(chain[k - 1], t[k])
                         /\ PutAll(s, t) = chain[n]

(* There is one, when t has n things.                                      *)
LEMMA PutAllSteps ==
  ASSUME NEW s, NEW t, NEW n \in Nat, DOMAIN t = 1..n
  PROVE  \E chain : Chain(chain, s, t, n)
<1> DEFINE g == CHOOSE g : Folds(g, s, t, n)
           chain == [k \in 0..n |-> g[1..k]]
<1>1. Folds(g, s, t, n)
  BY FoldExists
<1>2. PutAll(s, t) = g[1..n]
  BY FoldIs
<1> HIDE DEF g
<1>3. chain[0] = s
  BY <1>1 DEF Folds
<1>4. ASSUME NEW k \in 1..n
      PROVE  chain[k] = Put(chain[k - 1], t[k])
  <2>1. Max(1..k) = k
    <3>1. k \in 1..k /\ 1..k \subseteq Int /\ \A i \in 1..k : i <= k
      OBVIOUS
    <3> QED
      BY <3>1, MaxIs
  <2>2. (1..k) \in SUBSET (1..n) /\ (1..k) # {} /\ (1..k) \ {k} = 1..(k - 1)
    <3>1. k \in 1..k /\ k \in Nat /\ k <= n
      OBVIOUS
    <3> QED
      BY <3>1
  <2>3. g[1..k] = Put(g[1..(k - 1)], t[k])
    BY <1>1, <2>1, <2>2 DEF Folds
  <2> QED
    BY <2>3
<1>5. PutAll(s, t) = chain[n]
  BY <1>2
<1> HIDE DEF chain
<1>6. Chain(chain, s, t, n)
  BY <1>3, <1>4, <1>5 DEF Chain
<1> QED
  BY <1>6

-----------------------------------------------------------------------------
(* Layer 1: one ReferenceStore.                                            *)

(* The id that was sent out for a thing that is in the store is its own.   *)
Coherent(s) ==
  /\ s \in [entry : UNION {[D -> Thing] : D \in SUBSET Nat},
            free : SUBSET Nat, id : [Thing -> Nat \cup {NoId}]]
  /\ \A i \in DOMAIN s.entry : s.id[s.entry[i]] = i

(* The numbers below the largest free id: in use or free at the host,      *)
(* never used again at the plugin.                                         *)
NumberedTo(p, s, m) ==
  /\ m \in s.free
  /\ \A i \in s.free : i <= m /\ i \notin DOMAIN s.entry
  /\ \A i \in DOMAIN s.entry : i < m
  /\ p = Host => \A i \in 0..(m - 1) : i \in s.free \/ i \in DOMAIN s.entry
  /\ p = Plugin =>
       /\ s.free = {m}
       /\ \A x \in Thing : /\ s.id[x] < m
                           /\ s.id[x] \in DOMAIN s.entry => s.entry[s.id[x]] = x

Good(p, s) == Coherent(s) /\ \E m \in Nat : NumberedTo(p, s, m)

(* A thing is in the store, under the id that was sent out for it.         *)
Holds(s, x) == s.id[x] \in DOMAIN s.entry /\ s.entry[s.id[x]] = x

(* From s to t the things of X were put, and nothing else happened.        *)
Added(s, t, X) ==
  /\ \A x \in X : Holds(t, x)
  /\ \A x \in Thing \ X : t.id[x] = s.id[x]
  /\ \A i \in DOMAIN s.entry : i \in DOMAIN t.entry /\ t.entry[i] = s.entry[i]
  /\ \A i \in DOMAIN t.entry : i \in DOMAIN s.entry \/ t.entry[i] \in X

(* The fields of a coherent store.                                         *)
LEMMA StoreFields ==
  ASSUME NEW s, Coherent(s)
  PROVE  /\ DOMAIN s.entry \subseteq Nat
         /\ \A i \in DOMAIN s.entry : s.entry[i] \in Thing /\ s.id[s.entry[i]] = i
         /\ s.entry \in [DOMAIN s.entry -> Thing]
         /\ s.free \subseteq Nat
         /\ s.id \in [Thing -> Nat \cup {NoId}]
         /\ s = [entry |-> s.entry, free |-> s.free, id |-> s.id]
<1> DEFINE F == UNION {[D -> Thing] : D \in SUBSET Nat}
<1>1. s \in [entry : F, free : SUBSET Nat, id : [Thing -> Nat \cup {NoId}]]
  BY DEF Coherent
<1>2. PICK D \in SUBSET Nat : s.entry \in [D -> Thing]
  BY <1>1
<1>3. /\ s.free \subseteq Nat
      /\ s.id \in [Thing -> Nat \cup {NoId}]
      /\ s = [entry |-> s.entry, free |-> s.free, id |-> s.id]
  <2> HIDE DEF F
  <2> QED
    BY <1>1
<1>4. DOMAIN s.entry = D
  BY <1>2
<1>5. \A i \in DOMAIN s.entry : s.id[s.entry[i]] = i
  BY DEF Coherent
<1> QED
  BY <1>2, <1>3, <1>4, <1>5

(* A record of such fields is a coherent store.                            *)
LEMMA StoreMade ==
  ASSUME NEW D \in SUBSET Nat, NEW e \in [D -> Thing],
         NEW free \in SUBSET Nat, NEW id \in [Thing -> Nat \cup {NoId}],
         \A i \in D : id[e[i]] = i
  PROVE  Coherent([entry |-> e, free |-> free, id |-> id])
<1>1. e \in UNION {[E -> Thing] : E \in SUBSET Nat}
  OBVIOUS
<1> QED
  BY <1>1 DEF Coherent

(* What has no id is not in the store.                                     *)
LEMMA NoIdNotHeld ==
  ASSUME NEW s, Coherent(s), NEW x \in Thing, s.id[x] = NoId
  PROVE  \A i \in DOMAIN s.entry : s.entry[i] # x
  BY StoreFields DEF NoId

(* Put gives a thing without an id the least of the free ids, and keeps    *)
(* the store good.                                                         *)
LEMMA PutOK ==
  ASSUME NEW p \in Peer, NEW s, Good(p, s), NEW x \in Thing, s.id[x] = NoId
  PROVE  /\ Good(p, Put(s, x))
         /\ Added(s, Put(s, x), {x})
         /\ 0 \notin Put(s, x).free
         /\ Put(s, x).id[x] \in s.free
<1> DEFINE i == Min(s.free)
           e == [j \in DOMAIN s.entry \cup {i} |->
                   IF j = i THEN x ELSE s.entry[j]]
           free == IF s.free = {i} THEN {i + 1} ELSE s.free \ {i}
           id == [s.id EXCEPT ![x] = i]
           t == [entry |-> e, free |-> free, id |-> id]
<1>1. /\ DOMAIN s.entry \subseteq Nat
      /\ \A j \in DOMAIN s.entry : s.entry[j] \in Thing /\ s.id[s.entry[j]] = j
      /\ s.free \subseteq Nat
      /\ s.id \in [Thing -> Nat \cup {NoId}]
  BY StoreFields DEF Good
<1>2. PICK m \in Nat : NumberedTo(p, s, m)
  BY DEF Good
<1>3. m \in s.free /\ \A j \in s.free : j <= m /\ j \notin DOMAIN s.entry
  BY <1>2 DEF NumberedTo
<1>4. i \in s.free /\ \A j \in s.free : i <= j
  <2>1. PICK k \in s.free : \A j \in s.free : k <= j
    BY <1>1, <1>3, Least
  <2>2. s.free \subseteq Int
    BY <1>1
  <2>3. i = k
    BY <2>1, <2>2, MinIs
  <2> QED
    BY <2>1, <2>3
<1>5. Put(s, x) = t
  BY DEF Put
<1> HIDE DEF i
<1>6. i \in Nat /\ i \notin DOMAIN s.entry
  BY <1>1, <1>3, <1>4
<1>7. DOMAIN e = DOMAIN s.entry \cup {i}
  OBVIOUS
<1>8. e[i] = x /\ \A j \in DOMAIN s.entry : e[j] = s.entry[j]
  BY <1>6
<1>9. \A y \in Thing : id[y] = IF y = x THEN i ELSE s.id[y]
  BY <1>1
<1>10. \A j \in DOMAIN s.entry : s.entry[j] # x
  BY NoIdNotHeld DEF Good
<1>11. id \in [Thing -> Nat \cup {NoId}]
  BY <1>1, <1>6
<1>12. free \in SUBSET Nat
  BY <1>1, <1>6
<1>13. 0 \notin free
  <2>1. CASE s.free = {i}
    BY <1>6, <2>1
  <2>2. CASE s.free # {i}
    <3>1. 0 \in s.free => i = 0
      BY <1>4, <1>6
    <3> QED
      BY <2>2, <3>1
  <2> QED
    BY <2>1, <2>2
<1>14. e \in [DOMAIN s.entry \cup {i} -> Thing]
  <2>1. \A j \in DOMAIN e : e[j] \in Thing
    BY <1>1, <1>7, <1>8
  <2> QED
    BY <1>7, <2>1
<1> HIDE DEF e, id, free
<1>15. \A j \in DOMAIN s.entry \cup {i} : id[e[j]] = j
  BY <1>1, <1>8, <1>9, <1>10
<1>16. Coherent(t)
  <2>1. DOMAIN s.entry \cup {i} \in SUBSET Nat
    BY <1>1, <1>6
  <2> QED
    BY <1>11, <1>12, <1>14, <1>15, <2>1, StoreMade
<1>17. Added(s, t, {x})
  BY <1>7, <1>8, <1>9 DEF Added, Holds
<1>18. \E k \in Nat : NumberedTo(p, t, k)
  <2> DEFINE k == IF s.free = {i} THEN m + 1 ELSE m
  <2>1. k \in Nat /\ m <= k
    OBVIOUS
  <2>2. k \in free
    <3>1. CASE s.free = {i}
      BY <1>3, <3>1 DEF free
    <3>2. CASE s.free # {i}
      <4>1. PICK j \in s.free : j # i
        BY <1>4, <3>2
      <4>2. i <= j /\ j <= m /\ i \in Nat /\ j \in Nat
        BY <1>1, <1>3, <1>4
      <4>3. m # i
        BY <4>1, <4>2
      <4> QED
        BY <1>3, <3>2, <4>3 DEF free
    <3> QED
      BY <3>1, <3>2
  <2>3. \A j \in free : j <= k /\ j \notin DOMAIN e
    <3>1. CASE s.free = {i}
      <4>1. m = i /\ free = {m + 1} /\ k = m + 1
        BY <1>3, <3>1 DEF free
      <4>2. \A j \in DOMAIN s.entry : j < m
        BY <1>2 DEF NumberedTo
      <4>3. m + 1 \notin DOMAIN e
        BY <1>1, <1>7, <4>1, <4>2
      <4> QED
        BY <4>1, <4>3
    <3>2. CASE s.free # {i}
      BY <1>3, <1>7, <3>2 DEF free
    <3> QED
      BY <3>1, <3>2
  <2>4. \A j \in DOMAIN e : j < k
    <3>1. \A j \in DOMAIN s.entry : j < m
      BY <1>2 DEF NumberedTo
    <3>2. \A j \in DOMAIN s.entry : j < k
      BY <1>1, <2>1, <3>1
    <3>3. i < k
      <4>1. CASE s.free = {i}
        BY <1>3, <4>1
      <4>2. CASE s.free # {i}
        <5>1. k = m /\ k # i
          BY <2>2, <4>2 DEF free
        <5>2. i <= m
          BY <1>3, <1>4
        <5> QED
          BY <1>6, <5>1, <5>2
      <4> QED
        BY <4>1, <4>2
    <3> QED
      BY <1>7, <3>2, <3>3
  <2>5. ASSUME p = Host, NEW j \in 0..(k - 1)
        PROVE  j \in free \/ j \in DOMAIN e
    <3>1. \A l \in 0..(m - 1) : l \in s.free \/ l \in DOMAIN s.entry
      BY <1>2, <2>5 DEF NumberedTo
    <3>2. CASE s.free = {i}
      <4>1. m = i
        BY <1>3, <3>2
      <4>2. j \in 0..(m - 1) \/ j = i
        BY <3>2, <4>1
      <4> QED
        BY <1>7, <3>1, <3>2, <4>1, <4>2
    <3>3. CASE s.free # {i}
      <4>1. j \in s.free \/ j \in DOMAIN s.entry
        BY <3>1, <3>3
      <4> QED
        BY <1>7, <3>3, <4>1 DEF free
    <3> QED
      BY <3>2, <3>3
  <2>6. ASSUME p = Plugin
        PROVE  /\ free = {k}
               /\ \A y \in Thing : /\ id[y] < k
                                   /\ id[y] \in DOMAIN e => e[id[y]] = y
    <3>1. /\ s.free = {m}
          /\ \A y \in Thing : /\ s.id[y] < m
                              /\ s.id[y] \in DOMAIN s.entry => s.entry[s.id[y]] = y
      BY <1>2, <2>6 DEF NumberedTo
    <3>2. i = m
      BY <1>4, <3>1
    <3>3. k = m + 1 /\ free = {k}
      BY <3>1, <3>2 DEF free
    <3>4. \A y \in Thing : id[y] < k
      BY <1>1, <1>9, <3>1, <3>2, <3>3 DEF NoId
    <3>5. ASSUME NEW y \in Thing, id[y] \in DOMAIN e
          PROVE  e[id[y]] = y
      <4>1. CASE y = x
        BY <1>8, <1>9, <4>1
      <4>2. CASE y # x
        <5>1. id[y] = s.id[y] /\ s.id[y] < m
          BY <1>9, <3>1, <4>2
        <5>2. s.id[y] # i
          BY <1>6, <3>2, <5>1
        <5> QED
          BY <1>7, <1>8, <3>1, <3>5, <5>1, <5>2
      <4> QED
        BY <4>1, <4>2
    <3> QED
      BY <3>3, <3>4, <3>5
  <2> HIDE DEF k
  <2>7. NumberedTo(p, t, k)
    BY <2>2, <2>3, <2>4, <2>5, <2>6 DEF NumberedTo
  <2> QED
    BY <2>1, <2>7
<1>19. Good(p, t)
  BY <1>16, <1>18 DEF Good
<1>20. t.free = free /\ t.id[x] = i
  BY <1>9
<1> HIDE DEF t
<1> QED
  BY <1>4, <1>5, <1>13, <1>17, <1>19, <1>20

(* Two puts after each other.                                              *)
LEMMA AddedTwice ==
  ASSUME NEW s, NEW t, NEW u, NEW X, NEW Y,
         X \subseteq Thing, Y \subseteq Thing, X \cap Y = {},
         Added(s, t, X), Added(t, u, Y)
  PROVE  Added(s, u, X \cup Y)
<1>1. \A x \in X : Holds(t, x) /\ u.id[x] = t.id[x]
  BY DEF Added
<1>2. \A x \in X : Holds(u, x)
  BY <1>1 DEF Added, Holds
<1>3. \A x \in Y : Holds(u, x)
  BY DEF Added
<1>4. \A x \in Thing \ (X \cup Y) : u.id[x] = s.id[x]
  BY DEF Added
<1>5. \A i \in DOMAIN s.entry : i \in DOMAIN u.entry /\ u.entry[i] = s.entry[i]
  BY DEF Added
<1>6. \A i \in DOMAIN u.entry : i \in DOMAIN s.entry \/ u.entry[i] \in X \cup Y
  BY DEF Added
<1> QED
  BY <1>2, <1>3, <1>4, <1>5, <1>6 DEF Added

(* The n things of t have no id in s and differ from each other.           *)
Fresh(s, t, n) == /\ DOMAIN t = 1..n
                  /\ \A k \in 1..n : t[k] \in Thing /\ s.id[t[k]] = NoId
                  /\ \A j, k \in 1..n : t[j] = t[k] => j = k

(* In u they were put; only the first of them may have the id 0.           *)
AllPut(p, s, u, t, n) == /\ Good(p, u)
                         /\ Added(s, u, {t[k] : k \in 1..n})
                         /\ \A k \in 2..n : u.id[t[k]] # 0

(* PutAll puts things that have no id and differ from each other.          *)
LEMMA PutAllOK ==
  ASSUME NEW p \in Peer, NEW s, Good(p, s),
         NEW n \in Nat, NEW t, Fresh(s, t, n)
  PROVE  AllPut(p, s, PutAll(s, t), t, n)
<1>0. /\ DOMAIN t = 1..n
      /\ \A k \in 1..n : t[k] \in Thing /\ s.id[t[k]] = NoId
      /\ \A j, k \in 1..n : t[j] = t[k] => j = k
  BY DEF Fresh
<1>1. PICK chain : /\ chain[0] = s
                   /\ \A k \in 1..n : chain[k] = Put(chain[k - 1], t[k])
                   /\ PutAll(s, t) = chain[n]
  <2>1. \E chain : Chain(chain, s, t, n)
    BY <1>0, PutAllSteps
  <2> QED
    BY <2>1 DEF Chain
<1> DEFINE Upto(k) == {t[j] : j \in 1..k}
           OK(k) == /\ Good(p, chain[k])
                    /\ Added(s, chain[k], Upto(k))
                    /\ k > 0 => 0 \notin chain[k].free
                    /\ \A j \in 2..k : chain[k].id[t[j]] # 0
           N == {k \in Nat : k <= n => OK(k)}
<1>2. 0 \in N
  <2>1. Upto(0) = {} /\ \A j \in 2..0 : FALSE
    OBVIOUS
  <2> HIDE DEF Upto
  <2>2. Added(s, chain[0], Upto(0))
    BY <1>1, <2>1 DEF Added
  <2>3. Good(p, chain[0]) /\ ~ (0 > 0)
    BY <1>1
  <2>4. \A j \in 2..0 : chain[0].id[t[j]] # 0
    BY <2>1
  <2>5. OK(0)
    BY <2>2, <2>3, <2>4
  <2> HIDE DEF OK
  <2> QED
    BY <2>5
<1>3. ASSUME NEW k \in Nat, k \in N
      PROVE  k + 1 \in N
  <2> SUFFICES ASSUME k + 1 <= n
               PROVE  OK(k + 1)
    OBVIOUS
  <2> DEFINE c == chain[k]
             d == chain[k + 1]
             x == t[k + 1]
  <2>1. OK(k)
    BY <1>3
  <2>2. k + 1 \in 1..n /\ k + 1 > 0 /\ (k + 1) - 1 = k
    OBVIOUS
  <2>3. x \in Thing /\ s.id[x] = NoId
    BY <1>0, <2>2
  <2>4. \A j \in 1..k : j \in 1..n /\ t[j] # x
    BY <1>0, <2>2
  <2>5. x \notin Upto(k)
    BY <2>4
  <2>6. d = Put(c, x)
    BY <1>1, <2>2
  <2>7. Upto(k) \subseteq Thing /\ Upto(k + 1) = Upto(k) \cup {x}
    BY <1>0, <2>4, <2>2
  <2>8. \A j \in 2..k : t[j] \in Upto(k) /\ t[j] \in Thing /\ t[j] # x
    BY <1>0, <2>4
  <2>9. k = 0 \/ k > 0
    OBVIOUS
  <2>10. \A j \in 2..(k + 1) : k > 0 /\ (j \in 2..k \/ j = k + 1)
    OBVIOUS
  <2> HIDE DEF Upto
  <2>11. c.id[x] = NoId
    BY <2>1, <2>3, <2>5 DEF Added
  <2> HIDE DEF c, d, x
  <2>12. Good(p, c)
    BY <2>1 DEF c
  <2>13. /\ Good(p, d) /\ Added(c, d, {x})
         /\ 0 \notin d.free /\ d.id[x] \in c.free
    BY <2>3, <2>6, <2>11, <2>12, PutOK
  <2>14. Added(s, d, Upto(k + 1))
    <3>1. Added(s, c, Upto(k))
      BY <2>1 DEF c
    <3>2. Upto(k) \cap {x} = {} /\ {x} \subseteq Thing
      BY <2>3, <2>5
    <3> QED
      BY <2>7, <2>13, <3>1, <3>2, AddedTwice
  <2>15. ASSUME NEW j \in 2..(k + 1)
         PROVE  d.id[t[j]] # 0
    <3>1. CASE j \in 2..k
      <4>1. c.id[t[j]] # 0
        BY <2>1, <3>1 DEF c
      <4>2. d.id[t[j]] = c.id[t[j]]
        BY <2>8, <2>13, <3>1 DEF Added
      <4> QED
        BY <4>1, <4>2
    <3>2. CASE j = k + 1
      <4>1. 0 \notin c.free
        BY <2>1, <2>10 DEF c
      <4>2. t[j] = x
        BY <3>2 DEF x
      <4> QED
        BY <2>13, <4>1, <4>2
    <3> QED
      BY <2>10, <3>1, <3>2
  <2> QED
    BY <2>13, <2>14, <2>15 DEF d
<1>4. n \in N
  <2> HIDE DEF N
  <2>1. Nat \subseteq N
    BY <1>2, <1>3, Natural
  <2> QED
    BY <2>1
<1>5. OK(n)
  BY <1>4
<1> QED
  BY <1>1, <1>5 DEF AllPut

(* _releaseId keeps, of the free numbers at the end, the least.            *)
LEMMA TrimOK ==
  ASSUME NEW ids \in SUBSET Nat, NEW m \in ids, \A i \in ids : i <= m
  PROVE  \E r \in ids : /\ r..m \subseteq ids
                        /\ Trim(ids) = {i \in ids : i <= r}
<1> DEFINE K == {k \in 0..m : k..m \subseteq ids}
<1>1. m \in K /\ K \subseteq Nat
  OBVIOUS
<1>2. PICK r \in K : \A k \in K : r <= k
  BY <1>1, Least
<1>3. r \in ids /\ r \in Nat /\ r..m \subseteq ids
  BY <1>2
<1>4. Max(ids) = m
  <2>1. ids \subseteq Int
    OBVIOUS
  <2> QED
    BY <2>1, MaxIs
<1>5. ASSUME NEW i \in ids
      PROVE  (i - 1)..m \subseteq ids <=> ~ (i <= r)
  <2>1. i \in Nat /\ i <= m /\ m \in Nat
    OBVIOUS
  <2>2. ASSUME ~ (i <= r)
        PROVE  (i - 1)..m \subseteq ids
    <3>1. i - 1 >= r
      BY <1>3, <2>1, <2>2
    <3>2. (i - 1)..m \subseteq r..m
      BY <1>3, <2>1, <3>1
    <3> QED
      BY <1>3, <3>2
  <2>3. ASSUME (i - 1)..m \subseteq ids
        PROVE  ~ (i <= r)
    <3>1. i - 1 \in (i - 1)..m
      BY <2>1
    <3>2. i - 1 \in Nat
      BY <2>3, <3>1
    <3>3. i - 1 \in 0..m
      BY <2>1, <3>2
    <3>4. i - 1 \in K
      BY <2>3, <3>3
    <3>5. r <= i - 1
      BY <1>2, <3>4
    <3> QED
      BY <1>3, <2>1, <3>5
  <2> QED
    BY <2>2, <2>3
<1>6. Trim(ids) = {i \in ids : i <= r}
  BY <1>4, <1>5 DEF Trim
<1> QED
  BY <1>3, <1>6

(* The ids that a fetch of i removes.                                      *)
Gone(p, s, i) == {i} \cup (IF p = Host THEN Partner(s, i) \ {0} ELSE {})

(* Fetch removes these entries, changes no id that was sent out, and keeps *)
(* the store good: at the host what it removes is free again.              *)
LEMMA FetchOK ==
  ASSUME NEW p \in Peer, NEW s, Good(p, s), NEW i \in DOMAIN s.entry
  PROVE  /\ Good(p, Fetch(p, s, i))
         /\ Fetch(p, s, i).id = s.id
         /\ DOMAIN Fetch(p, s, i).entry = DOMAIN s.entry \ Gone(p, s, i)
         /\ \A j \in DOMAIN s.entry \ Gone(p, s, i) :
              Fetch(p, s, i).entry[j] = s.entry[j]
<1> DEFINE gone == Gone(p, s, i)
           e == [j \in DOMAIN s.entry \ gone |-> s.entry[j]]
           ids == s.free \cup (gone \cap DOMAIN s.entry)
           free == IF p = Host THEN Trim(ids) ELSE s.free
           t == [entry |-> e, free |-> free, id |-> s.id]
<1>1. /\ DOMAIN s.entry \subseteq Nat
      /\ \A j \in DOMAIN s.entry : s.entry[j] \in Thing /\ s.id[s.entry[j]] = j
      /\ s.free \subseteq Nat
      /\ s.id \in [Thing -> Nat \cup {NoId}]
      /\ s = [entry |-> s.entry, free |-> s.free, id |-> s.id]
  BY StoreFields DEF Good
<1>2. PICK m \in Nat : NumberedTo(p, s, m)
  BY DEF Good
<1>3. /\ m \in s.free /\ \A j \in s.free : j <= m /\ j \notin DOMAIN s.entry
      /\ \A j \in DOMAIN s.entry : j < m
  BY <1>2 DEF NumberedTo
<1>4. Fetch(p, s, i) = t
  BY <1>1 DEF Fetch, Gone
<1> HIDE DEF gone
<1>5. DOMAIN e = DOMAIN s.entry \ gone /\ \A j \in DOMAIN e : e[j] = s.entry[j]
  OBVIOUS
<1>6. e \in [DOMAIN s.entry \ gone -> Thing]
  BY <1>1
<1>7. ids \subseteq Nat /\ m \in ids /\ \A j \in ids : j <= m
  BY <1>1, <1>3
<1> HIDE DEF e
<1>8. ids \cap DOMAIN e = {}
  BY <1>3, <1>5
<1>9. PICK r \in ids : r..m \subseteq ids /\ Trim(ids) = {j \in ids : j <= r}
  <2> HIDE DEF ids
  <2> QED
    BY <1>7, TrimOK
<1>10. DOMAIN s.entry \subseteq DOMAIN e \cup ids /\ s.free \subseteq ids
  BY <1>5
<1> HIDE DEF ids
<1>11. free \in SUBSET Nat
  BY <1>1, <1>7, <1>9
<1>12. Coherent(t)
  <2>1. DOMAIN s.entry \ gone \in SUBSET Nat
    BY <1>1
  <2>2. \A j \in DOMAIN s.entry \ gone : s.id[e[j]] = j
    BY <1>1, <1>5
  <2> HIDE DEF free
  <2> QED
    BY <1>1, <1>6, <1>11, <2>1, <2>2, StoreMade
<1>13. CASE p = Host
  <2>1. free = {j \in ids : j <= r}
    BY <1>9, <1>13
  <2>2. r \in Nat /\ r <= m
    BY <1>7
  <2>3. r \in free
    BY <2>1, <2>2
  <2>4. \A j \in free : j <= r /\ j \notin DOMAIN e
    BY <1>8, <2>1
  <2>5. ASSUME NEW j \in DOMAIN e
        PROVE  j < r
    <3>1. j \in Nat /\ j < m /\ j \notin ids
      BY <1>1, <1>3, <1>5, <1>8
    <3>2. j \notin r..m
      BY <1>9, <3>1
    <3> QED
      BY <2>2, <3>1, <3>2
  <2>6. ASSUME NEW j \in 0..(r - 1)
        PROVE  j \in free \/ j \in DOMAIN e
    <3>1. j \in 0..(m - 1) /\ j <= r
      BY <2>2
    <3>2. j \in s.free \/ j \in DOMAIN s.entry
      BY <1>2, <1>13, <3>1 DEF NumberedTo
    <3>3. j \in ids \/ j \in DOMAIN e
      BY <1>10, <3>2
    <3> QED
      BY <2>1, <3>1, <3>3
  <2>7. p # Plugin
    BY <1>13, CallsAssumption
  <2> HIDE DEF free
  <2>8. NumberedTo(p, t, r)
    BY <2>3, <2>4, <2>5, <2>6, <2>7 DEF NumberedTo
  <2> QED
    BY <1>4, <1>5, <1>12, <2>2, <2>8 DEF Good, gone
<1>14. CASE p = Plugin
  <2>1. p # Host
    BY <1>14, CallsAssumption
  <2>2. free = s.free
    BY <2>1
  <2>3. \A x \in Thing : /\ s.id[x] < m
                         /\ s.id[x] \in DOMAIN e => e[s.id[x]] = x
    BY <1>2, <1>5, <1>14 DEF NumberedTo
  <2>4. s.free = {m}
    BY <1>2, <1>14 DEF NumberedTo
  <2>5. \A j \in s.free : j <= m /\ j \notin DOMAIN e
    BY <1>3, <1>5
  <2>6. \A j \in DOMAIN e : j < m
    BY <1>3, <1>5
  <2> HIDE DEF free
  <2>7. NumberedTo(p, t, m)
    BY <1>3, <2>1, <2>2, <2>3, <2>4, <2>5, <2>6 DEF NumberedTo
  <2> QED
    BY <1>4, <1>5, <1>12, <2>7 DEF Good, gone
<1> QED
  BY <1>13, <1>14 DEF Peer

-----------------------------------------------------------------------------
(* The things of a call, and the lists in which they are put.              *)

Half(c) == {Resolve(c), Reject(c)}
FunctionsTo(c, k) == {Passed(Args[c][j]) : j \in 1..k}
FunctionsOf(c) == FunctionsTo(c, Len(Args[c]))
ThingsOf(c) == Half(c) \cup FunctionsOf(c)

(* A call goes from one peer to the other.                                 *)
LEMMA Peers ==
  /\ \A p \in Peer : p = Host \/ p = Plugin
  /\ Host \in Peer /\ Plugin \in Peer /\ Host # Plugin
  /\ \A c \in Call : /\ Caller[c] \in Peer /\ Callee(c) \in Peer
                     /\ Callee(c) # Caller[c]
                     /\ Caller[c] = Plugin => Callee(c) = Host
                     /\ Caller[c] = Host => Callee(c) = Plugin
  BY CallsAssumption DEF Peer, Callee

(* A thing is a half of one promise or a function.                         *)
LEMMA Kinds ==
  /\ \A c \in Call : Half(c) \subseteq Thing /\ Resolve(c) # Reject(c)
  /\ \A c \in Call : \A x \in Half(c) : x[1] # "function" /\ x[2] = c
  /\ \A c \in Call : Resolve(c)[1] = "resolve" /\ Reject(c)[1] = "reject"
  /\ \A f \in Function : /\ Passed(f) \in Thing
                         /\ Passed(f)[1] = "function" /\ Passed(f)[2] = f
  /\ \A x \in Thing : x[1] = "function" => x[2] \in Function /\ x = Passed(x[2])
  /\ \A x \in Thing : x[1] # "function" => x[2] \in Call /\ x \in Half(x[2])
  BY DEF Half, Thing, Resolve, Reject, Passed

(* The arguments of a call are functions, and each belongs to one place.   *)
LEMMA Arguments ==
  ASSUME NEW c \in Call
  PROVE  /\ Args[c] \in Seq(Function) /\ Len(Args[c]) \in Nat
         /\ DOMAIN Args[c] = 1..Len(Args[c])
         /\ \A k \in 1..Len(Args[c]) : Args[c][k] \in Function
         /\ \A d \in Call : \A k \in 1..Len(Args[c]), j \in 1..Len(Args[d]) :
              Args[c][k] = Args[d][j] => c = d /\ k = j
<1>1. \A d \in Call : /\ Args[d] \in Seq(Function) /\ Len(Args[d]) \in Nat
                      /\ DOMAIN Args[d] = 1..Len(Args[d])
  BY CallsAssumption
<1>2. \A k \in 1..Len(Args[c]) : Args[c][k] \in Function
  BY <1>1
<1>3. ASSUME NEW d \in Call, NEW k \in DOMAIN Args[c], NEW j \in DOMAIN Args[d],
             Args[c][k] = Args[d][j]
      PROVE  c = d /\ k = j
  <2>1. Args[c][k] \in Function
    BY <1>1, <1>2
  <2> QED
    BY <1>3, <2>1, CallsAssumption
<1> QED
  BY <1>1, <1>2, <1>3

(* A thing belongs to one call.                                            *)
LEMMA OneOwner ==
  ASSUME NEW c \in Call, NEW d \in Call, NEW x \in ThingsOf(c), x \in ThingsOf(d)
  PROVE  c = d
<1>1. CASE x \in Half(c)
  <2>1. x[1] # "function" /\ x[2] = c
    BY <1>1, Kinds
  <2>2. x \notin FunctionsOf(d)
    BY <2>1, Arguments, Kinds DEF FunctionsOf, FunctionsTo
  <2> QED
    BY <2>1, <2>2, Kinds DEF ThingsOf
<1>2. CASE x \in FunctionsOf(c)
  <2>1. PICK k \in 1..Len(Args[c]) : x = Passed(Args[c][k])
    BY <1>2 DEF FunctionsOf, FunctionsTo
  <2>2. Args[c][k] \in Function /\ x[1] = "function" /\ x[2] = Args[c][k]
    BY <2>1, Arguments, Kinds
  <2>3. x \in FunctionsOf(d)
    BY <2>2, Kinds DEF ThingsOf
  <2>4. PICK j \in 1..Len(Args[d]) : x = Passed(Args[d][j])
    BY <2>3 DEF FunctionsOf, FunctionsTo
  <2>5. Args[d][j] = Args[c][k]
    BY <2>2, <2>4, Arguments, Kinds
  <2> QED
    BY <2>5, Arguments
<1> QED
  BY <1>1, <1>2 DEF ThingsOf

(* The sequence t lists the things of X, each once.                        *)
Lists(t, X) == /\ t \in Seq(Thing)
               /\ X = {t[k] : k \in 1..Len(t)}
               /\ \A j, k \in 1..Len(t) : t[j] = t[k] => j = k

(* One list after another.                                                 *)
LEMMA ListsBoth ==
  ASSUME NEW s, NEW t, NEW X, NEW Y, Lists(s, X), Lists(t, Y), X \cap Y = {}
  PROVE  /\ Lists(s \o t, X \cup Y)
         /\ \A k \in 1..Len(s) : (s \o t)[k] = s[k]
         /\ Len(s \o t) = Len(s) + Len(t)
<1>1. s \in Seq(Thing) /\ t \in Seq(Thing) /\ Len(s) \in Nat /\ Len(t) \in Nat
  BY DEF Lists
<1> DEFINE u == s \o t
           m == Len(s)
           n == Len(t)
<1>2. /\ u \in Seq(Thing) /\ Len(u) = m + n
      /\ \A k \in 1..(m + n) : u[k] = IF k <= m THEN s[k] ELSE t[k - m]
  BY <1>1
<1>3. m \in Nat /\ n \in Nat
  BY <1>1
<1>4. /\ X = {s[k] : k \in 1..m} /\ \A j, k \in 1..m : s[j] = s[k] => j = k
      /\ Y = {t[k] : k \in 1..n} /\ \A j, k \in 1..n : t[j] = t[k] => j = k
  BY DEF Lists
<1> HIDE DEF u, m, n
<1>5. \A k \in 1..m : k \in 1..(m + n) /\ u[k] = s[k] /\ u[k] \in X
  BY <1>2, <1>3, <1>4
<1>6. \A k \in 1..n : m + k \in 1..(m + n) /\ u[m + k] = t[k] /\ u[m + k] \in Y
  <2>1. ASSUME NEW k \in 1..n
        PROVE  m + k \in 1..(m + n) /\ u[m + k] = t[k] /\ u[m + k] \in Y
    <3>1. m + k \in 1..(m + n) /\ ~ (m + k <= m) /\ (m + k) - m = k
      BY <1>3
    <3>2. u[m + k] = t[k]
      BY <1>2, <3>1
    <3> QED
      BY <1>4, <3>1, <3>2
  <2> QED
    BY <2>1
<1>7. \A k \in 1..(m + n) : k \in 1..m \/ \E j \in 1..n : k = m + j
  <2>1. ASSUME NEW k \in 1..(m + n), k \notin 1..m
        PROVE  k - m \in 1..n /\ k = m + (k - m)
    BY <1>3, <2>1
  <2> QED
    BY <2>1
<1>8. X \cup Y = {u[k] : k \in 1..(m + n)}
  <2>1. \A x \in X \cup Y : \E k \in 1..(m + n) : x = u[k]
    BY <1>4, <1>5, <1>6
  <2>2. \A k \in 1..(m + n) : u[k] \in X \cup Y
    BY <1>5, <1>6, <1>7
  <2> QED
    BY <2>1, <2>2
<1>9. ASSUME NEW j \in 1..(m + n), NEW k \in 1..(m + n), u[j] = u[k]
      PROVE  j = k
  <2>1. CASE j \in 1..m /\ k \in 1..m
    BY <1>4, <1>5, <1>9, <2>1
  <2>2. CASE j \in 1..m /\ k \notin 1..m
    BY <1>5, <1>6, <1>7, <1>9, <2>2
  <2>3. CASE j \notin 1..m /\ k \in 1..m
    BY <1>5, <1>6, <1>7, <1>9, <2>3
  <2>4. CASE j \notin 1..m /\ k \notin 1..m
    <3>1. PICK a \in 1..n, b \in 1..n : j = m + a /\ k = m + b
      BY <1>7, <2>4
    <3>2. t[a] = t[b]
      BY <1>6, <1>9, <3>1
    <3> QED
      BY <1>4, <3>1, <3>2
  <2> QED
    BY <2>1, <2>2, <2>3, <2>4
<1>10. Lists(u, X \cup Y)
  BY <1>2, <1>8, <1>9 DEF Lists
<1> QED
  BY <1>2, <1>5, <1>10 DEF u, m, n

(* The lists the actions put: a promise, functions, or both.               *)
LEMMA ListsOf ==
  ASSUME NEW c \in Call, NEW k \in 0..Len(Args[c])
  PROVE  /\ Lists(Promise(c), Half(c))
         /\ Len(Promise(c)) = 2 /\ Promise(c)[2] = Reject(c)
         /\ Lists(Functions(c), FunctionsOf(c))
         /\ Lists(SubSeq(Functions(c), 1, k), FunctionsTo(c, k))
         /\ FunctionsTo(c, k) \subseteq FunctionsOf(c)
         /\ FunctionsOf(c) \subseteq Thing /\ Half(c) \cap FunctionsOf(c) = {}
<1> DEFINE n == Len(Args[c])
           F == Functions(c)
           G == SubSeq(F, 1, k)
<1>1. n \in Nat /\ DOMAIN Args[c] = 1..n /\ k \in Nat /\ k <= n
  BY Arguments
<1>2. \A j \in 1..n : Args[c][j] \in Function
  BY Arguments
<1>3. \A j \in 1..n : /\ F[j] = Passed(Args[c][j]) /\ F[j] \in Thing
                      /\ F[j][1] = "function" /\ F[j][2] = Args[c][j]
  BY <1>1, <1>2, Kinds DEF Functions
<1>4. \A i, j \in 1..n : F[i] = F[j] => i = j
  <2>1. \A i, j \in 1..n : Args[c][i] = Args[c][j] => i = j
    BY Arguments
  <2> HIDE DEF F, n
  <2> QED
    BY <1>3, <2>1
<1>5. F \in [1..n -> Thing]
  BY <1>1, <1>3 DEF Functions
<1>6. F \in Seq(Thing) /\ Len(F) = n
  <2> HIDE DEF F, n
  <2> QED
    BY <1>1, <1>5
<1>7. FunctionsOf(c) = {F[j] : j \in 1..n}
  BY <1>3 DEF FunctionsOf, FunctionsTo
<1>8. Lists(F, FunctionsOf(c))
  BY <1>4, <1>6, <1>7 DEF Lists
<1> HIDE DEF F, n
<1>9. G \in Seq(Thing) /\ Len(G) = k /\ \A j \in 1..k : G[j] = F[j]
  BY <1>1, <1>6
<1>10. FunctionsTo(c, k) = {G[j] : j \in 1..k}
  <2>1. \A j \in 1..k : j \in 1..n
    BY <1>1
  <2>2. \A j \in 1..k : G[j] = Passed(Args[c][j])
    BY <1>3, <1>9, <2>1
  <2> QED
    BY <2>2 DEF FunctionsTo
<1>11. Lists(G, FunctionsTo(c, k))
  BY <1>1, <1>4, <1>9, <1>10 DEF Lists
<1>12. FunctionsTo(c, k) \subseteq FunctionsOf(c)
  <2>1. 1..k \subseteq 1..n
    BY <1>1
  <2> QED
    BY <2>1 DEF FunctionsTo, FunctionsOf, n
<1>13. FunctionsOf(c) \subseteq Thing /\ Half(c) \cap FunctionsOf(c) = {}
  <2>1. \A x \in FunctionsOf(c) : x \in Thing /\ x[1] = "function"
    BY <1>3, <1>7
  <2> QED
    BY <2>1, Kinds
<1>14. /\ Lists(Promise(c), Half(c))
       /\ Len(Promise(c)) = 2 /\ Promise(c)[2] = Reject(c)
  <2> DEFINE P == Promise(c)
  <2>1. Resolve(c) \in Thing /\ Reject(c) \in Thing /\ Resolve(c) # Reject(c)
    BY Kinds DEF Half
  <2>2. P \in Seq(Thing) /\ Len(P) = 2 /\ P[1] = Resolve(c) /\ P[2] = Reject(c)
    BY <2>1 DEF Promise
  <2> HIDE DEF P
  <2>3. 1..Len(P) = {1, 2}
    BY <2>2
  <2>4. Half(c) = {P[j] : j \in 1..Len(P)}
    BY <2>2, <2>3 DEF Half
  <2>5. \A i, j \in 1..Len(P) : P[i] = P[j] => i = j
    BY <2>1, <2>2, <2>3
  <2>6. Lists(P, Half(c))
    BY <2>2, <2>4, <2>5 DEF Lists
  <2> QED
    BY <2>2, <2>6 DEF P
<1> QED
  BY <1>8, <1>11, <1>12, <1>13, <1>14 DEF F

(* What Keep does to the store of one peer.                                *)
LEMMA KeepOK ==
  ASSUME NEW p \in Peer, NEW s, Good(p, s), NEW t, NEW X, Lists(t, X),
         \A x \in X : s.id[x] = NoId
  PROVE  /\ Good(p, PutAll(s, t))
         /\ Added(s, PutAll(s, t), X)
         /\ Len(t) >= 2 => PutAll(s, t).id[t[2]] # 0
<1>1. /\ t \in Seq(Thing) /\ X = {t[k] : k \in 1..Len(t)}
      /\ \A j, k \in 1..Len(t) : t[j] = t[k] => j = k
  BY DEF Lists
<1> DEFINE n == Len(t)
<1>2. n \in Nat /\ DOMAIN t = 1..n
  BY <1>1
<1>3. \A k \in 1..n : t[k] \in Thing /\ s.id[t[k]] = NoId
  BY <1>1
<1>4. \A j, k \in 1..n : t[j] = t[k] => j = k
  BY <1>1
<1> HIDE DEF n
<1>5. /\ Good(p, PutAll(s, t))
      /\ Added(s, PutAll(s, t), {t[k] : k \in 1..n})
      /\ \A k \in 2..n : PutAll(s, t).id[t[k]] # 0
  <2>1. Fresh(s, t, n)
    BY <1>2, <1>3, <1>4 DEF Fresh
  <2>2. AllPut(p, s, PutAll(s, t), t, n)
    BY <1>2, <2>1, PutAllOK
  <2> QED
    BY <2>2 DEF AllPut
<1>6. n >= 2 => 2 \in 2..n
  BY <1>2
<1>7. X = {t[k] : k \in 1..n}
  BY <1>1 DEF n
<1> QED
  BY <1>5, <1>6, <1>7 DEF n

-----------------------------------------------------------------------------
(* The messages on their way to one peer.                                  *)

Message == ({"call"} \X Call) \cup ({"answer"} \X Nat \X Call)

About(m) == IF m[1] = "call" THEN m[2] ELSE m[3]
In(q) == {q[j] : j \in 1..Len(q)}
OneEach(q) == \A j, k \in 1..Len(q) : About(q[j]) = About(q[k]) => j = k
Queue(q) == q \in Seq(Message) /\ OneEach(q)

(* What a message is about.                                                *)
LEMMA Abouts ==
  ASSUME NEW c \in Call
  PROVE  /\ <<"call", c>> \in Message
         /\ <<"call", c>>[1] = "call" /\ About(<<"call", c>>) = c
         /\ \A i \in Nat : <<"answer", i, c>> \in Message
         /\ \A i : /\ <<"answer", i, c>>[1] = "answer"
                   /\ <<"answer", i, c>>[2] = i /\ <<"answer", i, c>>[3] = c
                   /\ About(<<"answer", i, c>>) = c
                   /\ \A d : <<"answer", i, c>> # <<"call", d>>
  BY DEF Message, About

(* A message is sent about a call that no message in the queue is about.   *)
LEMMA Sending ==
  ASSUME NEW q, Queue(q), NEW m \in Message, \A n \in In(q) : About(n) # About(m)
  PROVE  Queue(Append(q, m)) /\ In(Append(q, m)) = In(q) \cup {m}
<1> DEFINE r == Append(q, m)
           n == Len(q)
<1>1. /\ r \in Seq(Message) /\ n \in Nat /\ Len(r) = n + 1
      /\ \A j \in 1..n : r[j] = q[j]
      /\ r[n + 1] = m
  BY DEF Queue
<1>2. \A j \in 1..n : About(q[j]) # About(m)
  BY DEF In
<1>3. \A j, k \in 1..n : About(q[j]) = About(q[k]) => j = k
  BY DEF Queue, OneEach
<1>4. In(q) = {q[j] : j \in 1..n}
  BY DEF In
<1> HIDE DEF r, n
<1>5. \A j \in 1..(n + 1) : j \in 1..n \/ j = n + 1
  BY <1>1
<1>6. \A j \in 1..n : j \in 1..(n + 1)
  BY <1>1
<1>7. n + 1 \in 1..(n + 1)
  BY <1>1
<1>8. In(r) = In(q) \cup {m}
  <2>1. In(r) = {r[j] : j \in 1..(n + 1)}
    BY <1>1 DEF In
  <2> QED
    BY <1>1, <1>4, <1>5, <1>6, <1>7, <2>1
<1>9. OneEach(r)
  <2>1. ASSUME NEW j \in 1..(n + 1), NEW k \in 1..(n + 1), About(r[j]) = About(r[k])
        PROVE  j = k
    BY <1>1, <1>2, <1>3, <1>5, <2>1
  <2> QED
    BY <1>1, <2>1 DEF OneEach
<1> QED
  BY <1>1, <1>8, <1>9 DEF Queue, r

(* The first message is taken, and no other is about the same call.        *)
LEMMA Taking ==
  ASSUME NEW q, Queue(q), q # <<>>
  PROVE  /\ Head(q) \in In(q) /\ Queue(Tail(q))
         /\ In(Tail(q)) \subseteq In(q)
         /\ \A m \in In(q) : m = Head(q) \/ m \in In(Tail(q))
         /\ \A m \in In(Tail(q)) : About(m) # About(Head(q))
<1> DEFINE r == Tail(q)
           n == Len(q)
<1>1. /\ r \in Seq(Message) /\ n \in Nat /\ n > 0 /\ Len(r) = n - 1
      /\ \A j \in 1..(n - 1) : r[j] = q[j + 1]
      /\ Head(q) = q[1]
  BY DEF Queue
<1>2. \A j, k \in 1..n : About(q[j]) = About(q[k]) => j = k
  BY DEF Queue, OneEach
<1>3. In(q) = {q[j] : j \in 1..n} /\ In(r) = {r[j] : j \in 1..(n - 1)}
  BY <1>1 DEF In
<1> HIDE DEF r, n
<1>4. 1 \in 1..n
  BY <1>1
<1>5. \A j \in 1..(n - 1) : j + 1 \in 1..n /\ j + 1 # 1
  BY <1>1
<1>6. \A j \in 1..n : j = 1 \/ (j - 1 \in 1..(n - 1) /\ (j - 1) + 1 = j)
  BY <1>1
<1>7. Head(q) \in In(q)
  BY <1>1, <1>3, <1>4
<1>8. In(r) \subseteq In(q)
  BY <1>1, <1>3, <1>5
<1>9. ASSUME NEW m \in In(q)
      PROVE  m = Head(q) \/ m \in In(r)
  <2>1. PICK j \in 1..n : m = q[j]
    BY <1>3
  <2>2. CASE j = 1
    BY <1>1, <2>1, <2>2
  <2>3. CASE j # 1
    <3>1. j - 1 \in 1..(n - 1) /\ (j - 1) + 1 = j
      BY <1>6, <2>3
    <3>2. r[j - 1] = m
      BY <1>1, <2>1, <3>1
    <3> QED
      BY <1>3, <3>1, <3>2
  <2> QED
    BY <2>2, <2>3
<1>10. \A m \in In(r) : About(m) # About(Head(q))
  BY <1>1, <1>2, <1>3, <1>4, <1>5
<1>11. OneEach(r)
  <2>1. ASSUME NEW j \in 1..(n - 1), NEW k \in 1..(n - 1), About(r[j]) = About(r[k])
        PROVE  j = k
    <3>1. About(q[j + 1]) = About(q[k + 1])
      BY <1>1, <2>1
    <3>2. j + 1 = k + 1
      BY <1>2, <1>5, <3>1
    <3> QED
      BY <3>2
  <2> QED
    BY <1>1, <2>1 DEF OneEach
<1> QED
  BY <1>1, <1>7, <1>8, <1>9, <1>10, <1>11 DEF Queue, r

-----------------------------------------------------------------------------
(* Layer 2: the inductive invariant that needs no more than                *)
(* CallsAssumption.                                                        *)

Sent(c) == future[c] \notin {"none", "encoding", "unsent", "stuck"}

(* The promise of the call is in the store, or was.                        *)
Promised(c) == Sent(c) \/ (future[c] = "encoding" /\ Target[c] = NoFunction)

(* What call c has yet to put.                                             *)
Unput(c) ==
  CASE future[c] = "none" -> ThingsOf(c)
    [] future[c] = "encoding" ->
         IF Target[c] = NoFunction THEN FunctionsOf(c) ELSE Half(c)
    [] future[c] = "stuck" -> Half(c)
    [] OTHER -> {}

Types ==
  /\ future \in [Call -> {"none", "encoding", "pending", "unsent", "stuck",
                          "done", "failed", "handled", "cancelled"}]
  /\ answeredBy \in [Call -> Call \cup {NoCall}]
  /\ method \in [Call -> {"none", "running", "over", "silent"}]
  /\ runs \in [Function -> Nat]
  /\ DOMAIN store = Peer /\ DOMAIN net = Peer

Stores == \A p \in Peer : Good(p, store[p])

(* A peer gives ids to the things of its own calls, once each; the halves  *)
(* of a promise have theirs before the message leaves, and 0 is never the  *)
(* id of a reject, so that fetching a resolve removes its reject.          *)
Ids ==
  /\ \A p \in Peer : \A x \in Thing :
       store[p].id[x] # NoId => \E c \in Call : Caller[c] = p /\ x \in ThingsOf(c)
  /\ \A c \in Call : \A x \in Unput(c) : store[Caller[c]].id[x] = NoId
  /\ \A c \in Call : Promised(c) => \A x \in Half(c) : store[Caller[c]].id[x] # NoId
  /\ \A c \in Call : store[Caller[c]].id[Reject(c)] # 0

(* A message is a call that was not handled, or the answer of a method     *)
(* that is over, with the id of one half of the promise.                   *)
MessageOK(p, m) ==
  \E c \in Call :
    /\ Sent(c) /\ About(m) = c
    /\ \/ m = <<"call", c>> /\ Callee(c) = p /\ method[c] = "none"
       \/ \E x \in Half(c) : /\ m = <<"answer", store[p].id[x], c>>
                             /\ Caller[c] = p /\ method[c] = "over"

(* There is at most one message about a call.                              *)
Flow ==
  /\ \A p \in Peer : Queue(net[p])
  /\ \A p \in Peer : \A m \in In(net[p]) : MessageOK(p, m)
  /\ \A c \in Call : method[c] # "none" => Sent(c)

(* A function that was run has been put, and is in no store.               *)
Ran ==
  \A f \in Function :
    /\ runs[f] \in {0, 1}
    /\ runs[f] = 1 =>
         /\ \A p \in Peer : \A i \in DOMAIN store[p].entry :
              store[p].entry[i] # Passed(f)
         /\ \E p \in Peer : store[p].id[Passed(f)] # NoId

Base == Types /\ Stores /\ Ids /\ Flow /\ Ran

(* Base implies the type invariant and that functions run once.            *)
LEMMA BaseImplies == Base => TypeOK /\ RunsOnce
<1> SUFFICES ASSUME Base
             PROVE  TypeOK /\ RunsOnce
  OBVIOUS
<1>1. ASSUME NEW p \in Peer
      PROVE  /\ DOMAIN store[p].entry \subseteq Nat /\ store[p].free \subseteq Nat
             /\ \A i \in DOMAIN store[p].entry : store[p].entry[i] \in Thing
             /\ store[p].id \in [Thing -> Nat \cup {NoId}]
             /\ net[p] \in Seq(Message)
  <2>1. Coherent(store[p]) /\ Queue(net[p])
    BY DEF Base, Stores, Good, Flow
  <2> QED
    BY <2>1, StoreFields DEF Queue
<1>2. TypeOK
  BY <1>1 DEF Base, Types, TypeOK, Message
<1>3. RunsOnce
  BY DEF Base, Ran, RunsOnce
<1> QED
  BY <1>2, <1>3

(* Initially nothing was put or sent.                                      *)
LEMMA BaseInit == Init => Base
<1> SUFFICES ASSUME Init
             PROVE  Base
  OBVIOUS
<1>1. \A p \in Peer : store[p] = EmptyStore /\ net[p] = <<>>
  BY DEF Init
<1>2. Types
  BY DEF Init, Types
<1>3. /\ EmptyStore.free = {0} /\ DOMAIN EmptyStore.entry = {}
      /\ \A x \in Thing : EmptyStore.id[x] = NoId
      /\ EmptyStore.id \in [Thing -> Nat \cup {NoId}]
  BY DEF EmptyStore
<1>4. Coherent(EmptyStore)
  <2> DEFINE e == [i \in {} |-> NoId]
  <2>1. {} \in SUBSET Nat /\ e \in [{} -> Thing] /\ {0} \in SUBSET Nat
    OBVIOUS
  <2>2. EmptyStore = [entry |-> e, free |-> {0}, id |-> EmptyStore.id]
    BY DEF EmptyStore
  <2> HIDE DEF e
  <2>3. Coherent([entry |-> e, free |-> {0}, id |-> EmptyStore.id])
    BY <1>3, <2>1, StoreMade
  <2> QED
    BY <2>2, <2>3
<1>5. ASSUME NEW p \in Peer
      PROVE  NumberedTo(p, EmptyStore, 0)
  <2>1. 0..(0 - 1) = {}
    OBVIOUS
  <2> QED
    BY <1>3, <2>1 DEF NumberedTo, NoId
<1>6. Stores
  BY <1>1, <1>4, <1>5 DEF Stores, Good
<1>7. Ids
  <2>1. \A c \in Call : Unput(c) \subseteq Thing /\ ~ Promised(c) /\ Reject(c) \in Thing
    <3>1. \A c \in Call : ThingsOf(c) \subseteq Thing /\ Reject(c) \in Thing
      <4>1. ASSUME NEW c \in Call
            PROVE  FunctionsOf(c) \subseteq Thing
        <5>1. 0 \in 0..Len(Args[c])
          BY Arguments
        <5> QED
          BY <5>1, ListsOf
      <4> QED
        BY <4>1, Kinds DEF ThingsOf, Half
    <3>2. \A c \in Call : future[c] = "none"
      BY DEF Init
    <3> QED
      BY <3>1, <3>2 DEF Unput, Promised, Sent
  <2>2. \A p \in Peer : \A x \in Thing : store[p].id[x] = NoId
    BY <1>1, <1>3
  <2> QED
    BY <2>1, <2>2, Peers DEF Ids, NoId
<1>8. Flow
  <2>1. Queue(<<>>) /\ In(<<>>) = {}
    BY DEF Queue, OneEach, In
  <2>2. \A c \in Call : method[c] = "none"
    BY DEF Init
  <2> QED
    BY <1>1, <2>1, <2>2 DEF Flow
<1>9. Ran
  <2>1. \A f \in Function : runs[f] = 0
    BY DEF Init
  <2> QED
    BY <2>1 DEF Ran
<1> QED
  BY <1>2, <1>6, <1>7, <1>8, <1>9 DEF Base

-----------------------------------------------------------------------------
(* The five actions that put something into a store.                       *)

Grows(p, X) ==
  /\ DOMAIN store' = Peer
  /\ Good(p, store'[p])
  /\ Added(store[p], store'[p], X)
  /\ \A q \in Peer : q # p => store'[q] = store[q]

(* What they have in common.                                               *)
Starts(c, X) ==
  /\ X \subseteq Unput(c) /\ ~ Sent(c)
  /\ Grows(Caller[c], X)
  /\ Reject(c) \in X => store'[Caller[c]].id[Reject(c)] # 0
  /\ \E v \in {"encoding", "pending", "unsent", "stuck"} :
       future' = [future EXCEPT ![c] = v]
  /\ Unput(c)' \subseteq Unput(c) \ X
  /\ Promised(c)' => Half(c) \subseteq X \/ Promised(c)
  /\ \/ ~ Sent(c)' /\ net' = net
     \/ Sent(c)' /\ net' = [net EXCEPT ![Callee(c)] = Append(@, <<"call", c>>)]
  /\ answeredBy' = answeredBy /\ method' = method /\ runs' = runs

(* Unput things are things of the call.                                    *)
LEMMA UnputOwn ==
  ASSUME NEW c \in Call
  PROVE  /\ Unput(c) \subseteq ThingsOf(c) /\ ThingsOf(c) \subseteq Thing
         /\ Half(c) \subseteq ThingsOf(c) /\ FunctionsOf(c) \subseteq ThingsOf(c)
<1>1. 0 \in 0..Len(Args[c])
  BY Arguments
<1>2. FunctionsOf(c) \subseteq Thing
  BY <1>1, ListsOf
<1> QED
  BY <1>2, Kinds DEF Unput, ThingsOf

(* Keeping a list of things that were not put.                             *)
LEMMA KeepGrows ==
  ASSUME Base, NEW c \in Call, NEW t, NEW X, Lists(t, X), X \subseteq Unput(c),
         Keep(Caller[c], t)
  PROVE  /\ Grows(Caller[c], X)
         /\ Len(t) >= 2 => store'[Caller[c]].id[t[2]] # 0
<1> DEFINE p == Caller[c]
<1>1. p \in Peer /\ DOMAIN store = Peer
  BY Peers DEF Base, Types
<1>2. /\ DOMAIN store' = Peer /\ store'[p] = PutAll(store[p], t)
      /\ \A q \in Peer : q # p => store'[q] = store[q]
  BY <1>1 DEF Keep
<1>3. \A x \in X : store[p].id[x] = NoId
  BY DEF Base, Ids
<1>4. Good(p, store[p])
  BY <1>1 DEF Base, Stores
<1> HIDE DEF p
<1>5. /\ Good(p, PutAll(store[p], t))
      /\ Added(store[p], PutAll(store[p], t), X)
      /\ Len(t) >= 2 => PutAll(store[p], t).id[t[2]] # 0
  BY <1>1, <1>3, <1>4, KeepOK
<1> QED
  BY <1>2, <1>5 DEF Grows, p

(* A list that begins with a promise does not give the id 0 to its reject. *)
LEMMA KeepPromise ==
  ASSUME Base, NEW c \in Call, NEW t, NEW Y, Lists(t, Y), Half(c) \cap Y = {},
         Half(c) \cup Y \subseteq Unput(c), Keep(Caller[c], Promise(c) \o t)
  PROVE  /\ Grows(Caller[c], Half(c) \cup Y)
         /\ store'[Caller[c]].id[Reject(c)] # 0
<1>1. 0 \in 0..Len(Args[c])
  BY Arguments
<1>2. Lists(Promise(c), Half(c)) /\ Len(Promise(c)) = 2 /\ Promise(c)[2] = Reject(c)
  BY <1>1, ListsOf
<1> DEFINE u == Promise(c) \o t
<1>3. /\ Lists(u, Half(c) \cup Y)
      /\ \A k \in 1..Len(Promise(c)) : u[k] = Promise(c)[k]
      /\ Len(u) = Len(Promise(c)) + Len(t)
  <2>1. Lists(Promise(c), Half(c))
    BY <1>2
  <2> QED
    BY <2>1, ListsBoth
<1>4. Len(t) \in Nat /\ 2 \in 1..2
  BY DEF Lists
<1>5. Len(u) >= 2 /\ u[2] = Reject(c)
  <2> HIDE DEF u
  <2> QED
    BY <1>2, <1>3, <1>4
<1>6. Keep(Caller[c], u)
  OBVIOUS
<1> HIDE DEF u
<1> QED
  BY <1>3, <1>5, <1>6, KeepGrows

(* The empty list, with which Promise is a list that begins with itself.   *)
LEMMA PromiseAlone ==
  ASSUME NEW c \in Call
  PROVE  Lists(<<>>, {}) /\ Promise(c) \o <<>> = Promise(c)
<1>1. Lists(<<>>, {})
  BY DEF Lists
<1>2. 0 \in 0..Len(Args[c])
  BY Arguments
<1>3. Promise(c) \in Seq(Thing)
  BY <1>2, ListsOf DEF Lists
<1> QED
  BY <1>1, <1>3

(* Each of the five actions is such a start.                               *)
LEMMA StartsEach ==
  ASSUME Base, NEW c \in Call,
         \/ PluginCalls(c) \/ PluginCallRaises(c)
         \/ HostEncodes(c) \/ HostSends(c) \/ HostCannotEncode(c)
  PROVE  \E X : Starts(c, X)
<1> DEFINE p == Caller[c]
           H == Half(c)
           F == FunctionsOf(c)
<1>1. c \in DOMAIN future
  BY DEF Base, Types
<1>2. Len(Args[c]) \in 0..Len(Args[c]) /\ Lists(Functions(c), F) /\ H \cap F = {}
  BY Arguments, ListsOf
<1>3. ThingsOf(c) = H \cup F
  BY DEF ThingsOf
<1>4. ASSUME NEW k \in 0..Len(Args[c])
      PROVE  /\ Lists(SubSeq(Functions(c), 1, k), FunctionsTo(c, k))
             /\ FunctionsTo(c, k) \subseteq F
  BY ListsOf
<1>5. Reject(c) \in H /\ Reject(c) \notin F
  BY <1>2 DEF Half
<1>6. \A X : X \subseteq F => Reject(c) \notin X
  BY <1>5
<1> HIDE DEF H, F
<1>7. CASE PluginCalls(c)
  <2>1. future[c] = "none" /\ p = Plugin /\ Keep(p, Promise(c) \o Functions(c))
    BY <1>7 DEF PluginCalls
  <2>2. Unput(c) = H \cup F /\ ~ Sent(c)
    BY <1>3, <2>1 DEF Unput, Sent
  <2>3. Grows(p, H \cup F) /\ store'[p].id[Reject(c)] # 0
    BY <1>2, <2>1, <2>2, KeepPromise DEF H
  <2>4. future'[c] = "pending"
    BY <1>1, <1>7 DEF PluginCalls
  <2>5. Unput(c)' = {} /\ Sent(c)' /\ Half(c) \subseteq H \cup F
    BY <2>4 DEF Unput, Sent, H
  <2>6. /\ net' = [net EXCEPT ![Callee(c)] = Append(@, <<"call", c>>)]
        /\ \E v \in {"encoding", "pending", "unsent", "stuck"} :
             future' = [future EXCEPT ![c] = v]
        /\ answeredBy' = answeredBy /\ method' = method /\ runs' = runs
    BY <1>7, <2>1, Peers DEF PluginCalls, Send
  <2>7. Starts(c, H \cup F)
    BY <2>2, <2>3, <2>5, <2>6 DEF Starts
  <2> QED
    BY <2>7
<1>8. CASE PluginCallRaises(c)
  <2>1. PICK k \in 0..Len(Args[c]) :
          Keep(p, Promise(c) \o SubSeq(Functions(c), 1, k))
    BY <1>8 DEF PluginCallRaises
  <2> DEFINE X == H \cup FunctionsTo(c, k)
  <2>2. future[c] = "none"
    BY <1>8 DEF PluginCallRaises
  <2>3. Unput(c) = H \cup F /\ ~ Sent(c)
    BY <1>3, <2>2 DEF Unput, Sent
  <2>4. FunctionsTo(c, k) \subseteq F /\ X \subseteq Unput(c)
    BY <1>4, <2>3
  <2>5. Grows(p, X) /\ store'[p].id[Reject(c)] # 0
    BY <1>2, <1>4, <2>1, <2>4, KeepPromise DEF H
  <2>6. future'[c] = "unsent"
    BY <1>1, <1>8 DEF PluginCallRaises
  <2>7. Unput(c)' = {} /\ ~ Sent(c)' /\ ~ Promised(c)'
    BY <2>6 DEF Unput, Sent, Promised
  <2>8. /\ net' = net
        /\ \E v \in {"encoding", "pending", "unsent", "stuck"} :
             future' = [future EXCEPT ![c] = v]
        /\ answeredBy' = answeredBy /\ method' = method /\ runs' = runs
    BY <1>8 DEF PluginCallRaises
  <2> HIDE DEF X
  <2>9. Starts(c, X)
    BY <2>3, <2>4, <2>5, <2>7, <2>8 DEF Starts
  <2> QED
    BY <2>9
<1>9. CASE HostEncodes(c)
  <2> DEFINE X == IF Target[c] = NoFunction THEN H ELSE F
  <2>1. future[c] = "none"
    BY <1>9 DEF HostEncodes
  <2>2. Unput(c) = H \cup F /\ ~ Sent(c)
    BY <1>3, <2>1 DEF Unput, Sent
  <2>3. Grows(p, X) /\ (Reject(c) \in X => store'[p].id[Reject(c)] # 0)
    <3>1. CASE Target[c] = NoFunction
      <4>1. Keep(p, Promise(c))
        BY <1>9, <3>1 DEF HostEncodes
      <4>2. Grows(p, H \cup {}) /\ store'[p].id[Reject(c)] # 0
        BY <2>2, <4>1, KeepPromise, PromiseAlone DEF H
      <4> QED
        BY <3>1, <4>2
    <3>2. CASE Target[c] # NoFunction
      <4>1. Keep(p, Functions(c))
        BY <1>9, <3>2 DEF HostEncodes
      <4>2. Grows(p, F)
        BY <1>2, <2>2, <4>1, KeepGrows
      <4> QED
        BY <1>5, <3>2, <4>2
    <3> QED
      BY <3>1, <3>2
  <2>4. future'[c] = "encoding"
    BY <1>1, <1>9 DEF HostEncodes
  <2>5. X \subseteq Unput(c) /\ Unput(c)' \subseteq Unput(c) \ X
    BY <1>2, <2>2, <2>4 DEF Unput, H, F
  <2>6. ~ Sent(c)' /\ (Promised(c)' => Half(c) \subseteq X)
    BY <2>4 DEF Sent, Promised, H
  <2>7. /\ net' = net
        /\ \E v \in {"encoding", "pending", "unsent", "stuck"} :
             future' = [future EXCEPT ![c] = v]
        /\ answeredBy' = answeredBy /\ method' = method /\ runs' = runs
    BY <1>9 DEF HostEncodes
  <2> HIDE DEF X
  <2>8. Starts(c, X)
    BY <2>2, <2>3, <2>5, <2>6, <2>7 DEF Starts
  <2> QED
    BY <2>8
<1>10. CASE HostSends(c)
  <2> DEFINE X == IF Target[c] = NoFunction THEN F ELSE H
  <2>1. future[c] = "encoding" /\ p = Host
    BY <1>10 DEF HostSends
  <2>2. Unput(c) = X /\ ~ Sent(c)
    BY <2>1 DEF Unput, Sent, H, F
  <2>3. Grows(p, X) /\ (Reject(c) \in X => store'[p].id[Reject(c)] # 0)
    <3>1. CASE Target[c] # NoFunction
      <4>1. Keep(p, Promise(c))
        BY <1>10, <3>1 DEF HostSends
      <4>2. H \cup {} \subseteq Unput(c)
        BY <2>2, <3>1
      <4>3. Grows(p, H \cup {}) /\ store'[p].id[Reject(c)] # 0
        BY <4>1, <4>2, KeepPromise, PromiseAlone DEF H
      <4> QED
        BY <3>1, <4>3
    <3>2. CASE Target[c] = NoFunction
      <4>1. Keep(p, Functions(c))
        BY <1>10, <3>2 DEF HostSends
      <4>2. Grows(p, F)
        BY <1>2, <2>2, <3>2, <4>1, KeepGrows
      <4> QED
        BY <1>5, <3>2, <4>2
    <3> QED
      BY <3>1, <3>2
  <2>4. future'[c] = "pending"
    BY <1>1, <1>10 DEF HostSends
  <2>5. Unput(c)' = {} /\ Sent(c)'
    BY <2>4 DEF Unput, Sent
  <2>6. Half(c) \subseteq X \/ Promised(c)
    BY <2>1 DEF Promised, H
  <2>7. /\ net' = [net EXCEPT ![Callee(c)] = Append(@, <<"call", c>>)]
        /\ \E v \in {"encoding", "pending", "unsent", "stuck"} :
             future' = [future EXCEPT ![c] = v]
        /\ answeredBy' = answeredBy /\ method' = method /\ runs' = runs
    BY <1>10, <2>1, Peers DEF HostSends, Send
  <2> HIDE DEF X
  <2>8. Starts(c, X)
    BY <2>2, <2>3, <2>5, <2>6, <2>7 DEF Starts
  <2> QED
    BY <2>8
<1>11. CASE HostCannotEncode(c)
  <2>1. PICK k \in 0..Len(Args[c]) : Keep(Host, SubSeq(Functions(c), 1, k))
    BY <1>11 DEF HostCannotEncode
  <2> DEFINE X == FunctionsTo(c, k)
  <2>2. p = Host /\ X \subseteq F /\ Lists(SubSeq(Functions(c), 1, k), X)
    BY <1>4, <1>11 DEF HostCannotEncode
  <2>3. \/ future[c] = "encoding" /\ Target[c] = NoFunction /\ future'[c] = "unsent"
        \/ future[c] = "none" /\ future'[c] = "stuck"
    BY <1>1, <1>11 DEF HostCannotEncode
  <2>4. F \subseteq Unput(c) /\ ~ Sent(c)
    BY <1>3, <2>3 DEF Unput, Sent, F
  <2>5. Grows(p, X)
    BY <2>1, <2>2, <2>4, KeepGrows
  <2>6. Unput(c)' \subseteq Unput(c) \ X
    BY <1>2, <1>3, <2>2, <2>3 DEF Unput, H
  <2>7. ~ Sent(c)' /\ ~ Promised(c)'
    BY <2>3 DEF Sent, Promised
  <2>8. /\ net' = net
        /\ \E v \in {"encoding", "pending", "unsent", "stuck"} :
             future' = [future EXCEPT ![c] = v]
        /\ answeredBy' = answeredBy /\ method' = method /\ runs' = runs
    BY <1>11 DEF HostCannotEncode
  <2>9. Reject(c) \notin X
    BY <1>6, <2>2
  <2> HIDE DEF X
  <2>10. Starts(c, X)
    BY <2>2, <2>4, <2>5, <2>6, <2>7, <2>8, <2>9 DEF Starts
  <2> QED
    BY <2>10
<1> QED
  BY <1>7, <1>8, <1>9, <1>10, <1>11

(* No id that was sent out changes.                                        *)
IdsKept ==
  \A p \in Peer : \A x \in Thing :
    store[p].id[x] # NoId => store'[p].id[x] = store[p].id[x]

(* A message stays what it is unless its call's method goes on.            *)
LEMMA MessageStays ==
  ASSUME Base, IdsKept, NEW p \in Peer, NEW m, MessageOK(p, m),
         \A c \in Call : About(m) = c => /\ Sent(c) => Sent(c)'
                                         /\ method'[c] = method[c]
  PROVE  MessageOK(p, m)'
<1>1. PICK c \in Call :
        /\ Sent(c) /\ About(m) = c
        /\ \/ m = <<"call", c>> /\ Callee(c) = p /\ method[c] = "none"
           \/ \E x \in Half(c) : /\ m = <<"answer", store[p].id[x], c>>
                                 /\ Caller[c] = p /\ method[c] = "over"
  BY DEF MessageOK
<1>2. Sent(c)' /\ method'[c] = method[c]
  BY <1>1
<1>3. CASE m = <<"call", c>> /\ Callee(c) = p /\ method[c] = "none"
  BY <1>1, <1>2, <1>3 DEF MessageOK
<1>4. ASSUME NEW x \in Half(c), m = <<"answer", store[p].id[x], c>>,
             Caller[c] = p, method[c] = "over"
      PROVE  MessageOK(p, m)'
  <2>1. x \in Thing /\ store[p].id[x] # NoId
    BY <1>1, <1>4, Kinds DEF Base, Ids, Promised
  <2>2. store'[p].id[x] = store[p].id[x]
    BY <2>1 DEF IdsKept
  <2> QED
    BY <1>1, <1>2, <1>4, <2>2 DEF MessageOK
<1> QED
  BY <1>1, <1>3, <1>4

(* Putting keeps the ids of what was put before.                           *)
LEMMA StartsKeep ==
  ASSUME Base, NEW c \in Call, NEW X, Starts(c, X)
  PROVE  /\ IdsKept
         /\ \A p \in Peer : \A x \in Thing :
              store'[p].id[x] # store[p].id[x] => p = Caller[c] /\ x \in X
         /\ X \subseteq Thing /\ \A x \in X : store[Caller[c]].id[x] = NoId
<1>1. X \subseteq Thing /\ \A x \in X : store[Caller[c]].id[x] = NoId
  BY UnputOwn DEF Base, Ids, Starts
<1>2. \A p \in Peer : \A x \in Thing :
        store'[p].id[x] # store[p].id[x] => p = Caller[c] /\ x \in X
  BY DEF Starts, Grows, Added
<1> QED
  BY <1>1, <1>2 DEF IdsKept

(* Such a start keeps Base.                                                *)
LEMMA StartsBase ==
  ASSUME Base, NEW c \in Call, NEW X, Starts(c, X)
  PROVE  Base'
<1> DEFINE p == Caller[c]
<1>1. /\ p \in Peer /\ Callee(c) \in Peer
      /\ future \in [Call -> {"none", "encoding", "pending", "unsent", "stuck",
                              "done", "failed", "handled", "cancelled"}]
  BY Peers DEF Base, Types
<1>2. PICK v \in {"encoding", "pending", "unsent", "stuck"} :
        future' = [future EXCEPT ![c] = v]
  BY DEF Starts
<1>3. \A d \in Call : d # c => future'[d] = future[d]
  BY <1>1, <1>2
<1>4. \A d \in Call : d # c => /\ Sent(d)' = Sent(d)
                               /\ Promised(d)' = Promised(d)
                               /\ Unput(d)' = Unput(d)
  BY <1>3 DEF Sent, Promised, Unput
<1>5. /\ X \subseteq Unput(c) /\ ~ Sent(c)
      /\ Reject(c) \in X => store'[p].id[Reject(c)] # 0
      /\ Unput(c)' \subseteq Unput(c) \ X
      /\ Promised(c)' => Half(c) \subseteq X \/ Promised(c)
      /\ answeredBy' = answeredBy /\ method' = method /\ runs' = runs
  BY DEF Starts
<1>6. /\ DOMAIN store' = Peer /\ Good(p, store'[p])
      /\ Added(store[p], store'[p], X)
      /\ \A q \in Peer : q # p => store'[q] = store[q]
  BY DEF Starts, Grows
<1>7. /\ IdsKept
      /\ \A q \in Peer : \A x \in Thing :
           store'[q].id[x] # store[q].id[x] => q = p /\ x \in X
      /\ X \subseteq Thing /\ \A x \in X : store[p].id[x] = NoId
  BY StartsKeep
<1>8. X \subseteq ThingsOf(c)
  BY <1>5, UnputOwn
<1>9. \/ ~ Sent(c)' /\ net' = net
      \/ Sent(c)' /\ net' = [net EXCEPT ![Callee(c)] = Append(@, <<"call", c>>)]
  BY DEF Starts
<1> HIDE DEF p
<1>10. Types'
  <2>1. future' \in [Call -> {"none", "encoding", "pending", "unsent", "stuck",
                              "done", "failed", "handled", "cancelled"}]
    BY <1>1, <1>2
  <2>2. DOMAIN net' = Peer
    BY <1>9 DEF Base, Types
  <2> QED
    BY <1>5, <1>6, <2>1, <2>2 DEF Base, Types
<1>11. Stores'
  BY <1>6 DEF Base, Stores
<1>12. Ids'
  <2>1. ASSUME NEW q \in Peer, NEW x \in Thing, store'[q].id[x] # NoId
        PROVE  \E d \in Call : Caller[d] = q /\ x \in ThingsOf(d)
    <3>1. CASE store'[q].id[x] = store[q].id[x]
      BY <2>1, <3>1 DEF Base, Ids
    <3>2. CASE store'[q].id[x] # store[q].id[x]
      BY <1>7, <1>8, <3>2 DEF p
    <3> QED
      BY <3>1, <3>2
  <2>2. ASSUME NEW d \in Call, NEW x \in Unput(d)'
        PROVE  store'[Caller[d]].id[x] = NoId
    <3>1. x \in Unput(d) /\ (d = c => x \notin X)
      BY <1>4, <1>5, <2>2
    <3>2. x \in Thing /\ Caller[d] \in Peer /\ x \in ThingsOf(d)
      BY <3>1, Peers, UnputOwn
    <3>3. x \notin X
      BY <1>8, <3>1, <3>2, OneOwner
    <3>4. store[Caller[d]].id[x] = NoId
      BY <3>1 DEF Base, Ids
    <3> QED
      BY <1>7, <3>2, <3>3, <3>4
  <2>3. ASSUME NEW d \in Call, Promised(d)', NEW x \in Half(d)
        PROVE  store'[Caller[d]].id[x] # NoId
    <3>1. x \in Thing /\ Caller[d] \in Peer
      BY Kinds, Peers
    <3>2. CASE Promised(d)
      <4>1. store[Caller[d]].id[x] # NoId
        BY <3>2 DEF Base, Ids
      <4> QED
        BY <1>7, <3>1, <4>1 DEF IdsKept
    <3>3. CASE ~ Promised(d)
      <4>1. d = c /\ x \in X
        BY <1>4, <1>5, <2>3, <3>3
      <4>2. Holds(store'[p], x)
        BY <1>6, <4>1 DEF Added
      <4>3. DOMAIN store'[p].entry \subseteq Nat
        BY <1>6, StoreFields DEF Good
      <4> QED
        BY <4>1, <4>2, <4>3 DEF Holds, NoId, p
    <3> QED
      BY <3>2, <3>3
  <2>4. ASSUME NEW d \in Call
        PROVE  store'[Caller[d]].id[Reject(d)] # 0
    <3>1. Reject(d) \in Thing /\ Reject(d) \in ThingsOf(d) /\ Caller[d] \in Peer
      BY Kinds, Peers DEF Half, ThingsOf
    <3>2. CASE Reject(d) \in X
      <4>1. d = c
        BY <1>8, <3>1, <3>2, OneOwner
      <4> QED
        BY <1>5, <3>2, <4>1 DEF p
    <3>3. CASE Reject(d) \notin X
      <4>1. store[Caller[d]].id[Reject(d)] # 0
        BY DEF Base, Ids
      <4> QED
        BY <1>7, <3>1, <3>3, <4>1
    <3> QED
      BY <3>2, <3>3
  <2> QED
    BY <2>1, <2>2, <2>3, <2>4 DEF Ids
<1>13. Flow'
  <2>1. ASSUME NEW q \in Peer, NEW m, MessageOK(q, m)
        PROVE  MessageOK(q, m)' /\ About(m) # c
    <3>1. About(m) # c
      BY <1>5, <2>1 DEF MessageOK
    <3>2. \A d \in Call : About(m) = d => /\ Sent(d) => Sent(d)'
                                          /\ method'[d] = method[d]
      BY <1>4, <1>5, <3>1
    <3> QED
      BY <1>7, <2>1, <3>1, <3>2, MessageStays
  <2>2. \A d \in Call : method'[d] # "none" => Sent(d)'
    <3>1. method[c] = "none"
      BY <1>5 DEF Base, Flow
    <3> QED
      BY <1>4, <1>5, <3>1 DEF Base, Flow
  <2>3. \A q \in Peer : Queue(net[q]) /\ \A m \in In(net[q]) : MessageOK(q, m)
    BY DEF Base, Flow
  <2>4. CASE net' = net
    BY <2>1, <2>2, <2>3, <2>4 DEF Flow
  <2>5. CASE /\ Sent(c)'
             /\ net' = [net EXCEPT ![Callee(c)] = Append(@, <<"call", c>>)]
    <3> DEFINE r == Callee(c)
               m == <<"call", c>>
    <3>1. /\ net'[r] = Append(net[r], m)
          /\ \A q \in Peer : q # r => net'[q] = net[q]
      BY <1>1, <2>5 DEF Base, Types
    <3>2. /\ Queue(Append(net[r], m)) /\ In(Append(net[r], m)) = In(net[r]) \cup {m}
      <4>1. m \in Message /\ About(m) = c
        BY Abouts
      <4>2. \A n \in In(net[r]) : About(n) # About(m)
        BY <1>1, <2>1, <2>3, <4>1
      <4>3. Queue(net[r])
        BY <1>1, <2>3
      <4> HIDE DEF m, r
      <4> QED
        BY <4>1, <4>2, <4>3, Sending
    <3>3. MessageOK(r, m)'
      <4>1. About(m) = c /\ method'[c] = "none"
        BY <1>5, Abouts DEF Base, Flow
      <4> QED
        BY <2>5, <4>1 DEF MessageOK
    <3> HIDE DEF m, r
    <3>4. \A q \in Peer : Queue(net'[q])
      BY <2>3, <3>1, <3>2
    <3>5. \A q \in Peer : \A n \in In(net'[q]) : MessageOK(q, n)'
      BY <2>1, <2>3, <3>1, <3>2, <3>3
    <3> QED
      BY <2>2, <3>4, <3>5 DEF Flow
  <2> QED
    BY <1>9, <2>4, <2>5
<1>14. Ran'
  <2>1. ASSUME NEW f \in Function, runs[f] = 1
        PROVE  /\ \A q \in Peer : \A i \in DOMAIN store'[q].entry :
                    store'[q].entry[i] # Passed(f)
               /\ \E q \in Peer : store'[q].id[Passed(f)] # NoId
    <3>1. PICK q \in Peer : store[q].id[Passed(f)] # NoId
      BY <2>1 DEF Base, Ran
    <3>2. Passed(f) \in Thing
      BY Kinds
    <3>3. store'[q].id[Passed(f)] # NoId
      BY <1>7, <3>1, <3>2 DEF IdsKept
    <3>4. Passed(f) \notin X
      <4>1. PICK d \in Call : Caller[d] = q /\ Passed(f) \in ThingsOf(d)
        BY <3>1, <3>2 DEF Base, Ids
      <4>2. Passed(f) \in X => d = c
        BY <1>8, <4>1, OneOwner
      <4> QED
        BY <1>7, <3>1, <4>1, <4>2 DEF p
    <3>5. \A r \in Peer : \A i \in DOMAIN store[r].entry :
            store[r].entry[i] # Passed(f)
      BY <2>1 DEF Base, Ran
    <3>6. \A i \in DOMAIN store'[p].entry : store'[p].entry[i] # Passed(f)
      BY <1>1, <1>6, <3>4, <3>5 DEF Added, p
    <3> QED
      BY <1>6, <3>3, <3>5, <3>6
  <2>2. \A f \in Function : runs[f] \in {0, 1}
    BY DEF Base, Ran
  <2> QED
    BY <1>5, <2>1, <2>2 DEF Ran
<1> QED
  BY <1>10, <1>11, <1>12, <1>13, <1>14 DEF Base

-----------------------------------------------------------------------------
(* The other actions: nothing is put, and promises are only settled.       *)

(* Entries leave a store, and no id changes.                               *)
Shrinks ==
  /\ DOMAIN store' = Peer /\ Stores'
  /\ \A p \in Peer : store'[p].id = store[p].id
  /\ \A p \in Peer : \A i \in DOMAIN store'[p].entry :
       i \in DOMAIN store[p].entry /\ store'[p].entry[i] = store[p].entry[i]

Settles ==
  \A d \in Call :
    \/ future'[d] = future[d]
    \/ /\ future[d] = "pending"
       /\ future'[d] \in {"done", "failed", "handled", "cancelled"}

(* What is settled was sent, and has put all it had to put.                *)
LEMMA SettlesSame ==
  ASSUME Settles, NEW d \in Call
  PROVE  Sent(d)' = Sent(d) /\ Promised(d)' = Promised(d) /\ Unput(d)' = Unput(d)
<1>1. CASE future'[d] = future[d]
  BY <1>1 DEF Sent, Promised, Unput
<1>2. CASE /\ future[d] = "pending"
           /\ future'[d] \in {"done", "failed", "handled", "cancelled"}
  <2>1. /\ Sent(d)' /\ Sent(d) /\ Unput(d) = {} /\ Unput(d)' = {}
        /\ Promised(d) /\ Promised(d)'
    BY <1>2 DEF Sent, Promised, Unput
  <2> QED
    BY <2>1
<1> QED
  BY <1>1, <1>2 DEF Settles

(* Then what Base says of the ids stays true.                              *)
LEMMA ShrinksIds ==
  ASSUME Base, Shrinks, Settles
  PROVE  IdsKept /\ Ids'
<1>1. \A p \in Peer : \A x : store'[p].id[x] = store[p].id[x]
  BY DEF Shrinks
<1>2. \A d \in Call : /\ Promised(d)' = Promised(d) /\ Unput(d)' = Unput(d)
                      /\ Caller[d] \in Peer
  BY SettlesSame, Peers
<1>3. \A p \in Peer : \A x \in Thing :
        store'[p].id[x] # NoId => \E c \in Call : Caller[c] = p /\ x \in ThingsOf(c)
  BY <1>1 DEF Base, Ids
<1>4. \A c \in Call : \A x \in Unput(c)' : store'[Caller[c]].id[x] = NoId
  BY <1>1, <1>2 DEF Base, Ids
<1>5. \A c \in Call : Promised(c)' =>
        \A x \in Half(c) : store'[Caller[c]].id[x] # NoId
  BY <1>1, <1>2 DEF Base, Ids
<1>6. \A c \in Call : store'[Caller[c]].id[Reject(c)] # 0
  BY <1>1, <1>2 DEF Base, Ids
<1> QED
  BY <1>1, <1>3, <1>4, <1>5, <1>6 DEF Ids, IdsKept

(* Stores that do not change shrink.                                       *)
LEMMA SameShrinks == Base /\ UNCHANGED store => Shrinks
  BY DEF Base, Types, Stores, Shrinks

(* A store that is fetched from shrinks: what was fetched is gone, and at  *)
(* the host its partner; what is not there changes nothing.                *)
LEMMA FetchShrinks ==
  ASSUME Base, NEW p \in Peer, NEW i, store' = [store EXCEPT ![p] = Fetch(p, @, i)]
  PROVE  /\ Shrinks /\ i \notin DOMAIN store'[p].entry
         /\ \A q \in Peer : q # p => store'[q] = store[q]
         /\ i \in DOMAIN store[p].entry =>
              /\ DOMAIN store'[p].entry = DOMAIN store[p].entry \ Gone(p, store[p], i)
              /\ \A j \in DOMAIN store'[p].entry :
                   store'[p].entry[j] = store[p].entry[j]
         /\ i \notin DOMAIN store[p].entry => store'[p] = store[p]
<1> DEFINE s == store[p]
           t == Fetch(p, s, i)
<1>1. /\ DOMAIN store' = Peer /\ store'[p] = t
      /\ \A q \in Peer : q # p => store'[q] = store[q]
  BY DEF Base, Types
<1>2. Good(p, s)
  BY DEF Base, Stores
<1>3. CASE i \notin DOMAIN s.entry
  <2>1. t = s
    BY <1>3 DEF Fetch
  <2>2. \A q \in Peer : store'[q] = store[q]
    BY <1>1, <2>1
  <2> QED
    BY <1>1, <1>3, <2>1, <2>2 DEF Base, Stores, Shrinks
<1>4. CASE i \in DOMAIN s.entry
  <2> HIDE DEF s, t
  <2>1. /\ Good(p, t) /\ t.id = s.id
        /\ DOMAIN t.entry = DOMAIN s.entry \ Gone(p, s, i)
        /\ \A j \in DOMAIN t.entry : t.entry[j] = s.entry[j]
    BY <1>2, <1>4, FetchOK DEF t
  <2>2. i \notin DOMAIN t.entry
    BY <2>1 DEF Gone
  <2>3. Stores'
    BY <1>1, <2>1 DEF Base, Stores
  <2>4. Shrinks
    BY <1>1, <2>1, <2>3 DEF Shrinks, s
  <2> QED
    BY <1>1, <1>4, <2>1, <2>2, <2>4 DEF s
<1> QED
  BY <1>3, <1>4

(* Nothing is run.                                                         *)
LEMMA RanKept ==
  ASSUME Base, Shrinks, runs' = runs
  PROVE  Ran'
<1>1. ASSUME NEW f \in Function, runs[f] = 1
      PROVE  /\ \A p \in Peer : \A i \in DOMAIN store'[p].entry :
                  store'[p].entry[i] # Passed(f)
             /\ \E p \in Peer : store'[p].id[Passed(f)] # NoId
  <2>1. /\ \A p \in Peer : \A i \in DOMAIN store[p].entry :
             store[p].entry[i] # Passed(f)
        /\ \E p \in Peer : store[p].id[Passed(f)] # NoId
    BY <1>1 DEF Base, Ran
  <2> QED
    BY <2>1 DEF Shrinks
<1>2. \A f \in Function : runs[f] \in {0, 1}
  BY DEF Base, Ran
<1> QED
  BY <1>1, <1>2 DEF Ran

(* What was fetched is run: a function for the first time, as it was in    *)
(* the store, and it is in no store any more; a promise is settled.        *)
LEMMA RunOK ==
  ASSUME Base, Shrinks, NEW c \in Call, NEW p \in Peer,
         NEW i \in DOMAIN store[p].entry, i \notin DOMAIN store'[p].entry,
         Run(store[p].entry[i], c)
  PROVE  /\ Settles /\ Ran'
         /\ future' \in [Call -> {"none", "encoding", "pending", "unsent", "stuck",
                                  "done", "failed", "handled", "cancelled"}]
         /\ answeredBy' \in [Call -> Call \cup {NoCall}]
         /\ runs' \in [Function -> Nat]
<1> DEFINE x == store[p].entry[i]
<1>1. /\ future \in [Call -> {"none", "encoding", "pending", "unsent", "stuck",
                              "done", "failed", "handled", "cancelled"}]
      /\ answeredBy \in [Call -> Call \cup {NoCall}]
      /\ runs \in [Function -> Nat]
  BY DEF Base, Types
<1>2. \A q \in Peer : \A j \in DOMAIN store[q].entry :
        /\ store[q].entry[j] \in Thing /\ store[q].id[store[q].entry[j]] = j
        /\ j \in Nat
  BY StoreFields DEF Base, Stores, Good
<1>3. x \in Thing
  BY <1>2
<1>4. CASE x[1] = "function"
  <2> DEFINE f == x[2]
  <2>1. f \in Function /\ x = Passed(f)
    BY <1>3, <1>4, Kinds
  <2>2. runs' = [runs EXCEPT ![f] = @ + 1] /\ UNCHANGED <<future, answeredBy>>
    BY <1>4 DEF Run
  <2> HIDE DEF f, x
  <2>3. runs[f] = 0
    BY <2>1 DEF Base, Ran, x
  <2>4. runs'[f] = 1 /\ \A g \in Function : g # f => runs'[g] = runs[g]
    BY <1>1, <2>1, <2>2, <2>3
  <2>5. store[p].id[Passed(f)] = i /\ i \in Nat
    BY <1>2, <2>1 DEF x
  <2>6. ASSUME NEW q \in Peer, NEW j \in DOMAIN store'[q].entry
        PROVE  store'[q].entry[j] # Passed(f)
    <3> SUFFICES ASSUME store'[q].entry[j] = Passed(f)
                 PROVE  FALSE
      OBVIOUS
    <3>1. j \in DOMAIN store[q].entry /\ store[q].entry[j] = Passed(f)
      BY DEF Shrinks
    <3>2. store[q].id[Passed(f)] = j /\ j \in Nat
      BY <1>2, <3>1
    <3>3. Passed(f) \in Thing
      BY <2>1, Kinds
    <3>4. PICK d \in Call : Caller[d] = q /\ Passed(f) \in ThingsOf(d)
      BY <3>2, <3>3 DEF Base, Ids, NoId
    <3>5. PICK e \in Call : Caller[e] = p /\ Passed(f) \in ThingsOf(e)
      BY <2>5, <3>3 DEF Base, Ids, NoId
    <3>6. q = p
      BY <3>4, <3>5, OneOwner
    <3> QED
      BY <2>5, <3>2, <3>6
  <2>7. store'[p].id[Passed(f)] # NoId
    BY <2>5 DEF Shrinks, NoId
  <2>8. Ran'
    <3>1. ASSUME NEW g \in Function, runs'[g] = 1
          PROVE  /\ \A q \in Peer : \A j \in DOMAIN store'[q].entry :
                      store'[q].entry[j] # Passed(g)
                 /\ \E q \in Peer : store'[q].id[Passed(g)] # NoId
      <4>1. CASE g = f
        BY <2>6, <2>7, <4>1
      <4>2. CASE g # f
        <5>1. runs[g] = 1
          BY <2>4, <3>1, <4>2
        <5>2. /\ \A q \in Peer : \A j \in DOMAIN store[q].entry :
                   store[q].entry[j] # Passed(g)
              /\ \E q \in Peer : store[q].id[Passed(g)] # NoId
          BY <5>1 DEF Base, Ran
        <5> QED
          BY <5>2 DEF Shrinks
      <4> QED
        BY <4>1, <4>2
    <3>2. \A g \in Function : runs'[g] \in {0, 1}
      BY <2>4 DEF Base, Ran
    <3> QED
      BY <3>1, <3>2 DEF Ran
  <2> QED
    BY <1>1, <2>1, <2>2, <2>8 DEF Settles
<1>5. CASE x[1] # "function"
  <2> DEFINE d == x[2]
             v == Outcome(d, x[1])
  <2>1. d \in Call
    BY <1>3, <1>5, Kinds
  <2>2. /\ future' = [future EXCEPT ![d] = v]
        /\ answeredBy' = [answeredBy EXCEPT ![d] =
                            IF future[d] = "pending" THEN c ELSE @]
        /\ runs' = runs
    BY <1>5 DEF Run
  <2>3. \/ v = future[d]
        \/ future[d] = "pending" /\ v \in {"done", "failed", "handled"}
    BY DEF Outcome
  <2> HIDE DEF d, v
  <2>4. Ran'
    BY <2>2, RanKept
  <2>5. future' \in [Call -> {"none", "encoding", "pending", "unsent", "stuck",
                              "done", "failed", "handled", "cancelled"}]
    BY <1>1, <2>1, <2>2, <2>3
  <2>6. \A e \in Call : future'[e] = IF e = d THEN v ELSE future[e]
    BY <1>1, <2>1, <2>2
  <2>7. Settles
    BY <2>3, <2>6 DEF Settles
  <2> QED
    BY <1>1, <2>1, <2>2, <2>4, <2>5, <2>7
<1> QED
  BY <1>4, <1>5

-----------------------------------------------------------------------------
(* The messages in the other actions.                                      *)

(* An answer is about its call, and is what Base says of an answer.        *)
LEMMA AnswerOK ==
  ASSUME Base, Shrinks, Settles, NEW c \in Call, Sent(c), NEW x \in Half(c),
         method'[c] = "over", NEW m, m = Answer(c, x)
  PROVE  /\ m \in Message /\ m[1] = "answer" /\ About(m) = c
         /\ MessageOK(Caller[c], m)'
<1> DEFINE i == store[Caller[c]].id[x]
<1>1. m = <<"answer", i, c>>
  BY DEF Answer
<1>2. Caller[c] \in Peer /\ x \in Thing
  BY Kinds, Peers
<1>3. store[Caller[c]].id \in [Thing -> Nat \cup {NoId}]
  BY <1>2, StoreFields DEF Base, Stores, Good
<1>4. i # NoId
  BY DEF Base, Ids, Promised
<1>5. i \in Nat
  BY <1>2, <1>3, <1>4
<1>6. store'[Caller[c]].id[x] = i
  BY <1>2 DEF Shrinks
<1> HIDE DEF i
<1>7. m \in Message /\ m[1] = "answer" /\ About(m) = c
  <2>1. <<"answer", i, c>> \in Message
    BY <1>5, Abouts
  <2>2. <<"answer", i, c>>[1] = "answer" /\ About(<<"answer", i, c>>) = c
    BY Abouts
  <2> QED
    BY <1>1, <2>1, <2>2
<1>8. Sent(c)'
  BY SettlesSame
<1>9. \E y \in Half(c) : m = <<"answer", store'[Caller[c]].id[y], c>>
  BY <1>1, <1>6
<1>10. MessageOK(Caller[c], m)'
  BY <1>7, <1>8, <1>9 DEF MessageOK
<1> QED
  BY <1>7, <1>10

(* What is left in the queues when no message about c is.                  *)
Left(old, c) ==
  \A p \in Peer : /\ Queue(old[p])
                  /\ \A m \in In(old[p]) : m \in In(net[p]) /\ About(m) # c
                  /\ \A m \in In(net[p]) : About(m) # c => m \in In(old[p])

(* The answer is on its way.                                               *)
Answering(c) == \E m \in In(net[Caller[c]]) : m[1] = "answer" /\ About(m) = c

(* The messages when the method of c goes on: an answer to c may have been *)
(* added.                                                                  *)
LEMMA FlowGoesOn ==
  ASSUME Base, Shrinks, Settles, NEW c \in Call, Sent(c),
         \A d \in Call : d # c => method'[d] = method[d],
         NEW old, Left(old, c),
         \/ \A p \in Peer : net'[p] = old[p]
         \/ /\ method'[c] = "over"
            /\ \E x \in Half(c) : net'[Caller[c]] = Append(old[Caller[c]], Answer(c, x))
            /\ \A p \in Peer : p # Caller[c] => net'[p] = old[p]
  PROVE  Flow'
<1>1. IdsKept
  BY ShrinksIds
<1>2. \A d \in Call : Sent(d)' = Sent(d)
  BY SettlesSame
<1>3. ASSUME NEW p \in Peer, NEW m \in In(old[p])
      PROVE  MessageOK(p, m)'
  <2>1. MessageOK(p, m) /\ About(m) # c
    BY DEF Base, Flow, Left
  <2>2. \A d \in Call : About(m) = d => /\ Sent(d) => Sent(d)'
                                        /\ method'[d] = method[d]
    BY <1>2, <2>1
  <2> QED
    BY <1>1, <2>1, <2>2, MessageStays
<1>4. \A d \in Call : method'[d] # "none" => Sent(d)'
  BY <1>2 DEF Base, Flow
<1>5. CASE \A p \in Peer : net'[p] = old[p]
  <2>1. \A p \in Peer : Queue(net'[p])
    BY <1>5 DEF Left
  <2>2. \A p \in Peer : \A m \in In(net'[p]) : MessageOK(p, m)'
    BY <1>3, <1>5
  <2> QED
    BY <1>4, <2>1, <2>2 DEF Flow
<1>6. ASSUME NEW x \in Half(c), method'[c] = "over",
             net'[Caller[c]] = Append(old[Caller[c]], Answer(c, x)),
             \A p \in Peer : p # Caller[c] => net'[p] = old[p]
      PROVE  Flow'
  <2> DEFINE q == Caller[c]
  <2> PICK a : a = Answer(c, x)
    OBVIOUS
  <2>1. /\ a \in Message /\ About(a) = c /\ MessageOK(q, a)'
    BY <1>6, AnswerOK
  <2>2. q \in Peer
    BY Peers
  <2>3. Queue(old[q]) /\ \A m \in In(old[q]) : About(m) # c
    BY <2>2 DEF Left
  <2> HIDE DEF q
  <2>4. Queue(Append(old[q], a)) /\ In(Append(old[q], a)) = In(old[q]) \cup {a}
    BY <2>1, <2>3, Sending
  <2>5. /\ net'[q] = Append(old[q], a)
        /\ \A p \in Peer : p # q => net'[p] = old[p]
    BY <1>6 DEF q
  <2>6. \A p \in Peer : Queue(net'[p])
    BY <2>4, <2>5 DEF Left
  <2>7. \A p \in Peer : \A m \in In(net'[p]) : MessageOK(p, m)'
    BY <1>3, <2>1, <2>4, <2>5
  <2> QED
    BY <1>4, <2>6, <2>7 DEF Flow
<1> QED
  BY <1>5, <1>6

(* A message that is a call: its method has not run.                       *)
LEMMA CallReceived ==
  ASSUME Base, NEW c \in Call, Receive(Callee(c), <<"call", c>>)
  PROVE  Sent(c) /\ method[c] = "none" /\ Left(Received(Callee(c)), c)
<1> DEFINE p == Callee(c)
           h == <<"call", c>>
           old == Received(p)
<1>1. p \in Peer /\ p # Caller[c] /\ Caller[c] \in Peer
  BY Peers
<1>2. net[p] # <<>> /\ Head(net[p]) = h
  BY DEF Receive
<1>3. \A q \in Peer : Queue(net[q]) /\ \A m \in In(net[q]) : MessageOK(q, m)
  BY DEF Base, Flow
<1>4. About(h) = c /\ \A i, d : <<"answer", i, d>> # h
  BY Abouts
<1>5. /\ old[p] = Tail(net[p])
      /\ \A q \in Peer : q # p => old[q] = net[q]
  BY <1>1 DEF Received, Base, Types
<1> HIDE DEF h, old, p
<1>6. /\ h \in In(net[p]) /\ Queue(old[p])
      /\ In(old[p]) \subseteq In(net[p])
      /\ \A m \in In(old[p]) : About(m) # c
      /\ \A m \in In(net[p]) : About(m) # c => m \in In(old[p])
  BY <1>1, <1>2, <1>3, <1>4, <1>5, Taking
<1>7. MessageOK(p, h)
  BY <1>1, <1>3, <1>6
<1>8. Sent(c) /\ method[c] = "none"
  BY <1>4, <1>7 DEF MessageOK
<1>9. ASSUME NEW q \in Peer, q # p, NEW m \in In(old[q])
      PROVE  About(m) # c
  <2>1. MessageOK(q, m)
    BY <1>3, <1>5, <1>9
  <2> QED
    BY <1>8, <1>9, <2>1 DEF MessageOK, p
<1> QED
  BY <1>3, <1>5, <1>6, <1>8, <1>9 DEF Left, old, p

(* An answer that is received is to a call whose method is over.           *)
LEMMA AnswerReceived ==
  ASSUME Base, NEW p \in Peer, net[p] # <<>>, Head(net[p])[1] = "answer",
         NEW i, i = Head(net[p])[2], NEW c, c = Head(net[p])[3]
  PROVE  /\ c \in Call /\ Sent(c) /\ method[c] = "over" /\ Caller[c] = p
         /\ Answering(c) /\ \E x \in Half(c) : i = store[p].id[x]
         /\ Left(Received(p), c)
<1> DEFINE h == Head(net[p])
           old == Received(p)
           q0 == net[p]
<1>1. \A q \in Peer : Queue(net[q]) /\ \A m \in In(net[q]) : MessageOK(q, m)
  BY DEF Base, Flow
<1>2. /\ old[p] = Tail(net[p])
      /\ \A q \in Peer : q # p => old[q] = net[q]
  BY DEF Received, Base, Types
<1>3. h[1] = "answer" /\ h = Head(q0) /\ q0 # <<>>
  OBVIOUS
<1> HIDE DEF h, old
<1>4. /\ h \in In(net[p]) /\ Queue(old[p])
      /\ In(old[p]) \subseteq In(net[p])
      /\ \A m \in In(old[p]) : About(m) # About(h)
      /\ \A m \in In(net[p]) : About(m) # About(h) => m \in In(old[p])
  BY <1>1, <1>2, <1>3, Taking
<1>5. MessageOK(p, h)
  BY <1>1, <1>4
<1>6. PICK d \in Call :
        /\ Sent(d) /\ About(h) = d
        /\ \/ h = <<"call", d>> /\ Callee(d) = p /\ method[d] = "none"
           \/ \E x \in Half(d) : /\ h = <<"answer", store[p].id[x], d>>
                                 /\ Caller[d] = p /\ method[d] = "over"
  BY <1>5 DEF MessageOK
<1>7. h # <<"call", d>>
  BY <1>3, Abouts
<1>8. PICK x \in Half(d) : /\ h = <<"answer", store[p].id[x], d>>
                           /\ Caller[d] = p /\ method[d] = "over"
  BY <1>6, <1>7
<1>9. h[2] = store[p].id[x] /\ h[3] = d
  BY <1>8, Abouts
<1>10. c = d /\ i = store[p].id[x]
  BY <1>9 DEF h
<1>11. ASSUME NEW q \in Peer, q # p, NEW m \in In(old[q])
       PROVE  About(m) # d
  <2>1. MessageOK(q, m)
    BY <1>1, <1>2, <1>11
  <2> QED
    BY <1>8, <1>11, <2>1 DEF MessageOK
<1>12. Left(old, d)
  BY <1>1, <1>2, <1>4, <1>6, <1>11 DEF Left
<1>13. Answering(d)
  BY <1>3, <1>4, <1>6, <1>8 DEF Answering
<1> QED
  BY <1>6, <1>8, <1>12, <1>10, <1>13 DEF old

(* A method that runs: no message is about its call.                       *)
LEMMA RunningQuiet ==
  ASSUME Base, NEW c \in Call, method[c] = "running"
  PROVE  Sent(c) /\ Left(net, c)
  BY DEF Base, Flow, MessageOK, Left

-----------------------------------------------------------------------------
(* Base is an invariant.                                                   *)

(* Awaiting code cancels its call.                                         *)
LEMMA CancelBase ==
  ASSUME Base, NEW c \in Call, Cancel(c)
  PROVE  Base' /\ Shrinks /\ Settles
<1>1. /\ Caller[c] = Plugin /\ future[c] = "pending"
      /\ future' = [future EXCEPT ![c] = "cancelled"]
      /\ UNCHANGED <<answeredBy, method, runs, store, net>>
  BY DEF Cancel
<1>2. Types'
  BY <1>1 DEF Base, Types
<1>3. Settles
  BY <1>1 DEF Settles, Base, Types
<1>4. Shrinks
  BY <1>1, SameShrinks
<1>5. Ids' /\ IdsKept
  BY <1>3, <1>4, ShrinksIds
<1>6. Ran'
  BY <1>1, <1>4, RanKept
<1>7. Flow'
  <2>1. \A d \in Call : Sent(d)' = Sent(d)
    BY <1>3, SettlesSame
  <2>2. \A p \in Peer : \A m \in In(net[p]) : MessageOK(p, m)'
    <3>1. ASSUME NEW p \in Peer, NEW m \in In(net[p])
          PROVE  MessageOK(p, m)'
      <4>1. MessageOK(p, m)
        BY DEF Base, Flow
      <4>2. \A d \in Call : About(m) = d => /\ Sent(d) => Sent(d)'
                                            /\ method'[d] = method[d]
        BY <1>1, <2>1
      <4> QED
        BY <1>5, <4>1, <4>2, MessageStays
    <3> QED
      BY <3>1
  <2>3. net' = net /\ method' = method
    BY <1>1
  <2> QED
    BY <2>1, <2>2, <2>3 DEF Base, Flow
<1> QED
  BY <1>2, <1>3, <1>4, <1>5, <1>6, <1>7 DEF Base, Shrinks

(* A method ends, with an answer or without.                               *)
LEMMA MethodEndsBase ==
  ASSUME Base, NEW c \in Call, MethodEnds(c)
  PROVE  Base' /\ Shrinks /\ Settles
<1>1. /\ method[c] = "running"
      /\ UNCHANGED <<future, answeredBy, runs, store>>
  BY DEF MethodEnds
<1>2. PICK v \in {"over", "silent"} : method' = [method EXCEPT ![c] = v]
  BY DEF MethodEnds
<1>3. \A d \in Call : method'[d] = IF d = c THEN v ELSE method[d]
  BY <1>2 DEF Base, Types
<1>4. \/ net' = net
      \/ /\ method'[c] = "over"
         /\ \E x \in Half(c) :
              net' = [net EXCEPT ![Caller[c]] = Append(@, Answer(c, x))]
  BY <1>3 DEF MethodEnds, Send, Half, Base, Types
<1>5. Sent(c) /\ Left(net, c)
  BY <1>1, RunningQuiet
<1>6. Caller[c] \in Peer /\ DOMAIN net = Peer
  BY Peers DEF Base, Types
<1>7. Types'
  <2>1. DOMAIN net' = Peer
    BY <1>4, <1>6
  <2>2. method' \in [Call -> {"none", "running", "over", "silent"}]
    BY <1>2 DEF Base, Types
  <2> QED
    BY <1>1, <2>1, <2>2 DEF Base, Types
<1>8. Settles /\ Shrinks
  BY <1>1, SameShrinks DEF Settles
<1>9. Ids' /\ Ran'
  BY <1>1, <1>8, ShrinksIds, RanKept
<1>10. Flow'
  <2>1. \/ \A p \in Peer : net'[p] = net[p]
        \/ /\ method'[c] = "over"
           /\ \E x \in Half(c) : net'[Caller[c]] = Append(net[Caller[c]], Answer(c, x))
           /\ \A p \in Peer : p # Caller[c] => net'[p] = net[p]
    BY <1>4, <1>6
  <2>2. \A d \in Call : d # c => method'[d] = method[d]
    BY <1>3
  <2> QED
    BY <1>5, <1>8, <2>1, <2>2, FlowGoesOn
<1> QED
  BY <1>7, <1>8, <1>9, <1>10 DEF Base, Shrinks

(* What the handlers of a call do to the messages.                         *)
LEMMA HandlesFlow ==
  ASSUME Base, Shrinks, Settles, NEW c \in Call, Receive(Callee(c), <<"call", c>>),
         \/ /\ method' = [method EXCEPT ![c] = "running"]
            /\ net' = Received(Callee(c))
         \/ /\ method' = [method EXCEPT ![c] = "over"]
            /\ net' = [Received(Callee(c)) EXCEPT
                         ![Caller[c]] = Append(@, Answer(c, Reject(c)))]
  PROVE  /\ Flow' /\ DOMAIN net' = Peer
         /\ method' \in [Call -> {"none", "running", "over", "silent"}]
<1> DEFINE old == Received(Callee(c))
<1>1. Sent(c) /\ Left(old, c)
  BY CallReceived
<1>2. DOMAIN old = Peer /\ Caller[c] \in Peer
  BY Peers DEF Received, Base, Types
<1>3. Reject(c) \in Half(c)
  BY DEF Half
<1>4. \A d \in Call : d # c => method'[d] = method[d]
  BY DEF Base, Types
<1> HIDE DEF old
<1>5. \/ \A p \in Peer : net'[p] = old[p]
      \/ /\ method'[c] = "over"
         /\ \E x \in Half(c) : net'[Caller[c]] = Append(old[Caller[c]], Answer(c, x))
         /\ \A p \in Peer : p # Caller[c] => net'[p] = old[p]
  BY <1>2, <1>3 DEF old, Base, Types
<1>6. Flow'
  BY <1>1, <1>4, <1>5, FlowGoesOn
<1>7. DOMAIN net' = Peer
  BY <1>2 DEF old
<1>8. method' \in [Call -> {"none", "running", "over", "silent"}]
  BY DEF Base, Types
<1> QED
  BY <1>6, <1>7, <1>8

(* The message of a method is handled.                                     *)
LEMMA HandleMethodBase ==
  ASSUME Base, NEW c \in Call, HandleMethod(c)
  PROVE  Base' /\ Shrinks /\ Settles
<1>1. /\ Receive(Callee(c), <<"call", c>>)
      /\ UNCHANGED <<future, answeredBy, runs, store>>
      /\ \/ /\ method' = [method EXCEPT ![c] = "running"]
            /\ net' = Received(Callee(c))
         \/ /\ method' = [method EXCEPT ![c] = "over"]
            /\ net' = [Received(Callee(c)) EXCEPT
                         ![Caller[c]] = Append(@, Answer(c, Reject(c)))]
  BY DEF HandleMethod
<1>2. Settles /\ Shrinks
  BY <1>1, SameShrinks DEF Settles
<1>3. Ids' /\ Ran'
  BY <1>1, <1>2, ShrinksIds, RanKept
<1>4. /\ Flow' /\ DOMAIN net' = Peer
      /\ method' \in [Call -> {"none", "running", "over", "silent"}]
  BY <1>1, <1>2, HandlesFlow
<1>5. Types'
  BY <1>1, <1>4 DEF Base, Types
<1> QED
  BY <1>2, <1>3, <1>4, <1>5 DEF Base, Shrinks

(* The message of a callback is handled.                                   *)
LEMMA HandleCallbackBase ==
  ASSUME Base, NEW c \in Call, HandleCallback(c)
  PROVE  Base' /\ Shrinks /\ Settles
<1> DEFINE p == Callee(c)
           i == store[p].id[Passed(Target[c])]
<1>1. /\ Receive(p, <<"call", c>>)
      /\ store' = [store EXCEPT ![p] = Fetch(p, @, i)]
  BY DEF HandleCallback
<1>2. \/ /\ i \in DOMAIN store[p].entry
         /\ Run(store[p].entry[i], c)
         /\ method' = [method EXCEPT ![c] = "running"]
         /\ net' = Received(p)
      \/ /\ method' = [method EXCEPT ![c] = "over"]
         /\ net' = [Received(p) EXCEPT
                      ![Caller[c]] = Append(@, Answer(c, Reject(c)))]
         /\ UNCHANGED <<future, answeredBy, runs>>
  BY DEF HandleCallback
<1>3. p \in Peer
  BY Peers
<1> HIDE DEF i
<1>4. Shrinks /\ i \notin DOMAIN store'[p].entry
  BY <1>1, <1>3, FetchShrinks
<1>5. /\ Settles /\ Ran'
      /\ future' \in [Call -> {"none", "encoding", "pending", "unsent", "stuck",
                               "done", "failed", "handled", "cancelled"}]
      /\ answeredBy' \in [Call -> Call \cup {NoCall}]
      /\ runs' \in [Function -> Nat]
  <2>1. CASE i \in DOMAIN store[p].entry /\ Run(store[p].entry[i], c)
    <3> HIDE DEF p
    <3> QED
      BY <1>3, <1>4, <2>1, RunOK
  <2>2. CASE UNCHANGED <<future, answeredBy, runs>>
    BY <1>4, <2>2, RanKept DEF Settles, Base, Types
  <2> QED
    BY <1>2, <2>1, <2>2
<1>6. /\ Flow' /\ DOMAIN net' = Peer
      /\ method' \in [Call -> {"none", "running", "over", "silent"}]
  BY <1>1, <1>2, <1>4, <1>5, HandlesFlow
<1>7. Types'
  BY <1>4, <1>5, <1>6 DEF Types, Shrinks
<1>8. Ids'
  BY <1>4, <1>5, ShrinksIds
<1> QED
  BY <1>4, <1>5, <1>6, <1>7, <1>8 DEF Base, Shrinks

(* An answer is handled.                                                   *)
LEMMA HandleAnswerBase ==
  ASSUME Base, NEW p \in Peer, HandleAnswer(p)
  PROVE  Base' /\ Shrinks /\ Settles
<1> PICK i, c : i = Head(net[p])[2] /\ c = Head(net[p])[3]
  OBVIOUS
<1>1. /\ net[p] # <<>> /\ Head(net[p])[1] = "answer"
      /\ store' = [store EXCEPT ![p] = Fetch(p, @, i)]
      /\ net' = Received(p) /\ method' = method
  BY DEF HandleAnswer
<1>2. \/ i \in DOMAIN store[p].entry /\ Run(store[p].entry[i], c)
      \/ UNCHANGED <<future, answeredBy, runs>>
  BY DEF HandleAnswer
<1>3. c \in Call /\ Sent(c) /\ Left(Received(p), c)
  BY <1>1, AnswerReceived
<1>4. Shrinks /\ i \notin DOMAIN store'[p].entry
  BY <1>1, FetchShrinks
<1>5. /\ Settles /\ Ran'
      /\ future' \in [Call -> {"none", "encoding", "pending", "unsent", "stuck",
                               "done", "failed", "handled", "cancelled"}]
      /\ answeredBy' \in [Call -> Call \cup {NoCall}]
      /\ runs' \in [Function -> Nat]
  <2>1. CASE i \in DOMAIN store[p].entry /\ Run(store[p].entry[i], c)
    BY <1>3, <1>4, <2>1, RunOK
  <2>2. CASE UNCHANGED <<future, answeredBy, runs>>
    BY <1>4, <2>2, RanKept DEF Settles, Base, Types
  <2> QED
    BY <1>2, <2>1, <2>2
<1>6. Flow'
  <2> DEFINE old == Received(p)
  <2>1. \A q \in Peer : net'[q] = old[q]
    BY <1>1
  <2>2. \A d \in Call : d # c => method'[d] = method[d]
    BY <1>1
  <2> HIDE DEF old
  <2> QED
    BY <1>3, <1>4, <1>5, <2>1, <2>2, FlowGoesOn DEF old
<1>7. DOMAIN net' = Peer
  BY <1>1 DEF Received, Base, Types
<1>8. Types'
  BY <1>1, <1>4, <1>5, <1>7 DEF Base, Types, Shrinks
<1>9. Ids'
  BY <1>4, <1>5, ShrinksIds
<1> QED
  BY <1>4, <1>5, <1>6, <1>8, <1>9 DEF Base, Shrinks

(* Base is kept by every step.                                             *)
LEMMA BaseStep == Base /\ [Next]_vars => Base'
<1> SUFFICES ASSUME Base, [Next]_vars
             PROVE  Base'
  OBVIOUS
<1>1. CASE UNCHANGED vars
  BY <1>1 DEF vars, Base, Types, Stores, Ids, Flow, MessageOK, Ran,
              Unput, Promised, Sent
<1>2. ASSUME NEW c \in Call,
             \/ PluginCalls(c) \/ PluginCallRaises(c)
             \/ HostEncodes(c) \/ HostSends(c) \/ HostCannotEncode(c)
      PROVE  Base'
  BY <1>2, StartsEach, StartsBase
<1>3. ASSUME NEW c \in Call, Cancel(c)
      PROVE  Base'
  BY <1>3, CancelBase
<1>4. ASSUME NEW c \in Call, MethodEnds(c)
      PROVE  Base'
  BY <1>4, MethodEndsBase
<1>5. ASSUME NEW c \in Call, HandleMethod(c)
      PROVE  Base'
  BY <1>5, HandleMethodBase
<1>6. ASSUME NEW c \in Call, HandleCallback(c)
      PROVE  Base'
  BY <1>6, HandleCallbackBase
<1>7. ASSUME NEW p \in Peer, HandleAnswer(p)
      PROVE  Base'
  BY <1>7, HandleAnswerBase
<1> QED
  BY <1>1, <1>2, <1>3, <1>4, <1>5, <1>6, <1>7 DEF Next, Handle

(* All variables hold values of their types.                               *)
THEOREM TypeCorrect == Spec => []TypeOK
<1>1. Spec => []Base
  BY BaseInit, BaseStep, PTL DEF Spec
<1>2. Base => TypeOK
  BY BaseImplies
<1> QED
  BY <1>1, <1>2, PTL

(* A function that was passed runs at most once, whoever calls it, however *)
(* often, and whatever the host's ids are used for after it.               *)
THEOREM RunsAtMostOnce == Spec => []RunsOnce
<1>1. Spec => []Base
  BY BaseInit, BaseStep, PTL DEF Spec
<1>2. Base => RunsOnce
  BY BaseImplies
<1> QED
  BY <1>1, <1>2, PTL

-----------------------------------------------------------------------------
(* What holds when no function of the host's is called twice.              *)

(* A function of the host's is the target of at most one call, as the      *)
(* README of the repository asks ("can only be called once", lines 80 and  *)
(* 357).  The plugin may break it: the host then finds another object, or  *)
(* nothing, under the number.                                              *)
CalledOnce ==
  \A c, d \in Call :
    Caller[c] = Plugin /\ Target[c] # NoFunction /\ Target[d] = Target[c] => c = d

Unanswered(c) == Promised(c) /\ (method[c] = "over" => Answering(c))

(* A call that was not answered has both halves of its promise in the      *)
(* store: what else was fetched had an id of its own.                      *)
Kept ==
  \A c \in Call : Unanswered(c) => \A x \in Half(c) : Holds(store[Caller[c]], x)

Open == \A c \in Call : future[c] = "pending" => Unanswered(c)

(* A function of the host's that was put and not called yet is there.      *)
Called ==
  \A c \in Call :
    /\ Target[c] # NoFunction /\ Caller[c] = Plugin /\ method[c] = "none"
    /\ store[Host].id[Passed(Target[c])] # NoId
    => Holds(store[Host], Passed(Target[c]))

(* The halves in the host's store are of calls that are not settled.       *)
HostHalves ==
  \A c \in Call : \A x \in Half(c) :
    Holds(store[Host], x) => \/ future[c] \in {"encoding", "pending", "unsent"}
                             \/ x = Resolve(c) /\ store[Host].id[x] = 0

Full == Base /\ Kept /\ Open /\ Called /\ HostHalves /\ AnswerIsOwn

(* A thing that a store holds has an id, and its owner keeps the store.    *)
LEMMA HeldOwn ==
  ASSUME Base, NEW p \in Peer, NEW c \in Call, NEW x \in ThingsOf(c),
         Holds(store[p], x)
  PROVE  store[p].id[x] # NoId /\ x \in Thing /\ Caller[c] = p
<1>1. x \in Thing
  BY UnputOwn
<1>2. DOMAIN store[p].entry \subseteq Nat
  BY StoreFields DEF Base, Stores, Good
<1>3. store[p].id[x] # NoId
  BY <1>2 DEF Holds, NoId
<1>4. PICK d \in Call : Caller[d] = p /\ x \in ThingsOf(d)
  BY <1>1, <1>3 DEF Base, Ids
<1> QED
  BY <1>1, <1>3, <1>4, OneOwner

(* Full implies the three properties.                                      *)
LEMMA FullImplies == Full => PendingIsStored /\ AnswerIsOwn /\ HostStoreIsTidy
<1> SUFFICES ASSUME Full
             PROVE  PendingIsStored /\ AnswerIsOwn /\ HostStoreIsTidy
  OBVIOUS
<1>1. PendingIsStored
  BY DEF Full, Kept, Open, PendingIsStored, Holds, Half
<1>2. HostStoreIsTidy
  <2> DEFINE s == store[Host]
  <2>1. Good(Host, s)
    BY Peers DEF Full, Base, Stores
  <2>2. PICK m \in Nat : NumberedTo(Host, s, m)
    BY <2>1 DEF Good
  <2>3. /\ DOMAIN s.entry \subseteq Nat /\ s.free \subseteq Nat
        /\ \A i \in DOMAIN s.entry : s.entry[i] \in Thing /\ s.id[s.entry[i]] = i
    BY <2>1, StoreFields DEF Good
  <2> HIDE DEF s
  <2>4. Max(s.free) = m
    <3>1. s.free \subseteq Int /\ m \in s.free /\ \A i \in s.free : i <= m
      BY <2>2, <2>3 DEF NumberedTo
    <3> QED
      BY <3>1, MaxIs
  <2>5. \A i \in 0..(m - 1) : i \in s.free <=> i \notin DOMAIN s.entry
    BY <2>2 DEF NumberedTo
  <2>6. ASSUME NEW i \in DOMAIN s.entry
        PROVE  LET x == s.entry[i] IN
               \/ x[1] = "function" /\ runs[x[2]] = 0
               \/ /\ x[1] # "function"
                  /\ future[x[2]] \in {"encoding", "pending", "unsent"}
               \/ x[1] = "resolve" /\ i = 0
    <3> DEFINE x == s.entry[i]
    <3>1. x \in Thing /\ s.id[x] = i
      BY <2>3
    <3>2. CASE x[1] = "function"
      <4>1. x[2] \in Function /\ x = Passed(x[2])
        BY <3>1, <3>2, Kinds
      <4>2. runs[x[2]] # 1
        BY <4>1, Peers DEF Full, Base, Ran, s
      <4>3. runs[x[2]] \in {0, 1}
        BY <4>1 DEF Full, Base, Ran
      <4> QED
        BY <3>2, <4>2, <4>3
    <3>3. CASE x[1] # "function"
      <4>1. x[2] \in Call /\ x \in Half(x[2])
        BY <3>1, <3>3, Kinds
      <4>2. Holds(s, x)
        BY <3>1 DEF Holds
      <4>3. \/ future[x[2]] \in {"encoding", "pending", "unsent"}
            \/ x = Resolve(x[2]) /\ s.id[x] = 0
        BY <4>1, <4>2 DEF Full, HostHalves, s
      <4>4. Resolve(x[2])[1] = "resolve"
        BY <4>1, Kinds
      <4> QED
        BY <3>1, <3>3, <4>3, <4>4
    <3> QED
      BY <3>2, <3>3
  <2> QED
    BY <2>4, <2>5, <2>6 DEF HostStoreIsTidy, s
<1> QED
  BY <1>1, <1>2 DEF Full

(* Initially no call was made.                                             *)
LEMMA FullInit == Init => Full
<1> SUFFICES ASSUME Init
             PROVE  Full
  OBVIOUS
<1>1. /\ Base
      /\ \A c \in Call : future[c] = "none" /\ answeredBy[c] = NoCall
  BY BaseInit DEF Init
<1>2. \A c \in Call : ~ Promised(c)
  BY <1>1 DEF Promised, Sent
<1>3. DOMAIN store[Host].entry = {} /\ \A x \in Thing : store[Host].id[x] = NoId
  BY Peers DEF Init, EmptyStore
<1>4. \A c \in Call : Target[c] # NoFunction => Passed(Target[c]) \in Thing
  BY Kinds, CallsAssumption
<1>5. Called
  BY <1>3, <1>4 DEF Called
<1>6. HostHalves
  BY <1>3 DEF HostHalves, Holds
<1> QED
  BY <1>1, <1>2, <1>5, <1>6 DEF Full, Kept, Open, Unanswered, AnswerIsOwn

(* Making a call keeps Full.                                               *)
LEMMA StartsFull ==
  ASSUME Full, NEW c \in Call, NEW X, Starts(c, X)
  PROVE  Full'
<1> DEFINE p == Caller[c]
<1>1. Base /\ Base'
  BY StartsBase DEF Full
<1>2. /\ IdsKept
      /\ \A q \in Peer : \A x \in Thing :
           store'[q].id[x] # store[q].id[x] => q = p /\ x \in X
      /\ X \subseteq Thing
  BY <1>1, StartsKeep
<1>3. /\ X \subseteq ThingsOf(c) /\ ~ Sent(c) /\ p \in Peer /\ Callee(c) \in Peer
      /\ method' = method /\ answeredBy' = answeredBy
      /\ Promised(c)' => Half(c) \subseteq X \/ Promised(c)
      /\ Added(store[p], store'[p], X)
      /\ \A q \in Peer : q # p => store'[q] = store[q]
  BY Peers, UnputOwn DEF Starts, Grows
<1>4. PICK v \in {"encoding", "pending", "unsent", "stuck"} :
        future' = [future EXCEPT ![c] = v]
  BY DEF Starts
<1>5. \A d \in Call : future'[d] = IF d = c THEN v ELSE future[d]
  BY <1>1, <1>4 DEF Base, Types
<1>6. \A d \in Call : d # c => Promised(d)' = Promised(d)
  BY <1>5 DEF Promised, Sent
<1>7. method[c] = "none"
  BY <1>1, <1>3 DEF Base, Flow, Types
<1>8. ASSUME NEW d \in Call
      PROVE  Answering(d)' = Answering(d)
  <2>1. CASE net' = net
    BY <2>1 DEF Answering
  <2>2. CASE net' = [net EXCEPT ![Callee(c)] = Append(@, <<"call", c>>)]
    <3> DEFINE r == Callee(c)
               m == <<"call", c>>
    <3>1. /\ net'[r] = Append(net[r], m)
          /\ \A q \in Peer : q # r => net'[q] = net[q]
      BY <1>1, <1>3, <2>2 DEF Base, Types
    <3>2. In(net'[r]) = In(net[r]) \cup {m}
      <4>1. m \in Message /\ About(m) = c
        BY Abouts
      <4>2. \A n \in In(net[r]) : About(n) # About(m)
        BY <1>1, <1>3, <4>1 DEF Base, Flow, MessageOK
      <4>3. Queue(net[r])
        BY <1>1, <1>3 DEF Base, Flow
      <4> HIDE DEF m, r
      <4> QED
        BY <3>1, <4>1, <4>2, <4>3, Sending
    <3>3. m[1] # "answer"
      OBVIOUS
    <3>4. Caller[d] \in Peer
      BY Peers
    <3> HIDE DEF m, r
    <3> QED
      BY <3>1, <3>2, <3>3, <3>4 DEF Answering
  <2> QED
    BY <2>1, <2>2 DEF Starts
<1>9. ASSUME NEW q \in Peer, NEW x \in Thing, Holds(store[q], x)
      PROVE  Holds(store'[q], x)
  <2>1. DOMAIN store[q].entry \subseteq Nat
    BY <1>1, StoreFields DEF Base, Stores, Good
  <2>2. store'[q].id[x] = store[q].id[x]
    BY <1>2, <1>9, <2>1 DEF Holds, IdsKept, NoId
  <2>3. CASE q = p
    BY <1>3, <1>9, <2>2, <2>3 DEF Holds, Added
  <2>4. CASE q # p
    BY <1>3, <1>9, <2>4
  <2> QED
    BY <2>3, <2>4
<1>10. \A x \in X : Holds(store'[p], x)
  BY <1>3 DEF Added
<1> HIDE DEF p
<1>11. Kept'
  <2> SUFFICES ASSUME NEW d \in Call, Unanswered(d)', NEW x \in Half(d)
               PROVE  Holds(store'[Caller[d]], x)
    BY DEF Kept
  <2>1. x \in Thing /\ Caller[d] \in Peer
    BY Kinds, Peers
  <2>2. CASE Promised(d)
    <3>1. Unanswered(d)
      BY <1>3, <1>8, <2>2 DEF Unanswered
    <3>2. Holds(store[Caller[d]], x)
      BY <3>1 DEF Full, Kept
    <3> QED
      BY <1>9, <2>1, <3>2
  <2>3. CASE ~ Promised(d)
    <3>1. d = c /\ x \in X
      BY <1>3, <1>6, <2>3 DEF Unanswered
    <3> QED
      BY <1>10, <3>1 DEF p
  <2> QED
    BY <2>2, <2>3
<1>12. Open'
  <2> SUFFICES ASSUME NEW d \in Call, future'[d] = "pending"
               PROVE  Unanswered(d)'
    BY DEF Open
  <2>1. Promised(d)'
    BY DEF Promised, Sent
  <2>2. CASE d = c
    BY <1>3, <1>7, <2>1, <2>2 DEF Unanswered
  <2>3. CASE d # c
    <3>1. Unanswered(d)
      BY <1>5, <2>3 DEF Full, Open
    <3> QED
      BY <1>3, <1>8, <2>1, <3>1 DEF Unanswered
  <2> QED
    BY <2>2, <2>3
<1>13. Called'
  <2> SUFFICES ASSUME NEW d \in Call, Target[d] # NoFunction, Caller[d] = Plugin,
                      method'[d] = "none",
                      store'[Host].id[Passed(Target[d])] # NoId
               PROVE  Holds(store'[Host], Passed(Target[d]))
    BY DEF Called
  <2> DEFINE x == Passed(Target[d])
  <2>1. x \in Thing /\ Host \in Peer
    BY Kinds, Peers, CallsAssumption
  <2>2. CASE store'[Host].id[x] = store[Host].id[x]
    <3>1. Holds(store[Host], x)
      BY <1>3, <2>2 DEF Full, Called
    <3> QED
      BY <1>9, <2>1, <3>1
  <2>3. CASE store'[Host].id[x] # store[Host].id[x]
    BY <1>2, <1>10, <2>1, <2>3
  <2> QED
    BY <2>2, <2>3
<1>14. HostHalves'
  <2> SUFFICES ASSUME NEW d \in Call, NEW x \in Half(d), Holds(store'[Host], x)
               PROVE  \/ future'[d] \in {"encoding", "pending", "unsent"}
                      \/ x = Resolve(d) /\ store'[Host].id[x] = 0
    BY DEF HostHalves
  <2>1. x \in Thing /\ Host \in Peer /\ x \in ThingsOf(d)
    BY Kinds, Peers DEF ThingsOf
  <2>2. CASE d = c
    <3>1. Good(Host, store'[Host])
      BY <1>1, <2>1 DEF Base, Stores
    <3>2. DOMAIN store'[Host].entry \subseteq Nat
      BY <3>1, StoreFields DEF Good
    <3>3. store'[Host].id[x] # NoId
      BY <3>2 DEF Holds, NoId
    <3>4. PICK e \in Call : Caller[e] = Host /\ x \in ThingsOf(e)
      BY <1>1, <2>1, <3>3 DEF Base, Ids
    <3>5. Caller[c] = Host
      BY <2>1, <2>2, <3>4, OneOwner
    <3>6. future'[c] # "stuck"
      <4>1. future'[c] = "stuck" => Unput(c)' = Half(c)
        BY DEF Unput
      <4>2. \A y \in Unput(c)' : store'[Caller[c]].id[y] = NoId
        BY <1>1 DEF Base, Ids
      <4> QED
        BY <2>2, <3>3, <3>5, <4>1, <4>2
    <3> QED
      BY <1>5, <2>2, <3>6
  <2>3. CASE d # c
    <3>1. x \notin X
      BY <1>3, <2>1, <2>3, OneOwner
    <3>2. store'[Host].id[x] = store[Host].id[x]
      BY <1>2, <2>1, <3>1
    <3>3. Holds(store[Host], x)
      <4>1. CASE Host = p
        BY <1>3, <3>1, <3>2, <4>1 DEF Holds, Added
      <4>2. CASE Host # p
        BY <1>3, <2>1, <4>2
      <4> QED
        BY <4>1, <4>2
    <3>4. \/ future[d] \in {"encoding", "pending", "unsent"}
          \/ x = Resolve(d) /\ store[Host].id[x] = 0
      BY <3>3 DEF Full, HostHalves
    <3> QED
      BY <1>5, <2>3, <3>2, <3>4
  <2> QED
    BY <2>2, <2>3
<1>15. AnswerIsOwn'
  BY <1>3 DEF Full, AnswerIsOwn
<1> QED
  BY <1>1, <1>11, <1>12, <1>13, <1>14, <1>15 DEF Full

(* No answer is added: none to c is on its way.                            *)
LEMMA AnsweringLeft ==
  ASSUME NEW c \in Call, NEW old, Left(old, c), \A p \in Peer : net'[p] = old[p]
  PROVE  /\ \A d \in Call : d # c => Answering(d)' = Answering(d)
         /\ ~ Answering(c)'
  BY Peers DEF Left, Answering

(* An answer to c is added.                                                *)
LEMMA AnsweringSent ==
  ASSUME Base, Shrinks, Settles, NEW c \in Call, Sent(c), method'[c] = "over",
         NEW old, Left(old, c), NEW x \in Half(c),
         net'[Caller[c]] = Append(old[Caller[c]], Answer(c, x)),
         \A p \in Peer : p # Caller[c] => net'[p] = old[p]
  PROVE  /\ \A d \in Call : d # c => Answering(d)' = Answering(d)
         /\ Answering(c)'
<1> DEFINE q == Caller[c]
<1> PICK a : a = Answer(c, x)
  OBVIOUS
<1>1. a \in Message /\ a[1] = "answer" /\ About(a) = c
  BY AnswerOK
<1>2. \A d \in Call : Caller[d] \in Peer
  BY Peers
<1>3. Queue(old[q]) /\ \A m \in In(old[q]) : About(m) # c
  BY <1>2 DEF Left
<1> HIDE DEF q
<1>4. In(Append(old[q], a)) = In(old[q]) \cup {a}
  BY <1>1, <1>3, Sending
<1>5. /\ net'[q] = Append(old[q], a)
      /\ \A p \in Peer : p # q => net'[p] = old[p]
  BY DEF q
<1>6. Answering(c)'
  BY <1>1, <1>4, <1>5 DEF Answering, q
<1>7. ASSUME NEW d \in Call, d # c
      PROVE  Answering(d)' = Answering(d)
  <2> DEFINE r == Caller[d]
  <2>1. r \in Peer
    BY <1>2
  <2> HIDE DEF r
  <2>2. \A m : About(m) = d => (m \in In(old[r]) <=> m \in In(net[r]))
    BY <1>7, <2>1 DEF Left
  <2>3. \A m : About(m) = d => (m \in In(net'[r]) <=> m \in In(old[r]))
    <3>1. CASE r = q
      <4>1. net'[r] = Append(old[q], a)
        BY <1>5, <3>1
      <4>2. \A m : m \in In(net'[r]) <=> m \in In(old[q]) \/ m = a
        BY <1>4, <4>1
      <4> QED
        BY <1>1, <1>7, <3>1, <4>2
    <3>2. CASE r # q
      <4>1. net'[r] = old[r]
        BY <1>5, <2>1, <3>2
      <4> QED
        BY <4>1
    <3> QED
      BY <3>1, <3>2
  <2> QED
    BY <2>2, <2>3 DEF Answering, r
<1> QED
  BY <1>6, <1>7

(* Entries leave a store: what it holds after, it held before.             *)
LEMMA HeldBefore ==
  ASSUME Shrinks, NEW p \in Peer, NEW x, Holds(store'[p], x)
  PROVE  Holds(store[p], x) /\ store'[p].id[x] = store[p].id[x]
  BY DEF Shrinks, Holds

(* A step of call c's method keeps Kept and Open when the store keeps the  *)
(* halves and no promise is settled.                                       *)
LEMMA MethodStep ==
  ASSUME Full, Shrinks, NEW c \in Call, Sent(c), method[c] # "over",
         future' = future, answeredBy' = answeredBy,
         \A d \in Call : d # c => /\ method'[d] = method[d]
                                  /\ Answering(d)' = Answering(d),
         method'[c] = "over" => Answering(c)',
         \A p \in Peer : \A d \in Call : \A x \in Half(d) :
           Holds(store[p], x) => Holds(store'[p], x)
  PROVE  Kept' /\ Open' /\ HostHalves' /\ AnswerIsOwn'
<1>1. \A d \in Call : Promised(d)' = Promised(d)
  BY DEF Promised, Sent
<1>2. ASSUME NEW d \in Call
      PROVE  Unanswered(d)' = Unanswered(d)
  <2>1. CASE d = c
    <3>1. (Unanswered(c) <=> Promised(c)) /\ (Unanswered(c)' <=> Promised(c)')
      BY DEF Unanswered
    <3>2. Unanswered(c)' <=> Unanswered(c)
      BY <1>1, <3>1
    <3> QED
      BY <2>1, <3>2 DEF Unanswered
  <2>2. CASE d # c
    BY <1>1, <2>2 DEF Unanswered
  <2> QED
    BY <2>1, <2>2
<1>3. Kept'
  <2>1. \A d \in Call : Caller[d] \in Peer
    BY Peers
  <2> QED
    BY <1>2, <2>1 DEF Full, Kept
<1>4. Open'
  BY <1>2 DEF Full, Open
<1>5. HostHalves'
  BY HeldBefore, Peers DEF Full, HostHalves
<1> QED
  BY <1>3, <1>4, <1>5 DEF Full, AnswerIsOwn

(* A cancelled call was not answered, and stays so.                        *)
LEMMA CancelFull ==
  ASSUME Full, NEW c \in Call, Cancel(c)
  PROVE  Full'
<1>1. Base' /\ Shrinks /\ Settles
  BY CancelBase DEF Full
<1>2. /\ Caller[c] = Plugin
      /\ future' = [future EXCEPT ![c] = "cancelled"]
      /\ UNCHANGED <<answeredBy, method, runs, store, net>>
  BY DEF Cancel
<1>3. \A d \in Call : Unanswered(d)' = Unanswered(d)
  <2>1. \A d \in Call : Promised(d)' = Promised(d)
    BY <1>1, SettlesSame
  <2> QED
    BY <1>2, <2>1 DEF Unanswered, Answering
<1>4. \A d \in Call : future'[d] = IF d = c THEN "cancelled" ELSE future[d]
  BY <1>2 DEF Full, Base, Types
<1>5. Kept' /\ Open'
  BY <1>2, <1>3, <1>4 DEF Full, Kept, Open
<1>6. Called'
  BY <1>2 DEF Full, Called
<1>7. HostHalves'
  <2>1. \A x \in Half(c) : ~ Holds(store[Host], x)
    BY <1>2, HeldOwn, Peers DEF Full, ThingsOf
  <2> QED
    BY <1>2, <1>4, <2>1 DEF Full, HostHalves
<1> QED
  BY <1>1, <1>2, <1>5, <1>6, <1>7 DEF Full, AnswerIsOwn

(* A method ends.                                                          *)
LEMMA MethodEndsFull ==
  ASSUME Full, NEW c \in Call, MethodEnds(c)
  PROVE  Full'
<1>1. Base' /\ Shrinks /\ Settles
  BY MethodEndsBase DEF Full
<1>2. /\ method[c] = "running"
      /\ UNCHANGED <<future, answeredBy, runs, store>>
  BY DEF MethodEnds
<1>3. PICK v \in {"over", "silent"} :
        /\ method' = [method EXCEPT ![c] = v]
        /\ \/ v = "silent" /\ net' = net
           \/ /\ v = "over"
              /\ \E x \in Half(c) :
                   net' = [net EXCEPT ![Caller[c]] = Append(@, Answer(c, x))]
  BY DEF MethodEnds, Send, Half
<1>4. \A d \in Call : method'[d] = IF d = c THEN v ELSE method[d]
  BY <1>3 DEF Full, Base, Types
<1>5. Sent(c) /\ Left(net, c)
  BY <1>2, RunningQuiet DEF Full
<1>6. Caller[c] \in Peer /\ DOMAIN net = Peer
  BY Peers DEF Full, Base, Types
<1>7. /\ \A d \in Call : d # c => Answering(d)' = Answering(d)
      /\ method'[c] = "over" => Answering(c)'
  <2>1. CASE v = "silent" /\ net' = net
    <3>1. method'[c] # "over" /\ \A p \in Peer : net'[p] = net[p]
      BY <1>4, <2>1
    <3> QED
      BY <1>5, <3>1, AnsweringLeft
  <2>2. ASSUME v = "over", NEW x \in Half(c),
               net' = [net EXCEPT ![Caller[c]] = Append(@, Answer(c, x))]
        PROVE  /\ \A d \in Call : d # c => Answering(d)' = Answering(d)
               /\ Answering(c)'
    <3>1. /\ method'[c] = "over"
          /\ net'[Caller[c]] = Append(net[Caller[c]], Answer(c, x))
          /\ \A p \in Peer : p # Caller[c] => net'[p] = net[p]
      BY <1>4, <1>6, <2>2
    <3> QED
      BY <1>1, <1>5, <3>1, AnsweringSent DEF Full
  <2> QED
    BY <1>3, <2>1, <2>2
<1>8. Kept' /\ Open' /\ HostHalves' /\ AnswerIsOwn'
  <2>1. method[c] # "over"
    BY <1>2
  <2> QED
    BY <1>1, <1>2, <1>4, <1>5, <1>7, <2>1, MethodStep
<1>9. Called'
  BY <1>2, <1>4 DEF Full, Called
<1> QED
  BY <1>1, <1>8, <1>9 DEF Full

(* Handling a call: whether it was answered.                               *)
LEMMA HandlesAnswering ==
  ASSUME Base, Shrinks, Settles, NEW c \in Call, Receive(Callee(c), <<"call", c>>),
         \/ /\ method' = [method EXCEPT ![c] = "running"]
            /\ net' = Received(Callee(c))
         \/ /\ method' = [method EXCEPT ![c] = "over"]
            /\ net' = [Received(Callee(c)) EXCEPT
                         ![Caller[c]] = Append(@, Answer(c, Reject(c)))]
  PROVE  /\ Sent(c) /\ method[c] = "none" /\ method'[c] \in {"running", "over"}
         /\ \A d \in Call : d # c => /\ method'[d] = method[d]
                                     /\ Answering(d)' = Answering(d)
         /\ method'[c] = "over" => Answering(c)'
<1> PICK old : old = Received(Callee(c))
  OBVIOUS
<1>1. Sent(c) /\ method[c] = "none" /\ Left(old, c)
  BY CallReceived
<1>2. DOMAIN old = Peer /\ Caller[c] \in Peer
  BY Peers DEF Received, Base, Types
<1>3. /\ \A d \in Call : d # c => method'[d] = method[d]
      /\ method'[c] \in {"running", "over"}
  BY DEF Base, Types
<1>4. CASE method' = [method EXCEPT ![c] = "running"] /\ net' = old
  <2>1. method'[c] # "over" /\ \A p \in Peer : net'[p] = old[p]
    BY <1>4 DEF Base, Types
  <2>2. \A d \in Call : d # c => Answering(d)' = Answering(d)
    BY <1>1, <2>1, AnsweringLeft
  <2> QED
    BY <1>1, <1>3, <2>1, <2>2
<1>5. CASE /\ method' = [method EXCEPT ![c] = "over"]
           /\ net' = [old EXCEPT ![Caller[c]] = Append(@, Answer(c, Reject(c)))]
  <2>1. /\ method'[c] = "over" /\ Reject(c) \in Half(c)
        /\ net'[Caller[c]] = Append(old[Caller[c]], Answer(c, Reject(c)))
        /\ \A p \in Peer : p # Caller[c] => net'[p] = old[p]
    BY <1>2, <1>5 DEF Base, Types, Half
  <2>2. /\ \A d \in Call : d # c => Answering(d)' = Answering(d)
        /\ Answering(c)'
    BY <1>1, <2>1, AnsweringSent
  <2> QED
    BY <1>1, <1>3, <2>2
<1> QED
  BY <1>4, <1>5

(* The message of a method is handled.                                     *)
LEMMA HandleMethodFull ==
  ASSUME Full, NEW c \in Call, HandleMethod(c)
  PROVE  Full'
<1>1. Base' /\ Shrinks /\ Settles
  BY HandleMethodBase DEF Full
<1>2. /\ UNCHANGED <<future, answeredBy, runs, store>>
      /\ Receive(Callee(c), <<"call", c>>)
      /\ \/ /\ method' = [method EXCEPT ![c] = "running"]
            /\ net' = Received(Callee(c))
         \/ /\ method' = [method EXCEPT ![c] = "over"]
            /\ net' = [Received(Callee(c)) EXCEPT
                         ![Caller[c]] = Append(@, Answer(c, Reject(c)))]
  BY DEF HandleMethod
<1>3. /\ Sent(c) /\ method[c] = "none" /\ method'[c] \in {"running", "over"}
      /\ \A d \in Call : d # c => /\ method'[d] = method[d]
                                  /\ Answering(d)' = Answering(d)
      /\ method'[c] = "over" => Answering(c)'
  BY <1>1, <1>2, HandlesAnswering DEF Full
<1>4. Kept' /\ Open' /\ HostHalves' /\ AnswerIsOwn'
  <2>1. method[c] # "over" /\ future' = future /\ answeredBy' = answeredBy
        /\ store' = store
    BY <1>2, <1>3
  <2> QED
    BY <1>1, <1>3, <2>1, MethodStep
<1>5. Called'
  BY <1>2, <1>3 DEF Full, Called
<1> QED
  BY <1>1, <1>4, <1>5 DEF Full

(* What is found under the id of a function that is called is that         *)
(* function, so that calling it settles no promise.                        *)
LEMMA CallbackFinds ==
  ASSUME Full, NEW c \in Call, HandleCallback(c), method[c] = "none"
  PROVE  LET p == Callee(c)
             x == Passed(Target[c])
             i == store[p].id[x]
         IN  /\ i \in DOMAIN store[p].entry => store[p].entry[i] = x
             /\ future' = future /\ answeredBy' = answeredBy
<1> DEFINE p == Callee(c)
           x == Passed(Target[c])
           i == store[p].id[x]
<1>1. p \in Peer /\ (p = Host <=> Caller[c] = Plugin)
  BY Peers DEF Callee
<1>2. /\ Target[c] # NoFunction
      /\ \/ i \in DOMAIN store[p].entry /\ Run(store[p].entry[i], c)
         \/ UNCHANGED <<future, answeredBy, runs>>
  BY DEF HandleCallback
<1>3. x \in Thing /\ x[1] = "function"
  BY <1>2, Kinds, CallsAssumption
<1> HIDE DEF i, x
<1>4. DOMAIN store[p].entry \subseteq Nat
  BY <1>1, StoreFields DEF Full, Base, Stores, Good
<1>5. ASSUME i \in DOMAIN store[p].entry
      PROVE  store[p].entry[i] = x
  <2>1. CASE p = Plugin
    <3>1. PICK m \in Nat : NumberedTo(p, store[p], m)
      BY <1>1 DEF Full, Base, Stores, Good
    <3> QED
      BY <1>3, <1>5, <2>1, <3>1 DEF NumberedTo, i
  <2>2. CASE p = Host
    <3>1. store[Host].id[x] # NoId /\ Caller[c] = Plugin
      BY <1>1, <1>4, <1>5, <2>2 DEF NoId, i
    <3>2. Holds(store[Host], x)
      BY <1>2, <3>1 DEF Full, Called, x
    <3> QED
      BY <2>2, <3>2 DEF Holds, i
  <2> QED
    BY <1>1, <2>1, <2>2 DEF Peer
<1>6. future' = future /\ answeredBy' = answeredBy
  <2>1. CASE i \in DOMAIN store[p].entry /\ Run(store[p].entry[i], c)
    <3>1. Run(x, c)
      BY <1>5, <2>1
    <3> QED
      BY <1>3, <3>1 DEF Run
  <2>2. CASE UNCHANGED <<future, answeredBy, runs>>
    BY <2>2
  <2> QED
    BY <1>2, <2>1, <2>2
<1> QED
  BY <1>5, <1>6 DEF i, x

(* The message of a callback is handled.                                   *)
LEMMA HandleCallbackFull ==
  ASSUME CalledOnce, Full, NEW c \in Call, HandleCallback(c)
  PROVE  Full'
<1> DEFINE p == Callee(c)
           x == Passed(Target[c])
           i == store[p].id[x]
<1>1. Base /\ Base' /\ Shrinks /\ Settles
  BY HandleCallbackBase DEF Full
<1>2. /\ Target[c] # NoFunction /\ Receive(p, <<"call", c>>)
      /\ store' = [store EXCEPT ![p] = Fetch(p, @, i)]
  BY DEF HandleCallback
<1>3. \/ /\ i \in DOMAIN store[p].entry
         /\ Run(store[p].entry[i], c)
         /\ method' = [method EXCEPT ![c] = "running"]
         /\ net' = Received(p)
      \/ /\ method' = [method EXCEPT ![c] = "over"]
         /\ net' = [Received(p) EXCEPT
                      ![Caller[c]] = Append(@, Answer(c, Reject(c)))]
         /\ UNCHANGED <<future, answeredBy, runs>>
  BY DEF HandleCallback
<1>4. p \in Peer /\ (p = Host <=> Caller[c] = Plugin)
  BY Peers DEF Callee
<1>5. x \in Thing /\ x[1] = "function"
  BY <1>2, Kinds, CallsAssumption
<1>6. /\ Sent(c) /\ method[c] = "none" /\ method'[c] \in {"running", "over"}
      /\ \A d \in Call : d # c => /\ method'[d] = method[d]
                                  /\ Answering(d)' = Answering(d)
      /\ method'[c] = "over" => Answering(c)'
  BY <1>1, <1>2, <1>3, HandlesAnswering
<1> HIDE DEF i, x
<1>7. i \in DOMAIN store[p].entry => store[p].entry[i] = x
  BY <1>6, CallbackFinds DEF i, x
<1>8. future' = future /\ answeredBy' = answeredBy
  BY <1>6, CallbackFinds
<1>9. ASSUME NEW q \in Peer, NEW y, y # x, Holds(store[q], y)
       PROVE  Holds(store'[q], y)
  <2>1. store'[q].id = store[q].id
    BY <1>1 DEF Shrinks
  <2>2. CASE q # p \/ i \notin DOMAIN store[p].entry
    BY <1>2, <1>4, <1>9, <1>1, <2>2, FetchShrinks
  <2>3. CASE q = p /\ i \in DOMAIN store[p].entry
    <3>1. Gone(p, store[p], i) = {i}
      BY <1>5, <1>7, <2>3 DEF Gone, Partner
    <3>2. /\ DOMAIN store'[p].entry = DOMAIN store[p].entry \ {i}
          /\ \A j \in DOMAIN store'[p].entry :
               store'[p].entry[j] = store[p].entry[j]
      BY <1>1, <1>2, <1>4, <2>3, <3>1, FetchShrinks
    <3>3. store[p].id[y] # i
      BY <1>7, <1>9, <2>3 DEF Holds
    <3> QED
      BY <1>9, <2>1, <2>3, <3>2, <3>3 DEF Holds
  <2> QED
    BY <2>2, <2>3
<1>10. Kept' /\ Open' /\ HostHalves' /\ AnswerIsOwn'
  <2>1. ASSUME NEW q \in Peer, NEW d \in Call, NEW y \in Half(d),
               Holds(store[q], y)
        PROVE  Holds(store'[q], y)
    <3>1. y # x
      BY <1>5, Kinds
    <3> QED
      BY <1>9, <2>1, <3>1
  <2>2. method[c] # "over"
    BY <1>6
  <2> QED
    BY <1>1, <1>6, <1>8, <2>1, <2>2, MethodStep
<1>11. Called'
  <2> SUFFICES ASSUME NEW d \in Call, Target[d] # NoFunction, Caller[d] = Plugin,
                      method'[d] = "none",
                      store'[Host].id[Passed(Target[d])] # NoId
               PROVE  Holds(store'[Host], Passed(Target[d]))
    BY DEF Called
  <2>1. d # c /\ method[d] = "none"
    BY <1>6
  <2>2. Host \in Peer /\ store'[Host].id = store[Host].id
    BY <1>1, Peers DEF Shrinks
  <2>3. Holds(store[Host], Passed(Target[d]))
    BY <2>1, <2>2 DEF Full, Called
  <2>4. Passed(Target[d]) # x
    <3>1. Target[d] # Target[c]
      BY <1>2, <2>1 DEF CalledOnce
    <3>2. Target[d] \in Function /\ Target[c] \in Function
      BY <1>2, CallsAssumption
    <3> QED
      BY <3>1, <3>2, Kinds DEF x
  <2> QED
    BY <1>9, <2>2, <2>3, <2>4
<1> QED
  BY <1>1, <1>10, <1>11 DEF Full

(* What is found under the id of an answer is the half of the promise that *)
(* it was sent to.                                                         *)
LEMMA AnswerFinds ==
  ASSUME Full, NEW p \in Peer, HandleAnswer(p), NEW i, NEW c,
         i = Head(net[p])[2], c = Head(net[p])[3]
  PROVE  /\ c \in Call /\ Sent(c) /\ method[c] = "over" /\ Caller[c] = p
         /\ Left(Received(p), c) /\ \A y \in Half(c) : Holds(store[p], y)
         /\ \E x \in Half(c) :
              /\ i = store[p].id[x]
              /\ i \in DOMAIN store[p].entry /\ store[p].entry[i] = x
              /\ future' = [future EXCEPT ![c] = Outcome(c, x[1])]
              /\ answeredBy' = [answeredBy EXCEPT ![c] =
                                  IF future[c] = "pending" THEN c ELSE @]
<1> DEFINE s == store[p]
<1>1. /\ net[p] # <<>> /\ Head(net[p])[1] = "answer"
      /\ i \in DOMAIN s.entry => Run(s.entry[i], c)
  BY DEF HandleAnswer
<1>2. /\ c \in Call /\ Sent(c) /\ method[c] = "over" /\ Caller[c] = p
      /\ Answering(c) /\ Left(Received(p), c)
      /\ \E x \in Half(c) : i = s.id[x]
  BY <1>1, AnswerReceived DEF Full
<1> HIDE DEF s
<1>3. PICK x \in Half(c) : i = s.id[x]
  BY <1>2
<1>4. \A y \in Half(c) : Holds(s, y)
  <2>1. Unanswered(c)
    BY <1>2 DEF Unanswered, Promised
  <2> QED
    BY <1>2, <2>1 DEF Full, Kept, s
<1>5. i \in DOMAIN s.entry /\ s.entry[i] = x
  BY <1>3, <1>4 DEF Holds
<1>6. x \in Thing /\ x[1] # "function" /\ x[2] = c
  BY <1>2, Kinds
<1>7. /\ future' = [future EXCEPT ![c] = Outcome(c, x[1])]
      /\ answeredBy' = [answeredBy EXCEPT ![c] =
                          IF future[c] = "pending" THEN c ELSE @]
  BY <1>1, <1>5, <1>6 DEF Run
<1> QED
  BY <1>2, <1>3, <1>4, <1>5, <1>7 DEF s

(* An answer is handled, and no half of another call is removed.           *)
LEMMA HandleAnswerFull ==
  ASSUME Full, NEW p \in Peer, HandleAnswer(p)
  PROVE  Full'
<1> PICK i, c : i = Head(net[p])[2] /\ c = Head(net[p])[3]
  OBVIOUS
<1> DEFINE s == store[p]
<1>1. Base /\ Base' /\ Shrinks /\ Settles
  BY HandleAnswerBase DEF Full
<1>2. /\ net[p] # <<>> /\ Head(net[p])[1] = "answer"
      /\ store' = [store EXCEPT ![p] = Fetch(p, @, i)]
      /\ net' = Received(p) /\ method' = method
      /\ i \in DOMAIN s.entry => Run(s.entry[i], c)
  BY DEF HandleAnswer
<1>3. /\ c \in Call /\ Sent(c) /\ method[c] = "over" /\ Caller[c] = p
      /\ Left(Received(p), c) /\ \A y \in Half(c) : Holds(s, y)
      /\ \E x \in Half(c) :
           /\ i = s.id[x] /\ i \in DOMAIN s.entry /\ s.entry[i] = x
           /\ future' = [future EXCEPT ![c] = Outcome(c, x[1])]
           /\ answeredBy' = [answeredBy EXCEPT ![c] =
                               IF future[c] = "pending" THEN c ELSE @]
  BY AnswerFinds
<1> HIDE DEF s
<1>4. PICK x \in Half(c) :
        /\ i = s.id[x] /\ i \in DOMAIN s.entry /\ s.entry[i] = x
        /\ future' = [future EXCEPT ![c] = Outcome(c, x[1])]
        /\ answeredBy' = [answeredBy EXCEPT ![c] =
                            IF future[c] = "pending" THEN c ELSE @]
  BY <1>3
<1>5. \A y \in Half(c) : Holds(s, y)
  BY <1>3
<1>6. i \in DOMAIN s.entry /\ s.entry[i] = x
  BY <1>4
<1>7. x \in Thing /\ x[1] # "function" /\ x[2] = c
  BY <1>3, Kinds
<1>8. Gone(p, s, i) = {i} \cup (IF p = Host
                                THEN {s.id[y] : y \in Half(c)} \ {0, i} ELSE {})
  BY <1>6, <1>7 DEF Gone, Partner, Half
<1>9. /\ DOMAIN store'[p].entry = DOMAIN s.entry \ Gone(p, s, i)
      /\ \A j \in DOMAIN store'[p].entry : store'[p].entry[j] = s.entry[j]
      /\ \A q \in Peer : q # p => store'[q] = store[q]
      /\ \A q \in Peer : store'[q].id = store[q].id
  <2>1. store' = [store EXCEPT ![p] = Fetch(p, @, i)]
    BY <1>2
  <2>2. i \in DOMAIN store[p].entry
    BY <1>6 DEF s
  <2>3. /\ \A q \in Peer : q # p => store'[q] = store[q]
        /\ DOMAIN store'[p].entry = DOMAIN store[p].entry \ Gone(p, store[p], i)
        /\ \A j \in DOMAIN store'[p].entry :
             store'[p].entry[j] = store[p].entry[j]
    BY <1>1, <2>1, <2>2, FetchShrinks
  <2> QED
    BY <1>1, <2>3 DEF Shrinks, s
<1>10. ASSUME NEW q \in Peer, NEW y, y \notin Half(c), Holds(store[q], y)
       PROVE  Holds(store'[q], y)
  <2>1. CASE q # p
    BY <1>9, <1>10, <2>1
  <2>2. CASE q = p
    <3>1. s.id[y] \in DOMAIN s.entry /\ s.entry[s.id[y]] = y
      BY <1>10, <2>2 DEF Holds, s
    <3>2. \A z \in Half(c) : s.id[y] # s.id[z]
      BY <1>5, <1>10, <3>1 DEF Holds
    <3>3. s.id[y] \notin Gone(p, s, i)
      BY <1>4, <1>8, <3>2
    <3>4. store'[p].id[y] = s.id[y]
      BY <1>9 DEF s
    <3> QED
      BY <1>9, <2>2, <3>1, <3>3, <3>4 DEF Holds
  <2> QED
    BY <2>1, <2>2
<1>11. /\ future' = [future EXCEPT ![c] = Outcome(c, x[1])]
       /\ answeredBy' = [answeredBy EXCEPT ![c] =
                           IF future[c] = "pending" THEN c ELSE @]
  BY <1>4
<1>12. /\ \A d \in Call : d # c => future'[d] = future[d]
       /\ \A d \in Call : answeredBy'[d] \in {answeredBy[d], d}
       /\ future'[c] # "pending"
  <2>1. Outcome(c, x[1]) # "pending"
    BY DEF Outcome
  <2> QED
    BY <1>1, <1>3, <1>11, <2>1 DEF Base, Types
<1>13. /\ \A d \in Call : d # c => Answering(d)' = Answering(d)
       /\ ~ Answering(c)'
  <2> PICK old : old = Received(p)
    OBVIOUS
  <2>1. Left(old, c) /\ \A q \in Peer : net'[q] = old[q]
    BY <1>2, <1>3
  <2> QED
    BY <1>3, <2>1, AnsweringLeft
<1>14. ASSUME NEW d \in Call
       PROVE  Promised(d)' = Promised(d)
  BY <1>1, SettlesSame
<1>15. Kept'
  <2> SUFFICES ASSUME NEW d \in Call, Unanswered(d)', NEW y \in Half(d)
               PROVE  Holds(store'[Caller[d]], y)
    BY DEF Kept
  <2>1. d # c
    BY <1>2, <1>3, <1>13 DEF Unanswered
  <2>2. Unanswered(d)
    BY <1>2, <1>13, <1>14, <2>1 DEF Unanswered
  <2>3. Holds(store[Caller[d]], y) /\ Caller[d] \in Peer
    BY <2>2, Peers DEF Full, Kept
  <2>4. y \notin Half(c)
    BY <1>3, <2>1, Kinds
  <2> QED
    BY <1>10, <2>3, <2>4
<1>16. Open'
  <2> SUFFICES ASSUME NEW d \in Call, future'[d] = "pending"
               PROVE  Unanswered(d)'
    BY DEF Open
  <2>1. d # c /\ future[d] = "pending"
    BY <1>12
  <2>2. Unanswered(d)
    BY <2>1 DEF Full, Open
  <2> QED
    BY <1>2, <1>13, <1>14, <2>1, <2>2 DEF Unanswered
<1>17. Called'
  <2> SUFFICES ASSUME NEW d \in Call, Target[d] # NoFunction, Caller[d] = Plugin,
                      method'[d] = "none",
                      store'[Host].id[Passed(Target[d])] # NoId
               PROVE  Holds(store'[Host], Passed(Target[d]))
    BY DEF Called
  <2>1. Host \in Peer
    BY Peers
  <2>2. Holds(store[Host], Passed(Target[d]))
    BY <1>2, <1>9, <2>1 DEF Full, Called
  <2>3. Passed(Target[d]) \notin Half(c)
    <3>1. Target[d] \in Function
      BY CallsAssumption
    <3> QED
      BY <1>3, <3>1, Kinds
  <2> QED
    BY <1>10, <2>1, <2>2, <2>3
<1>18. HostHalves'
  <2> SUFFICES ASSUME NEW d \in Call, NEW y \in Half(d), Holds(store'[Host], y)
               PROVE  \/ future'[d] \in {"encoding", "pending", "unsent"}
                      \/ y = Resolve(d) /\ store'[Host].id[y] = 0
    BY DEF HostHalves
  <2>1. Host \in Peer
    BY Peers
  <2>2. Holds(store[Host], y) /\ store'[Host].id[y] = store[Host].id[y]
    BY <1>1, <2>1, HeldBefore
  <2>3. CASE d # c
    <3>1. \/ future[d] \in {"encoding", "pending", "unsent"}
          \/ y = Resolve(d) /\ store[Host].id[y] = 0
      BY <2>2 DEF Full, HostHalves
    <3> QED
      BY <1>12, <2>2, <2>3, <3>1
  <2>4. CASE d = c
    <3>1. Caller[d] = Host
      BY <1>1, <2>1, <2>2, HeldOwn DEF ThingsOf
    <3>2. p = Host
      BY <1>3, <2>4, <3>1
    <3>3. s.id[y] \in DOMAIN store'[p].entry
      BY <2>2, <3>2 DEF Holds, s
    <3>4. s.id[y] \notin Gone(p, s, i)
      BY <1>9, <3>3
    <3>5. s.id[y] = 0
      BY <1>8, <2>4, <3>2, <3>4
    <3>6. s.id[Reject(d)] # 0
      BY <1>1, <3>1, <3>2 DEF Base, Ids, s
    <3>7. y = Resolve(d)
      BY <3>5, <3>6 DEF Half
    <3> QED
      BY <2>2, <3>2, <3>5, <3>7 DEF s
  <2> QED
    BY <2>3, <2>4
<1>19. AnswerIsOwn'
  BY <1>12 DEF Full, AnswerIsOwn
<1> QED
  BY <1>1, <1>15, <1>16, <1>17, <1>18, <1>19 DEF Full

(* Full is kept by every step.                                             *)
LEMMA FullStep ==
  ASSUME CalledOnce
  PROVE  Full /\ [Next]_vars => Full'
<1> SUFFICES ASSUME Full, [Next]_vars
             PROVE  Full'
  OBVIOUS
<1>1. CASE UNCHANGED vars
  <2>1. Base'
    BY BaseStep DEF Full
  <2> QED
    BY <1>1, <2>1 DEF vars, Full, Kept, Open, Called, HostHalves, AnswerIsOwn,
                      Unanswered, Answering, Promised, Sent
<1>2. ASSUME NEW c \in Call,
             \/ PluginCalls(c) \/ PluginCallRaises(c)
             \/ HostEncodes(c) \/ HostSends(c) \/ HostCannotEncode(c)
      PROVE  Full'
  <2>1. PICK X : Starts(c, X)
    BY <1>2, StartsEach DEF Full
  <2> QED
    BY <2>1, StartsFull
<1>3. ASSUME NEW c \in Call, Cancel(c)
      PROVE  Full'
  BY <1>3, CancelFull
<1>4. ASSUME NEW c \in Call, MethodEnds(c)
      PROVE  Full'
  BY <1>4, MethodEndsFull
<1>5. ASSUME NEW c \in Call, HandleMethod(c)
      PROVE  Full'
  BY <1>5, HandleMethodFull
<1>6. ASSUME NEW c \in Call, HandleCallback(c)
      PROVE  Full'
  BY <1>6, HandleCallbackFull
<1>7. ASSUME NEW p \in Peer, HandleAnswer(p)
      PROVE  Full'
  BY <1>7, HandleAnswerFull
<1> QED
  BY <1>1, <1>2, <1>3, <1>4, <1>5, <1>6, <1>7 DEF Next, Handle

(* While a call is pending both halves of its promise are in the store of  *)
(* its caller, under the ids that were sent.                               *)
THEOREM PendingStored ==
  ASSUME CalledOnce
  PROVE  Spec => []PendingIsStored
<1>1. Spec => []Full
  BY FullInit, FullStep, PTL DEF Spec
<1>2. Full => PendingIsStored
  BY FullImplies
<1> QED
  BY <1>1, <1>2, PTL

(* A call is settled by its own answer only, although ids are used again.  *)
THEOREM AnswersOwn ==
  ASSUME CalledOnce
  PROVE  Spec => []AnswerIsOwn
<1>1. Spec => []Full
  BY FullInit, FullStep, PTL DEF Spec
<1>2. Full => AnswerIsOwn
  BY FullImplies
<1> QED
  BY <1>1, <1>2, PTL

(* The host's ids are free or in use, and nothing stays in its store but   *)
(* what may still be called and the resolve with the id 0.                 *)
THEOREM HostTidy ==
  ASSUME CalledOnce
  PROVE  Spec => []HostStoreIsTidy
<1>1. Spec => []Full
  BY FullInit, FullStep, PTL DEF Spec
<1>2. Full => HostStoreIsTidy
  BY FullImplies
<1> QED
  BY <1>1, <1>2, PTL

-----------------------------------------------------------------------------
(* What is pending is never lost: its request waits for the callee, its    *)
(* method runs, or its answer waits for the caller.                        *)

Requested ==
  \A c \in Call : Sent(c) /\ method[c] = "none" => <<"call", c>> \in In(net[Callee(c)])

(* What a step adds to the messages that it left.                          *)
Leaves(old) == \A p \in Peer : net'[p] = old[p]

Answers(old, c, x) ==
  /\ net'[Caller[c]] = Append(old[Caller[c]], Answer(c, x))
  /\ \A p \in Peer : p # Caller[c] => net'[p] = old[p]

(* A callee takes a request: the method runs, or is refused.               *)
Takes(old, c) ==
  /\ Sent(c) /\ Left(old, c) /\ method[c] = "none"
  /\ \A d \in Call : d # c => method'[d] = method[d]
  /\ \/ method'[c] = "running" /\ Leaves(old)
     \/ method'[c] = "over" /\ Answers(old, c, Reject(c))

LEMMA HandlesTakes ==
  ASSUME Base, NEW c \in Call, HandleMethod(c) \/ HandleCallback(c)
  PROVE  \E old : Takes(old, c)
<1> PICK old : old = Received(Callee(c))
  OBVIOUS
<1>1. /\ Receive(Callee(c), <<"call", c>>)
      /\ \/ method' = [method EXCEPT ![c] = "running"] /\ net' = old
         \/ /\ method' = [method EXCEPT ![c] = "over"]
            /\ net' = [old EXCEPT ![Caller[c]] = Append(@, Answer(c, Reject(c)))]
  BY DEF HandleMethod, HandleCallback
<1>2. Sent(c) /\ method[c] = "none" /\ Left(old, c)
  BY <1>1, CallReceived
<1>3. /\ DOMAIN old = Peer /\ Caller[c] \in Peer
      /\ method \in [Call -> {"none", "running", "over", "silent"}]
  BY Peers DEF Received, Base, Types
<1>4. /\ \A d \in Call : d # c => method'[d] = method[d]
      /\ \/ method'[c] = "running" /\ Leaves(old)
         \/ method'[c] = "over" /\ Answers(old, c, Reject(c))
  BY <1>1, <1>3 DEF Leaves, Answers
<1> QED
  BY <1>2, <1>4 DEF Takes

(* A method ends: on the host it may do so without an answer.              *)
LEMMA EndsAnswers ==
  ASSUME Base, NEW c \in Call, MethodEnds(c)
  PROVE  /\ Sent(c) /\ Left(net, c) /\ method[c] = "running"
         /\ \A d \in Call : d # c => method'[d] = method[d]
         /\ \/ method'[c] = "silent" /\ Leaves(net)
            \/ \E x \in Half(c) : method'[c] = "over" /\ Answers(net, c, x)
<1>1. method[c] = "running"
  BY DEF MethodEnds
<1>2. /\ DOMAIN net = Peer /\ Caller[c] \in Peer
      /\ method \in [Call -> {"none", "running", "over", "silent"}]
  BY Peers DEF Base, Types
<1>3. \/ method' = [method EXCEPT ![c] = "silent"] /\ net' = net
      \/ /\ method' = [method EXCEPT ![c] = "over"]
         /\ \E x \in Half(c) :
              net' = [net EXCEPT ![Caller[c]] = Append(@, Answer(c, x))]
  BY DEF MethodEnds, Send, Half
<1> QED
  BY <1>1, <1>2, <1>3, RunningQuiet DEF Leaves, Answers

(* An answer that is added is the only message that is new.                *)
LEMMA AnswerAdded ==
  ASSUME Base, Shrinks, Settles, NEW c \in Call, Sent(c), method'[c] = "over",
         NEW old, Left(old, c), NEW x \in Half(c), Answers(old, c, x)
  PROVE  \A p \in Peer : \A m :
           m \in In(net'[p]) <=> m \in In(old[p]) \/ (p = Caller[c] /\ m = Answer(c, x))
<1> DEFINE q == Caller[c]
<1> PICK a : a = Answer(c, x)
  OBVIOUS
<1>1. a \in Message /\ About(a) = c
  BY AnswerOK
<1>2. q \in Peer
  BY Peers
<1>3. Queue(old[q]) /\ \A m \in In(old[q]) : About(m) # c
  BY <1>2 DEF Left
<1> HIDE DEF q
<1>4. In(Append(old[q], a)) = In(old[q]) \cup {a}
  BY <1>1, <1>3, Sending
<1>5. /\ net'[q] = Append(old[q], a)
      /\ \A p \in Peer : p # q => net'[p] = old[p]
  BY DEF Answers, q
<1>6. \A m : m \in In(net'[q]) <=> m \in In(old[q]) \/ m = a
  BY <1>4, <1>5
<1>7. \A p \in Peer : p # q => In(net'[p]) = In(old[p])
  BY <1>5
<1> QED
  BY <1>6, <1>7 DEF q

(* A request that is sent is the only message that is new.                 *)
LEMMA RequestAdded ==
  ASSUME Base, NEW c \in Call, ~ Sent(c),
         net' = [net EXCEPT ![Callee(c)] = Append(@, <<"call", c>>)]
  PROVE  \A p \in Peer : \A m :
           m \in In(net'[p]) <=> m \in In(net[p]) \/ (p = Callee(c) /\ m = <<"call", c>>)
<1> DEFINE r == Callee(c)
           a == <<"call", c>>
<1>1. r \in Peer /\ DOMAIN net = Peer
  BY Peers DEF Base, Types
<1>2. /\ net'[r] = Append(net[r], a)
      /\ \A q \in Peer : q # r => net'[q] = net[q]
  BY <1>1
<1>3. a \in Message /\ About(a) = c
  BY Abouts
<1>4. Queue(net[r]) /\ \A n \in In(net[r]) : About(n) # c
  BY <1>1 DEF Base, Flow, MessageOK
<1> HIDE DEF a, r
<1>5. In(Append(net[r], a)) = In(net[r]) \cup {a}
  BY <1>3, <1>4, Sending
<1>6. \A m : m \in In(net'[r]) <=> m \in In(net[r]) \/ m = a
  BY <1>2, <1>5
<1>7. \A p \in Peer : p # r => In(net'[p]) = In(net[p])
  BY <1>2
<1> QED
  BY <1>6, <1>7 DEF a, r

(* The other requests wait on.                                             *)
LEMMA RequestsWait ==
  ASSUME Requested, Settles, NEW c \in Call, method'[c] # "none",
         \A d \in Call : d # c => method'[d] = method[d],
         \A p \in Peer : \A m \in In(net[p]) : About(m) # c => m \in In(net'[p])
  PROVE  Requested'
<1> SUFFICES ASSUME NEW d \in Call, Sent(d)', method'[d] = "none"
             PROVE  <<"call", d>> \in In(net'[Callee(d)])
  BY DEF Requested
<1>1. Sent(d) /\ method[d] = "none" /\ d # c
  BY SettlesSame
<1>2. <<"call", d>> \in In(net[Callee(d)])
  BY <1>1 DEF Requested
<1>3. About(<<"call", d>>) = d /\ Callee(d) \in Peer
  BY Abouts, Peers
<1> QED
  BY <1>1, <1>2, <1>3

LEMMA RequestedStep == Base /\ Requested /\ [Next]_vars => Requested'
<1> SUFFICES ASSUME Base, Requested, [Next]_vars
             PROVE  Requested'
  OBVIOUS
<1>1. CASE UNCHANGED vars
  BY <1>1 DEF vars, Requested, Sent
<1>2. ASSUME NEW c \in Call,
             \/ PluginCalls(c) \/ PluginCallRaises(c)
             \/ HostEncodes(c) \/ HostSends(c) \/ HostCannotEncode(c)
      PROVE  Requested'
  <2>1. PICK X : Starts(c, X)
    BY <1>2, StartsEach
  <2>2. /\ ~ Sent(c) /\ method' = method
        /\ \E v : future' = [future EXCEPT ![c] = v]
        /\ \/ ~ Sent(c)' /\ net' = net
           \/ net' = [net EXCEPT ![Callee(c)] = Append(@, <<"call", c>>)]
    BY <2>1 DEF Starts
  <2>3. \A d \in Call : d # c => Sent(d)' = Sent(d)
    BY <2>2 DEF Base, Types, Sent
  <2>4. CASE ~ Sent(c)' /\ net' = net
    BY <2>2, <2>3, <2>4 DEF Requested
  <2>5. CASE net' = [net EXCEPT ![Callee(c)] = Append(@, <<"call", c>>)]
    <3>1. \A p \in Peer : \A m :
            m \in In(net'[p]) <=> m \in In(net[p]) \/ (p = Callee(c) /\ m = <<"call", c>>)
      BY <2>2, <2>5, RequestAdded
    <3> QED
      BY <2>2, <2>3, <3>1, Peers DEF Requested
  <2> QED
    BY <2>2, <2>4, <2>5
<1>3. ASSUME NEW c \in Call, Cancel(c)
      PROVE  Requested'
  <2>1. Settles /\ UNCHANGED <<method, net>>
    BY <1>3, CancelBase DEF Cancel
  <2> QED
    BY <2>1, SettlesSame DEF Requested
<1>4. ASSUME NEW c \in Call, MethodEnds(c)
      PROVE  Requested'
  <2>1. Shrinks /\ Settles
    BY <1>4, MethodEndsBase
  <2>2. /\ Sent(c) /\ Left(net, c)
        /\ \A d \in Call : d # c => method'[d] = method[d]
        /\ \/ method'[c] = "silent" /\ Leaves(net)
           \/ \E x \in Half(c) : method'[c] = "over" /\ Answers(net, c, x)
    BY <1>4, EndsAnswers
  <2>3. \A p \in Peer : \A m \in In(net[p]) : m \in In(net'[p])
    BY <2>1, <2>2, AnswerAdded DEF Leaves
  <2> QED
    BY <2>1, <2>2, <2>3, RequestsWait
<1>5. ASSUME NEW c \in Call, HandleMethod(c) \/ HandleCallback(c)
      PROVE  Requested'
  <2>1. Shrinks /\ Settles
    BY <1>5, HandleMethodBase, HandleCallbackBase
  <2>2. PICK old : Takes(old, c)
    BY <1>5, HandlesTakes
  <2>3. \A p \in Peer : \A m \in In(old[p]) : m \in In(net'[p])
    <3>1. CASE Leaves(old)
      BY <3>1 DEF Leaves
    <3>2. CASE method'[c] = "over" /\ Answers(old, c, Reject(c))
      BY <2>1, <2>2, <3>2, AnswerAdded DEF Takes, Half
    <3> QED
      BY <2>2, <3>1, <3>2 DEF Takes
  <2>4. \A p \in Peer : \A m \in In(net[p]) : About(m) # c => m \in In(net'[p])
    BY <2>2, <2>3 DEF Takes, Left
  <2> QED
    BY <2>1, <2>2, <2>4, RequestsWait DEF Takes
<1>6. ASSUME NEW p \in Peer, HandleAnswer(p)
      PROVE  Requested'
  <2> PICK i, c : i = Head(net[p])[2] /\ c = Head(net[p])[3]
    OBVIOUS
  <2>1. /\ net[p] # <<>> /\ Head(net[p])[1] = "answer"
        /\ net' = Received(p) /\ method' = method
    BY <1>6 DEF HandleAnswer
  <2>2. c \in Call /\ method[c] = "over" /\ Left(Received(p), c)
    BY <2>1, AnswerReceived
  <2>3. \A q \in Peer : \A m \in In(net[q]) : About(m) # c => m \in In(net'[q])
    BY <2>1, <2>2 DEF Left
  <2>4. Settles
    BY <1>6, HandleAnswerBase
  <2> QED
    BY <2>1, <2>2, <2>3, <2>4, RequestsWait
<1> QED
  BY <1>1, <1>2, <1>3, <1>4, <1>5, <1>6 DEF Next, Handle

NothingIsLost ==
  \A c \in Call : future[c] = "pending" =>
    \/ <<"call", c>> \in In(net[Callee(c)])
    \/ method[c] \in {"running", "silent"}
    \/ Answering(c)

(* Until a pending call is answered somebody has it to do: this is what    *)
(* CallsSettle rests on, and fairness to the handlers and methods does the *)
(* rest.  A call is not dropped by _handle_callback of either side when a  *)
(* function is called that is gone, or when ids are used again.            *)
THEOREM PendingIsUnderWay ==
  ASSUME CalledOnce
  PROVE  Spec => []NothingIsLost
<1>1. Spec => []Full
  BY FullInit, FullStep, PTL DEF Spec
<1>2. Init => Requested
  BY DEF Init, Requested, Sent
<1>3. Full => Base
  BY DEF Full
<1>4. Spec => []Requested
  BY <1>1, <1>2, <1>3, RequestedStep, PTL DEF Spec
<1>5. Full /\ Requested => NothingIsLost
  BY DEF Full, Base, Types, Open, Unanswered, Requested, NothingIsLost, Sent
<1> QED
  BY <1>1, <1>4, <1>5, PTL

-----------------------------------------------------------------------------
(* The calls of version 1 keep the promise of RpcPromise, as those of      *)
(* hypha do.  What a method did is forgotten by the peers once a handler   *)
(* took its answer, or its call was cancelled, so that a history variable  *)
(* remembers it.  It reads the other variables and restricts none.         *)

VARIABLE ended   \* what the method of each call did

(* What the method of c did in this step: an answer that it sent, other    *)
(* than a refusal, went to one half of the promise.                        *)
Ending(c) ==
  IF method'[c] = method[c] THEN ended[c]
  ELSE IF method'[c] = "running" THEN "running"
  ELSE IF method'[c] = "silent" THEN "returned"
  ELSE IF method[c] = "none" THEN "refused"
  ELSE IF Last(net'[Caller[c]]) = Answer(c, Resolve(c)) THEN "returned"
  ELSE "raised"

Remembers == ended' = [c \in Call |-> Ending(c)]

RecordedSpec == /\ Spec
                /\ ended = [c \in Call |-> "idle"]
                /\ [][Remembers]_<<vars, ended>>

(* The caller's view of a call, as RpcPromise has it: one that could not   *)
(* be sent has failed, and so has, for the caller, one that it cancelled;  *)
(* one that the host never sends stays pending.  Who may call a function   *)
(* that was passed is no part of this.                                     *)
Seen(c) ==
  CASE future[c] = "none" -> "idle"
    [] future[c] \in {"encoding", "pending", "stuck"} -> "pending"
    [] future[c] \in {"unsent", "cancelled"} -> "failed"
    [] future[c] = "done" -> "resolved"
    [] future[c] = "failed" -> "rejected"
    [] future[c] = "handled" -> IF ended[c] = "returned" THEN "resolved" ELSE "rejected"

Abstract == INSTANCE RpcPromise WITH
  outcome <- [c \in Call |-> Seen(c)], run <- ended, Parent <- [c \in Call |-> NoCall]

(* What is remembered agrees with the state of the method ...              *)
EndsAgree ==
  /\ ended \in [Call -> {"idle", "refused", "running", "returned", "raised"}]
  /\ \A c \in Call : /\ ended[c] = "idle" <=> method[c] = "none"
                     /\ ended[c] = "running" <=> method[c] = "running"

(* ... with the half of the promise that the answer on its way is for ...  *)
Told(c) == IF ended[c] = "returned" THEN Resolve(c) ELSE Reject(c)

AnswersTell ==
  \A c \in Call : \A m \in In(net[Caller[c]]) :
    m[1] = "answer" /\ About(m) = c => m[2] = store[Caller[c]].id[Told(c)]

(* ... and does not change any more when a handler was told.               *)
HandledIsOver == \A c \in Call : future[c] = "handled" => method[c] = "over"

Recorded == EndsAgree /\ AnswersTell /\ HandledIsOver

LEMMA EndsStep ==
  ASSUME Types, Types', EndsAgree, Remembers,
         \A c \in Call : method'[c] = "none" => method[c] = "none"
  PROVE  EndsAgree' /\ \A c \in Call : method'[c] = method[c] => ended'[c] = ended[c]
<1>1. \A c \in Call : ended'[c] = Ending(c)
  BY DEF Remembers
<1>2. \A c \in Call : Ending(c) \in {"idle", "refused", "running", "returned", "raised"}
  BY DEF EndsAgree, Ending
<1>3. ended' \in [Call -> {"idle", "refused", "running", "returned", "raised"}]
  BY <1>2 DEF Remembers
<1>4. ASSUME NEW c \in Call
      PROVE  /\ ended'[c] = "idle" <=> method'[c] = "none"
             /\ ended'[c] = "running" <=> method'[c] = "running"
  <2>1. /\ ended[c] = "idle" <=> method[c] = "none"
        /\ ended[c] = "running" <=> method[c] = "running"
        /\ method'[c] \in {"none", "running", "over", "silent"}
    BY DEF EndsAgree, Types
  <2> QED
    BY <1>1, <2>1 DEF Ending
<1>5. \A c \in Call : method'[c] = method[c] => ended'[c] = ended[c]
  BY <1>1 DEF Ending
<1> QED
  BY <1>3, <1>4, <1>5 DEF EndsAgree

(* An answer that stays on its way tells what it told.                     *)
LEMMA StillTells ==
  ASSUME Base, IdsKept, AnswersTell, NEW c \in Call, ended'[c] = ended[c],
         NEW m \in In(net[Caller[c]]), m[1] = "answer", About(m) = c
  PROVE  m[2] = store'[Caller[c]].id[Told(c)']
<1>1. Caller[c] \in Peer /\ Told(c) \in Half(c) /\ Told(c)' = Told(c)
  BY Peers DEF Told, Half
<1>2. Sent(c)
  BY <1>1 DEF Base, Flow, MessageOK
<1>3. store[Caller[c]].id[Told(c)] # NoId /\ Told(c) \in Thing
  BY <1>1, <1>2, Kinds DEF Base, Ids, Promised
<1> QED
  BY <1>1, <1>3 DEF AnswersTell, IdsKept

(* The callers see what they saw.                                          *)
LEMMA SeenStays ==
  ASSUME HandledIsOver, future' = future,
         \A c \in Call : method[c] = "over" => ended'[c] = ended[c]
  PROVE  \A c \in Call : Seen(c)' = Seen(c)
<1> SUFFICES ASSUME NEW c \in Call PROVE Seen(c)' = Seen(c)
  OBVIOUS
<1>1. future[c] = "handled" => ended'[c] = ended[c]
  BY DEF HandledIsOver
<1> QED
  BY <1>1 DEF Seen

(* Making a call is Issue, and not being able to encode it GiveUp.         *)
LEMMA StartsRecorded ==
  ASSUME Full, Recorded, Remembers, NEW c \in Call,
         \/ PluginCalls(c) \/ PluginCallRaises(c)
         \/ HostEncodes(c) \/ HostSends(c) \/ HostCannotEncode(c)
  PROVE  Recorded' /\ [Abstract!Next]_(Abstract!vars)
<1> USE DEF Abstract!vars
<1>1. Base /\ Base'
  BY BaseStep DEF Full, Next
<1>2. PICK X : Starts(c, X)
  BY <1>1, StartsEach
<1>3. /\ ~ Sent(c) /\ method' = method
      /\ \/ net' = net
         \/ net' = [net EXCEPT ![Callee(c)] = Append(@, <<"call", c>>)]
      /\ \E v \in {"encoding", "pending", "unsent", "stuck"} :
           future' = [future EXCEPT ![c] = v]
  BY <1>2 DEF Starts
<1>4. IdsKept
  BY <1>1, <1>2, StartsKeep
<1>5. EndsAgree' /\ ended' = ended
  <2>1. EndsAgree' /\ \A d \in Call : ended'[d] = ended[d]
    BY <1>1, <1>3, EndsStep DEF Base, Recorded
  <2> QED
    BY <2>1 DEF Recorded, EndsAgree
<1>6. AnswersTell'
  <2> SUFFICES ASSUME NEW d \in Call, NEW m \in In(net'[Caller[d]]),
                      m[1] = "answer", About(m) = d
               PROVE  m[2] = store'[Caller[d]].id[Told(d)']
    BY DEF AnswersTell
  <2>1. m \in In(net[Caller[d]])
    <3>1. CASE net' = net
      BY <3>1
    <3>2. CASE net' = [net EXCEPT ![Callee(c)] = Append(@, <<"call", c>>)]
      <4>1. <<"call", c>>[1] # "answer"
        OBVIOUS
      <4> QED
        BY <1>1, <1>3, <3>2, <4>1, RequestAdded, Peers
    <3> QED
      BY <1>3, <3>1, <3>2
  <2> QED
    BY <1>1, <1>4, <1>5, <2>1, StillTells DEF Recorded
<1>7. \A d \in Call : future'[d] = IF d = c THEN future'[c] ELSE future[d]
  BY <1>1, <1>3 DEF Base, Types
<1>8. HandledIsOver'
  BY <1>1, <1>3, <1>7 DEF Recorded, HandledIsOver, Base, Types
<1>9. \A d \in Call : d # c => Seen(d)' = Seen(d)
  BY <1>5, <1>7 DEF Seen
<1>10. CASE future[c] = "none"
  <2>1. Seen(c) = "idle" /\ Seen(c)' \in {"pending", "failed"}
    BY <1>1, <1>3, <1>5, <1>10 DEF Seen, Base, Types
  <2>2. [d \in Call |-> Seen(d)]' = [[d \in Call |-> Seen(d)] EXCEPT ![c] = Seen(c)']
    BY <1>9
  <2>3. Abstract!Issue(c)
    BY <1>5, <2>1, <2>2 DEF Abstract!Issue
  <2> QED
    BY <1>5, <1>6, <1>8, <2>3 DEF Abstract!Next, Recorded
<1>11. CASE future[c] # "none"
  <2>1. future[c] = "encoding" /\ future'[c] \in {"pending", "unsent"}
    BY <1>1, <1>3, <1>11 DEF PluginCalls, PluginCallRaises, HostEncodes, HostSends,
                             HostCannotEncode, Base, Types
  <2>2. CASE future'[c] = "pending"
    <3>1. Seen(c)' = Seen(c)
      BY <2>1, <2>2 DEF Seen
    <3>2. [d \in Call |-> Seen(d)]' = [d \in Call |-> Seen(d)]
      BY <1>9, <3>1
    <3> QED
      BY <1>5, <1>6, <1>8, <3>2 DEF Recorded
  <2>3. CASE future'[c] = "unsent"
    <3>1. Seen(c) = "pending" /\ Seen(c)' = "failed"
      BY <2>1, <2>3 DEF Seen
    <3>2. [d \in Call |-> Seen(d)]' = [[d \in Call |-> Seen(d)] EXCEPT ![c] = "failed"]
      BY <1>9, <3>1
    <3>3. Abstract!GiveUp(c)
      BY <1>5, <3>1, <3>2 DEF Abstract!GiveUp
    <3> QED
      BY <1>5, <1>6, <1>8, <3>3 DEF Abstract!Next, Recorded
  <2> QED
    BY <2>1, <2>2, <2>3
<1> QED
  BY <1>10, <1>11

(* The answers tell what the methods did, when one method goes on.         *)
LEMMA TellsOn ==
  ASSUME Base, Shrinks, Settles, AnswersTell, NEW c \in Call, Sent(c),
         \A d \in Call : d # c => ended'[d] = ended[d],
         NEW old, Left(old, c),
         \/ Leaves(old)
         \/ \E x \in Half(c) : /\ method'[c] = "over" /\ Answers(old, c, x)
                               /\ x = Told(c)'
  PROVE  AnswersTell'
<1> SUFFICES ASSUME NEW d \in Call, NEW m \in In(net'[Caller[d]]),
                    m[1] = "answer", About(m) = d
             PROVE  m[2] = store'[Caller[d]].id[Told(d)']
  BY DEF AnswersTell
<1>1. Caller[d] \in Peer /\ Caller[c] \in Peer /\ IdsKept
  BY Peers, ShrinksIds
<1>2. ASSUME m \in In(old[Caller[d]])
      PROVE  m[2] = store'[Caller[d]].id[Told(d)']
  <2>1. m \in In(net[Caller[d]]) /\ d # c
    BY <1>1, <1>2 DEF Left
  <2> QED
    BY <1>1, <2>1, StillTells
<1>3. CASE Leaves(old)
  BY <1>1, <1>2, <1>3 DEF Leaves
<1>4. ASSUME NEW x \in Half(c), method'[c] = "over", Answers(old, c, x), x = Told(c)'
      PROVE  m[2] = store'[Caller[d]].id[Told(d)']
  <2>1. m \in In(old[Caller[d]]) \/ m = Answer(c, x)
    BY <1>1, <1>4, AnswerAdded
  <2>2. CASE m = Answer(c, x)
    <3>1. About(m) = c /\ m[2] = store[Caller[c]].id[x]
      <4> PICK i : i = store[Caller[c]].id[x]
        OBVIOUS
      <4>1. m = <<"answer", i, c>>
        BY <2>2 DEF Answer
      <4>2. /\ About(<<"answer", i, c>>) = c
            /\ <<"answer", i, c>>[2] = i
        BY Abouts, Zenon
      <4> QED
        BY <4>1, <4>2
    <3>2. d = c /\ store'[Caller[c]].id = store[Caller[c]].id
      BY <1>1, <3>1 DEF Shrinks
    <3> QED
      BY <1>4, <3>1, <3>2
  <2> QED
    BY <1>2, <2>1, <2>2
<1> QED
  BY <1>3, <1>4

(* A method that goes on is one step of RpcPromise, when its answer tells  *)
(* what it did.                                                            *)
LEMMA MethodRecorded ==
  ASSUME Full, Base', Shrinks, Settles, Recorded, Remembers, NEW c \in Call,
         Sent(c), method[c] \in {"none", "running"}, method'[c] # "none",
         \A d \in Call : d # c => method'[d] = method[d],
         future' = future, NEW old, Left(old, c),
         \/ Leaves(old)
         \/ \E x \in Half(c) : /\ method'[c] = "over" /\ Answers(old, c, x)
                               /\ x = Told(c)',
         \/ method[c] = "none" /\ ended'[c] \in {"refused", "running"}
         \/ method[c] = "running" /\ ended'[c] \in {"returned", "raised"}
  PROVE  Recorded' /\ [Abstract!Next]_(Abstract!vars)
<1>1. Types /\ Types' /\ EndsAgree /\ HandledIsOver
  BY DEF Full, Base, Recorded
<1>2. /\ EndsAgree'
      /\ \A d \in Call : method'[d] = method[d] => ended'[d] = ended[d]
  BY <1>1, EndsStep
<1>3. \A d \in Call : d # c => ended'[d] = ended[d]
  BY <1>2
<1>4. AnswersTell'
  BY <1>3, TellsOn DEF Full, Recorded
<1>5. HandledIsOver'
  BY <1>1 DEF HandledIsOver
<1>6. \A d \in Call : Seen(d)' = Seen(d)
  <2>1. \A d \in Call : method[d] = "over" => ended'[d] = ended[d]
    BY <1>3
  <2> QED
    BY <1>1, <2>1, SeenStays
<1>7. [d \in Call |-> Seen(d)]' = [d \in Call |-> Seen(d)]
  BY <1>6
<1>8. ended' = [ended EXCEPT ![c] = ended'[c]]
  BY <1>1, <1>2, <1>3 DEF EndsAgree
<1>9. CASE method[c] = "none" /\ ended'[c] \in {"refused", "running"}
  <2>1. Seen(c) # "idle" /\ ended[c] = "idle"
    BY <1>1, <1>9 DEF Sent, Seen, Types, EndsAgree
  <2>2. Abstract!Execute(c)
    BY <1>7, <1>8, <1>9, <2>1 DEF Abstract!Execute
  <2> QED
    BY <1>2, <1>4, <1>5, <2>2 DEF Recorded, Abstract!Next
<1>10. CASE method[c] = "running" /\ ended'[c] \in {"returned", "raised"}
  <2>1. ended[c] = "running"
    BY <1>1, <1>10 DEF EndsAgree
  <2>2. Abstract!Finish(c)
    BY <1>7, <1>8, <1>10, <2>1 DEF Abstract!Finish
  <2> QED
    BY <1>2, <1>4, <1>5, <2>2 DEF Recorded, Abstract!Next
<1> QED
  BY <1>9, <1>10

(* Handling a request is Execute.                                          *)
LEMMA HandlesRecorded ==
  ASSUME Full, Recorded, Remembers, NEW c \in Call,
         HandleMethod(c) \/ HandleCallback(c)
  PROVE  Recorded' /\ [Abstract!Next]_(Abstract!vars)
<1>1. Base' /\ Shrinks /\ Settles
  BY HandleMethodBase, HandleCallbackBase DEF Full
<1>2. PICK old : Takes(old, c)
  BY HandlesTakes DEF Full
<1>3. /\ Sent(c) /\ Left(old, c) /\ method[c] = "none"
      /\ \A d \in Call : d # c => method'[d] = method[d]
      /\ \/ method'[c] = "running" /\ Leaves(old)
         \/ method'[c] = "over" /\ Answers(old, c, Reject(c))
  BY <1>2 DEF Takes
<1>4. future' = future
  <2>1. CASE HandleMethod(c)
    BY <2>1 DEF HandleMethod
  <2>2. CASE HandleCallback(c)
    BY <1>3, <2>2, CallbackFinds
  <2> QED
    BY <2>1, <2>2
<1>5. ended'[c] = Ending(c)
  BY DEF Remembers
<1>6. CASE method'[c] = "running" /\ Leaves(old)
  <2>1. ended'[c] = "running"
    BY <1>3, <1>5, <1>6 DEF Ending
  <2> QED
    BY <1>1, <1>3, <1>4, <1>6, <2>1, MethodRecorded
<1>7. CASE method'[c] = "over" /\ Answers(old, c, Reject(c))
  <2>1. ended'[c] = "refused"
    BY <1>3, <1>5, <1>7 DEF Ending
  <2>2. Reject(c) \in Half(c) /\ Reject(c) = Told(c)'
    BY <2>1 DEF Half, Told
  <2> QED
    BY <1>1, <1>3, <1>4, <1>7, <2>1, <2>2, MethodRecorded
<1> QED
  BY <1>3, <1>6, <1>7

(* The two halves of a promise that the store holds have different ids, so *)
(* that their answers differ.                                              *)
LEMMA HalvesDiffer ==
  ASSUME NEW s, NEW c \in Call, Holds(s, Resolve(c)), Holds(s, Reject(c))
  PROVE  s.id[Resolve(c)] # s.id[Reject(c)]
<1>1. Resolve(c) # Reject(c)
  BY DEF Resolve, Reject
<1> QED
  BY <1>1 DEF Holds

(* The end of a method is Finish.                                          *)
LEMMA MethodEndsRecorded ==
  ASSUME Full, Recorded, Remembers, NEW c \in Call, MethodEnds(c)
  PROVE  Recorded' /\ [Abstract!Next]_(Abstract!vars)
<1>1. Base' /\ Shrinks /\ Settles /\ future' = future
  BY MethodEndsBase DEF Full, MethodEnds
<1>2. /\ Sent(c) /\ Left(net, c) /\ method[c] = "running"
      /\ \A d \in Call : d # c => method'[d] = method[d]
      /\ \/ method'[c] = "silent" /\ Leaves(net)
         \/ \E x \in Half(c) : method'[c] = "over" /\ Answers(net, c, x)
  BY EndsAnswers DEF Full
<1>3. ended'[c] = Ending(c)
  BY DEF Remembers
<1>4. CASE method'[c] = "silent" /\ Leaves(net)
  <2>1. ended'[c] = "returned"
    BY <1>2, <1>3, <1>4 DEF Ending
  <2> QED
    BY <1>1, <1>2, <1>4, <2>1, MethodRecorded
<1>5. ASSUME NEW x \in Half(c), method'[c] = "over", Answers(net, c, x)
      PROVE  Recorded' /\ [Abstract!Next]_(Abstract!vars)
  <2> DEFINE s == store[Caller[c]]
             q == net[Caller[c]]
  <2>1. Holds(s, Resolve(c)) /\ Holds(s, Reject(c))
    <3>1. Unanswered(c)
      BY <1>2 DEF Unanswered, Promised
    <3> QED
      BY <3>1 DEF Full, Kept, Half
  <2>2. Last(net'[Caller[c]]) = Answer(c, x)
    <3>1. q \in Seq(Message)
      BY Peers DEF Full, Base, Flow, Queue
    <3> HIDE DEF q
    <3>2. \A a : Last(Append(q, a)) = a
      BY <3>1 DEF Last
    <3> QED
      BY <1>5, <3>2 DEF Answers, q
  <2>3. Answer(c, Resolve(c))[2] = s.id[Resolve(c)] /\ Answer(c, Reject(c))[2] = s.id[Reject(c)]
    BY Abouts DEF Answer
  <2>4. Answer(c, Resolve(c)) # Answer(c, Reject(c))
    BY <2>1, <2>3, HalvesDiffer
  <2>5. CASE x = Resolve(c)
    <3>1. ended'[c] = "returned" /\ x = Told(c)'
      BY <1>2, <1>3, <1>5, <2>2, <2>5 DEF Ending, Told
    <3> QED
      BY <1>1, <1>2, <1>5, <3>1, MethodRecorded
  <2>6. CASE x = Reject(c)
    <3>1. ended'[c] = "raised"
      BY <1>2, <1>3, <1>5, <2>2, <2>4, <2>6 DEF Ending
    <3>2. x = Told(c)'
      BY <2>6, <3>1 DEF Told
    <3> QED
      BY <1>1, <1>2, <1>5, <3>1, <3>2, MethodRecorded
  <2> QED
    BY <2>5, <2>6 DEF Half
<1> QED
  BY <1>2, <1>4, <1>5

(* A call that is cancelled is one that its caller gave up.                *)
LEMMA CancelRecorded ==
  ASSUME Full, Recorded, Remembers, NEW c \in Call, Cancel(c)
  PROVE  Recorded' /\ [Abstract!Next]_(Abstract!vars)
<1>1. Base' /\ Shrinks /\ Settles
  BY CancelBase DEF Full
<1>2. /\ future[c] = "pending" /\ future' = [future EXCEPT ![c] = "cancelled"]
      /\ UNCHANGED <<method, net>>
  BY DEF Cancel
<1>3. Types /\ Types' /\ EndsAgree /\ HandledIsOver
  BY <1>1 DEF Full, Base, Recorded
<1>4. EndsAgree' /\ \A d \in Call : ended'[d] = ended[d]
  BY <1>2, <1>3, EndsStep
<1>5. ended' = ended
  BY <1>3, <1>4 DEF EndsAgree
<1>6. AnswersTell'
  BY <1>1, <1>2, <1>4, ShrinksIds, StillTells DEF Full, Recorded, AnswersTell
<1>7. \A d \in Call : future'[d] = IF d = c THEN "cancelled" ELSE future[d]
  BY <1>2, <1>3 DEF Types
<1>8. HandledIsOver'
  BY <1>2, <1>3, <1>7 DEF HandledIsOver
<1>9. /\ Seen(c) = "pending" /\ Seen(c)' = "failed"
      /\ \A d \in Call : d # c => Seen(d)' = Seen(d)
  <2>1. future[c] = "pending" /\ future'[c] = "cancelled"
    BY <1>2, <1>7
  <2>2. \A d \in Call : d # c => future'[d] = future[d]
    BY <1>7
  <2> QED
    BY <1>5, <2>1, <2>2 DEF Seen
<1>10. [d \in Call |-> Seen(d)]' = [[d \in Call |-> Seen(d)] EXCEPT ![c] = "failed"]
  BY <1>9
<1>11. Abstract!GiveUp(c)
  BY <1>5, <1>9, <1>10 DEF Abstract!GiveUp
<1> QED
  BY <1>4, <1>6, <1>8, <1>11 DEF Recorded, Abstract!Next

(* The half of the promise that an answer runs is the one for what the     *)
(* method did.                                                             *)
LEMMA AnswerTold ==
  ASSUME Full, Recorded, NEW p \in Peer, HandleAnswer(p), NEW c, c = Head(net[p])[3]
  PROVE  /\ c \in Call /\ method[c] = "over"
         /\ future' = [future EXCEPT ![c] = Outcome(c, Told(c)[1])]
<1> PICK h, i : h = Head(net[p]) /\ i = h[2]
  OBVIOUS
<1> DEFINE s == store[p]
<1>1. net[p] # <<>> /\ h[1] = "answer"
  BY DEF HandleAnswer
<1>2. /\ c \in Call /\ method[c] = "over" /\ Caller[c] = p
      /\ \A y \in Half(c) : Holds(s, y)
      /\ \E x \in Half(c) : /\ i = s.id[x]
                            /\ future' = [future EXCEPT ![c] = Outcome(c, x[1])]
  <2>1. i = Head(net[p])[2] /\ c = Head(net[p])[3]
    OBVIOUS
  <2>2. /\ c \in Call /\ method[c] = "over" /\ Caller[c] = p
        /\ \A y \in Half(c) : Holds(store[p], y)
    BY <2>1, AnswerFinds
  <2>3. \E x \in Half(c) : /\ i = store[p].id[x]
                           /\ future' = [future EXCEPT ![c] = Outcome(c, x[1])]
    BY <2>1, AnswerFinds
  <2> QED
    BY <2>2, <2>3
<1>3. h \in In(net[p])
  BY <1>1, Taking DEF Full, Base, Flow
<1>4. About(h) = c
  BY <1>1 DEF About
<1>5. i = s.id[Told(c)]
  BY <1>1, <1>2, <1>3, <1>4 DEF Recorded, AnswersTell
<1>6. Told(c) \in Half(c)
  BY DEF Told, Half
<1> HIDE DEF s
<1>7. ASSUME NEW x \in Half(c), i = s.id[x]
      PROVE  x = Told(c)
  BY <1>2, <1>5, <1>6, <1>7 DEF Holds
<1> QED
  BY <1>2, <1>7

(* An answer that is handled is Deliver, or comes too late.                *)
LEMMA HandleAnswerRecorded ==
  ASSUME Full, Recorded, Remembers, NEW p \in Peer, HandleAnswer(p)
  PROVE  Recorded' /\ [Abstract!Next]_(Abstract!vars)
<1> USE DEF Abstract!vars
<1> PICK c : c = Head(net[p])[3]
  OBVIOUS
<1>1. Base' /\ Shrinks /\ Settles
  BY HandleAnswerBase DEF Full
<1>2. /\ c \in Call /\ method[c] = "over"
      /\ future' = [future EXCEPT ![c] = Outcome(c, Told(c)[1])]
  BY AnswerTold
<1>3. method' = method
  BY DEF HandleAnswer
<1>4. Types /\ Types' /\ EndsAgree /\ HandledIsOver
  BY <1>1 DEF Full, Base, Recorded
<1>5. EndsAgree' /\ \A d \in Call : ended'[d] = ended[d]
  BY <1>3, <1>4, EndsStep
<1>6. ended' = ended
  BY <1>4, <1>5 DEF EndsAgree
<1>7. \A q \in Peer : \A m \in In(net'[q]) : m \in In(net[q])
  <2> PICK i : i = Head(net[p])[2]
    OBVIOUS
  <2>1. Left(Received(p), c)
    BY AnswerFinds
  <2>2. net' = Received(p)
    BY DEF HandleAnswer
  <2> QED
    BY <2>1, <2>2 DEF Left
<1>8. AnswersTell'
  <2> SUFFICES ASSUME NEW d \in Call, NEW m \in In(net'[Caller[d]]),
                      m[1] = "answer", About(m) = d
               PROVE  m[2] = store'[Caller[d]].id[Told(d)']
    BY DEF AnswersTell
  <2>1. m \in In(net[Caller[d]])
    BY <1>7, Peers
  <2> QED
    BY <1>1, <1>5, <2>1, ShrinksIds, StillTells DEF Full, Recorded
<1>9. \A d \in Call : future'[d] = IF d = c THEN Outcome(c, Told(c)[1]) ELSE future[d]
  BY <1>2, <1>4 DEF Types
<1>10. HandledIsOver'
  BY <1>2, <1>3, <1>4, <1>9 DEF HandledIsOver
<1>11. \A d \in Call : d # c => Seen(d)' = Seen(d)
  BY <1>6, <1>9 DEF Seen
<1>12. ended[c] \in {"refused", "returned", "raised"}
  BY <1>2, <1>4 DEF EndsAgree
<1>13. Recorded'
  BY <1>5, <1>8, <1>10 DEF Recorded
<1>14. CASE future[c] = "pending"
  <2>1. Seen(c) = "pending"
    BY <1>14 DEF Seen
  <2>2. Told(c)[1] = IF ended[c] = "returned" THEN "resolve" ELSE "reject"
    BY DEF Told, Resolve, Reject
  <2>3. future'[c] \in IF ended[c] = "returned" THEN {"handled", "done"}
                                                ELSE {"handled", "failed"}
    BY <1>2, <1>9, <1>14, <2>2 DEF Outcome
  <2>4. Seen(c)' = IF ended[c] = "returned" THEN "resolved" ELSE "rejected"
    BY <1>6, <2>3 DEF Seen
  <2>5. [d \in Call |-> Seen(d)]' = [[d \in Call |-> Seen(d)] EXCEPT ![c] = Seen(c)']
    BY <1>11
  <2>6. Abstract!Deliver(c)
    BY <1>2, <1>6, <1>12, <2>1, <2>4, <2>5 DEF Abstract!Deliver
  <2> QED
    BY <1>2, <1>13, <2>6 DEF Abstract!Next
<1>15. CASE future[c] # "pending"
  <2>1. future'[c] = future[c]
    BY <1>2, <1>9, <1>15 DEF Outcome
  <2>2. \A d \in Call : Seen(d)' = Seen(d)
    BY <1>6, <1>11, <2>1 DEF Seen
  <2>3. [d \in Call |-> Seen(d)]' = [d \in Call |-> Seen(d)]
    BY <2>2
  <2> QED
    BY <1>6, <1>13, <2>3
<1> QED
  BY <1>14, <1>15

(* At first nothing was made, sent or run.                                 *)
LEMMA RecordedInit ==
  ASSUME Init, ended = [c \in Call |-> "idle"]
  PROVE  Recorded /\ Abstract!Init
<1>1. EndsAgree /\ HandledIsOver
  BY DEF Init, EndsAgree, HandledIsOver
<1>2. AnswersTell
  BY Peers DEF Init, AnswersTell, In
<1>3. \A c \in Call : Seen(c) = "idle"
  BY DEF Init, Seen
<1>4. Abstract!Init
  BY <1>3 DEF Abstract!Init
<1> QED
  BY <1>1, <1>2, <1>4 DEF Recorded

(* Every step keeps Recorded, and is a step of RpcPromise or none.         *)
LEMMA RecordedStep ==
  ASSUME Full, Recorded, [Next]_vars, [Remembers]_<<vars, ended>>
  PROVE  Recorded' /\ [Abstract!Next]_(Abstract!vars)
<1>1. CASE UNCHANGED vars
  <2>1. ended' = ended
    <3>1. CASE Remembers
      <4>1. \A c \in Call : Ending(c) = ended[c]
        BY <1>1 DEF Ending, vars
      <4> QED
        BY <3>1, <4>1 DEF Remembers, Recorded, EndsAgree
    <3>2. CASE UNCHANGED <<vars, ended>>
      BY <3>2
    <3> QED
      BY <3>1, <3>2
  <2>2. Recorded'
    BY <1>1, <2>1 DEF vars, Recorded, EndsAgree, AnswersTell, Told, HandledIsOver
  <2>3. \A c \in Call : Seen(c)' = Seen(c)
    BY <1>1, <2>1 DEF vars, Seen
  <2>4. [c \in Call |-> Seen(c)]' = [c \in Call |-> Seen(c)]
    BY <2>3
  <2> QED
    BY <2>1, <2>2, <2>4 DEF Abstract!vars
<1>2. CASE ~ UNCHANGED vars
  <2>1. Next /\ Remembers
    BY <1>2 DEF vars
  <2>2. CASE \E c \in Call : \/ PluginCalls(c) \/ PluginCallRaises(c)
                             \/ HostEncodes(c) \/ HostSends(c) \/ HostCannotEncode(c)
    BY <2>1, <2>2, StartsRecorded
  <2>3. CASE \E c \in Call : Cancel(c)
    BY <2>1, <2>3, CancelRecorded
  <2>4. CASE \E c \in Call : MethodEnds(c)
    BY <2>1, <2>4, MethodEndsRecorded
  <2>5. CASE \E c \in Call : HandleMethod(c) \/ HandleCallback(c)
    BY <2>1, <2>5, HandlesRecorded
  <2>6. CASE \E p \in Peer : HandleAnswer(p)
    BY <2>1, <2>6, HandleAnswerRecorded
  <2> QED
    BY <2>1, <2>2, <2>3, <2>4, <2>5, <2>6 DEF Next, Handle
<1> QED
  BY <1>1, <1>2

(* The calls and callbacks of version 1 keep the promise that those of     *)
(* hypha keep, on any store and in any order: a method runs at most once   *)
(* for a call, and its caller learns at most once what became of it: that  *)
(* it returned only if it did, that it failed only if it raised or was     *)
(* refused (_handle_method and _handle_callback of either side), whichever *)
(* ids the halves of the promises have and are given again.  What else a   *)
(* caller may be told is made up on its own side: it could not encode the  *)
(* arguments, or cancelled the call.                                       *)
THEOREM KeepsPromise ==
  ASSUME CalledOnce
  PROVE  RecordedSpec => Abstract!Spec
<1>1. Spec => []Full
  BY FullInit, FullStep, PTL DEF Spec
<1>2. Init /\ ended = [c \in Call |-> "idle"] => Recorded /\ Abstract!Init
  BY RecordedInit
<1>3. Full /\ Recorded /\ [Next]_vars /\ [Remembers]_<<vars, ended>>
        => Recorded' /\ [Abstract!Next]_(Abstract!vars)
  BY RecordedStep
<1> QED
  BY <1>1, <1>2, <1>3, PTL DEF RecordedSpec, Spec, Abstract!Spec

(* What RpcPromise does not see: a call with handlers is settled by one of *)
(* them.  Whichever runs, it is the one for what the method did, and so is *)
(* the half that settles a call without (resolve and reject of             *)
(* FuturePromise).                                                         *)
THEOREM AnswersAreTrue ==
  ASSUME CalledOnce
  PROVE  RecordedSpec =>
           [][\A p \in Peer : HandleAnswer(p) =>
                LET c == Head(net[p])[3]
                IN  future' = [future EXCEPT ![c] = Outcome(c, Told(c)[1])]]_<<vars, ended>>
<1> DEFINE True(p) == LET c == Head(net[p])[3]
                      IN  future' = [future EXCEPT ![c] = Outcome(c, Told(c)[1])]
<1>1. Spec => []Full
  BY FullInit, FullStep, PTL DEF Spec
<1>2. Init /\ ended = [c \in Call |-> "idle"] => Recorded
  BY RecordedInit
<1>3. Full /\ Recorded /\ [Next]_vars /\ [Remembers]_<<vars, ended>> => Recorded'
  BY RecordedStep
<1>4. Full /\ Recorded => \A p \in Peer : HandleAnswer(p) => True(p)
  BY AnswerTold
<1> QED
  BY <1>1, <1>2, <1>3, <1>4, PTL DEF RecordedSpec, Spec
=============================================================================
