----------------------- MODULE PluginInterface_proof -----------------------
(***************************************************************************)
(* Proofs about PluginInterface: for any connections, exports and hosts,   *)
(* the state is well typed, the clients agree on the interface, what is    *)
(* waited for is under way, and the interface sent last arrives last.      *)
(***************************************************************************)
EXTENDS PluginInterface, TLAPS

IsClient(k) == \E n \in DOMAIN clients : clients[n] = k

(* Every RPC is one of a client, so that export() does not miss it, and    *)
(* what is not an RPC yet is none, so that no connection is a client twice. *)
Listed ==
    \A k \in Conn : /\ rpc[k] = "rpc" => IsClient(k)
                    /\ rpc[k] \in {"none", "listening"} => ~ IsClient(k)

(* The inductive invariant: an export() reaches every client, or raises.   *)
IInv == TypeOK /\ Listed /\ ClientsAgree

-----------------------------------------------------------------------------
Queues == [Conn -> Seq(Kind \X Version)]

LEMMA NumbersTyped ==
    /\ NoApi \in Version
    /\ 0 \in Version
    /\ interface \in 0..MaxExports => interface \in Version
BY InterfaceAssumption DEF Version, NoApi, InterfaceAssumption

(* Messages added to or taken from the queues leave queues of messages.    *)
LEMMA EmitTyped ==
    ASSUME toHost \in Queues, NEW k \in Conn, NEW kind \in Kind,
           NEW v \in Version, Emit(k, <<kind, v>>)
    PROVE  toHost' \in Queues
BY DEF Emit, Queues

LEMMA EmitMsgTyped ==
    ASSUME toHost \in Queues, NEW k \in Conn, NEW kind \in Kind, Emit(k, Msg(kind))
    PROVE  toHost' \in Queues
<1>1. Emit(k, <<kind, NoApi>>)
  BY DEF Msg
<1> QED
  BY <1>1, EmitTyped, NumbersTyped

LEMMA ReplyTyped ==
    ASSUME toPlugin \in Queues, NEW k \in Conn, NEW kind \in Kind, Reply(k, kind)
    PROVE  toPlugin' \in Queues
<1>1. toPlugin' = [toPlugin EXCEPT ![k] = Append(@, <<kind, NoApi>>)]
  BY DEF Reply, Msg
<1>2. <<kind, NoApi>> \in Kind \X Version
  BY NumbersTyped
<1> QED
  BY <1>1, <1>2 DEF Queues

LEMMA FiresTyped ==
    ASSUME toPlugin \in Queues, NEW k \in Conn, NEW kind, Fires(k, kind)
    PROVE  toPlugin' \in Queues
BY DEF Fires, Queues

LEMMA HostFiresTyped ==
    ASSUME toHost \in Queues, NEW k \in Conn, NEW kind, HostFires(k, kind)
    PROVE  toHost' \in Queues
BY DEF HostFires, Queues

LEMMA HeadTyped ==
    ASSUME toHost \in Queues, NEW k \in Conn, toHost[k] # <<>>
    PROVE  Head(toHost[k])[2] \in Version
<1>1. Head(toHost[k]) \in Kind \X Version
  BY DEF Queues
<1> QED
  BY <1>1

(* A connection that is no client yet can be added to the clients.         *)
LEMMA ClientAdded ==
    ASSUME clients \in Seq(Conn), IsInjective(clients),
           NEW k \in Conn, ~ IsClient(k)
    PROVE  /\ Append(clients, k) \in Seq(Conn)
           /\ IsInjective(Append(clients, k))
           /\ \A j \in Conn :
                (\E n \in DOMAIN Append(clients, k) : Append(clients, k)[n] = j)
                  <=> (IsClient(j) \/ j = k)
<1> DEFINE s == Append(clients, k)
<1>1. s \in Seq(Conn) /\ DOMAIN s = 1..(Len(clients) + 1)
  OBVIOUS
<1>2. DOMAIN clients = 1..Len(clients) /\ Len(clients) \in Nat
  OBVIOUS
<1>3. \A n \in DOMAIN clients : s[n] = clients[n]
  BY <1>2
<1>4. s[Len(clients) + 1] = k
  OBVIOUS
<1>5. \A n \in DOMAIN s : n \in DOMAIN clients \/ n = Len(clients) + 1
  BY <1>1, <1>2
<1>6. IsInjective(s)
  BY <1>3, <1>4, <1>5 DEF IsInjective, IsClient
<1>7. ASSUME NEW j \in Conn
      PROVE  (\E n \in DOMAIN s : s[n] = j) <=> (IsClient(j) \/ j = k)
  <2>1. DOMAIN clients \subseteq DOMAIN s /\ Len(clients) + 1 \in DOMAIN s
    BY <1>1, <1>2
  <2> QED
    BY <2>1, <1>3, <1>4, <1>5 DEF IsClient
<1> QED
  BY <1>1, <1>6, <1>7

-----------------------------------------------------------------------------
(* initialize(), with or without success, adds a client that was none.     *)
LEMMA InitializeKeeps ==
    ASSUME IInv, NEW k \in Conn, Initialize(k) \/ InitializeFails(k)
    PROVE  IInv'
<1> USE DEF TypeOK, Listed, IInv
<1>1. ~ IsClient(k) /\ rpc[k] = "listening"
  BY DEF Initialize, InitializeFails
<1>2. toPlugin' \in Queues
  BY FiresTyped DEF Initialize, InitializeFails, Queues
<1>3. clients \in Seq(Conn) /\ IsInjective(clients)
  OBVIOUS
<1>4. /\ Append(clients, k) \in Seq(Conn)
      /\ IsInjective(Append(clients, k))
      /\ \A j \in Conn :
           (\E n \in DOMAIN Append(clients, k) : Append(clients, k)[n] = j)
             <=> (IsClient(j) \/ j = k)
  BY <1>1, <1>3, ClientAdded
<1>5. ASSUME clients' = Append(clients, k),
             rpc' = [rpc EXCEPT ![k] = "rpc"] \/ rpc' = [rpc EXCEPT ![k] = "entry"]
      PROVE  Listed'
  <2>1. \A j \in Conn : IsClient(j)' <=> (IsClient(j) \/ j = k)
    BY <1>4, <1>5 DEF IsClient
  <2> QED
    BY <1>5, <2>1
<1>6. CASE Initialize(k)
  <2>1. toHost' \in Queues
    <3>1. "initialized" \in Kind
      BY DEF Kind
    <3> QED
      BY <1>6, <3>1, EmitMsgTyped DEF Initialize, Queues
  <2>2. TypeOK'
    <3>1. api' \in [Conn -> Version]
      BY <1>6, NumbersTyped DEF Initialize
    <3>2. rpc' \in [Conn -> {"none", "listening", "entry", "rpc", "disposed"}]
      BY <1>6 DEF Initialize
    <3> QED
      BY <1>2, <1>4, <1>6, <2>1, <3>1, <3>2 DEF Initialize, Queues, hostVars
  <2>3. Listed'
    BY <1>5, <1>6 DEF Initialize
  <2>4. ClientsAgree'
    BY <1>6 DEF Initialize, ClientsAgree
  <2> QED
    BY <2>2, <2>3, <2>4
<1>7. CASE InitializeFails(k)
  <2>1. TypeOK'
    BY <1>2, <1>4, <1>7 DEF InitializeFails, Queues, hostVars
  <2>2. Listed'
    BY <1>5, <1>7 DEF InitializeFails, IsClient
  <2>3. ClientsAgree'
    BY <1>7 DEF InitializeFails, ClientsAgree
  <2> QED
    BY <2>1, <2>2, <2>3
<1> QED
  BY <1>6, <1>7

(* An export() that does not raise is given to every client.               *)
LEMMA SetInterfaceKeeps ==
    ASSUME IInv, SetInterface
    PROVE  IInv'
<1> USE DEF IInv
<1> DEFINE v == interface + 1
<1>1. v \in 0..MaxExports /\ v \in Version /\ v \in 1..MaxExports
  BY InterfaceAssumption DEF SetInterface, TypeOK, Version, NoApi, InterfaceAssumption
<1>2. Reached \subseteq Conn
  BY DEF TypeOK, Reached
<1>3. TypeOK'
  <2>1. "setInterface" \in Kind
    BY DEF Kind
  <2>2. toHost' \in [Conn -> Seq(Kind \X Version)]
    <3>1. <<"setInterface", v>> \in Kind \X Version
      BY <1>1, <2>1
    <3> QED
      BY <3>1 DEF SetInterface, TypeOK
  <2>3. waiting' \subseteq (0..MaxExports) \X Conn
    BY <1>1, <1>2 DEF SetInterface, TypeOK
  <2>4. /\ interface' \in 0..MaxExports /\ raised' \in BOOLEAN
        /\ api' \in [Conn -> Version] /\ sent' \in [Conn -> Version]
    BY <1>1 DEF SetInterface, TypeOK
  <2> QED
    BY <2>2, <2>3, <2>4 DEF SetInterface, TypeOK, hostVars
<1>4. Listed'
  BY DEF SetInterface, Listed, IsClient
<1>5. ASSUME NEW k \in Conn, rpc[k] = "rpc", ~ raised'
      PROVE  api'[k] = interface'
  <2>1. Failing = {}
    BY <1>5 DEF SetInterface
  <2>2. PICK n \in DOMAIN clients : clients[n] = k
    BY <1>5 DEF Listed, IsClient
  <2>3. k \in Given
    BY <1>5, <2>1, <2>2 DEF Given
  <2> QED
    BY <2>3 DEF SetInterface
<1>6. ClientsAgree'
  BY <1>5 DEF SetInterface, ClientsAgree
<1> QED
  BY <1>3, <1>4, <1>6

(***************************************************************************)
(* The other steps of the plugin leave the interface and the clients, and  *)
(* make no RPC: what they change of a connection has its type, and an RPC  *)
(* that was not there is not there afterwards.                             *)
(***************************************************************************)
LEMMA PluginFrame ==
    ASSUME IInv, UNCHANGED <<interface, clients, raised>>,
           \A k \in Conn : rpc'[k] = "rpc" => rpc[k] = "rpc" /\ api'[k] = api[k],
           \A k \in Conn : rpc'[k] \in {"none", "listening"} =>
                             rpc[k] \in {"none", "listening"}
    PROVE  Listed' /\ ClientsAgree'
<1>1. \A k \in Conn : IsClient(k)' <=> IsClient(k)
  BY DEF IsClient
<1> QED
  BY <1>1 DEF IInv, Listed, ClientsAgree

LEMMA CreateConnectionKeeps ==
    ASSUME IInv, NEW k \in Conn, CreateConnection(k)
    PROVE  IInv'
<1> USE DEF CreateConnection, managerVars, hostVars
<1>1. toHost' \in Queues
  <2>1. "imjoyRPCReady" \in Kind
    BY DEF Kind
  <2> QED
    BY <2>1, EmitMsgTyped DEF IInv, TypeOK, Queues
<1>2. TypeOK'
  BY <1>1 DEF IInv, TypeOK, Queues
<1>3. Listed' /\ ClientsAgree'
  BY PluginFrame DEF IInv, TypeOK
<1> QED
  BY <1>2, <1>3 DEF IInv

LEMMA SetRemoteInterfaceKeeps ==
    ASSUME IInv, NEW k \in Conn, SetRemoteInterface(k)
    PROVE  IInv'
<1> USE DEF SetRemoteInterface, hostVars
<1>1. toHost' \in Queues
  <2>1. "interfaceSetAsRemote" \in Kind
    BY DEF Kind
  <2> QED
    BY <2>1, EmitMsgTyped DEF IInv, TypeOK, Queues
<1>2. toPlugin' \in Queues
  BY FiresTyped DEF IInv, TypeOK, Queues
<1>3. TypeOK'
  BY <1>1, <1>2 DEF IInv, TypeOK, Queues
<1>4. Listed' /\ ClientsAgree'
  BY PluginFrame DEF IInv, TypeOK
<1> QED
  BY <1>3, <1>4 DEF IInv

LEMMA GetInterfaceKeeps ==
    ASSUME IInv, NEW k \in Conn, GetInterface(k)
    PROVE  IInv'
<1> USE DEF GetInterface, managerVars, hostVars
<1>1. toHost' \in Queues
  <2>1. "setInterface" \in Kind /\ api[k] \in Version
    BY DEF Kind, IInv, TypeOK
  <2> QED
    BY <2>1, EmitTyped DEF IInv, TypeOK, Queues
<1>2. toPlugin' \in Queues
  BY FiresTyped DEF IInv, TypeOK, Queues
<1>3. sent' \in [Conn -> Version] /\ asked' \in [Conn -> BOOLEAN]
  <2>1. /\ sent \in [Conn -> Version] /\ asked \in [Conn -> BOOLEAN]
        /\ api[k] \in Version
    BY DEF IInv, TypeOK
  <2>2. \/ sent' = [sent EXCEPT ![k] = api[k]] /\ asked' = asked
        \/ asked' = [asked EXCEPT ![k] = TRUE] /\ sent' = sent
    BY Zenon
  <2> QED
    BY ONLY <2>1, <2>2
<1>4. TypeOK'
  BY <1>1, <1>2, <1>3 DEF IInv, TypeOK, Queues
<1>5. Listed' /\ ClientsAgree'
  BY PluginFrame DEF IInv, TypeOK
<1> QED
  BY <1>4, <1>5 DEF IInv

LEMMA RemoteSetKeeps ==
    ASSUME IInv, NEW k \in Conn, RemoteSet(k)
    PROVE  IInv'
<1> USE DEF RemoteSet, hostVars
<1>1. toPlugin' \in Queues
  BY FiresTyped DEF IInv, TypeOK, Queues
<1>2. TypeOK'
  BY <1>1 DEF IInv, TypeOK, Queues
<1>3. Listed' /\ ClientsAgree'
  BY PluginFrame DEF IInv, TypeOK
<1> QED
  BY <1>2, <1>3 DEF IInv

LEMMA DisconnectKeeps ==
    ASSUME IInv, NEW k \in Conn, Disconnect(k)
    PROVE  IInv'
<1> USE DEF Disconnect, hostVars
<1>1. toHost' \in Queues
  <2>1. "disconnect" \in Kind
    BY DEF Kind
  <2> QED
    BY <2>1, EmitMsgTyped DEF IInv, TypeOK, Queues
<1>2. TypeOK'
  BY <1>1, NumbersTyped DEF IInv, TypeOK, Queues
<1>3. Listed' /\ ClientsAgree'
  BY PluginFrame DEF IInv, TypeOK
<1> QED
  BY <1>2, <1>3 DEF IInv

(* The host only has its own state and the messages.                       *)
LEMMA HostFrame ==
    ASSUME IInv, UNCHANGED <<managerVars, rpcVars>>,
           host' \in [Conn -> {"none", "rpc", "gone"}],
           hostSets' \in [Conn -> 0..MaxHostSets], hostHas' \in [Conn -> Version],
           hostIsSet' \in [Conn -> BOOLEAN],
           toHost' \in Queues, toPlugin' \in Queues
    PROVE  IInv'
<1>1. TypeOK'
  BY DEF IInv, TypeOK, Queues, managerVars, rpcVars
<1>2. Listed' /\ ClientsAgree'
  BY DEF IInv, Listed, IsClient, ClientsAgree, managerVars, rpcVars
<1> QED
  BY <1>1, <1>2 DEF IInv

LEMMA HostKeeps ==
    ASSUME IInv, NEW k \in Conn,
           \/ HostInitializes(k) \/ HostSetsInterface(k)
           \/ HostRequestsRemote(k) \/ HostSetsRemote(k) \/ HostGoes(k)
    PROVE  IInv'
<1>1. /\ toHost \in Queues /\ toPlugin \in Queues
      /\ host \in [Conn -> {"none", "rpc", "gone"}]
      /\ hostSets \in [Conn -> 0..MaxHostSets] /\ hostHas \in [Conn -> Version]
      /\ hostIsSet \in [Conn -> BOOLEAN]
  BY DEF IInv, TypeOK, Queues
<1>2. {"initialize", "setInterface", "getInterface", "interfaceSetAsRemote"} \subseteq Kind
  BY DEF Kind
<1>3. CASE HostInitializes(k)
  BY <1>1, <1>2, <1>3, HostFiresTyped, ReplyTyped, HostFrame
     DEF HostInitializes, hostVars
<1>4. CASE HostSetsInterface(k)
  <2>1. toHost' \in Queues
    BY <1>1, <1>4, HostFiresTyped DEF HostSetsInterface
  <2>2. toPlugin' \in Queues
    BY <1>1, <1>2, <1>4, ReplyTyped DEF HostSetsInterface
  <2>3. hostSets' \in [Conn -> 0..MaxHostSets]
    BY <1>1, <1>4, InterfaceAssumption DEF HostSetsInterface, InterfaceAssumption
  <2>4. host' \in [Conn -> {"none", "rpc", "gone"}]
    BY <1>1, <1>4 DEF HostSetsInterface
  <2> QED
    BY <1>1, <1>4, <2>1, <2>2, <2>3, <2>4, HostFrame DEF HostSetsInterface
<1>5. CASE HostRequestsRemote(k)
  BY <1>1, <1>2, <1>5, HostFiresTyped, ReplyTyped, HostFrame
     DEF HostRequestsRemote, hostVars
<1>6. CASE HostSetsRemote(k)
  <2>1. toHost' \in Queues /\ toPlugin' \in Queues
    BY <1>1, <1>2, <1>6, HostFiresTyped, ReplyTyped DEF HostSetsRemote
  <2>2. Head(toHost[k])[2] \in Version
    BY <1>1, <1>6, HeadTyped DEF HostSetsRemote
  <2>3. hostHas' \in [Conn -> Version]
    BY <1>1, <1>6, <2>2 DEF HostSetsRemote
  <2> QED
    BY <1>1, <1>6, <2>1, <2>3, HostFrame DEF HostSetsRemote
<1>7. CASE HostGoes(k)
  BY <1>1, <1>7, HostFrame DEF HostGoes
<1> QED
  BY <1>3, <1>4, <1>5, <1>6, <1>7

-----------------------------------------------------------------------------
(* IInv holds at first and is kept by every step.                          *)
LEMMA InitIInv == Init => IInv
<1> SUFFICES ASSUME Init PROVE IInv
  OBVIOUS
<1>1. IsInjective(clients) /\ clients \in Seq(Conn) /\ DOMAIN clients = {}
  BY DEF Init, IsInjective
<1>2. <<>> \in Seq(Kind \X Version)
  OBVIOUS
<1>3. toHost \in Queues /\ toPlugin \in Queues
  BY <1>2 DEF Init, Queues
<1>4. hostSets \in [Conn -> 0..MaxHostSets] /\ interface \in 0..MaxExports
  BY InterfaceAssumption DEF Init, InterfaceAssumption
<1>5. TypeOK
  BY <1>1, <1>3, <1>4, NumbersTyped DEF Init, TypeOK, Queues
<1> QED
  BY <1>1, <1>5 DEF Init, IInv, Listed, IsClient, ClientsAgree

LEMMA NextIInv == IInv /\ [Next]_vars => IInv'
<1> SUFFICES ASSUME IInv, [Next]_vars PROVE IInv'
  OBVIOUS
<1>1. CASE SetInterface
  BY <1>1, SetInterfaceKeeps
<1>2. ASSUME NEW k \in Conn,
             \/ CreateConnection(k) \/ PluginHandles(k) \/ Disconnect(k)
             \/ HostHandles(k) \/ HostSetsInterface(k) \/ HostGoes(k)
      PROVE  IInv'
  BY <1>2, InitializeKeeps, CreateConnectionKeeps, SetRemoteInterfaceKeeps,
     GetInterfaceKeeps, RemoteSetKeeps, DisconnectKeeps, HostKeeps
     DEF PluginHandles, HostHandles
<1>3. CASE UNCHANGED vars
  BY <1>3 DEF IInv, TypeOK, Listed, IsClient, ClientsAgree, vars, managerVars,
              rpcVars, hostVars
<1> QED
  BY <1>1, <1>2, <1>3 DEF Next

(* For any connections and bounds the state is well typed: in particular   *)
(* no connection is a client twice (clients is keyed by the comm's id).    *)
THEOREM TypeCorrect == Spec => []TypeOK
<1>1. IInv => TypeOK
  BY DEF IInv
<1> QED
  BY InitIInv, NextIInv, <1>1, PTL DEF Spec

(* However many connections there are, and whenever they came, every RPC   *)
(* has the interface that was exported last, unless an export() raised     *)
(* (set_interface of the managers, RPC.set_interface).                     *)
THEOREM InterfacesAgree == Spec => []ClientsAgree
<1>1. IInv => ClientsAgree
  BY DEF IInv
<1> QED
  BY InitIInv, NextIInv, <1>1, PTL DEF Spec

-----------------------------------------------------------------------------
(* What is waited for is under way: the exchange of interfaces goes round  *)
(* by messages, each of which is the answer to the one before, and nothing *)
(* starts it again when one of them is missing.                            *)

Carries(q, kind) == \E n \in DOMAIN q : q[n][1] = kind

(* A message that leads to the next one, and in the end to a confirmation. *)
UnderWay(k) == \/ Carries(toHost[k], "initialized")
               \/ Carries(toPlugin[k], "setInterface")
               \/ Carries(toHost[k], "interfaceSetAsRemote")
               \/ Carries(toPlugin[k], "getInterface")
               \/ Carries(toHost[k], "setInterface")
               \/ Carries(toPlugin[k], "interfaceSetAsRemote")

(* An interface that was sent, or its confirmation.                        *)
Confirming(k) == \/ Carries(toHost[k], "setInterface")
                 \/ Carries(toPlugin[k], "interfaceSetAsRemote")

Awaited(k) == \E w \in waiting : w[2] = k

(* The first exchange of an RPC goes on until its interface is confirmed.  *)
Exchanging(k) ==
    rpc[k] = "rpc" => api[k] # NoApi /\ (remoteSet[k] \/ UnderWay(k))

(* A future of export() waits at an RPC, for that exchange or for what was *)
(* sent after it.                                                          *)
Waiting(k) ==
    Awaited(k) => /\ Served(k)
                  /\ rpc[k] = "disposed" \/ ~ remoteSet[k] \/ Confirming(k)

Owed == \A k \in Conn : Exchanging(k) /\ Waiting(k)

(* What a message adds to a queue, or takes from it.                       *)
LEMMA Appended ==
    ASSUME NEW T, NEW q \in Seq(T), NEW m \in T, NEW kind
    PROVE  Carries(Append(q, m), kind) <=> (Carries(q, kind) \/ m[1] = kind)
<1> DEFINE r == Append(q, m)
<1>1. /\ DOMAIN r = 1..(Len(q) + 1) /\ DOMAIN q = 1..Len(q) /\ Len(q) \in Nat
      /\ r[Len(q) + 1] = m /\ \A n \in DOMAIN q : r[n] = q[n]
  OBVIOUS
<1>2. /\ \A n \in DOMAIN r : n \in DOMAIN q \/ n = Len(q) + 1
      /\ \A n \in DOMAIN q : n \in DOMAIN r
      /\ Len(q) + 1 \in DOMAIN r
  BY <1>1
<1> HIDE DEF r
<1> QED
  BY <1>1, <1>2 DEF Carries, r

LEMMA Taken ==
    ASSUME NEW T, NEW q \in Seq(T), q # <<>>, NEW kind, Head(q)[1] # kind
    PROVE  Carries(Tail(q), kind) <=> Carries(q, kind)
<1> DEFINE r == Tail(q)
<1>1. /\ DOMAIN r = 1..(Len(q) - 1) /\ DOMAIN q = 1..Len(q) /\ Len(q) \in Nat
      /\ Len(q) > 0 /\ Head(q) = q[1] /\ \A n \in DOMAIN r : r[n] = q[n + 1]
  OBVIOUS
<1>2. /\ \A n \in DOMAIN r : n + 1 \in DOMAIN q
      /\ \A n \in DOMAIN q : n = 1 \/ (n - 1 \in DOMAIN r /\ r[n - 1] = q[n])
  BY <1>1
<1> HIDE DEF r
<1> QED
  BY <1>1, <1>2 DEF Carries, r

(* The same for the four ways in which a step sends or receives.           *)
LEMMA Emitted ==
    ASSUME toHost \in Queues, NEW k \in Conn, NEW m \in Kind \X Version, Emit(k, m)
    PROVE  /\ \A j \in Conn : j # k => toHost'[j] = toHost[j]
           /\ \A kind : Carries(toHost'[k], kind) <=> (Carries(toHost[k], kind) \/ m[1] = kind)
<1>1. toHost'[k] = Append(toHost[k], m) /\ toHost[k] \in Seq(Kind \X Version)
  BY DEF Emit, Queues
<1>2. \A j \in Conn : j # k => toHost'[j] = toHost[j]
  BY DEF Emit, Queues
<1>3. \A kind : Carries(Append(toHost[k], m), kind)
                  <=> (Carries(toHost[k], kind) \/ m[1] = kind)
  BY <1>1, Appended
<1> QED
  BY <1>1, <1>2, <1>3

LEMMA Replied ==
    ASSUME toPlugin \in Queues, NEW k \in Conn, NEW sort \in Kind, Reply(k, sort)
    PROVE  /\ \A j \in Conn : j # k => toPlugin'[j] = toPlugin[j]
           /\ \A kind : Carries(toPlugin'[k], kind) <=> (Carries(toPlugin[k], kind) \/ sort = kind)
<1> DEFINE m == Msg(sort)
<1>1. m \in Kind \X Version /\ m[1] = sort
  BY NumbersTyped DEF Msg
<1>2. toPlugin' = [toPlugin EXCEPT ![k] = Append(@, m)]
  BY DEF Reply
<1> HIDE DEF m
<1>3. toPlugin'[k] = Append(toPlugin[k], m) /\ toPlugin[k] \in Seq(Kind \X Version)
  BY <1>2 DEF Queues
<1>4. \A j \in Conn : j # k => toPlugin'[j] = toPlugin[j]
  BY <1>2 DEF Queues
<1>5. \A kind : Carries(Append(toPlugin[k], m), kind)
                  <=> (Carries(toPlugin[k], kind) \/ m[1] = kind)
  BY <1>1, <1>3, Appended
<1> QED
  BY <1>1, <1>3, <1>4, <1>5

LEMMA Fired ==
    ASSUME toPlugin \in Queues, NEW k \in Conn, NEW sort, Fires(k, sort)
    PROVE  /\ \A j \in Conn : j # k => toPlugin'[j] = toPlugin[j]
           /\ \A kind : kind # sort => (Carries(toPlugin'[k], kind) <=> Carries(toPlugin[k], kind))
<1>1. /\ toPlugin[k] \in Seq(Kind \X Version) /\ toPlugin[k] # <<>>
      /\ Head(toPlugin[k])[1] = sort /\ toPlugin'[k] = Tail(toPlugin[k])
  BY DEF Fires, Queues
<1>2. \A j \in Conn : j # k => toPlugin'[j] = toPlugin[j]
  BY DEF Fires, Queues
<1>3. \A kind : kind # sort =>
        (Carries(Tail(toPlugin[k]), kind) <=> Carries(toPlugin[k], kind))
  BY <1>1, Taken
<1> QED
  BY <1>1, <1>2, <1>3

LEMMA HostFired ==
    ASSUME toHost \in Queues, NEW k \in Conn, NEW sort, HostFires(k, sort)
    PROVE  /\ \A j \in Conn : j # k => toHost'[j] = toHost[j]
           /\ \A kind : kind # sort => (Carries(toHost'[k], kind) <=> Carries(toHost[k], kind))
<1>1. /\ toHost[k] \in Seq(Kind \X Version) /\ toHost[k] # <<>>
      /\ Head(toHost[k])[1] = sort /\ toHost'[k] = Tail(toHost[k])
  BY DEF HostFires, Queues
<1>2. \A j \in Conn : j # k => toHost'[j] = toHost[j]
  BY DEF HostFires, Queues
<1>3. \A kind : kind # sort =>
        (Carries(Tail(toHost[k]), kind) <=> Carries(toHost[k], kind))
  BY <1>1, Taken
<1> QED
  BY <1>1, <1>2, <1>3

(* A connection that a step does not touch owes what it did before.        *)
LEMMA OthersOwe ==
    ASSUME Owed, NEW j \in Conn,
           rpc'[j] = rpc[j], api'[j] = api[j], remoteSet'[j] = remoteSet[j],
           toHost'[j] = toHost[j], toPlugin'[j] = toPlugin[j],
           Awaited(j)' => Awaited(j)
    PROVE  Exchanging(j)' /\ Waiting(j)'
<1>1. UnderWay(j)' = UnderWay(j) /\ Confirming(j)' = Confirming(j)
  BY DEF UnderWay, Confirming
<1>2. Served(j)' = Served(j)
  BY DEF Served
<1> QED
  BY <1>1, <1>2 DEF Owed, Exchanging, Waiting

(* A connection whose messages stay, or get more, does so too.             *)
LEMMA MoreOwe ==
    ASSUME Owed, NEW j \in Conn,
           rpc'[j] = rpc[j], api'[j] = api[j], remoteSet'[j] = remoteSet[j],
           \A kind : /\ Carries(toHost[j], kind) /\ kind # "imjoyRPCReady"
                          => Carries(toHost'[j], kind)
                     /\ Carries(toPlugin[j], kind) => Carries(toPlugin'[j], kind),
           Awaited(j)' => Awaited(j)
    PROVE  Exchanging(j)' /\ Waiting(j)'
<1>1. (UnderWay(j) => UnderWay(j)') /\ (Confirming(j) => Confirming(j)')
  BY DEF UnderWay, Confirming
<1>2. Served(j)' = Served(j)
  BY DEF Served
<1> QED
  BY <1>1, <1>2 DEF Owed, Exchanging, Waiting

(* A connection that has no future waiting, and no RPC, owes nothing.      *)
LEMMA NoneOwe ==
    ASSUME NEW j \in Conn, rpc'[j] # "rpc", ~ Awaited(j)'
    PROVE  Exchanging(j)' /\ Waiting(j)'
BY DEF Exchanging, Waiting

(* A connection is made: nothing waits for it before.                      *)
LEMMA CreateConnectionOwes ==
    ASSUME IInv, Owed, NEW k \in Conn, CreateConnection(k)
    PROVE  Owed'
<1>1. /\ rpc \in [Conn -> {"none", "listening", "entry", "rpc", "disposed"}]
      /\ toHost \in Queues /\ UNCHANGED <<waiting, api, remoteSet, toPlugin>>
      /\ rpc' = [rpc EXCEPT ![k] = "listening"] /\ rpc[k] = "none"
  BY DEF IInv, TypeOK, Queues, CreateConnection, managerVars
<1>2. Msg("imjoyRPCReady") \in Kind \X Version
  BY NumbersTyped DEF Msg, Kind
<1>3. \A j \in Conn : j # k => toHost'[j] = toHost[j]
  BY <1>1, <1>2, Emitted DEF CreateConnection
<1>4. \A j \in Conn : Awaited(j)' = Awaited(j)
  BY <1>1 DEF Awaited
<1>5. ~ Awaited(k)
  BY <1>1 DEF Owed, Waiting, Served
<1>6. Exchanging(k)' /\ Waiting(k)'
  BY <1>1, <1>4, <1>5, NoneOwe
<1>7. ASSUME NEW j \in Conn, j # k
      PROVE  Exchanging(j)' /\ Waiting(j)'
  BY <1>1, <1>3, <1>4, <1>7, OthersOwe
<1> QED
  BY <1>6, <1>7 DEF Owed

(* initialize(): the RPC has an interface, and "initialized" is sent.      *)
LEMMA InitializeOwes ==
    ASSUME IInv, Owed, NEW k \in Conn, Initialize(k) \/ InitializeFails(k)
    PROVE  Owed'
<1>1. /\ rpc \in [Conn -> {"none", "listening", "entry", "rpc", "disposed"}]
      /\ toHost \in Queues /\ toPlugin \in Queues
      /\ interface \in 0..MaxExports /\ api \in [Conn -> Version]
  BY DEF IInv, TypeOK, Queues
<1>2. /\ UNCHANGED <<waiting, remoteSet>> /\ rpc[k] = "listening"
      /\ Fires(k, "initialize")
  BY DEF Initialize, InitializeFails
<1>3. \A j \in Conn : j # k => toPlugin'[j] = toPlugin[j]
  BY <1>1, <1>2, Fired
<1>4. \A j \in Conn : Awaited(j)' = Awaited(j)
  BY <1>2 DEF Awaited
<1>5. ~ Awaited(k)
  BY <1>2 DEF Owed, Waiting, Served
<1>6. CASE Initialize(k)
  <2>1. /\ rpc' = [rpc EXCEPT ![k] = "rpc"] /\ api' = [api EXCEPT ![k] = interface]
        /\ Emit(k, Msg("initialized"))
    BY <1>6 DEF Initialize
  <2>2. Msg("initialized") \in Kind \X Version /\ Msg("initialized")[1] = "initialized"
    BY NumbersTyped DEF Msg, Kind
  <2>3. /\ \A j \in Conn : j # k => toHost'[j] = toHost[j]
        /\ Carries(toHost'[k], "initialized")
    BY <1>1, <2>1, <2>2, Emitted
  <2>4. api'[k] # NoApi /\ UnderWay(k)'
    BY <1>1, <2>1, <2>3, InterfaceAssumption DEF NoApi, UnderWay, InterfaceAssumption
  <2>5. Exchanging(k)' /\ Waiting(k)'
    BY <1>4, <1>5, <2>4 DEF Exchanging, Waiting
  <2>6. ASSUME NEW j \in Conn, j # k
        PROVE  Exchanging(j)' /\ Waiting(j)'
    BY <1>1, <1>2, <1>3, <1>4, <2>1, <2>3, <2>6, OthersOwe
  <2> QED
    BY <2>5, <2>6 DEF Owed
<1>7. CASE InitializeFails(k)
  <2>1. /\ rpc' = [rpc EXCEPT ![k] = "entry"] \/ rpc' = rpc
        /\ UNCHANGED <<api, toHost>>
    BY <1>7 DEF InitializeFails
  <2>2. Exchanging(k)' /\ Waiting(k)'
    BY <1>1, <1>2, <1>4, <1>5, <2>1, NoneOwe
  <2>3. ASSUME NEW j \in Conn, j # k
        PROVE  Exchanging(j)' /\ Waiting(j)'
    BY <1>1, <1>2, <1>3, <1>4, <2>1, <2>3, OthersOwe
  <2> QED
    BY <2>2, <2>3 DEF Owed
<1> QED
  BY <1>6, <1>7

(* export(): what is not sent at once waits for the first exchange.        *)
LEMMA SetInterfaceOwes ==
    ASSUME IInv, Owed, SetInterface
    PROVE  Owed'
<1> DEFINE v == interface + 1
           m == <<"setInterface", v>>
<1>1. /\ toHost \in Queues /\ api \in [Conn -> Version] /\ interface \in 0..MaxExports
  BY DEF IInv, TypeOK, Queues
<1>2. v \in Version /\ v # NoApi /\ m \in Kind \X Version /\ m[1] = "setInterface"
  BY <1>1, InterfaceAssumption DEF SetInterface, Version, NoApi, InterfaceAssumption, Kind
<1>3. /\ UNCHANGED <<rpc, remoteSet, toPlugin>>
      /\ api' = [k \in Conn |-> IF k \in Given THEN v ELSE api[k]]
      /\ toHost' = [k \in Conn |-> IF k \in Reached /\ remoteSet[k]
                                   THEN Append(toHost[k], m) ELSE toHost[k]]
      /\ waiting' = waiting \cup ({v} \X Reached)
  BY DEF SetInterface
<1> HIDE DEF v, m
<1>4. ASSUME NEW k \in Reached
      PROVE  Served(k)
  <2>1. PICK n \in DOMAIN clients : clients[n] = k /\ n \notin Failing
    <3>1. PICK n \in DOMAIN clients : clients[n] = k /\ \A j \in Failing : n < j
      BY DEF Reached
    <3>2. n \in Nat
      BY DEF IInv, TypeOK
    <3> QED
      BY <3>1, <3>2
  <2>2. rpc[k] # "entry" /\ k \in Conn
    BY <2>1 DEF Failing, SetInterfaceRaises, IInv, TypeOK
  <2>3. rpc[k] \notin {"none", "listening"}
    BY <2>1, <2>2 DEF IInv, Listed, IsClient
  <2> QED
    BY <2>2, <2>3 DEF IInv, TypeOK, Served
<1>5. ASSUME NEW k \in Conn
      PROVE  Exchanging(k)' /\ Waiting(k)'
  <2>1. /\ rpc'[k] = rpc[k] /\ remoteSet'[k] = remoteSet[k]
        /\ toPlugin'[k] = toPlugin[k] /\ Served(k)' = Served(k)
        /\ toHost[k] \in Seq(Kind \X Version)
    BY <1>1, <1>3 DEF Served, Queues
  <2>2. api'[k] # NoApi \/ api'[k] = api[k]
    BY <1>1, <1>2, <1>3
  <2>3. \A kind : Carries(toHost[k], kind) => Carries(toHost'[k], kind)
    <3>1. CASE k \in Reached /\ remoteSet[k]
      <4>1. toHost'[k] = Append(toHost[k], m)
        BY <1>3, <3>1
      <4> QED
        BY <1>2, <2>1, <4>1, Appended
    <3>2. CASE ~ (k \in Reached /\ remoteSet[k])
      BY <1>3, <3>2
    <3> QED
      BY <3>1, <3>2
  <2>4. (UnderWay(k) => UnderWay(k)') /\ (Confirming(k) => Confirming(k)')
    BY <2>1, <2>3 DEF UnderWay, Confirming
  <2>5. Exchanging(k)'
    BY <2>1, <2>2, <2>4 DEF Owed, Exchanging
  <2>6. CASE k \in Reached
    <3>1. CASE remoteSet[k]
      <4>1. toHost'[k] = Append(toHost[k], m)
        BY <1>3, <2>6, <3>1
      <4>2. Carries(toHost'[k], "setInterface")
        BY <1>2, <2>1, <4>1, Appended
      <4> QED
        BY <1>4, <2>1, <2>5, <2>6, <4>2 DEF Waiting, Confirming
    <3>2. CASE ~ remoteSet[k]
      BY <1>4, <2>1, <2>5, <2>6, <3>2 DEF Waiting
    <3> QED
      BY <2>5, <3>1, <3>2
  <2>7. CASE k \notin Reached
    <3>1. Awaited(k)' => Awaited(k)
      BY <1>3, <2>7 DEF Awaited
    <3> QED
      BY <2>1, <2>4, <2>5, <3>1 DEF Owed, Waiting
  <2> QED
    BY <2>5, <2>6, <2>7
<1> QED
  BY <1>5 DEF Owed

(* One message of the exchange is answered by the next.                    *)
LEMMA LeadsOn ==
    ASSUME Owed, NEW k \in Conn,
           rpc'[k] = rpc[k], api'[k] = api[k], remoteSet'[k] = remoteSet[k],
           rpc[k] = "rpc" => UnderWay(k)' /\ (Confirming(k) => Confirming(k)'),
           Awaited(k)' => Awaited(k)
    PROVE  Exchanging(k)' /\ Waiting(k)'
<1>1. Served(k)' = Served(k)
  BY DEF Served
<1> QED
  BY <1>1 DEF Owed, Exchanging, Waiting, Served

LEMMA SetRemoteInterfaceOwes ==
    ASSUME IInv, Owed, NEW k \in Conn, SetRemoteInterface(k)
    PROVE  Owed'
<1> DEFINE m == Msg("interfaceSetAsRemote")
<1>1. toHost \in Queues /\ toPlugin \in Queues
  BY DEF IInv, TypeOK, Queues
<1>2. m \in Kind \X Version /\ m[1] = "interfaceSetAsRemote"
  BY NumbersTyped DEF Msg, Kind
<1>3. /\ UNCHANGED <<waiting, rpc, api, remoteSet>>
      /\ Fires(k, "setInterface") /\ Emit(k, m)
  BY DEF SetRemoteInterface
<1> HIDE DEF m
<1>4. /\ \A j \in Conn : j # k => toHost'[j] = toHost[j]
      /\ \A kind : Carries(toHost'[k], kind) <=> (Carries(toHost[k], kind) \/ m[1] = kind)
  BY <1>1, <1>2, <1>3, Emitted
<1>5. /\ \A j \in Conn : j # k => toPlugin'[j] = toPlugin[j]
      /\ \A kind : kind # "setInterface" =>
           (Carries(toPlugin'[k], kind) <=> Carries(toPlugin[k], kind))
  BY <1>1, <1>3, Fired
<1>6. \A j \in Conn : Awaited(j)' = Awaited(j)
  BY <1>3 DEF Awaited
<1>7. UnderWay(k)' /\ (Confirming(k) => Confirming(k)')
  BY <1>2, <1>4, <1>5 DEF UnderWay, Confirming
<1>8. Exchanging(k)' /\ Waiting(k)'
  BY <1>3, <1>6, <1>7, LeadsOn
<1>9. ASSUME NEW j \in Conn, j # k
      PROVE  Exchanging(j)' /\ Waiting(j)'
  BY <1>3, <1>4, <1>5, <1>6, <1>9, OthersOwe
<1> QED
  BY <1>8, <1>9 DEF Owed

LEMMA GetInterfaceOwes ==
    ASSUME IInv, Owed, NEW k \in Conn, GetInterface(k)
    PROVE  Owed'
<1> DEFINE m == <<"setInterface", api[k]>>
<1>1. toHost \in Queues /\ toPlugin \in Queues /\ api[k] \in Version
  BY DEF IInv, TypeOK, Queues
<1>2. m \in Kind \X Version /\ m[1] = "setInterface"
  BY <1>1 DEF Kind
<1>3. /\ UNCHANGED <<waiting, rpc, api, remoteSet>>
      /\ Fires(k, "getInterface")
      /\ IF api[k] # NoApi THEN Emit(k, m) ELSE toHost' = toHost
  BY DEF GetInterface, managerVars
<1> HIDE DEF m
<1>4. /\ \A j \in Conn : j # k => toHost'[j] = toHost[j]
      /\ api[k] # NoApi => Carries(toHost'[k], "setInterface")
  <2>1. CASE api[k] # NoApi
    BY <1>1, <1>2, <1>3, <2>1, Emitted
  <2>2. CASE api[k] = NoApi
    BY <1>3, <2>2
  <2> QED
    BY <2>1, <2>2
<1>5. \A j \in Conn : j # k => toPlugin'[j] = toPlugin[j]
  BY <1>1, <1>3, Fired
<1>6. \A j \in Conn : Awaited(j)' = Awaited(j)
  BY <1>3 DEF Awaited
<1>7. rpc[k] = "rpc" => UnderWay(k)' /\ Confirming(k)'
  BY <1>4 DEF Owed, Exchanging, UnderWay, Confirming
<1>8. Exchanging(k)' /\ Waiting(k)'
  BY <1>3, <1>6, <1>7, LeadsOn
<1>9. ASSUME NEW j \in Conn, j # k
      PROVE  Exchanging(j)' /\ Waiting(j)'
  BY <1>3, <1>4, <1>5, <1>6, <1>9, OthersOwe
<1> QED
  BY <1>8, <1>9 DEF Owed

(* A confirmation, or the end of an RPC, leaves no future waiting for it.  *)
LEMMA RemoteSetOwes ==
    ASSUME IInv, Owed, NEW k \in Conn, RemoteSet(k)
    PROVE  Owed'
<1>1. toPlugin \in Queues /\ remoteSet \in [Conn -> BOOLEAN]
  BY DEF IInv, TypeOK, Queues
<1>2. /\ UNCHANGED <<rpc, api, toHost>> /\ remoteSet' = [remoteSet EXCEPT ![k] = TRUE]
      /\ waiting' = {w \in waiting : w[2] # k}
      /\ Fires(k, "interfaceSetAsRemote")
  BY DEF RemoteSet
<1>3. \A j \in Conn : j # k => toPlugin'[j] = toPlugin[j]
  BY <1>1, <1>2, Fired
<1>4. ~ Awaited(k)' /\ \A j \in Conn : Awaited(j)' => Awaited(j)
  BY <1>2 DEF Awaited
<1>5. remoteSet'[k] /\ \A j \in Conn : j # k => remoteSet'[j] = remoteSet[j]
  BY <1>1, <1>2
<1>6. Exchanging(k)' /\ Waiting(k)'
  BY <1>2, <1>4, <1>5 DEF Owed, Exchanging, Waiting
<1>7. ASSUME NEW j \in Conn, j # k
      PROVE  Exchanging(j)' /\ Waiting(j)'
  BY <1>2, <1>3, <1>4, <1>5, <1>7, OthersOwe
<1> QED
  BY <1>6, <1>7 DEF Owed

LEMMA DisconnectOwes ==
    ASSUME IInv, Owed, NEW k \in Conn, Disconnect(k)
    PROVE  Owed'
<1> DEFINE m == Msg("disconnect")
<1>1. /\ toHost \in Queues /\ remoteSet \in [Conn -> BOOLEAN]
      /\ rpc \in [Conn -> {"none", "listening", "entry", "rpc", "disposed"}]
      /\ api \in [Conn -> Version]
  BY DEF IInv, TypeOK, Queues
<1>2. m \in Kind \X Version
  BY NumbersTyped DEF Msg, Kind
<1>3. /\ rpc' = [rpc EXCEPT ![k] = "disposed"] /\ api' = [api EXCEPT ![k] = NoApi]
      /\ remoteSet' = [remoteSet EXCEPT ![k] = FALSE] /\ toPlugin' = toPlugin
      /\ waiting' = {w \in waiting : w[2] # k} /\ Emit(k, m)
  BY DEF Disconnect
<1> HIDE DEF m
<1>4. \A j \in Conn : j # k => toHost'[j] = toHost[j]
  BY <1>1, <1>2, <1>3, Emitted
<1>5. ~ Awaited(k)' /\ \A j \in Conn : Awaited(j)' => Awaited(j)
  BY <1>3 DEF Awaited
<1>6. Exchanging(k)' /\ Waiting(k)'
  BY <1>1, <1>3, <1>5, NoneOwe
<1>7. ASSUME NEW j \in Conn, j # k
      PROVE  Exchanging(j)' /\ Waiting(j)'
  BY <1>1, <1>3, <1>4, <1>5, <1>7, OthersOwe
<1> QED
  BY <1>6, <1>7 DEF Owed

(* The host answers each message of the exchange with the next one.        *)
LEMMA HostOwes ==
    ASSUME IInv, Owed, NEW k \in Conn,
           \/ HostInitializes(k) \/ HostSetsInterface(k)
           \/ HostRequestsRemote(k) \/ HostSetsRemote(k) \/ HostGoes(k)
    PROVE  Owed'
<1>1. toHost \in Queues /\ toPlugin \in Queues
  BY DEF IInv, TypeOK, Queues
<1>2. UNCHANGED <<waiting, rpc, api, remoteSet>>
  BY DEF HostInitializes, HostSetsInterface, HostRequestsRemote, HostSetsRemote,
         HostGoes, managerVars, rpcVars
<1>3. \A j \in Conn : Awaited(j)' = Awaited(j)
  BY <1>2 DEF Awaited
<1>4. {"initialize", "setInterface", "getInterface", "interfaceSetAsRemote"} \subseteq Kind
  BY DEF Kind
<1>5. ASSUME NEW sort, HostFires(k, sort) \/ toHost' = toHost
      PROVE  /\ \A j \in Conn : j # k => toHost'[j] = toHost[j]
             /\ \A kind : kind # sort => (Carries(toHost'[k], kind) <=> Carries(toHost[k], kind))
  BY <1>1, <1>5, HostFired
<1>6. ASSUME NEW sort \in Kind, Reply(k, sort)
      PROVE  /\ \A j \in Conn : j # k => toPlugin'[j] = toPlugin[j]
             /\ \A kind : Carries(toPlugin'[k], kind) <=> (Carries(toPlugin[k], kind) \/ sort = kind)
  BY <1>1, <1>6, Replied
<1>7. ASSUME \A j \in Conn : j # k => toHost'[j] = toHost[j] /\ toPlugin'[j] = toPlugin[j],
             Exchanging(k)' /\ Waiting(k)'
      PROVE  Owed'
  <2>1. ASSUME NEW j \in Conn, j # k
        PROVE  Exchanging(j)' /\ Waiting(j)'
    BY <1>2, <1>3, <1>7, <2>1, OthersOwe
  <2> QED
    BY <1>7, <2>1 DEF Owed
<1>8. CASE HostInitializes(k)
  <2>1. HostFires(k, "imjoyRPCReady") /\ Reply(k, "initialize")
    BY <1>8 DEF HostInitializes
  <2>2. Exchanging(k)' /\ Waiting(k)'
    BY <1>2, <1>3, <1>4, <1>5, <1>6, <2>1, MoreOwe
  <2> QED
    BY <1>4, <1>5, <1>6, <1>7, <2>1, <2>2
<1>9. CASE HostSetsInterface(k)
  <2>1. (HostFires(k, "initialized") \/ toHost' = toHost) /\ Reply(k, "setInterface")
    BY <1>9 DEF HostSetsInterface
  <2>2. UnderWay(k)' /\ (Confirming(k) => Confirming(k)')
    BY <1>4, <1>5, <1>6, <2>1 DEF UnderWay, Confirming
  <2>3. Exchanging(k)' /\ Waiting(k)'
    BY <1>2, <1>3, <2>2, LeadsOn
  <2> QED
    BY <1>4, <1>5, <1>6, <1>7, <2>1, <2>3
<1>10. CASE HostRequestsRemote(k)
  <2>1. HostFires(k, "interfaceSetAsRemote") /\ Reply(k, "getInterface")
    BY <1>10 DEF HostRequestsRemote
  <2>2. UnderWay(k)' /\ (Confirming(k) => Confirming(k)')
    BY <1>4, <1>5, <1>6, <2>1 DEF UnderWay, Confirming
  <2>3. Exchanging(k)' /\ Waiting(k)'
    BY <1>2, <1>3, <2>2, LeadsOn
  <2> QED
    BY <1>4, <1>5, <1>6, <1>7, <2>1, <2>3
<1>11. CASE HostSetsRemote(k)
  <2>1. HostFires(k, "setInterface") /\ Reply(k, "interfaceSetAsRemote")
    BY <1>11 DEF HostSetsRemote
  <2>2. UnderWay(k)' /\ Confirming(k)'
    BY <1>4, <1>6, <2>1 DEF UnderWay, Confirming
  <2>3. Exchanging(k)' /\ Waiting(k)'
    BY <1>2, <1>3, <2>2, LeadsOn
  <2> QED
    BY <1>4, <1>5, <1>6, <1>7, <2>1, <2>3
<1>12. CASE HostGoes(k)
  <2>1. UNCHANGED <<toHost, toPlugin>>
    BY <1>12 DEF HostGoes
  <2>2. Exchanging(k)' /\ Waiting(k)'
    BY <1>2, <1>3, <2>1, OthersOwe
  <2> QED
    BY <1>7, <2>1, <2>2
<1> QED
  BY <1>8, <1>9, <1>10, <1>11, <1>12

LEMMA InitOwed == Init => Owed
BY DEF Init, Owed, Exchanging, Waiting, Awaited

LEMMA NextOwed == IInv /\ Owed /\ [Next]_vars => Owed'
<1> SUFFICES ASSUME IInv, Owed, [Next]_vars PROVE Owed'
  OBVIOUS
<1>1. CASE SetInterface
  BY <1>1, SetInterfaceOwes
<1>2. ASSUME NEW k \in Conn,
             \/ CreateConnection(k) \/ PluginHandles(k) \/ Disconnect(k)
             \/ HostHandles(k) \/ HostSetsInterface(k) \/ HostGoes(k)
      PROVE  Owed'
  BY <1>2, InitializeOwes, CreateConnectionOwes, SetRemoteInterfaceOwes,
     GetInterfaceOwes, RemoteSetOwes, DisconnectOwes, HostOwes
     DEF PluginHandles, HostHandles
<1>3. CASE UNCHANGED vars
  <2>1. UNCHANGED <<waiting, rpc, api, remoteSet, toHost, toPlugin>>
    BY <1>3 DEF vars, managerVars, rpcVars
  <2> QED
    BY <2>1 DEF Owed, Exchanging, Waiting, Awaited, Served, UnderWay, Confirming
<1> QED
  BY <1>1, <1>2, <1>3 DEF Next

(* An exchange that began and is not over has a message under way, and so  *)
(* has every future that export() returned and nobody completed, unless    *)
(* host or plugin went.                                                    *)
NothingIsForgotten ==
    \A k \in Conn :
      /\ rpc[k] = "rpc" => remoteSet[k] \/ Parted(k) \/ UnderWay(k)
      /\ Awaited(k) => Parted(k) \/ UnderWay(k)

(* What ExportConfirmed says will happen is never left to nobody: for any  *)
(* connections and exports, whatever comes between (set_interface,         *)
(* send_interface, _get_interface_handler, _remote_set_handler).           *)
THEOREM ExchangeGoesOn == Spec => []NothingIsForgotten
<1>1. IInv /\ Owed => NothingIsForgotten
  <2> SUFFICES ASSUME IInv, Owed, NEW k \in Conn
               PROVE  /\ rpc[k] = "rpc" => remoteSet[k] \/ Parted(k) \/ UnderWay(k)
                      /\ Awaited(k) => Parted(k) \/ UnderWay(k)
    BY DEF NothingIsForgotten
  <2>1. Exchanging(k) /\ Waiting(k)
    BY DEF Owed
  <2>2. Confirming(k) => UnderWay(k)
    BY DEF Confirming, UnderWay
  <2> QED
    BY <2>1, <2>2 DEF Exchanging, Waiting, Served, Parted
<1> QED
  BY InitIInv, NextIInv, InitOwed, NextOwed, <1>1, PTL DEF Spec

-----------------------------------------------------------------------------
(* What was sent last arrives last: s was sent, h is what the host has.    *)
ArrivesLast(q, h, s) ==
    \/ ~ Carries(q, "setInterface") /\ h = s
    \/ \E n \in DOMAIN q :
         /\ q[n] = <<"setInterface", s>>
         /\ \A m \in DOMAIN q : m > n => q[m][1] # "setInterface"

(* The last interface on its way to a host is the one that was sent last;  *)
(* when there is none, the host has it.                                    *)
SentArrives == \A k \in Conn : ArrivesLast(toHost[k], hostHas[k], sent[k])

LEMMA SomethingAppended ==
    ASSUME NEW T, NEW q \in Seq(T), NEW m \in T, NEW h, NEW s,
           m[1] # "setInterface", ArrivesLast(q, h, s)
    PROVE  ArrivesLast(Append(q, m), h, s)
<1> DEFINE r == Append(q, m)
<1>1. Carries(r, "setInterface") <=> Carries(q, "setInterface")
  BY Appended
<1>2. /\ DOMAIN r = 1..(Len(q) + 1) /\ DOMAIN q = 1..Len(q) /\ Len(q) \in Nat
      /\ r[Len(q) + 1] = m /\ \A n \in DOMAIN q : r[n] = q[n]
  OBVIOUS
<1>3. /\ \A n \in DOMAIN q : n \in DOMAIN r
      /\ \A n \in DOMAIN r : n \in DOMAIN q \/ r[n] = m
  BY <1>2
<1> HIDE DEF r
<1>4. CASE ~ Carries(q, "setInterface") /\ h = s
  BY <1>1, <1>4 DEF ArrivesLast, r
<1>5. ASSUME NEW n \in DOMAIN q, q[n] = <<"setInterface", s>>,
             \A i \in DOMAIN q : i > n => q[i][1] # "setInterface"
      PROVE  ArrivesLast(Append(q, m), h, s)
  <2>1. n \in DOMAIN r /\ r[n] = <<"setInterface", s>>
    BY <1>2, <1>3, <1>5
  <2>2. \A i \in DOMAIN r : i > n => r[i][1] # "setInterface"
    BY <1>2, <1>3, <1>5
  <2> QED
    BY <2>1, <2>2 DEF ArrivesLast, r
<1> QED
  BY <1>4, <1>5 DEF ArrivesLast

LEMMA InterfaceAppended ==
    ASSUME NEW T, NEW q \in Seq(T), NEW h, NEW s, <<"setInterface", s>> \in T
    PROVE  ArrivesLast(Append(q, <<"setInterface", s>>), h, s)
<1> DEFINE m == <<"setInterface", s>>
           r == Append(q, m)
           n == Len(q) + 1
<1>1. /\ DOMAIN r = 1..n /\ n \in Nat /\ n >= 1 /\ r[n] = m
  OBVIOUS
<1>2. n \in DOMAIN r /\ \A i \in DOMAIN r : ~ (i > n)
  BY <1>1
<1> HIDE DEF n, r
<1> QED
  BY <1>1, <1>2 DEF ArrivesLast, r

LEMMA SomethingTaken ==
    ASSUME NEW T, NEW q \in Seq(T), q # <<>>, NEW h, NEW s,
           Head(q)[1] # "setInterface", ArrivesLast(q, h, s)
    PROVE  ArrivesLast(Tail(q), h, s)
<1> DEFINE r == Tail(q)
<1>1. Carries(r, "setInterface") <=> Carries(q, "setInterface")
  BY Taken
<1>2. /\ DOMAIN r = 1..(Len(q) - 1) /\ DOMAIN q = 1..Len(q) /\ Len(q) \in Nat
      /\ Len(q) > 0 /\ Head(q) = q[1] /\ \A n \in DOMAIN r : r[n] = q[n + 1]
  OBVIOUS
<1>3. /\ \A n \in DOMAIN r : n + 1 \in DOMAIN q /\ n \in Nat
      /\ \A n \in DOMAIN q : n \in Nat /\ (n = 1 \/ (n - 1 \in DOMAIN r /\ r[n - 1] = q[n]))
  BY <1>2
<1> HIDE DEF r
<1>4. CASE ~ Carries(q, "setInterface") /\ h = s
  BY <1>1, <1>4 DEF ArrivesLast, r
<1>5. ASSUME NEW n \in DOMAIN q, q[n] = <<"setInterface", s>>,
             \A i \in DOMAIN q : i > n => q[i][1] # "setInterface"
      PROVE  ArrivesLast(Tail(q), h, s)
  <2>1. n # 1
    BY <1>2, <1>5
  <2>2. n - 1 \in DOMAIN r /\ r[n - 1] = <<"setInterface", s>>
    BY <1>3, <1>5, <2>1
  <2>3. ASSUME NEW i \in DOMAIN r, i > n - 1
        PROVE  r[i][1] # "setInterface"
    <3>1. i + 1 \in DOMAIN q /\ i + 1 > n /\ r[i] = q[i + 1]
      BY <1>2, <1>3, <2>3
    <3> QED
      BY <1>5, <3>1
  <2> QED
    BY <2>2, <2>3 DEF ArrivesLast, r
<1> QED
  BY <1>4, <1>5 DEF ArrivesLast

LEMMA InterfaceTaken ==
    ASSUME NEW T, NEW q \in Seq(T), q # <<>>, NEW h, NEW s,
           Head(q)[1] = "setInterface", ArrivesLast(q, h, s)
    PROVE  ArrivesLast(Tail(q), Head(q)[2], s)
<1> DEFINE r == Tail(q)
<1>1. /\ DOMAIN r = 1..(Len(q) - 1) /\ DOMAIN q = 1..Len(q) /\ Len(q) \in Nat
      /\ Len(q) > 0 /\ Head(q) = q[1] /\ \A n \in DOMAIN r : r[n] = q[n + 1]
  OBVIOUS
<1>2. /\ \A n \in DOMAIN r : n + 1 \in DOMAIN q /\ n \in Nat /\ n >= 1
      /\ \A n \in DOMAIN q : n \in Nat /\ (n = 1 \/ (n - 1 \in DOMAIN r /\ r[n - 1] = q[n]))
      /\ 1 \in DOMAIN q
  BY <1>1
<1>3. PICK n \in DOMAIN q : /\ q[n] = <<"setInterface", s>>
                            /\ \A i \in DOMAIN q : i > n => q[i][1] # "setInterface"
  BY <1>1, <1>2 DEF ArrivesLast, Carries
<1> HIDE DEF r
<1>4. CASE n = 1
  <2>1. Head(q)[2] = s
    BY <1>1, <1>3, <1>4
  <2>2. ASSUME NEW i \in DOMAIN r
        PROVE  r[i][1] # "setInterface"
    <3>1. i + 1 \in DOMAIN q /\ i + 1 > n /\ r[i] = q[i + 1]
      BY <1>1, <1>2, <1>4
    <3> QED
      BY <1>3, <3>1
  <2> QED
    BY <2>1, <2>2 DEF ArrivesLast, Carries, r
<1>5. CASE n # 1
  <2>1. n - 1 \in DOMAIN r /\ r[n - 1] = <<"setInterface", s>>
    BY <1>2, <1>3, <1>5
  <2>2. ASSUME NEW i \in DOMAIN r, i > n - 1
        PROVE  r[i][1] # "setInterface"
    <3>1. i + 1 \in DOMAIN q /\ i + 1 > n /\ r[i] = q[i + 1]
      BY <1>1, <1>2, <2>2
    <3> QED
      BY <1>3, <3>1
  <2> QED
    BY <2>1, <2>2 DEF ArrivesLast, r
<1> QED
  BY <1>4, <1>5

(* A message to one host touches no other; one that is no interface leaves *)
(* the interface that arrives last what it was.                            *)
LEMMA OtherEmitted ==
    ASSUME TypeOK, SentArrives, NEW k \in Conn, NEW kind \in Kind \ {"setInterface"},
           Emit(k, Msg(kind)), UNCHANGED <<sent, hostHas>>
    PROVE  SentArrives'
<1> DEFINE m == Msg(kind)
<1>1. m \in Kind \X Version /\ m[1] # "setInterface"
  BY NumbersTyped DEF Msg
<1>2. toHost \in [Conn -> Seq(Kind \X Version)] /\ toHost' = [toHost EXCEPT ![k] = Append(@, m)]
  BY DEF TypeOK, Emit
<1> HIDE DEF m
<1>3. SUFFICES ASSUME NEW j \in Conn PROVE ArrivesLast(toHost'[j], hostHas[j], sent[j])
  BY DEF SentArrives
<1>4. ArrivesLast(toHost[j], hostHas[j], sent[j])
  BY DEF SentArrives
<1>5. CASE j = k
  <2>1. toHost'[j] = Append(toHost[j], m) /\ toHost[j] \in Seq(Kind \X Version)
    BY <1>2, <1>5
  <2>2. ArrivesLast(Append(toHost[j], m), hostHas[j], sent[j])
    BY <1>1, <1>4, <2>1, SomethingAppended
  <2> QED
    BY <2>1, <2>2
<1>6. CASE j # k
  BY <1>2, <1>4, <1>6
<1> QED
  BY <1>5, <1>6

(* An interface that is sent is the one that was sent last.                *)
LEMMA InterfaceEmitted ==
    ASSUME TypeOK, SentArrives, NEW To \in SUBSET Conn, NEW f \in [Conn -> Version],
           toHost' = [k \in Conn |-> IF k \in To THEN Append(toHost[k], <<"setInterface", f[k]>>)
                                     ELSE toHost[k]],
           sent' = [k \in Conn |-> IF k \in To THEN f[k] ELSE sent[k]],
           UNCHANGED hostHas
    PROVE  SentArrives'
<1> SUFFICES ASSUME NEW j \in Conn PROVE ArrivesLast(toHost'[j], hostHas[j], sent'[j])
  BY DEF SentArrives
<1>1. CASE j \in To
  <2>1. toHost[j] \in Seq(Kind \X Version) /\ f[j] \in Version /\ "setInterface" \in Kind
    BY DEF TypeOK, Kind
  <2>2. <<"setInterface", f[j]>> \in Kind \X Version
    BY <2>1
  <2>3. ArrivesLast(Append(toHost[j], <<"setInterface", f[j]>>), hostHas[j], f[j])
    BY <2>1, <2>2, InterfaceAppended
  <2> QED
    BY <1>1, <2>3
<1>2. CASE j \notin To
  BY <1>2 DEF SentArrives
<1> QED
  BY <1>1, <1>2

(* What the host takes is no interface, or the oldest that was under way.  *)
LEMMA HostTakes ==
    ASSUME TypeOK, SentArrives, NEW k \in Conn, NEW kind, HostFires(k, kind),
           UNCHANGED sent,
           IF kind = "setInterface" THEN hostHas' = [hostHas EXCEPT ![k] = Head(toHost[k])[2]]
                                    ELSE UNCHANGED hostHas
    PROVE  SentArrives'
<1>1. /\ toHost \in [Conn -> Seq(Kind \X Version)] /\ toHost' = [toHost EXCEPT ![k] = Tail(@)]
      /\ toHost[k] # <<>> /\ Head(toHost[k])[1] = kind /\ hostHas \in [Conn -> Version]
  BY DEF TypeOK, HostFires
<1> SUFFICES ASSUME NEW j \in Conn PROVE ArrivesLast(toHost'[j], hostHas'[j], sent[j])
  BY DEF SentArrives
<1>2. ArrivesLast(toHost[j], hostHas[j], sent[j])
  BY DEF SentArrives
<1>3. CASE j # k
  BY <1>1, <1>2, <1>3
<1>4. CASE j = k
  <2>1. toHost'[j] = Tail(toHost[j]) /\ toHost[j] \in Seq(Kind \X Version)
    BY <1>1, <1>4
  <2>2. CASE kind = "setInterface"
    <3>1. hostHas'[j] = Head(toHost[j])[2]
      BY <1>1, <1>4, <2>2
    <3>2. ArrivesLast(Tail(toHost[j]), Head(toHost[j])[2], sent[j])
      BY <1>1, <1>2, <1>4, <2>1, <2>2, InterfaceTaken
    <3> QED
      BY <2>1, <3>1, <3>2
  <2>3. CASE kind # "setInterface"
    <3>1. ArrivesLast(Tail(toHost[j]), hostHas[j], sent[j])
      BY <1>1, <1>2, <1>4, <2>1, <2>3, SomethingTaken
    <3> QED
      BY <2>1, <2>3, <3>1
  <2> QED
    BY <2>2, <2>3
<1> QED
  BY <1>3, <1>4

LEMMA InitSentArrives == Init => SentArrives
<1>1. ASSUME Init, NEW k \in Conn
      PROVE  ~ Carries(toHost[k], "setInterface") /\ hostHas[k] = sent[k]
  <2>1. toHost[k] = <<>> /\ hostHas[k] = sent[k]
    BY <1>1 DEF Init
  <2> QED
    BY <2>1 DEF Carries
<1> QED
  BY <1>1 DEF SentArrives, ArrivesLast

LEMMA NextSentArrives == IInv /\ SentArrives /\ [Next]_vars => SentArrives'
<1> SUFFICES ASSUME IInv, SentArrives, [Next]_vars PROVE SentArrives'
  OBVIOUS
<1>1. /\ TypeOK /\ toHost \in [Conn -> Seq(Kind \X Version)]
      /\ sent \in [Conn -> Version] /\ api \in [Conn -> Version]
  BY DEF IInv, TypeOK
<1>2. ASSUME UNCHANGED <<toHost, sent, hostHas>>
      PROVE  SentArrives'
  BY <1>2 DEF SentArrives
<1>3. CASE SetInterface
  <2> DEFINE v == interface + 1
             To == {k \in Reached : remoteSet[k]}
             f == [k \in Conn |-> v]
  <2>1. To \subseteq Conn
    BY DEF IInv, TypeOK, Reached
  <2>2. f \in [Conn -> Version] /\ \A k \in Conn : f[k] = v
    BY <1>3, InterfaceAssumption
       DEF SetInterface, IInv, TypeOK, Version, NoApi, InterfaceAssumption
  <2>3. /\ toHost' = [k \in Conn |-> IF k \in To THEN Append(toHost[k], <<"setInterface", f[k]>>)
                                     ELSE toHost[k]]
        /\ sent' = [k \in Conn |-> IF k \in To THEN f[k] ELSE sent[k]]
        /\ UNCHANGED hostHas
    BY <1>3 DEF SetInterface, hostVars
  <2> HIDE DEF To, f
  <2> QED
    BY <1>1, <2>1, <2>2, <2>3, InterfaceEmitted
<1>4. ASSUME NEW k \in Conn, GetInterface(k)
      PROVE  SentArrives'
  <2>1. CASE api[k] # NoApi
    <3>1. /\ toHost' = [toHost EXCEPT ![k] = Append(@, <<"setInterface", api[k]>>)]
          /\ sent' = [sent EXCEPT ![k] = api[k]] /\ UNCHANGED hostHas
      BY <1>4, <2>1 DEF GetInterface, Emit, hostVars
    <3> DEFINE To == {k}
    <3>2. /\ toHost' = [j \in Conn |-> IF j \in To THEN Append(toHost[j], <<"setInterface", api[j]>>)
                                       ELSE toHost[j]]
          /\ sent' = [j \in Conn |-> IF j \in To THEN api[j] ELSE sent[j]]
      BY <1>1, <3>1
    <3>3. To \in SUBSET Conn /\ UNCHANGED hostHas
      BY <3>1
    <3> HIDE DEF To
    <3> QED
      BY <1>1, <3>2, <3>3, InterfaceEmitted
  <2>2. CASE api[k] = NoApi
    BY <1>2, <1>4, <2>2 DEF GetInterface, hostVars
  <2> QED
    BY <2>1, <2>2
<1>5. ASSUME NEW k \in Conn, CreateConnection(k) \/ Initialize(k)
                             \/ SetRemoteInterface(k) \/ Disconnect(k)
      PROVE  SentArrives'
  <2>1. PICK kind \in Kind \ {"setInterface"} : Emit(k, Msg(kind))
    BY <1>5 DEF CreateConnection, Initialize, SetRemoteInterface, Disconnect, Kind
  <2>2. UNCHANGED <<sent, hostHas>>
    BY <1>5 DEF CreateConnection, Initialize, SetRemoteInterface, Disconnect, hostVars
  <2> QED
    BY <1>1, <2>1, <2>2, OtherEmitted
<1>6. ASSUME NEW k \in Conn, InitializeFails(k) \/ RemoteSet(k) \/ HostGoes(k)
      PROVE  SentArrives'
  BY <1>2, <1>6 DEF InitializeFails, RemoteSet, HostGoes, hostVars, rpcVars
<1>7. ASSUME NEW k \in Conn, HostHandles(k) \/ HostSetsInterface(k)
      PROVE  SentArrives'
  <2>1. UNCHANGED sent
    BY <1>7 DEF HostHandles, HostSetsInterface, HostInitializes, HostRequestsRemote,
                HostSetsRemote, rpcVars
  <2>2. CASE HostSetsRemote(k)
    BY <1>1, <2>1, <2>2, HostTakes DEF HostSetsRemote
  <2>3. CASE HostInitializes(k)
    BY <1>1, <2>1, <2>3, HostTakes DEF HostInitializes, hostVars
  <2>4. CASE HostRequestsRemote(k)
    BY <1>1, <2>1, <2>4, HostTakes DEF HostRequestsRemote, hostVars
  <2>5. CASE HostSetsInterface(k)
    <3>1. UNCHANGED hostHas /\ (HostFires(k, "initialized") \/ toHost' = toHost)
      BY <2>5 DEF HostSetsInterface
    <3>2. CASE HostFires(k, "initialized")
      BY <1>1, <2>1, <3>1, <3>2, HostTakes
    <3> QED
      BY <1>2, <2>1, <3>1, <3>2
  <2> QED
    BY <1>7, <2>2, <2>3, <2>4, <2>5 DEF HostHandles
<1>8. CASE UNCHANGED vars
  BY <1>2, <1>8 DEF vars, rpcVars, hostVars
<1> QED
  BY <1>3, <1>4, <1>5, <1>6, <1>7, <1>8 DEF Next, PluginHandles

(* A host never stays with an older interface than it was sent, and an     *)
(* older one never overtakes a newer: when nothing is under way it has the *)
(* one that send_interface sent last.  This is what HostUpToDate rests on, *)
(* without the fairness that brings it about.                              *)
THEOREM LastSentArrives == Spec => []SentArrives
BY InitIInv, NextIInv, InitSentArrives, NextSentArrives, PTL DEF Spec
=============================================================================
