-------------------------- MODULE PluginInterface --------------------------
(***************************************************************************)
(* The interfaces that a plugin and its hosts give each other in RPC       *)
(* version 1: the manager of python/imjoy_rpc/connection/*.py, which keeps *)
(* one RPC per connection and the interface that was exported last, and    *)
(* the messages with which both sides send an interface and confirm it.    *)
(*                                                                         *)
(*   plugin  imjoyRPCReady                                                 *)
(*   host      initialize                                                  *)
(*   plugin  initialized                  (the RPC is made)                *)
(*   host      setInterface                                                *)
(*   plugin  interfaceSetAsRemote                                          *)
(*   host      getInterface                                                *)
(*   plugin  setInterface                                                  *)
(*   host      interfaceSetAsRemote       (from now on exports are sent)   *)
(*                                                                         *)
(* An interface is the number of the export() that gave it.  The host is   *)
(* the one of javascript/tests/python_client_test.js.                      *)
(***************************************************************************)
EXTENDS Integers, Sequences, Functions

CONSTANTS
    Conn,         \* the connections (comms of a notebook) of one manager
    EntryFirst,   \* initialize() puts an empty entry into clients first:
                  \* all managers but that of Socket.IO
    MaxExports,   \* bound: calls of export()
    MaxHostSets   \* bound: how often a host sends its interface

ASSUME InterfaceAssumption == /\ EntryFirst \in BOOLEAN
                              /\ MaxExports \in Nat /\ MaxHostSets \in Nat

NoApi == -1

VARIABLES
    interface,   \* the manager's interface
    clients,     \* the keys of the manager's clients, as they were added
    raised,      \* export() ended with an exception, at least once
    rpc,         \* the plugin's end: none, listening, entry, rpc, disposed
    api,         \* _local_api of the RPC
    remoteSet,   \* _remote_set of the RPC
    asked,       \* send_interface waits for interfaceAvailable
    hasRemote,   \* _remote_interface of the RPC is set
    pluginApi,   \* api in the plugin: the manager's, the host's with or
                 \* without the functions of the manager
    sent,        \* the interface that was sent last
    waiting,     \* the handlers that will make a future of export() done, each
                 \* an <<interface, conn>>
    host,        \* the host's end: none, rpc, gone
    hostSets,    \* how often it has sent its interface
    hostIsSet,   \* _remote_set of its RPC
    hostHas,     \* the plugin's interface that it has
    toHost, toPlugin   \* the messages on their way, in order

managerVars == <<interface, clients, raised, pluginApi, waiting>>
rpcVars == <<rpc, api, remoteSet, asked, hasRemote, sent>>
hostVars == <<host, hostSets, hostIsSet, hostHas>>
vars == <<managerVars, rpcVars, hostVars, toHost, toPlugin>>

Version == NoApi..MaxExports

Kind == {"imjoyRPCReady", "initialize", "initialized", "getInterface",
         "setInterface", "interfaceSetAsRemote", "disconnect"}

Msg(kind) == <<kind, NoApi>>

TypeOK ==
    /\ interface \in 0..MaxExports
    /\ clients \in Seq(Conn) /\ IsInjective(clients)
    /\ raised \in BOOLEAN
    /\ rpc \in [Conn -> {"none", "listening", "entry", "rpc", "disposed"}]
    /\ api \in [Conn -> Version] /\ sent \in [Conn -> Version]
    /\ remoteSet \in [Conn -> BOOLEAN] /\ asked \in [Conn -> BOOLEAN]
    /\ hasRemote \in [Conn -> BOOLEAN]
    /\ pluginApi \in {"manager", "patched", "bare"}
    /\ waiting \subseteq (0..MaxExports) \X Conn
    /\ host \in [Conn -> {"none", "rpc", "gone"}]
    /\ hostSets \in [Conn -> 0..MaxHostSets]
    /\ hostIsSet \in [Conn -> BOOLEAN]
    /\ hostHas \in [Conn -> Version]
    /\ toHost \in [Conn -> Seq(Kind \X Version)]
    /\ toPlugin \in [Conn -> Seq(Kind \X Version)]

(* _connect exports an empty interface, number 0, before any host is there. *)
Init ==
    /\ interface = 0 /\ clients = <<>> /\ raised = FALSE
    /\ rpc = [k \in Conn |-> "none"]
    /\ api = [k \in Conn |-> NoApi] /\ sent = [k \in Conn |-> NoApi]
    /\ remoteSet = [k \in Conn |-> FALSE] /\ asked = [k \in Conn |-> FALSE]
    /\ hasRemote = [k \in Conn |-> FALSE]
    /\ pluginApi = "manager" /\ waiting = {}
    /\ host = [k \in Conn |-> "none"]
    /\ hostSets = [k \in Conn |-> 0] /\ hostHas = [k \in Conn |-> NoApi]
    /\ hostIsSet = [k \in Conn |-> FALSE]
    /\ toHost = [k \in Conn |-> <<>>] /\ toPlugin = [k \in Conn |-> <<>>]

-----------------------------------------------------------------------------
(* The plugin.                                                             *)

Emit(k, m) == toHost' = [toHost EXCEPT ![k] = Append(@, m)]

Fires(k, kind) ==
    /\ toPlugin[k] # <<>> /\ Head(toPlugin[k])[1] = kind
    /\ toPlugin' = [toPlugin EXCEPT ![k] = Tail(@)]

(* Mutant: the comm target is registered twice.                            *)
CreateConnectionAgain(k) ==
    /\ host[k] = "none"
    /\ rpc' = [rpc EXCEPT ![k] = "listening"]
    /\ Emit(k, Msg("imjoyRPCReady"))
    /\ UNCHANGED <<managerVars, api, remoteSet, asked, hasRemote, sent,
                   hostVars, toPlugin>>

(* A host opens a comm: _create_new_connection.                            *)
CreateConnection(k) ==
    /\ rpc[k] = "none"
    /\ rpc' = [rpc EXCEPT ![k] = "listening"]
    /\ Emit(k, Msg("imjoyRPCReady"))
    /\ UNCHANGED <<managerVars, api, remoteSet, asked, hasRemote, sent,
                   hostVars, toPlugin>>

(* Mutant: the RPC is given the empty interface of the beginning.          *)
InitializeEmpty(k) ==
    /\ rpc[k] = "listening" /\ Fires(k, "initialize")
    /\ clients' = Append(clients, k)
    /\ rpc' = [rpc EXCEPT ![k] = "rpc"]
    /\ api' = [api EXCEPT ![k] = 0]
    /\ Emit(k, Msg("initialized"))
    /\ UNCHANGED <<interface, raised, pluginApi, waiting,
                   remoteSet, asked, hasRemote, sent, hostVars>>

(* initialize(): the RPC is made with the interface of the moment.         *)
Initialize(k) ==
    /\ rpc[k] = "listening" /\ Fires(k, "initialize")
    /\ clients' = Append(clients, k)
    /\ rpc' = [rpc EXCEPT ![k] = "rpc"]
    /\ api' = [api EXCEPT ![k] = interface]
    /\ Emit(k, Msg("initialized"))
    /\ UNCHANGED <<interface, raised, pluginApi, waiting,
                   remoteSet, asked, hasRemote, sent, hostVars>>

(* The host asks for a credential: the copy of default_config is a plain   *)
(* dict, so that config.verify_credential raises.  The entry stays.        *)
InitializeFails(k) ==
    /\ rpc[k] = "listening" /\ Fires(k, "initialize")
    /\ IF EntryFirst
       THEN clients' = Append(clients, k) /\ rpc' = [rpc EXCEPT ![k] = "entry"]
       ELSE UNCHANGED <<clients, rpc>>
    /\ UNCHANGED <<interface, raised, pluginApi, waiting, api, remoteSet,
                   asked, hasRemote, sent, hostVars, toHost>>

(* export(), which is the manager's set_interface: the interface is given  *)
(* to the RPC of each client, and sent by those whose first exchange is    *)
(* over.  An entry without an RPC, or an RPC where send_interface waits as *)
(* a handler (it is called with an argument it does not take, and the RPC's *)
(* logger has no exception()), ends the loop.                              *)
SetInterfaceRaises(k) == rpc[k] = "entry" \/ (asked[k] /\ ~ remoteSet[k])

Failing == {n \in DOMAIN clients : SetInterfaceRaises(clients[n])}

Reached == {clients[n] : n \in {m \in DOMAIN clients : \A j \in Failing : m < j}}

(* The RPCs that get the interface: one whose handler raises has it too.   *)
Given == {clients[n] : n \in {m \in DOMAIN clients :
                               /\ \A j \in Failing : m <= j
                               /\ rpc[clients[m]] # "entry"}}

(* Mutant: what is sent was encoded before the new interface was set.      *)
SetInterfaceSendsOld ==
    LET v == interface + 1 IN
    /\ interface < MaxExports
    /\ interface' = v
    /\ api' = [k \in Conn |-> IF k \in Given THEN v ELSE api[k]]
    /\ sent' = [k \in Conn |-> IF k \in Reached /\ remoteSet[k] THEN v ELSE sent[k]]
    /\ toHost' = [k \in Conn |->
                    IF k \in Reached /\ remoteSet[k]
                    THEN Append(toHost[k], <<"setInterface", api[k]>>)
                    ELSE toHost[k]]
    /\ waiting' = waiting \cup ({v} \X Reached)
    /\ raised' = (raised \/ Failing # {})
    /\ UNCHANGED <<clients, pluginApi, rpc, remoteSet, asked, hasRemote,
                   hostVars, toPlugin>>

SetInterface ==
    LET v == interface + 1 IN
    /\ interface < MaxExports
    /\ interface' = v
    /\ api' = [k \in Conn |-> IF k \in Given THEN v ELSE api[k]]
    /\ sent' = [k \in Conn |-> IF k \in Reached /\ remoteSet[k] THEN v ELSE sent[k]]
    /\ toHost' = [k \in Conn |->
                    IF k \in Reached /\ remoteSet[k]
                    THEN Append(toHost[k], <<"setInterface", v>>) ELSE toHost[k]]
    /\ waiting' = waiting \cup ({v} \X Reached)
    /\ raised' = (raised \/ Failing # {})
    /\ UNCHANGED <<clients, pluginApi, rpc, remoteSet, asked, hasRemote,
                   hostVars, toPlugin>>

Served(k) == rpc[k] \in {"rpc", "disposed"}

(* set_remote_interface: an interface that is there already is filled      *)
(* again, remoteReady lets the manager put its functions into it, and api  *)
(* becomes the object that was decoded, which is that same one only the    *)
(* first time.  After reset() no handler puts the functions in.            *)
SetRemoteInterface(k) ==
    /\ Served(k) /\ Fires(k, "setInterface")
    /\ hasRemote' = [hasRemote EXCEPT ![k] = TRUE]
    /\ pluginApi' = IF hasRemote[k] \/ rpc[k] = "disposed" THEN "bare"
                    ELSE "patched"
    /\ Emit(k, Msg("interfaceSetAsRemote"))
    /\ UNCHANGED <<interface, clients, raised, waiting, rpc, api, remoteSet,
                   asked, sent, hostVars>>

(* _get_interface_handler: without an interface, after reset(), the host   *)
(* is to wait for the next one.                                            *)
GetInterface(k) ==
    /\ Served(k) /\ Fires(k, "getInterface")
    /\ IF api[k] # NoApi
       THEN /\ Emit(k, <<"setInterface", api[k]>>)
            /\ sent' = [sent EXCEPT ![k] = api[k]]
            /\ UNCHANGED asked
       ELSE /\ asked' = [asked EXCEPT ![k] = TRUE]
            /\ UNCHANGED <<toHost, sent>>
    /\ UNCHANGED <<managerVars, rpc, api, remoteSet, hasRemote, hostVars>>

(* Mutant: only the future of the interface sent last is done.             *)
RemoteSetLast(k) ==
    /\ Served(k) /\ Fires(k, "interfaceSetAsRemote")
    /\ remoteSet' = [remoteSet EXCEPT ![k] = TRUE]
    /\ waiting' = waiting \ {<<sent[k], k>>}
    /\ UNCHANGED <<interface, clients, raised, pluginApi, rpc, api, asked,
                   hasRemote, sent, hostVars, toHost>>

(* _remote_set_handler: every future that waits at this RPC is done,       *)
(* whichever interface was confirmed.                                      *)
RemoteSet(k) ==
    /\ Served(k) /\ Fires(k, "interfaceSetAsRemote")
    /\ remoteSet' = [remoteSet EXCEPT ![k] = TRUE]
    /\ waiting' = {w \in waiting : w[2] # k}
    /\ UNCHANGED <<interface, clients, raised, pluginApi, rpc, api, asked,
                   hasRemote, sent, hostVars, toHost>>

(* The plugin calls api.dispose(): RPC.disconnect sends the message and    *)
(* forgets everything; the client stays where it is, and a comm goes on.   *)
Disconnect(k) ==
    /\ rpc[k] = "rpc" /\ hasRemote[k]
    /\ rpc' = [rpc EXCEPT ![k] = "disposed"]
    /\ api' = [api EXCEPT ![k] = NoApi]
    /\ remoteSet' = [remoteSet EXCEPT ![k] = FALSE]
    /\ asked' = [asked EXCEPT ![k] = FALSE]
    /\ hasRemote' = [hasRemote EXCEPT ![k] = FALSE]
    /\ waiting' = {w \in waiting : w[2] # k}
    /\ Emit(k, Msg("disconnect"))
    /\ UNCHANGED <<interface, clients, raised, pluginApi, sent, hostVars, toPlugin>>

-----------------------------------------------------------------------------
(* The host.                                                               *)

HostFires(k, kind) ==
    /\ host[k] # "gone" /\ toHost[k] # <<>> /\ Head(toHost[k])[1] = kind
    /\ toHost' = [toHost EXCEPT ![k] = Tail(@)]

Reply(k, kind) == toPlugin' = [toPlugin EXCEPT ![k] = Append(@, Msg(kind))]

HostInitializes(k) ==
    /\ HostFires(k, "imjoyRPCReady") /\ Reply(k, "initialize")
    /\ UNCHANGED <<managerVars, rpcVars, hostVars>>

(* The host's RPC is made and sends its interface, and does so again when  *)
(* the host sets another one after the first was confirmed; before that    *)
(* setInterface sends nothing.                                             *)
HostSetsInterface(k) ==
    /\ hostSets[k] < MaxHostSets
    /\ \/ HostFires(k, "initialized") /\ host' = [host EXCEPT ![k] = "rpc"]
       \/ host[k] = "rpc" /\ hostIsSet[k] /\ UNCHANGED <<host, toHost>>
    /\ hostSets' = [hostSets EXCEPT ![k] = @ + 1]
    /\ Reply(k, "setInterface")
    /\ UNCHANGED <<managerVars, rpcVars, hostIsSet, hostHas>>

(* Its interface was confirmed, and it asks for the plugin's.              *)
HostRequestsRemote(k) ==
    /\ HostFires(k, "interfaceSetAsRemote") /\ Reply(k, "getInterface")
    /\ hostIsSet' = [hostIsSet EXCEPT ![k] = TRUE]
    /\ UNCHANGED <<managerVars, rpcVars, host, hostSets, hostHas>>

HostSetsRemote(k) ==
    /\ toHost[k] # <<>> /\ hostHas' = [hostHas EXCEPT ![k] = Head(toHost[k])[2]]
    /\ HostFires(k, "setInterface") /\ Reply(k, "interfaceSetAsRemote")
    /\ UNCHANGED <<managerVars, rpcVars, host, hostSets, hostIsSet>>

(* The host is told to disconnect, or its page is closed.                  *)
HostGoes(k) ==
    /\ rpc[k] # "none" /\ host[k] # "gone"
    /\ host' = [host EXCEPT ![k] = "gone"]
    /\ UNCHANGED <<managerVars, rpcVars, hostSets, hostIsSet, hostHas,
                   toHost, toPlugin>>

-----------------------------------------------------------------------------
PluginHandles(k) == \/ Initialize(k) \/ InitializeFails(k)
                    \/ SetRemoteInterface(k) \/ GetInterface(k) \/ RemoteSet(k)

HostHandles(k) == \/ HostInitializes(k) \/ HostRequestsRemote(k)
                  \/ HostSetsRemote(k)
                  \/ host[k] = "none" /\ HostSetsInterface(k)

Next ==
    \/ SetInterface
    \/ \E k \in Conn :
         \/ CreateConnection(k) \/ PluginHandles(k) \/ Disconnect(k)
         \/ HostHandles(k) \/ HostSetsInterface(k) \/ HostGoes(k)

(* Both ends handle the messages that arrive.                              *)
Fairness == \A k \in Conn : /\ WF_vars(PluginHandles(k))
                            /\ WF_vars(HostHandles(k))

Spec == Init /\ [][Next]_vars /\ Fairness

-----------------------------------------------------------------------------
Parted(k) == host[k] = "gone" \/ rpc[k] \in {"entry", "disposed"}

(* Whenever a client came, and whatever was exported before and after, all *)
(* RPCs have the manager's interface, unless an export() raised on the way. *)
ClientsAgree ==
    \A k \in Conn : rpc[k] = "rpc" => (api[k] = interface \/ raised)

(* Once the first exchange is over a host comes to have the interface its  *)
(* RPC has, except for one that was exported between the first sending and *)
(* its confirmation: that one is not sent, and stays unsent.               *)
HostUpToDate ==
    \A k \in Conn :
      (remoteSet[k] /\ sent[k] = api[k]) ~>
        (hostHas[k] = api[k] \/ sent[k] # api[k] \/ Parted(k))

(* An exchange that began is finished, and an export() that was given to a *)
(* client is confirmed by it, unless host or plugin go.                    *)
ExportConfirmed ==
    \A k \in Conn :
      /\ (rpc[k] = "rpc") ~> (remoteSet[k] \/ Parted(k))
      /\ \A v \in 1..MaxExports :
           (<<v, k>> \in waiting) ~> (<<v, k>> \notin waiting \/ Parted(k))

(* The comment at rpc.py:370 on filling the remote interface again: "this  *)
(* will preserve the object reference".  The plugin's api goes on having   *)
(* the functions, export among them, that the manager put into it.         *)
ApiKeepsExport == (\A k \in Conn : rpc[k] # "disposed") => pluginApi # "bare"
=============================================================================
