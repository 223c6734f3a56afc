---------------------------- MODULE PluginCalls ----------------------------
(***************************************************************************)
(* Calls and callbacks of RPC version 1, between a host page that runs     *)
(* javascript/src/rpc.js and a plugin that runs python/imjoy_rpc/rpc.py.   *)
(*                                                                         *)
(* A call is a message "method", or a message "callback" when it calls a   *)
(* function that was an argument of an earlier call.  It carries the       *)
(* numbers under which its caller keeps its resolve, its reject and the    *)
(* functions among its arguments in the ReferenceStore; the answer is      *)
(* another "callback", to one of the first two, without a promise.  What   *)
(* is fetched from the store is gone: a function passed once runs once.    *)
(*                                                                         *)
(* The two stores differ.  The plugin's ids are uuids and fetch removes    *)
(* only what it finds (the partner in a promise is looked up under a name  *)
(* that Python mangles in the class that sets it, so it is never found).   *)
(* The host's ids are small numbers that are used again, and fetch         *)
(* removes the partner too, unless the partner's id is 0, which is falsy.  *)
(***************************************************************************)
EXTENDS Integers, Sequences, FiniteSets, FiniteSetsExt, SequencesExt

CONSTANTS
    Host, Plugin,   \* the two peers
    Call,           \* the calls that may be made
    Caller,         \* the peer that makes a call
    Args,           \* the functions among the arguments of a call, in order
    Target,         \* the function a call is for, NoFunction for a method
    Handlers,       \* what its caller puts on the promise: then and catch
                    \* (finally_ is both), instead of awaiting it
    Function,       \* the functions passed as arguments, once each
    NoFunction,
    NoCall

ASSUME CallsAssumption ==
    /\ Host # Plugin /\ NoFunction \notin Function /\ NoCall \notin Call
    /\ Caller \in [Call -> {Host, Plugin}]
    /\ Args \in [Call -> Seq(Function)]
    /\ Handlers \in [Call -> SUBSET {"then", "catch"}]
    /\ Target \in [Call -> Function \cup {NoFunction}]
    /\ \A f \in Function : \E c \in Call : \E k \in DOMAIN Args[c] :
         /\ Args[c][k] = f
         /\ \A d \in Call : \A m \in DOMAIN Args[d] :
              Args[d][m] = f => d = c /\ m = k
         /\ \A d \in Call : Target[d] = f => Caller[d] # Caller[c]

VARIABLES
    future,      \* what a caller has of its call
    answeredBy,  \* the call whose answer settled it
    method,      \* what the callee has of the call
    runs,        \* how often a function that was passed was run
    store,       \* the ReferenceStore of each peer
    net          \* the messages on their way to each peer, in order

vars == <<future, answeredBy, method, runs, store, net>>

Peer == {Host, Plugin}
Callee(c) == IF Caller[c] = Host THEN Plugin ELSE Host

Resolve(c) == <<"resolve", c>>
Reject(c) == <<"reject", c>>
Passed(f) == <<"function", f>>
Promise(c) == <<Resolve(c), Reject(c)>>
Functions(c) == [k \in DOMAIN Args[c] |-> Passed(Args[c][k])]
Thing == {Resolve(c) : c \in Call} \cup {Reject(c) : c \in Call}
           \cup {Passed(f) : f \in Function}

NoId == -1

-----------------------------------------------------------------------------
(* The reference stores: what is kept under which id, the host's free ids  *)
(* (the largest has never been used; a uuid is a number never used again), *)
(* and the id that was sent out for each thing.                            *)

EmptyStore == [entry |-> [i \in {} |-> NoId], free |-> {0},
               id |-> [x \in Thing |-> NoId]]

(* Mutant: the next number is not moved on.                                *)
PutAgain(s, x) ==
    LET i == Min(s.free)
    IN  [entry |-> [j \in DOMAIN s.entry \cup {i} |->
                      IF j = i THEN x ELSE s.entry[j]],
         free |-> IF s.free = {i} THEN s.free ELSE s.free \ {i},
         id |-> [s.id EXCEPT ![x] = i]]

Put(s, x) ==
    LET i == Min(s.free)
    IN  [entry |-> [j \in DOMAIN s.entry \cup {i} |->
                      IF j = i THEN x ELSE s.entry[j]],
         free |-> IF s.free = {i} THEN {i + 1} ELSE s.free \ {i},
         id |-> [s.id EXCEPT ![x] = i]]

PutAll(s, things) == FoldLeft(Put, s, things)

(* Mutant: the tail is cleaned up too far, to below ids in use.            *)
TrimTooFar(ids) == {Min(ids)}

(* _releaseId: of the run of numbers at the end only the least is kept.    *)
Trim(ids) == {i \in ids : ~ ((i - 1)..Max(ids) \subseteq ids)}

Partner(s, i) ==
    LET x == s.entry[i]
    IN  IF x[1] = "function" THEN {}
        ELSE {s.id[Resolve(x[2])], s.id[Reject(x[2])]} \ {i}

(* Mutant: the host does not give the id back.                             *)
FetchKeepsId(p, s, i) ==
    IF i \notin DOMAIN s.entry THEN s
    ELSE [s EXCEPT !.entry = [j \in DOMAIN s.entry \ {i} |-> s.entry[j]]]

Fetch(p, s, i) ==
    IF i \notin DOMAIN s.entry THEN s
    ELSE LET gone == {i} \cup (IF p = Host THEN Partner(s, i) \ {0} ELSE {})
         IN  [s EXCEPT
                !.entry = [j \in DOMAIN s.entry \ gone |-> s.entry[j]],
                !.free = IF p = Host
                         THEN Trim(@ \cup (gone \cap DOMAIN s.entry)) ELSE @]

-----------------------------------------------------------------------------
TypeOK ==
    /\ future \in [Call -> {"none", "encoding", "pending", "unsent", "stuck",
                            "done", "failed", "handled", "cancelled"}]
    /\ answeredBy \in [Call -> Call \cup {NoCall}]
    /\ method \in [Call -> {"none", "running", "over", "silent"}]
    /\ runs \in [Function -> Nat]
    /\ \A p \in Peer :
         /\ DOMAIN store[p].entry \subseteq Nat /\ store[p].free \subseteq Nat
         /\ \A i \in DOMAIN store[p].entry : store[p].entry[i] \in Thing
         /\ store[p].id \in [Thing -> Nat \cup {NoId}]
         /\ net[p] \in Seq(({"call"} \X Call) \cup ({"answer"} \X Nat \X Call))

Init ==
    /\ future = [c \in Call |-> "none"]
    /\ answeredBy = [c \in Call |-> NoCall]
    /\ method = [c \in Call |-> "none"]
    /\ runs = [f \in Function |-> 0]
    /\ store = [p \in Peer |-> EmptyStore]
    /\ net = [p \in Peer |-> <<>>]

-----------------------------------------------------------------------------
(* Making a call.                                                          *)

(* A function can be called by whoever was given it: the call it was an    *)
(* argument of has been received.                                          *)
Callable(c) ==
    \/ Target[c] = NoFunction
    \/ \E d \in Call : /\ method[d] # "none"
                       /\ \E k \in DOMAIN Args[d] : Args[d][k] = Target[c]

Send(p, m) == net' = [net EXCEPT ![p] = Append(@, m)]

Keep(p, things) == store' = [store EXCEPT ![p] = PutAll(@, things)]

(* The plugin puts the promise and then the functions into its store, and  *)
(* sends, without giving way.                                              *)
PluginCalls(c) ==
    /\ Caller[c] = Plugin /\ future[c] = "none" /\ Callable(c)
    /\ Keep(Plugin, Promise(c) \o Functions(c))
    /\ future' = [future EXCEPT ![c] = "pending"]
    /\ Send(Host, <<"call", c>>)
    /\ UNCHANGED <<answeredBy, method, runs>>

(* An argument cannot be encoded: the exception goes to the caller, and    *)
(* what was put into the store before it stays there.                      *)
PluginCallRaises(c) ==
    /\ Caller[c] = Plugin
    /\ future[c] = "none" /\ Callable(c)
    /\ \E k \in 0..Len(Args[c]) :
         Keep(Plugin, Promise(c) \o SubSeq(Functions(c), 1, k))
    /\ future' = [future EXCEPT ![c] = "unsent"]
    /\ UNCHANGED <<answeredBy, method, runs, net>>

(* The host awaits each encoding: of the promise and then the arguments of *)
(* a method, of the arguments and then the promise of a callback.          *)
HostEncodes(c) ==
    /\ Caller[c] = Host /\ future[c] = "none" /\ Callable(c)
    /\ Keep(Host, IF Target[c] = NoFunction THEN Promise(c) ELSE Functions(c))
    /\ future' = [future EXCEPT ![c] = "encoding"]
    /\ UNCHANGED <<answeredBy, method, runs, net>>

HostSends(c) ==
    /\ Caller[c] = Host /\ future[c] = "encoding"
    /\ Keep(Host, IF Target[c] = NoFunction THEN Functions(c) ELSE Promise(c))
    /\ future' = [future EXCEPT ![c] = "pending"]
    /\ Send(Plugin, <<"call", c>>)
    /\ UNCHANGED <<answeredBy, method, runs>>

(* Arguments of a method that cannot be encoded reject the promise; those  *)
(* of a callback are encoded outside try, and it is never settled.         *)
HostCannotEncode(c) ==
    /\ Caller[c] = Host
    /\ \/ /\ future[c] = "encoding" /\ Target[c] = NoFunction
          /\ future' = [future EXCEPT ![c] = "unsent"]
       \/ /\ future[c] = "none" /\ Target[c] # NoFunction /\ Callable(c)
          /\ future' = [future EXCEPT ![c] = "stuck"]
    /\ \E k \in 0..Len(Args[c]) : Keep(Host, SubSeq(Functions(c), 1, k))
    /\ UNCHANGED <<answeredBy, method, runs, net>>

(* The plugin's code cancels a call, as asyncio.wait_for does.             *)
Cancel(c) ==
    /\ Caller[c] = Plugin /\ future[c] = "pending"
    /\ future' = [future EXCEPT ![c] = "cancelled"]
    /\ UNCHANGED <<answeredBy, method, runs, store, net>>

-----------------------------------------------------------------------------
(* What is kept in a store is run by a message of call c.                  *)

(* Mutant: the future holds which half was called.                         *)
OutcomeRaw(d, kind) == IF future[d] # "pending" THEN future[d] ELSE kind

(* FuturePromise: a handler for the case is called instead of setting the  *)
(* future; a future that is over stays as it is.                           *)
Outcome(d, kind) ==
    IF future[d] # "pending" THEN future[d]
    ELSE IF (IF kind = "resolve" THEN "then" ELSE "catch") \in Handlers[d]
         THEN "handled"
    ELSE IF kind = "resolve" THEN "done" ELSE "failed"

Run(x, c) ==
    \/ /\ x[1] = "function"
       /\ runs' = [runs EXCEPT ![x[2]] = @ + 1]
       /\ UNCHANGED <<future, answeredBy>>
    \/ /\ x[1] # "function"
       /\ future' = [future EXCEPT ![x[2]] = Outcome(x[2], x[1])]
       /\ answeredBy' = [answeredBy EXCEPT ![x[2]] =
                           IF future[x[2]] = "pending" THEN c ELSE @]
       /\ UNCHANGED runs

(* The answer to c goes to one half of the promise its message carried.    *)
Answer(c, x) == <<"answer", store[Caller[c]].id[x], c>>

Receive(p, m) ==
    /\ net[p] # <<>> /\ Head(net[p]) = m

Received(p) == [net EXCEPT ![p] = Tail(@)]

(* _handle_method: the method runs, or is not found.                       *)
HandleMethod(c) ==
    LET p == Callee(c) IN
    /\ Target[c] = NoFunction /\ Receive(p, <<"call", c>>)
    /\ \/ /\ method' = [method EXCEPT ![c] = "running"]
          /\ net' = Received(p)
       \/ /\ method' = [method EXCEPT ![c] = "over"]
          /\ net' = [Received(p) EXCEPT ![Caller[c]] =
                       Append(@, Answer(c, Reject(c)))]
    /\ UNCHANGED <<future, answeredBy, runs, store>>

(* Mutant: the function is looked up and left in the store.                *)
HandleCallbackKeeps(c) ==
    LET p == Callee(c)
        i == store[p].id[Passed(Target[c])]
    IN
    /\ Target[c] # NoFunction /\ Receive(p, <<"call", c>>)
    /\ i \in DOMAIN store[p].entry
    /\ Run(store[p].entry[i], c)
    /\ method' = [method EXCEPT ![c] = "running"]
    /\ net' = Received(p)
    /\ UNCHANGED store

(* _handle_callback with a promise: the function is fetched and run, or    *)
(* its arguments cannot be unwrapped and it is lost; when it is not there  *)
(* the call is refused.                                                    *)
HandleCallback(c) ==
    LET p == Callee(c)
        i == store[p].id[Passed(Target[c])]
    IN
    /\ Target[c] # NoFunction /\ Receive(p, <<"call", c>>)
    /\ store' = [store EXCEPT ![p] = Fetch(p, @, i)]
    /\ \/ /\ i \in DOMAIN store[p].entry
          /\ Run(store[p].entry[i], c)
          /\ method' = [method EXCEPT ![c] = "running"]
          /\ net' = Received(p)
       \/ /\ method' = [method EXCEPT ![c] = "over"]
          /\ net' = [Received(p) EXCEPT ![Caller[c]] =
                       Append(@, Answer(c, Reject(c)))]
          /\ UNCHANGED <<future, answeredBy, runs>>

(* _handle_callback without a promise, which is how an answer arrives.     *)
HandleAnswer(p) ==
    /\ net[p] # <<>> /\ Head(net[p])[1] = "answer"
    /\ LET i == Head(net[p])[2]
           c == Head(net[p])[3]
       IN  /\ store' = [store EXCEPT ![p] = Fetch(p, @, i)]
           /\ IF i \in DOMAIN store[p].entry THEN Run(store[p].entry[i], c)
              ELSE UNCHANGED <<future, answeredBy, runs>>
    /\ net' = Received(p)
    /\ UNCHANGED method

(* Mutant: a result that cannot be encoded is only logged by the plugin.   *)
MethodEndsSilently(c) ==
    /\ method[c] = "running"
    /\ method' = [method EXCEPT ![c] = "over"]
    /\ \/ \E x \in {Resolve(c), Reject(c)} : Send(Caller[c], Answer(c, x))
       \/ UNCHANGED net
    /\ UNCHANGED <<future, answeredBy, runs, store>>

(* The method ends.  The plugin turns every failure, that to encode the    *)
(* result included, into a reject.  On the host nothing is sent when the   *)
(* result of a function that is not async cannot be encoded.               *)
MethodEnds(c) ==
    /\ method[c] = "running"
    /\ \/ /\ method' = [method EXCEPT ![c] = "over"]
          /\ \E x \in {Resolve(c), Reject(c)} : Send(Caller[c], Answer(c, x))
       \/ /\ Callee(c) = Host
          /\ method' = [method EXCEPT ![c] = "silent"]
          /\ UNCHANGED net
    /\ UNCHANGED <<future, answeredBy, runs, store>>

-----------------------------------------------------------------------------
Handle(p) ==
    \/ \E c \in Call : Callee(c) = p /\ (HandleMethod(c) \/ HandleCallback(c))
    \/ HandleAnswer(p)

Next ==
    \/ \E c \in Call :
         \/ PluginCalls(c) \/ PluginCallRaises(c)
         \/ HostEncodes(c) \/ HostSends(c) \/ HostCannotEncode(c)
         \/ Cancel(c) \/ MethodEnds(c)
    \/ \E p \in Peer : Handle(p)

(* Each peer handles its messages; that the methods end is an assumption   *)
(* about the methods.                                                      *)
Fairness == /\ \A p \in Peer : WF_vars(Handle(p))
            /\ \A c \in Call : WF_vars(MethodEnds(c))

Spec == Init /\ [][Next]_vars /\ Fairness

-----------------------------------------------------------------------------
(* While a call is pending both halves of its promise are in its caller's  *)
(* store, under the ids that its message carries: an answer will find it.  *)
PendingIsStored ==
    \A c \in Call : future[c] = "pending" =>
      LET s == store[Caller[c]] IN
      \A x \in {Resolve(c), Reject(c)} :
        s.id[x] \in DOMAIN s.entry /\ s.entry[s.id[x]] = x

(* A call is settled by its own answer, although the host uses the ids of  *)
(* earlier calls and functions again, and nothing else settles it.  That   *)
(* needs the plugin to call the host's functions once: a second call may   *)
(* find, and call, another call's resolve under the number.                *)
AnswerIsOwn == \A c \in Call : answeredBy[c] \in {NoCall, c}

(* "Callback function can only called once": however often it is called    *)
(* and in whatever order, a function that was passed runs once.            *)
RunsOnce == \A f \in Function : runs[f] <= 1

(* The host's ids are either free or in use, and nothing stays in its      *)
(* store but functions that were not called, promises not settled, what    *)
(* belonged to a call that could not be encoded, and a resolve with the    *)
(* id 0, which its reject does not find.                                   *)
HostStoreIsTidy ==
    LET s == store[Host] IN
    /\ \A i \in 0..(Max(s.free) - 1) : i \in s.free <=> i \notin DOMAIN s.entry
    /\ \A i \in DOMAIN s.entry :
         LET x == s.entry[i] IN
         \/ x[1] = "function" /\ runs[x[2]] = 0
         \/ x[1] # "function" /\ future[x[2]] \in {"encoding", "pending", "unsent"}
         \/ x[1] = "resolve" /\ i = 0

(* Every call that was sent is settled, unless a function of the host that *)
(* is not async returned what cannot be encoded.                           *)
CallsSettle ==
    \A c \in Call :
      future[c] = "pending" ~> (future[c] # "pending" \/ method[c] = "silent")
=============================================================================
