----------------------------- MODULE MCEncoding ------------------------------
(***************************************************************************)
(* The encodings of both generations on the same objects: f, g and h are   *)
(* functions; the services have the functions of some of the objects.      *)
(***************************************************************************)
EXTENDS Objects

CONSTANTS f, g, h, MaxEncodings, MaxLevels

Dict(items) == Keyed("dict", FALSE, items)
Interface(items) == Keyed("dict", TRUE, items)

Nested == Dict(<<<<"b", Fun(g)>>, <<"l", Sequential("list", <<Value, Fun(h)>>)>>>>)

(* What both generations are given.                                        *)
Common ==
    [api      |-> Interface(<<<<"a", Fun(f)>>, <<"n", Nested>>>>),
     mixed    |-> Sequential("list", <<Interface(<<<<"on", Fun(g)>>>>),
                                       Sequential("tuple", <<Fun(f)>>)>>),
     codec    |-> Sequential("list", <<Keyed("custom", TRUE, <<<<"c", Fun(f)>>>>),
                                       Keyed("typed", TRUE, <<<<"r", Dict(<<<<"s", Fun(h)>>>>)>>>>),
                                       Keyed("stream", FALSE, <<<<"read", Fun(g)>>>>)>>)]

(* With instances of classes, and two objects of one name.                 *)
PluginTree == Common @@
    [nested   |-> Sequential("list", <<Nested>>),
     instance |-> Sequential("list", <<Keyed("object", FALSE,
                                               <<<<"m", Fun(f)>>, <<"n", Nested>>>>)>>),
     inside   |-> Interface(<<<<"a", Fun(f)>>,
                              <<"o", Keyed("object", FALSE, <<<<"a", Fun(g)>>>>)>>,
                              <<"s", Sequential("set", <<Fun(h)>>)>>>>),
     panel    |-> Named("panel", <<<<"a", Fun(f)>>, <<"b", Fun(g)>>>>),
     panels   |-> Sequential("list", <<Named("panel", <<<<"a", Fun(g)>>, <<"b", Fun(f)>>>>)>>)]

(* An instance and another one have the service id "one".                  *)
ServiceTree ==
    [first  |-> Keyed("object", FALSE, <<<<"a", Fun(f)>>, <<"n", Nested>>>>),
     again  |-> Dict(<<<<"a", Fun(g)>>, <<"n", Dict(<<<<"b", Fun(f)>>>>)>>>>),
     second |-> Dict(<<<<"t", Sequential("tuple", <<Value, Fun(g)>>)>>, <<"f", Fun(f)>>>>)]

ServiceId == [first |-> "one", again |-> "one", second |-> "two"]

VARIABLES generation, objects, weakmap, callbacks, gone, handles, astray,
          services, annotations, sessions, held, encodings

Plugin == INSTANCE PluginEncoding WITH Tree <- PluginTree
Hypha == INSTANCE HyphaEncoding WITH Tree <- Common

pluginVars == <<objects, weakmap, callbacks, gone, handles, astray>>
hyphaVars == <<services, annotations, sessions>>
vars == <<generation, pluginVars, hyphaVars, held, encodings>>

Init ==
    /\ generation \in {"plugin", "hypha"}
    /\ Plugin!Init /\ Hypha!Init

PluginStep(A) == generation = "plugin" /\ A /\ UNCHANGED <<generation, hyphaVars>>
HyphaStep(A) == generation = "hypha" /\ A /\ UNCHANGED <<generation, pluginVars>>

(* Also sessions that are gone.                                            *)
Parents == UNION {[1..n -> 0..(encodings - 1)] : n \in 0..(MaxLevels - 1)}

Next ==
    \/ \E t \in DOMAIN PluginTree, asInterface \in BOOLEAN :
         (asInterface => t # "instance") /\ PluginStep(Plugin!EncodeObject(t, asInterface))
    \/ \E i \in DOMAIN objects : PluginStep(Plugin!DisposeObject(i))
    \/ \E i \in DOMAIN callbacks : PluginStep(Plugin!FetchCallback(i))
    \/ \E o \in DOMAIN ServiceTree, overwrite \in BOOLEAN :
         HyphaStep(Hypha!AddService(o, overwrite))
    \/ \E s \in DOMAIN services : HyphaStep(Hypha!UnregisterService(s))
    \/ \E t \in DOMAIN Common, parent \in Parents : HyphaStep(Hypha!CallRemoteMethod(t, parent))
    \/ \E s \in DOMAIN sessions : HyphaStep(Hypha!CloseSession(s))

Spec == Init /\ [][Next]_vars

-----------------------------------------------------------------------------
(* TypeOK: the stores have functions and objects, and a session is below   *)
(* one that is there (_get_session_store).                                 *)
TypeOK ==
    /\ \A i \in DOMAIN callbacks : callbacks[i] \in {f, g, h}
    /\ DOMAIN weakmap \cup DOMAIN annotations \subseteq {f, g, h}
    /\ \A s \in DOMAIN services : ServiceId[services[s]] = s
    /\ \A s \in DOMAIN sessions :
         Len(s) <= MaxLevels /\ (Len(s) = 1 \/ Front(s) \in DOMAIN sessions)
    /\ encodings \in 0..MaxEncodings

(***************************************************************************)
(* ReferencesReach: a reference that the other side was ever given leads   *)
(* to the function it was made for, and to no other, for as long as the    *)
(* object, the callback or the session it goes through is there, or the    *)
(* same object has the service id: across later encodings of the same      *)
(* objects, disposals, objects that take the name or the service id of     *)
(* others, registrations that are refused and nested sessions (_encode,    *)
(* add_service, index_object).  Only the references within an interface    *)
(* whose path the code breaks are excused, those of PathIsBroken.          *)
(***************************************************************************)
ReferencesReach ==
    \A r \in held : IF generation = "plugin" THEN Plugin!Reaches(r[1], r[2])
                    ELSE Hypha!Reaches(r[1], r[2])
=============================================================================
