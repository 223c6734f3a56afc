--------------------------- MODULE HyphaEncoding ----------------------------
(***************************************************************************)
(* _encode and _decode of the second generation (hypha/rpc.py), and the    *)
(* state behind the references: the services, the annotations of their     *)
(* functions, and the sessions with the functions passed in calls.         *)
(*                                                                         *)
(* A function with an annotation is sent as a path into a service, any     *)
(* other one is stored in the session of the call.  An instance of a class *)
(* is not supported, but for a service, which is made a dictionary of it.  *)
(* A session is the sequence of its levels, each the number of an encoding.*)
(***************************************************************************)
EXTENDS Objects

CONSTANTS Tree,         \* what is passed, by name
          ServiceTree,  \* what is registered, by name
          ServiceId,    \* the service id of it; several may have the same
          MaxEncodings, \* bound: encodings
          MaxLevels     \* bound: sessions below one another

VARIABLES
    services,     \* _services: the object registered under an id
    annotations,  \* _method_annotations: references by function
    sessions,     \* the session stores in _object_store: functions by object id
    held,         \* the references other clients were given: <<function, ref>>
    encodings     \* the number of encodings

vars == <<services, annotations, sessions, held, encodings>>

-----------------------------------------------------------------------------
Wire(kind, ref, items) == [kind |-> kind, ref |-> ref, items |-> items]

NoRef == [type |-> "none"]

(* The reference for a function, at a place of what is sent in a session.  *)
EncodeFunction(f, session, place) ==
    IF f \in DOMAIN annotations THEN annotations[f]
    ELSE [type |-> "session", id |-> session, path |-> place]

SentKind(kind) ==
    CASE kind = "fun" -> "method"
      [] kind = "tuple" -> "list"
      [] kind = "custom" -> "typed"
      [] OTHER -> kind

(***************************************************************************)
(* _encode: the members are encoded whatever the object is: those of a set *)
(* as a list, those of a dictionary with _rtype and of the encoder's       *)
(* result while _rtype is taken away.                                      *)
(***************************************************************************)
RECURSIVE Encode(_, _, _)
Encode(n, session, place) ==
    Wire(SentKind(n.kind),
         IF n.kind = "fun" THEN EncodeFunction(n.fun, session, place) ELSE NoRef,
         [j \in DOMAIN n.items |->
            <<n.items[j][1],
              Encode(n.items[j][2], session, Append(place, n.items[j][1]))>>])

WireAt(w, place) ==
    FoldLeft(LAMBDA m, key :
               m.items[CHOOSE j \in DOMAIN m.items : m.items[j][1] = key][2],
             w, place)

(* _decode: where a remote method arises, wherever one was sent.           *)
RECURSIVE Decode(_)
Decode(w) ==
    IF w.kind = "method" THEN {<<>>}
    ELSE UNION {{<<w.items[j][1]>> \o p : p \in Decode(w.items[j][2])} :
                  j \in DOMAIN w.items}

-----------------------------------------------------------------------------
EmptyMap == [x \in {} |-> NoRef]

Init ==
    /\ services = EmptyMap /\ annotations = EmptyMap /\ sessions = EmptyMap
    /\ held = {} /\ encodings = 0

(* _annotate_service_methods goes into dictionaries, lists and tuples.     *)
AnnotatedPaths(n) ==
    {p \in FunctionPaths(n) :
       \A k \in 1..(Len(p) - 1) :
         IndexObject(n, SubSeq(p, 1, k)).kind \in {"dict", "list", "tuple", "typed"}}

(* Mutant: the method id ends with the last key only.                      *)
MethodIdShort(o, path) ==
    [type |-> "service", id |-> ServiceId[o], of |-> o, path |-> <<Last(path)>>]

(* The object, "of", is not sent: see Reaches.                             *)
MethodId(o, path) == [type |-> "service", id |-> ServiceId[o], of |-> o, path |-> path]

Annotate(o) ==
    LET n == ServiceTree[o]
        Functions == {IndexObject(n, p).fun : p \in AnnotatedPaths(n)}
        Path(f) == CHOOSE p \in AnnotatedPaths(n) : IndexObject(n, p).fun = f
    IN  [f \in DOMAIN annotations \cup Functions |->
           IF f \in Functions THEN MethodId(o, Path(f))
           ELSE annotations[f]]

(* add_service, of an instance too: the functions are annotated before the *)
(* registration is refused because another object has the id.              *)
AddService(o, overwrite) ==
    /\ annotations' = Annotate(o)
    /\ services' = IF ServiceId[o] \in DOMAIN services /\ ~overwrite THEN services
                   ELSE (ServiceId[o] :> o) @@ services
    /\ UNCHANGED <<sessions, held, encodings>>

(* unregister_service leaves the annotations.                              *)
UnregisterService(s) ==
    /\ s \in DOMAIN services
    /\ services' = [r \in DOMAIN services \ {s} |-> services[r]]
    /\ UNCHANGED <<annotations, sessions, held, encodings>>

(* Mutant: a parent that is gone is created.                               *)
HasParentAlways(parent) == TRUE

(* _get_session_store creates the last level only.                         *)
HasParent(parent) == parent = <<>> \/ parent \in DOMAIN sessions

(***************************************************************************)
(* A remote method is called, in a new session below the parent one when   *)
(* it was decoded in that: its arguments are encoded.  Without the parent  *)
(* the call is rejected.                                                   *)
(***************************************************************************)
CallRemoteMethod(t, parent) ==
    LET n == Tree[t]
        session == Append(parent, encodings)
        w == Encode(n, session, <<>>)
        Ref(p) == WireAt(w, p).ref
        stored == {p \in FunctionPaths(n) : Ref(p).type = "session"}
    IN
    /\ encodings < MaxEncodings
    /\ Len(parent) < MaxLevels
    /\ encodings' = encodings + 1
    /\ HasParent(parent)
    /\ sessions' = [s \in DOMAIN sessions \cup {session} |->
                      IF s = session THEN [p \in stored |-> IndexObject(n, p).fun]
                      ELSE sessions[s]]
    /\ held' = held \cup {<<IndexObject(n, p).fun, Ref(p)>> : p \in Decode(w)}
    /\ UNCHANGED <<services, annotations>>

(***************************************************************************)
(* An answer came: the session is deleted, and with it the ones below it.  *)
(* One that is below another is not looked up by its levels and stays; so  *)
(* does one whose call timed out, whose timer has the bare reject.         *)
(***************************************************************************)
CloseSession(s) ==
    /\ s \in DOMAIN sessions
    /\ Len(s) = 1
    /\ sessions' = [r \in {q \in DOMAIN sessions : ~IsPrefix(s, q)} |-> sessions[r]]
    /\ UNCHANGED <<services, annotations, held, encodings>>

-----------------------------------------------------------------------------
(* index_object in _handle_method finds the function that the reference    *)
(* was made for, as long as its session is there, or the object whose      *)
(* functions were annotated when it was made is what has the service id.   *)
Reaches(f, ref) ==
    IF ref.type = "service"
    THEN ref.id \in DOMAIN services /\ services[ref.id] = ref.of =>
           IndexObject(ServiceTree[ref.of], ref.path).fun = f
    ELSE ref.id \in DOMAIN sessions =>
           ref.path \in DOMAIN sessions[ref.id] /\ sessions[ref.id][ref.path] = f
=============================================================================
