--------------------------- MODULE PluginEncoding ---------------------------
(***************************************************************************)
(* _encode and _decode of RPC version 1 (python/imjoy_rpc/rpc.py), and the *)
(* state they leave behind: the object store with the interfaces, the      *)
(* weak map with the last reference under which a function was sent, and   *)
(* the callbacks in the ReferenceStore.                                    *)
(*                                                                         *)
(* A function in an interface is sent as a path into a stored object; any  *)
(* other one as a callback, unless the weak map has a reference to it.  A  *)
(* uuid is the number of the encoding and the place in the tree it is for; *)
(* an object with a name is stored under that, in the place of another.    *)
(* A tree has a function and a name only once: then the order in which its *)
(* members are encoded does not matter.                                    *)
(***************************************************************************)
EXTENDS Objects

CONSTANTS Tree,         \* what is passed, by name
          MaxEncodings  \* bound: encodings

VARIABLES
    objects,      \* _object_store: the stored objects by id
    weakmap,      \* _method_weakmap: references by function
    callbacks,    \* _store: functions by id
    gone,         \* ids of objects disposed of and of callbacks called
    handles,      \* ids of objects that the other side can dispose of
    held,         \* what the other side was given: <<function, reference>>
    astray,       \* those of them, or in the weak map, with a broken path
    encodings     \* the number of encodings

vars == <<objects, weakmap, callbacks, gone, handles, held, astray, encodings>>

NotInterface == <<"not an interface">>
NoId == <<>>
NoRoot == [id |-> NoId, items |-> <<>>]
Plain == {"value", "error", "memoryview", "ndarray"}

-----------------------------------------------------------------------------
(* What is sent: a node with the reference that a function became, the id  *)
(* under which it was stored as an interface, and its _rintf.              *)
Wire(kind, ref, root, rintf, items) ==
    [kind |-> kind, ref |-> ref, root |-> root, rintf |-> rintf, items |-> items]

NoRef == [type |-> "none"]

(* The reference for a function: path is NotInterface outside of one.  The *)
(* members of the stored object, "of", are not sent: see Reaches.          *)
EncodeFunction(f, path, root, uuid) ==
    IF path # NotInterface
    THEN [type |-> "interface", id |-> root.id, of |-> root.items, path |-> path]
    ELSE IF f \in DOMAIN weakmap THEN weakmap[f]
    ELSE [type |-> "callback", id |-> uuid]

(* The id under which an interface is stored: its _rintf if it is a string.*)
ObjectId(name, uuid) == IF name = "" THEN uuid ELSE <<name>>

(* Mutant: the path does not begin with that of the enclosing member.      *)
MemberPathShort(path, key) == <<key>>

MemberPath(path, key) ==
    IF path = NotInterface THEN <<key>> ELSE Append(path, key)

(***************************************************************************)
(* _encode.  The path is NotInterface outside of an interface, and root is *)
(* NoRoot as long as the interface is not stored, later its id and what    *)
(* is stored.                                                              *)
(***************************************************************************)
RECURSIVE Raw(_)
Raw(n) == Wire(n.kind, NoRef, NoId, NoId,
               [j \in DOMAIN n.items |-> <<n.items[j][1], Raw(n.items[j][2])>>])

RECURSIVE Encode(_, _, _, _)
Encode(n, path, root, place) ==
    LET uuid == <<encodings, place>>
        Member(inside, r, item) ==
            <<item[1], Encode(item[2],
                              IF inside THEN MemberPath(path, item[1]) ELSE NotInterface,
                              r, Append(place, item[1]))>>
        Members(inside, r) ==
            [j \in DOMAIN n.items |-> Member(inside, r, n.items[j])]
        HasFunction == \E j \in DOMAIN n.items : n.items[j][2].kind = "fun"
        AsInterface(kind) ==
            LET new == root = NoRoot
                r == IF new THEN [id |-> ObjectId(n.name, uuid), items |-> n.items]
                     ELSE root
            IN  Wire(kind, NoRef, IF new THEN r.id ELSE NoId,
                     IF kind # "list" /\ HasFunction THEN r.id ELSE NoId,
                     Members(TRUE, r))
        As(kind, flagged, p, r) ==
            Encode([n EXCEPT !.kind = kind, !.flagged = flagged], p, r, place)
    IN
    CASE n.kind \in Plain -> Raw(n)
      [] n.kind = "fun" ->
           Wire("function", EncodeFunction(n.fun, path, root, uuid), NoId, NoId, <<>>)
      [] n.kind \in {"typed", "custom"} /\ ~n.flagged -> [Raw(n) EXCEPT !.kind = "typed"]
      [] n.kind = "typed" /\ n.flagged ->
           [As("dict", TRUE, path, root) EXCEPT !.kind = "typed"]
      [] n.kind = "custom" /\ n.flagged ->
           [As("dict", TRUE, <<>>, NoRoot) EXCEPT !.kind = "typed"]
      [] n.kind = "stream" -> As("dict", TRUE, NotInterface, NoRoot)
      [] n.kind = "set" -> [As("list", FALSE, path, NoRoot) EXCEPT !.kind = "set"]
      [] n.kind = "object" -> As("dict", TRUE, <<>>, root)
      [] n.kind = "tuple" -> As("list", FALSE, path, root)
      [] n.kind \in {"list", "dict"} ->
           IF n.flagged \/ path # NotInterface THEN AsInterface(n.kind)
           ELSE Wire(n.kind, NoRef, NoId, NoId, Members(FALSE, NoRoot))

WireAt(w, place) ==
    FoldLeft(LAMBDA m, key :
               m.items[CHOOSE j \in DOMAIN m.items : m.items[j][1] = key][2],
             w, place)

(***************************************************************************)
(* _decode: where a function of the other side's arises.  The members of a *)
(* typed are decoded only if it has a _rintf, and that was sent only if a  *)
(* member of its own is a function.                                        *)
(***************************************************************************)
RECURSIVE Decode(_)
Decode(w) ==
    IF w.kind = "function" THEN {<<>>}
    ELSE IF w.kind = "typed" /\ w.rintf = NoId THEN {}
    ELSE UNION {{<<w.items[j][1]>> \o p : p \in Decode(w.items[j][2])} :
                  j \in DOMAIN w.items}

-----------------------------------------------------------------------------
EmptyMap == [x \in {} |-> NoRef]

Init ==
    /\ objects = EmptyMap /\ weakmap = EmptyMap /\ callbacks = EmptyMap
    /\ gone = {} /\ handles = {} /\ held = {} /\ astray = {} /\ encodings = 0

(***************************************************************************)
(* The path of a function does not lead there: within an interface it      *)
(* begins anew for an instance of a class, but not at a new object, and a  *)
(* set is a new object, but the path does not begin anew.  Below a codec's *)
(* dictionary or a stream both are new.                                    *)
(***************************************************************************)
PathIsBroken(n, path, asInterface) ==
    LET Above(k) == IndexObject(n, SubSeq(path, 1, k))
        IsInterface(k) == \/ Above(k).flagged \/ Above(k).kind \in {"object", "stream"}
                          \/ k = 0 /\ asInterface
    IN  \E l \in 1..(Len(path) - 1) :
          /\ Above(l).kind \in {"object", "set"}
          /\ \E k \in 0..(l - 1) : IsInterface(k)
          /\ \A m \in (l + 1)..(Len(path) - 1) : Above(m).kind \notin {"custom", "stream"}

(* _encode of arguments, of a result, or of the interface itself.          *)
EncodeObject(t, asInterface) ==
    LET n == Tree[t]
        w == Encode(n, IF asInterface THEN <<>> ELSE NotInterface, NoRoot, <<>>)
        places == Paths(n)
        functions == {p \in FunctionPaths(n) : WireAt(w, p).ref # NoRef}
        roots == {p \in places : WireAt(w, p).root # NoId}
        Given(p) == <<IndexObject(n, p).fun, WireAt(w, p).ref>>
        methods == {Given(p) : p \in
                      {q \in functions : WireAt(w, q).ref.type = "interface"}}
        put == {p \in functions : WireAt(w, p).ref.type = "callback"}
        Root(i) == CHOOSE p \in roots : WireAt(w, p).root = i
        Method(f) == (CHOOSE g \in methods : g[1] = f)[2]
    IN
    /\ encodings < MaxEncodings
    /\ asInterface => n.kind \in {"list", "dict"}
    /\ encodings' = encodings + 1
    /\ objects' = [i \in DOMAIN objects \cup {WireAt(w, p).root : p \in roots} |->
                     IF \E p \in roots : WireAt(w, p).root = i
                     THEN IndexObject(n, Root(i)) ELSE objects[i]]
    /\ weakmap' = [f \in DOMAIN weakmap \cup {g[1] : g \in methods} |->
                     IF \E g \in methods : g[1] = f THEN Method(f) ELSE weakmap[f]]
    /\ callbacks' = [i \in DOMAIN callbacks \cup {<<encodings, p>> : p \in put} |->
                       IF i \in DOMAIN callbacks THEN callbacks[i]
                       ELSE IndexObject(n, i[2]).fun]
    /\ held' = held \cup {Given(p) : p \in Decode(w)}
    /\ astray' = astray \cup {Given(p) : p \in {q \in functions :
                                                PathIsBroken(n, q, asInterface)}}
    /\ handles' = handles \cup ({WireAt(w, p).rintf : p \in places} \ {NoId})
    /\ UNCHANGED gone

(* _dispose_object, asked for by the other side, which knows the _rintf of *)
(* the dictionaries it got; or the close event of one with an on function. *)
DisposeObject(i) ==
    /\ i \in handles \cap DOMAIN objects
    /\ objects' = [j \in DOMAIN objects \ {i} |-> objects[j]]
    /\ gone' = gone \cup {i}
    /\ UNCHANGED <<weakmap, callbacks, handles, held, astray, encodings>>

(* A callback is called, and gone from the store.                          *)
FetchCallback(i) ==
    /\ i \in DOMAIN callbacks
    /\ callbacks' = [j \in DOMAIN callbacks \ {i} |-> callbacks[j]]
    /\ gone' = gone \cup {i}
    /\ UNCHANGED <<objects, weakmap, handles, held, astray, encodings>>

Next ==
    \/ \E t \in DOMAIN Tree, asInterface \in BOOLEAN : EncodeObject(t, asInterface)
    \/ \E i \in DOMAIN objects : DisposeObject(i)
    \/ \E i \in DOMAIN callbacks : FetchCallback(i)

-----------------------------------------------------------------------------
Ids == DOMAIN callbacks \cup DOMAIN objects

Reached(ref) ==
    IF ref.type = "callback" THEN callbacks[ref.id]
    ELSE IndexObject(objects[ref.id], ref.path).fun

(* The object or the callback that the reference was made for is there:    *)
(* under the name of an object there may be another one.                   *)
IsThere(ref) ==
    IF ref.type = "callback" THEN ref.id \in DOMAIN callbacks
    ELSE ref.id \in DOMAIN objects /\ objects[ref.id].items = ref.of

(* _handle_method and _handle_callback find the function that the          *)
(* reference was made for, as long as its object or callback is there.     *)
Reaches(f, ref) ==
    /\ ref.id \in Ids \cup gone
    /\ IsThere(ref) /\ <<f, ref>> \notin astray => Reached(ref) = f
=============================================================================
