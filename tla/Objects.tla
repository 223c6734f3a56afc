------------------------------ MODULE Objects ------------------------------
(***************************************************************************)
(* The objects that are passed as arguments, results and interfaces, as    *)
(* trees, and where a path leads in one.                                   *)
(*                                                                         *)
(* A node has a kind, the function if it is one, a flag for a dictionary   *)
(* with _rintf and its name if _rintf is a string, and its members, each   *)
(* with a key; the members of a list have the keys "0", "1", ...  An object is an instance of a class with   *)
(* its public members, a stream an open file with its methods; a typed is  *)
(* a dictionary with _rtype, and a custom is anything for which there is a *)
(* codec, with what its encoder gives.                                     *)
(***************************************************************************)
EXTENDS Integers, Sequences, FiniteSets, SequencesExt

CONSTANT NoFunction

Indices == <<"0", "1", "2">>

Node(kind, fun, flagged, items) ==
    [kind |-> kind, fun |-> fun, flagged |-> flagged, name |-> "", items |-> items]

Value == Node("value", NoFunction, FALSE, <<>>)
Fun(f) == Node("fun", f, FALSE, <<>>)
Sequential(kind, nodes) ==
    Node(kind, NoFunction, FALSE,
         [j \in DOMAIN nodes |-> <<Indices[j], nodes[j]>>])
Keyed(kind, flagged, items) == Node(kind, NoFunction, flagged, items)
Named(name, items) == [Keyed("dict", TRUE, items) EXCEPT !.name = name]

Missing == Node("missing", NoFunction, FALSE, <<>>)

Child(n, key) ==
    LET found == {j \in DOMAIN n.items : n.items[j][1] = key}
    IN  IF found = {} THEN Missing ELSE n.items[CHOOSE j \in found : TRUE][2]

(* index_object: the member that a path of keys leads to.                  *)
IndexObject(n, path) == FoldLeft(Child, n, path)

(* The paths to the members of a tree, that of the tree itself included.   *)
RECURSIVE Paths(_)
Paths(n) ==
    {<<>>} \cup UNION {{<<n.items[j][1]>> \o p : p \in Paths(n.items[j][2])} :
                         j \in DOMAIN n.items}

FunctionPaths(n) == {p \in Paths(n) : IndexObject(n, p).kind = "fun"}
=============================================================================
