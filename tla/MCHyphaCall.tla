----------------------------- MODULE MCHyphaCall -----------------------------
(***************************************************************************)
(* Two peers; call c1 from a to b, and the callback c2 that b makes with a *)
(* function found in the arguments of c1.                                  *)
(***************************************************************************)
EXTENDS HyphaCall

CONSTANTS a, b, c1, c2

TwoPeers == {a, b}
NestedCalls == {c1, c2}
MCParent == [c \in NestedCalls |-> IF c = c2 THEN c1 ELSE NoCall]
MCCaller == [c \in NestedCalls |-> IF c = c2 THEN b ELSE a]
MCCallee == [c \in NestedCalls |-> IF c = c2 THEN a ELSE b]
MCInterface == {c2}
OnlyCaller == {a}
OnlyCallee == {b}
=============================================================================
