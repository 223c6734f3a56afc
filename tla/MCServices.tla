----------------------------- MODULE MCServices -----------------------------
(***************************************************************************)
(* Services of two ids.  open2 is another version of open and shares a     *)
(* function with it, own has one of its own; shared1 and shared2 have a    *)
(* function in common, but neither the id nor the visibility.  A peer of   *)
(* each workspace.                                                         *)
(***************************************************************************)
EXTENDS Services

CONSTANTS e, f, g, h, i1, i2, open, open2, own, shared1, shared2, near, far

MCFunction == {e, f, g, h}
MCServiceId == {i1, i2}
MCService == {open, open2, own, shared1, shared2}
MCId == [s \in MCService |-> IF s \in {own, shared2} THEN i2 ELSE i1]
MCFunctions == [s \in MCService |-> CASE s = open -> {f} [] s = open2 -> {e, f}
                                      [] s = own -> {g} [] OTHER -> {h}]
MCVisibility == [s \in MCService |-> IF s \in {own, shared1} THEN "protected" ELSE "public"]
MCPeer == {near, far}
MCForeign == {far}
=============================================================================
