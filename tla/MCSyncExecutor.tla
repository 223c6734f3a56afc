--------------------------- MODULE MCSyncExecutor ---------------------------
(***************************************************************************)
(* Two servers whose functions call one another.  In the chain of calls    *)
(* r1, x1, y1 server s calls t, which calls s again (as in the test        *)
(* test_connect_to_server_sync_lock); r2, x2, y2 is a second such chain    *)
(* that runs at the same time.  The result of x1 may contain a function,   *)
(* which the function of r1 then calls (g1).                               *)
(***************************************************************************)
EXTENDS SyncExecutor

CONSTANTS s, t, r1, x1, y1, g1, r2, x2, y2

Servers == {s, t}
TwoChains == {r1, x1, y1, r2, x2, y2}
WithReturned == TwoChains \cup {g1}

ChainParent ==
  [c \in Call |-> CASE c \in {x1, g1} -> r1 [] c = y1 -> x1
                    [] c = x2 -> r2 [] c = y2 -> x2 [] OTHER -> NoCall]

ChainCallee == [c \in Call |-> IF c \in {x1, g1, x2} THEN t ELSE s]

NoneReturned == [c \in {} |-> c]
OneReturned == [c \in {g1} |-> x1]
=============================================================================
