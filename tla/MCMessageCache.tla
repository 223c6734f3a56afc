--------------------------- MODULE MCMessageCache ---------------------------
(***************************************************************************)
(* Large messages s1 and s2 belong to one session, s3 to none.             *)
(***************************************************************************)
EXTENDS MessageCache

CONSTANTS s1, s2, s3, parent, uuid

Messages == {s1, s2, s3}
Keys == {parent, uuid}
Sessions == {parent}
FreshKeys == {uuid}
MCKeyOf == [s \in Messages |-> IF s = s3 THEN uuid ELSE parent]
=============================================================================
