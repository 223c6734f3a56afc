--------------------------- MODULE MCPluginCalls ---------------------------
(* The host calls a method and passes f; the plugin calls f and passes g;  *)
(* the host calls g twice, while ids of its first call become free.        *)
EXTENDS PluginCalls, TLC

CONSTANTS f, g, run, useF, useG, useGAgain

MCCall == {run, useF, useG, useGAgain}

MCCaller == [c \in MCCall |-> IF c = useF THEN Plugin ELSE Host]

MCArgs == [c \in MCCall |->
             IF c = run THEN <<f>> ELSE IF c = useF THEN <<g>> ELSE <<>>]

MCHandlers == [c \in MCCall |-> IF c = useF THEN {"then"} ELSE {}]

MCTarget == [c \in MCCall |->
               IF c = run THEN NoFunction ELSE IF c = useF THEN f ELSE g]
=============================================================================
