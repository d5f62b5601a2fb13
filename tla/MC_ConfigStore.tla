--------------------------- MODULE MC_ConfigStore ---------------------------
(* A small instance of ConfigStore for TLC. *)
EXTENDS ConfigStore

CONSTANTS o1, o2, p1, p2

MCConfigs == [k \in Kind |-> IF k = "operators" THEN {o1, o2} ELSE {p1, p2}]
MCLength  == [c \in {o1, o2, p1, p2} |->
                CASE c = o1 -> 1 [] c = o2 -> 2 [] c = p1 -> 2 [] c = p2 -> 3]
MCSectors == [k \in Kind |-> IF k = "operators" THEN 1 ELSE 2]
MCClears  == {<<<<p2, 1>>, <<p1, 1>>>>}
=============================================================================
