------------------------- MODULE MC_PersistentQueue -------------------------
(* Three slots of two cells in sectors of three cells: the middle message  *)
(* straddles the sectors, and each sector is shared by two messages.       *)
EXTENDS PersistentQueue

CONSTANTS m1, m2

MCMessages == {m1, m2}
MCClears   == {<<m1, m2>>}
=============================================================================
