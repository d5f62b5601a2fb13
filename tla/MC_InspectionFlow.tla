-------------------------- MODULE MC_InspectionFlow --------------------------
(* Small operator lists and products configurations.  The second list      *)
(* drops an operator and moves the other.  B gives product 1 other types   *)
(* in another order and no INJ category, and puts a product before it.     *)
EXTENDS InspectionFlow

T(id)     == [id |-> id, is_other |-> FALSE]
Other(id) == [id |-> id, is_other |-> TRUE]

Lists == {<<2, 1, 3>>, <<2>>}

A == <<[id |-> 1, categories |-> [PMP |-> <<T(11), Other(12)>>, INJ |-> <<T(21), Other(22)>>]]>>
B == <<[id |-> 2, categories |-> [INJ |-> <<T(31)>>]],
       [id |-> 1, categories |-> [PMP |-> <<Other(13), T(14), T(15)>>]]>>
Products == {A, B}
OneProduct == {A}

TwoButtons == [PMP |-> 2, INJ |-> 2]
=============================================================================
