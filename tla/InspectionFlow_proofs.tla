------------------------- MODULE InspectionFlow_proofs -------------------------
(***************************************************************************)
(* Proofs about InspectionFlow and DomainTables for every operator list    *)
(* and catalogue, every size of the tables, every grid of buttons and any  *)
(* number of parts.                                                        *)
(*                                                                         *)
(*  1. The tables: what the agent has written at each place of its loops   *)
(*     (OperatorsOK, CatalogueOK), hence what a reader finds.              *)
(*  2. The part in hand: what the Model keeps of a part over screens that  *)
(*     are destroyed and created on the way (PartInv).                     *)
(*  3. Both together with whose session it is (FlowInv), and the theorems.  *)
(***************************************************************************)
EXTENDS InspectionFlow, TLAPS, WellFoundedInduction

(* The least element that find_product_slot and operator_list_check_pin    *)
(* look for is there.                                                      *)
LEMMA LeastOf ==
  ASSUME NEW S, S \subseteq Nat, S # {} PROVE \E i \in S : \A j \in S : i <= j
<1> DEFINE Less == {ss \in Nat \X Nat : ss[1] < ss[2]}
<1>1. IsWellFoundedOn(Less, Nat)
  BY NatLessThanWellFounded DEF OpToRel
<1>2. PICK i \in S : \A j \in S : ~(<<j, i>> \in Less)
  BY <1>1, WFMin
<1>3. ASSUME NEW j \in S PROVE i <= j
  <2>1. i \in Nat /\ j \in Nat /\ <<j, i>> \in Nat \X Nat /\ <<j, i>>[1] = j /\ <<j, i>>[2] = i
    OBVIOUS
  <2>2. ~(j < i)
    BY <1>2, <2>1
  <2> QED
    BY <2>1, <2>2
<1> QED
  BY <1>3

LEMMA SlotFacts ==
  ASSUME TablesTypeOK, NEW id
  PROVE  /\ FindSlot(id) \in 0 .. MaxProducts /\ FindSlot(id) <= s_product_count
         /\ FindSlot(id) # 0 => FindSlot(id) \in Slots(id)
         /\ FindSlot(id) = 0 => Slots(id) = {}
<1>1. CASE Slots(id) = {}
  BY <1>1, SizesAssumption DEF FindSlot, TablesTypeOK
<1>2. CASE Slots(id) # {}
  <2>1. Slots(id) \subseteq 1 .. s_product_count /\ s_product_count \in 0 .. MaxProducts
    BY DEF Slots, TablesTypeOK
  <2>2. Slots(id) \subseteq Nat
    BY <2>1
  <2>3. \E i \in Slots(id) : \A j \in Slots(id) : i <= j
    BY <1>2, <2>2, LeastOf
  <2>4. FindSlot(id) \in Slots(id)
    BY <1>2, <2>3 DEF FindSlot
  <2> QED
    BY <2>1, <2>4, SizesAssumption
<1> QED
  BY <1>1, <1>2

LEMMA PinFacts ==
  ASSUME TablesTypeOK, NEW person, CheckPin(person) # 0
  PROVE  /\ CheckPin(person) \in 1 .. MaxOperators
         /\ s_operators[CheckPin(person)].pin_hash = person
<1>1. Matches(person) # {}
  BY DEF CheckPin
<1>2. Matches(person) \subseteq 1 .. s_operator_count /\ s_operator_count \in 0 .. MaxOperators
  BY DEF Matches, TablesTypeOK
<1>3. Matches(person) \subseteq Nat
  BY <1>2
<1>4. \E i \in Matches(person) : \A j \in Matches(person) : i <= j
  BY <1>1, <1>3, LeastOf
<1>5. CheckPin(person) \in Matches(person)
  BY <1>1, <1>4 DEF CheckPin
<1> QED
  BY <1>2, <1>5, SizesAssumption DEF Matches

(* What is kept of a list fits the tables. *)
LEMMA OperatorsFit ==
  ASSUME NEW list \in OperatorLists \cup {<<>>}
  PROVE  /\ OperatorsKept(list) \in 0 .. MaxOperators
         /\ \A i \in 1 .. OperatorsKept(list) : list[i] \in People
<1>1. list \in Seq(People)
  <2>1. CASE list = <<>>
    BY <2>1
  <2>2. CASE list \in OperatorLists
    BY <2>2, OperatorsAssumption
  <2> QED
    BY <2>1, <2>2
<1>2. Len(list) \in Nat /\ \A i \in 1 .. Len(list) : list[i] \in People
  BY <1>1
<1> QED
  BY <1>2, SizesAssumption DEF OperatorsKept, Least

LEMMA ProductsFit ==
  ASSUME NEW list \in ProductLists \cup {<<>>}
  PROVE  /\ ProductsKept(list) \in 0 .. MaxProducts
         /\ \A i \in 1 .. ProductsKept(list) :
              /\ i \in DOMAIN list
              /\ list[i].id \in Nat \ {0}
              /\ \A c \in DOMAIN list[i].categories : c \in Category
         /\ \A i, j \in 1 .. ProductsKept(list) : list[i].id = list[j].id => i = j
<1>1. CASE list = <<>>
  BY <1>1, SizesAssumption DEF ProductsKept, Least
<1>2. CASE list \in ProductLists
  <2>1. /\ list \in Seq({list[i] : i \in DOMAIN list})
        /\ \A i \in DOMAIN list :
             list[i].id \in Nat \ {0} /\ DOMAIN list[i].categories \subseteq Category
        /\ \A i, j \in DOMAIN list : list[i].id = list[j].id => i = j
    BY <1>2, ProductsAssumption
  <2>2. Len(list) \in Nat /\ DOMAIN list = 1 .. Len(list)
    BY <2>1
  <2>3. ProductsKept(list) \in 0 .. MaxProducts /\ ProductsKept(list) <= Len(list)
    BY <2>2, SizesAssumption DEF ProductsKept, Least
  <2>4. \A i \in 1 .. ProductsKept(list) : i \in DOMAIN list
    BY <2>2, <2>3, SizesAssumption
  <2> QED
    BY <2>1, <2>3, <2>4
<1> QED
  BY <1>1, <1>2

LEMMA TypesFit ==
  ASSUME NEW list \in ProductLists \cup {<<>>}, NEW i \in 1 .. ProductsKept(list),
         NEW c \in DOMAIN list[i].categories
  PROVE  /\ TypesKept(list[i].categories[c]) \in 0 .. MaxTypes
         /\ \A k \in 1 .. TypesKept(list[i].categories[c]) : list[i].categories[c][k] \in DefectType
<1>1. i \in DOMAIN list
  BY ProductsFit
<1>2. list[i].categories[c] \in Seq(DefectType)
  <2>1. CASE list \in ProductLists
    BY <1>1, <2>1, ProductsAssumption
  <2>2. CASE list = <<>>
    BY <1>1, <2>2
  <2> QED
    BY <2>1, <2>2
<1>3. /\ Len(list[i].categories[c]) \in Nat
      /\ \A k \in 1 .. Len(list[i].categories[c]) : list[i].categories[c][k] \in DefectType
  BY <1>2
<1> QED
  BY <1>3, SizesAssumption DEF TypesKept, Least

-----------------------------------------------------------------------------
(* 1. The tables.                                                          *)
(*                                                                         *)
(* The operator table while operator_list_set is at work: what has been    *)
(* wiped is blank, what has been copied is the new list's.  An entry's id  *)
(* is missing before its PIN is and comes back before it, so that an entry *)
(* with a PIN has the id of that person or none.                           *)
Blanked(i) == s_operators[i].id = 0 /\ s_operators[i].pin_hash = 0
Copied(i)  == s_operators[i].id = operators[i] /\ s_operators[i].pin_hash = operators[i]

OperatorsOK ==
  /\ step \notin OperatorSteps =>
       /\ s_operator_count = OperatorsKept(operators)
       /\ \A i \in 1 .. OperatorsKept(operators) : Copied(i)
       /\ \A i \in 1 .. MaxOperators : s_operators[i].id = s_operators[i].pin_hash
  /\ step \in {"wipe_id", "wipe_pin_hash"} =>
       /\ entry <= MaxOperators
       /\ \A i \in 1 .. MaxOperators :
            /\ i < entry => Blanked(i)
            /\ i > entry \/ step = "wipe_id" => s_operators[i].id = s_operators[i].pin_hash
            /\ i = entry /\ step = "wipe_pin_hash" => s_operators[i].id = 0
  /\ step \in {"copy_id", "copy_pin_hash"} =>
       /\ entry <= OperatorsKept(operators) + 1
       /\ \A i \in 1 .. MaxOperators :
            /\ i < entry => Copied(i)
            /\ i > entry \/ step = "copy_id" => i < entry \/ Blanked(i)
            /\ i = entry /\ step = "copy_pin_hash" =>
                 s_operators[i].id = operators[i] /\ s_operators[i].pin_hash = 0
  /\ step = "copy_pin_hash" => entry <= OperatorsKept(operators)

(* Slot i shows the types that list gives its product i in category c.     *)
Shows(list, i, c) ==
  IF c \in DOMAIN list[i].categories
  THEN /\ s_defect_type_counts[i][c] = TypesKept(list[i].categories[c])
       /\ \A k \in 1 .. TypesKept(list[i].categories[c]) :
            s_defect_types[i][c][k] = list[i].categories[c][k]
  ELSE s_defect_type_counts[i][c] = 0
Holds(list, i) == s_products[i] = list[i].id /\ \A c \in Category : Shows(list, i, c)

(* The catalogue between two configurations; while clear_all wipes the ids *)
(* of the one before; while the new ids are copied, under a count of 0;    *)
(* and while the types are filled in, each list under a count of 0.        *)
Settled ==
  /\ s_product_count = ProductsKept(products)
  /\ \A i \in 1 .. ProductsKept(products) : Holds(products, i)
Wiping ==
  /\ entry <= MaxProducts
  /\ s_product_count = ProductsKept(previous)
  /\ \A i \in 1 .. MaxProducts : i < entry => s_products[i] = 0
  /\ \A i \in 1 .. ProductsKept(previous) : i >= entry => Holds(previous, i)
Copying ==
  /\ entry <= ProductsKept(products) + 1
  /\ \A i \in 1 .. MaxProducts : i < entry => s_products[i] = products[i].id
  /\ \A i \in 1 .. MaxProducts, c \in Category : s_defect_type_counts[i][c] = 0
Done(i, c) == i < entry \/ (i = entry /\ c = "PMP" /\ cat = "INJ")
Filling ==
  /\ entry <= ProductsKept(products) + 1
  /\ s_product_count = ProductsKept(products)
  /\ \A i \in 1 .. ProductsKept(products) : s_products[i] = products[i].id
  /\ \A i \in 1 .. ProductsKept(products), c \in Category :
       IF Done(i, c) THEN Shows(products, i, c) ELSE s_defect_type_counts[i][c] = 0
  /\ entry <= ProductsKept(products) /\ cat \in DOMAIN products[entry].categories =>
       \A k \in 1 .. TypesKept(products[entry].categories[cat]) :
         k < pos => s_defect_types[entry][cat][k] = products[entry].categories[cat][k]
  /\ IF entry <= ProductsKept(products) /\ cat \in DOMAIN products[entry].categories
     THEN pos <= TypesKept(products[entry].categories[cat]) + 1
     ELSE pos = 1

CatalogueOK ==
  /\ step \notin ProductSteps => Settled
  /\ step = "wipe_product" => Wiping
  /\ step = "no_products" => \A i \in 1 .. MaxProducts : s_products[i] = 0
  /\ step \in {"wipe_types", "wipe_counts", "copy_product"} => s_product_count = 0
  /\ step = "copy_product" => Copying
  /\ step = "types" => Filling

-----------------------------------------------------------------------------
LEMMA InitTypes == TablesInit => TablesTypeOK
BY SizesAssumption
DEF TablesInit, BlankTypes, ZeroCounts, TablesTypeOK, Category, DefectType, Blank, OperatorSteps,
    ProductSteps

LEMMA ReceiveTypes ==
  ASSUME TablesTypeOK,
         \/ \E list \in OperatorLists : ReceiveOperators(list)
         \/ \E list \in ProductLists : ReceiveProducts(list)
  PROVE  TablesTypeOK'
<1>1. received' \in 0 .. MaxConfigs
  BY SizesAssumption DEF ReceiveOperators, ReceiveProducts, TablesTypeOK
<1>2. step' \in OperatorSteps \cup ProductSteps /\ entry' = 1 /\ cat' = "PMP" /\ pos' = 1
  BY DEF ReceiveOperators, ReceiveProducts, Goto, OperatorSteps, ProductSteps
<1>3. UNCHANGED <<s_operators, s_operator_count, s_products, s_product_count, s_defect_types,
                  s_defect_type_counts>>
  BY DEF ReceiveOperators, ReceiveProducts, operatorTable, productTable, typeTable
<1>4. /\ operators' \in OperatorLists \cup {<<>>}
      /\ products' \in ProductLists \cup {<<>>} /\ previous' \in ProductLists \cup {<<>>}
  BY DEF ReceiveOperators, ReceiveProducts, TablesTypeOK
<1> QED
  BY <1>1, <1>2, <1>3, <1>4 DEF TablesTypeOK, Category

LEMMA OperatorTypes ==
  ASSUME TablesTypeOK, OperatorsOK, SetOperators PROVE TablesTypeOK'
<1>1. /\ OperatorsKept(operators) \in 0 .. MaxOperators
      /\ \A i \in 1 .. OperatorsKept(operators) : operators[i] \in People
  BY OperatorsFit DEF TablesTypeOK
<1>2. /\ UNCHANGED <<s_products, s_product_count, s_defect_types, s_defect_type_counts>>
      /\ UNCHANGED <<operators, products, previous, received>>
  BY DEF SetOperators, WipeId, WipePin, CopyId, CopyPin, CountOperators, productTable, typeTable,
         inbox
<1>3. step' \in {"idle"} \cup OperatorSteps /\ entry' \in Nat \ {0} /\ cat' = "PMP" /\ pos' = 1
  <2>1. entry \in Nat \ {0}
    BY DEF TablesTypeOK
  <2>2. CASE WipeId \/ WipePin
    BY <2>1, <2>2 DEF WipeId, WipePin, Goto, OperatorSteps
  <2>3. CASE CopyId \/ CopyPin \/ CountOperators
    BY <2>1, <2>3 DEF CopyId, CopyPin, CountOperators, Goto, OperatorSteps
  <2> QED
    BY <2>2, <2>3 DEF SetOperators
<1>4. s_operators' \in [1 .. MaxOperators -> [id : People \cup {0}, pin_hash : People \cup {0}]]
  <2>1. CASE WipeId
    BY <2>1 DEF WipeId, TablesTypeOK
  <2>2. CASE WipePin
    BY <2>2 DEF WipePin, TablesTypeOK
  <2>3. CASE CopyId
    <3>1. operators[entry] \in People
      <4>1. entry \in Nat \ {0} /\ entry <= OperatorsKept(operators)
        BY <2>3 DEF CopyId, TablesTypeOK
      <4> QED
        BY <1>1, <4>1
    <3> QED
      BY <2>3, <3>1 DEF CopyId, TablesTypeOK
  <2>4. CASE CopyPin
    <3>1. operators[entry] \in People
      <4>1. entry \in Nat \ {0} /\ entry <= OperatorsKept(operators)
        BY <2>4 DEF CopyPin, TablesTypeOK, OperatorsOK
      <4> QED
        BY <1>1, <4>1
    <3> QED
      BY <2>4, <3>1 DEF CopyPin, TablesTypeOK
  <2>5. CASE CountOperators
    BY <2>5 DEF CountOperators, TablesTypeOK
  <2> QED
    BY <2>1, <2>2, <2>3, <2>4, <2>5 DEF SetOperators
<1>5. s_operator_count' \in 0 .. MaxOperators
  <2>1. CASE CountOperators
    <3>1. entry - 1 \in 0 .. MaxOperators
      <4>1. entry \in Nat \ {0} /\ entry <= OperatorsKept(operators) + 1
        BY <2>1 DEF CountOperators, OperatorsOK, TablesTypeOK
      <4> QED
        BY <1>1, <4>1, SizesAssumption
    <3> QED
      BY <2>1, <3>1 DEF CountOperators
  <2>2. CASE WipeId \/ WipePin \/ CopyId \/ CopyPin
    BY <2>2 DEF WipeId, WipePin, CopyId, CopyPin, TablesTypeOK
  <2> QED
    BY <2>1, <2>2 DEF SetOperators
<1> QED
  BY <1>2, <1>3, <1>4, <1>5 DEF TablesTypeOK, Category

LEMMA CatalogueTypes ==
  ASSUME TablesTypeOK, CatalogueOK, ApplyProducts PROVE TablesTypeOK'
<1>1. /\ ProductsKept(products) \in 0 .. MaxProducts
      /\ \A i \in 1 .. ProductsKept(products) : products[i].id \in Nat
  BY ProductsFit DEF TablesTypeOK
<1>2. UNCHANGED <<s_operators, s_operator_count, operators, products, previous, received>>
  BY DEF ApplyProducts, ClearAll, WipeProduct, NoProducts, WipeTypes, WipeCounts, CopyProduct,
         CountProducts, ApplyCategory, Applied, operatorTable, inbox
<1>3. CASE WipeProduct
  <2>1. s_products' \in [1 .. MaxProducts -> Nat]
    BY <1>3 DEF WipeProduct, TablesTypeOK
  <2>2. /\ UNCHANGED <<s_product_count, s_defect_types, s_defect_type_counts>>
        /\ step' \in ProductSteps /\ entry' \in Nat \ {0} /\ cat' = "PMP" /\ pos' = 1
    BY <1>3 DEF WipeProduct, Goto, ProductSteps, TablesTypeOK, typeTable
  <2> QED
    BY <1>2, <2>1, <2>2 DEF TablesTypeOK, Category
<1>5. CASE NoProducts
  BY <1>2, <1>5, SizesAssumption
  DEF NoProducts, TablesTypeOK, Goto, ProductSteps, Category, typeTable
<1>6. CASE WipeTypes
  <2>1. s_defect_types' \in [1 .. MaxProducts -> [Category -> [1 .. MaxTypes -> DefectType]]]
    BY <1>6 DEF WipeTypes, BlankTypes, DefectType, Blank
  <2>2. /\ UNCHANGED <<s_products, s_product_count, s_defect_type_counts>>
        /\ step' \in ProductSteps /\ entry' \in Nat \ {0} /\ cat' = "PMP" /\ pos' = 1
    BY <1>6 DEF WipeTypes, Goto, ProductSteps
  <2> QED
    BY <1>2, <2>1, <2>2 DEF TablesTypeOK, Category
<1>7. CASE WipeCounts
  <2>1. s_defect_type_counts' \in [1 .. MaxProducts -> [Category -> 0 .. MaxTypes]]
    BY <1>7, SizesAssumption DEF WipeCounts, ZeroCounts
  <2>2. /\ UNCHANGED <<s_products, s_product_count, s_defect_types>>
        /\ step' \in ProductSteps /\ entry' \in Nat \ {0} /\ cat' = "PMP" /\ pos' = 1
    BY <1>7 DEF WipeCounts, Goto, ProductSteps
  <2> QED
    BY <1>2, <2>1, <2>2 DEF TablesTypeOK, Category
<1>8. CASE CopyProduct
  <2>1. entry \in Nat \ {0} /\ entry <= ProductsKept(products)
    BY <1>8 DEF CopyProduct, TablesTypeOK
  <2>2. products[entry].id \in Nat /\ entry \in 1 .. MaxProducts
    BY <1>1, <2>1, SizesAssumption
  <2>3. s_products' \in [1 .. MaxProducts -> Nat]
    BY <1>8, <2>2 DEF CopyProduct, TablesTypeOK
  <2>4. /\ UNCHANGED <<s_product_count, s_defect_types, s_defect_type_counts>>
        /\ step' \in ProductSteps /\ entry' \in Nat \ {0} /\ cat' = "PMP" /\ pos' = 1
    BY <1>8, <2>1 DEF CopyProduct, Goto, ProductSteps, typeTable
  <2> QED
    BY <1>2, <2>3, <2>4 DEF TablesTypeOK, Category
<1>9. CASE CountProducts
  <2>1. entry \in Nat \ {0} /\ entry <= ProductsKept(products) + 1
    BY <1>9 DEF CountProducts, CatalogueOK, Copying, TablesTypeOK
  <2>2. s_product_count' \in 0 .. MaxProducts
    BY <1>1, <1>9, <2>1, SizesAssumption DEF CountProducts
  <2>3. /\ UNCHANGED <<s_products, s_defect_types, s_defect_type_counts>>
        /\ step' \in ProductSteps /\ entry' \in Nat \ {0} /\ cat' = "PMP" /\ pos' = 1
    BY <1>9 DEF CountProducts, Goto, ProductSteps, typeTable
  <2> QED
    BY <1>2, <2>2, <2>3 DEF TablesTypeOK, Category
<1>10. CASE Applied
  BY <1>2, <1>10 DEF Applied, TablesTypeOK, Goto, productTable, typeTable, Category
<1>4. CASE ApplyCategory
  <2> DEFINE slot  == FindSlot(products[entry].id)
             types == products[entry].categories[cat]
  <2>1. /\ UNCHANGED <<s_products, s_product_count>>
        /\ entry \in 1 .. ProductsKept(products)
    BY <1>4 DEF ApplyCategory, TablesTypeOK
  <2>2. CASE cat \notin DOMAIN products[entry].categories \/ slot = 0
    BY <1>2, <1>4, <2>1, <2>2
    DEF ApplyCategory, NextCategory, Goto, TablesTypeOK, typeTable, Category, ProductSteps
  <2>3. CASE cat \in DOMAIN products[entry].categories /\ slot # 0
    <3>1. slot \in 1 .. MaxProducts
      BY <2>3, SlotFacts, SizesAssumption
    <3>2. /\ TypesKept(types) \in 0 .. MaxTypes
          /\ \A k \in 1 .. TypesKept(types) : types[k] \in DefectType
      BY <2>1, <2>3, TypesFit DEF TablesTypeOK
    <3>3. CopyType(slot, types) \/ CountTypes(slot, types)
      BY <1>4, <2>3 DEF ApplyCategory
    <3> HIDE DEF slot, types
    <3>4. CASE CopyType(slot, types)
      <4>1. types[pos] \in DefectType /\ pos \in 1 .. MaxTypes /\ cat \in Category
        BY <3>2, <3>4, SizesAssumption DEF CopyType, TablesTypeOK
      <4>2. s_defect_types' \in [1 .. MaxProducts -> [Category -> [1 .. MaxTypes -> DefectType]]]
        BY <3>1, <3>4, <4>1 DEF CopyType, TablesTypeOK
      <4> QED
        BY <1>2, <2>1, <3>4, <4>2 DEF CopyType, TablesTypeOK
    <3>5. CASE CountTypes(slot, types)
      <4>1. pos - 1 \in 0 .. MaxTypes
        BY <1>4, <2>1, <2>3, <3>2, <3>5, SizesAssumption
        DEF CountTypes, CatalogueOK, Filling, ApplyCategory, TablesTypeOK, types
      <4>2. s_defect_type_counts' \in [1 .. MaxProducts -> [Category -> 0 .. MaxTypes]]
        BY <3>1, <3>5, <4>1 DEF CountTypes, TablesTypeOK
      <4>3. /\ step' \in {"idle"} \cup ProductSteps
            /\ entry' \in Nat \ {0} /\ cat' \in Category /\ pos' \in Nat \ {0}
        BY <1>4, <3>5
        DEF ApplyCategory, CountTypes, NextCategory, Goto, ProductSteps, Category, TablesTypeOK
      <4> QED
        BY <1>2, <2>1, <3>5, <4>2, <4>3 DEF CountTypes, TablesTypeOK
    <3> QED
      BY <3>3, <3>4, <3>5
  <2> QED
    BY <2>2, <2>3
<1> QED
  BY <1>3, <1>4, <1>5, <1>6, <1>7, <1>8, <1>9, <1>10 DEF ApplyProducts, ClearAll

-----------------------------------------------------------------------------
LEMMA InitOperators == TablesInit => OperatorsOK /\ CatalogueOK
<1> SUFFICES ASSUME TablesInit PROVE OperatorsOK /\ CatalogueOK
  OBVIOUS
<1>1. OperatorsKept(operators) = 0 /\ ProductsKept(products) = 0
  BY SizesAssumption DEF TablesInit, OperatorsKept, ProductsKept, Least
<1>2. step = "idle" /\ s_operator_count = 0 /\ s_product_count = 0
  BY DEF TablesInit
<1>3. \A i \in 1 .. MaxOperators : s_operators[i].id = s_operators[i].pin_hash
  BY DEF TablesInit
<1> QED
  BY <1>1, <1>2, <1>3 DEF OperatorsOK, CatalogueOK, Settled, OperatorSteps, ProductSteps

(* The writes of operator_list_set.                                        *)
LEMMA OperatorsKeepOK ==
  ASSUME TablesTypeOK, OperatorsOK, SetOperators PROVE OperatorsOK'
<1>1. OperatorsKept(operators) \in 0 .. MaxOperators
  BY OperatorsFit DEF TablesTypeOK
<1>2. /\ MaxOperators \in Nat \ {0} /\ entry \in Nat \ {0}
      /\ s_operators \in [1 .. MaxOperators -> [id : People \cup {0}, pin_hash : People \cup {0}]]
  BY SizesAssumption DEF TablesTypeOK
<1>3. operators' = operators /\ OperatorsKept(operators)' = OperatorsKept(operators)
  BY DEF SetOperators, WipeId, WipePin, CopyId, CopyPin, CountOperators, inbox, OperatorsKept
<1>4. CASE WipeId
  <2>1. /\ step = "wipe_id" /\ step' = "wipe_pin_hash" /\ entry' = entry
        /\ s_operators' = [s_operators EXCEPT ![entry].id = 0]
    BY <1>4 DEF WipeId, Goto
  <2>2. entry <= MaxOperators
    BY <2>1 DEF OperatorsOK
  <2>3. \A i \in 1 .. MaxOperators :
          /\ i < entry => Blanked(i)
          /\ s_operators[i].id = s_operators[i].pin_hash \/ i < entry
    BY <1>2, <2>1 DEF OperatorsOK
  <2>4. \A i \in 1 .. MaxOperators :
          /\ i # entry => s_operators'[i] = s_operators[i]
          /\ i = entry => s_operators'[i].id = 0
    BY <1>2, <2>1
  <2>5. \A i \in 1 .. MaxOperators :
          /\ i < entry => Blanked(i)'
          /\ i > entry => s_operators'[i].id = s_operators'[i].pin_hash
    BY <1>2, <2>3, <2>4 DEF Blanked
  <2> QED
    BY <1>2, <2>1, <2>2, <2>4, <2>5 DEF OperatorsOK, OperatorSteps
<1>5. CASE WipePin
  <2>1. /\ step = "wipe_pin_hash"
        /\ s_operators' = [s_operators EXCEPT ![entry].pin_hash = 0]
        /\ IF entry < MaxOperators THEN step' = "wipe_id" /\ entry' = entry + 1
           ELSE step' = "copy_id" /\ entry' = 1
    BY <1>5 DEF WipePin, Goto
  <2>2. entry <= MaxOperators
    BY <2>1 DEF OperatorsOK
  <2>3. \A i \in 1 .. MaxOperators :
          /\ i < entry => Blanked(i)
          /\ i > entry => s_operators[i].id = s_operators[i].pin_hash
          /\ i = entry => s_operators[i].id = 0
    BY <2>1 DEF OperatorsOK
  <2>4. \A i \in 1 .. MaxOperators :
          /\ i # entry => s_operators'[i] = s_operators[i]
          /\ i = entry => s_operators'[i].id = s_operators[i].id /\ s_operators'[i].pin_hash = 0
    BY <1>2, <2>1
  <2>5. \A i \in 1 .. MaxOperators :
          /\ i <= entry => Blanked(i)'
          /\ i > entry => s_operators'[i].id = s_operators'[i].pin_hash
    BY <1>2, <2>3, <2>4 DEF Blanked
  <2>6. CASE entry < MaxOperators
    BY <1>2, <2>1, <2>2, <2>5, <2>6 DEF OperatorsOK, OperatorSteps, Blanked
  <2>7. CASE ~(entry < MaxOperators)
    <3>1. \A i \in 1 .. MaxOperators : Blanked(i)' /\ ~(i < 1)
      BY <1>2, <2>2, <2>5, <2>7
    <3> QED
      BY <1>1, <1>3, <2>1, <2>7, <3>1 DEF OperatorsOK, OperatorSteps
  <2> QED
    BY <2>6, <2>7
<1>6. CASE CopyId
  <2>1. /\ step = "copy_id" /\ step' = "copy_pin_hash" /\ entry' = entry
        /\ entry <= OperatorsKept(operators)
        /\ s_operators' = [s_operators EXCEPT ![entry].id = operators[entry]]
    BY <1>6 DEF CopyId, Goto
  <2>2. \A i \in 1 .. MaxOperators : IF i < entry THEN Copied(i) ELSE Blanked(i)
    BY <1>2, <2>1 DEF OperatorsOK
  <2>3. \A i \in 1 .. MaxOperators :
          /\ i # entry => s_operators'[i] = s_operators[i]
          /\ i = entry => /\ s_operators'[i].id = operators[i]
                          /\ s_operators'[i].pin_hash = s_operators[i].pin_hash
    BY <1>2, <2>1
  <2>4. \A i \in 1 .. MaxOperators :
          /\ i < entry => Copied(i)'
          /\ i > entry => Blanked(i)'
          /\ i = entry => s_operators'[i].id = operators'[i] /\ s_operators'[i].pin_hash = 0
    BY <1>2, <1>3, <2>2, <2>3 DEF Copied, Blanked
  <2> QED
    BY <1>1, <1>2, <1>3, <2>1, <2>4 DEF OperatorsOK, OperatorSteps
<1>7. CASE CopyPin
  <2>1. /\ step = "copy_pin_hash" /\ step' = "copy_id" /\ entry' = entry + 1
        /\ s_operators' = [s_operators EXCEPT ![entry].pin_hash = operators[entry]]
    BY <1>7 DEF CopyPin, Goto
  <2>2. entry <= OperatorsKept(operators)
    BY <2>1 DEF OperatorsOK
  <2>3. \A i \in 1 .. MaxOperators :
          /\ i < entry => Copied(i)
          /\ i > entry => i < entry \/ Blanked(i)
          /\ i = entry => s_operators[i].id = operators[i]
    BY <2>1 DEF OperatorsOK
  <2>4. \A i \in 1 .. MaxOperators :
          /\ i # entry => s_operators'[i] = s_operators[i]
          /\ i = entry => /\ s_operators'[i].pin_hash = operators[i]
                          /\ s_operators'[i].id = s_operators[i].id
    BY <1>2, <2>1
  <2>5. \A i \in 1 .. MaxOperators :
          IF i < entry + 1 THEN Copied(i)' ELSE Blanked(i)'
    BY <1>2, <1>3, <2>3, <2>4 DEF Copied, Blanked
  <2> QED
    BY <1>1, <1>2, <1>3, <2>1, <2>2, <2>5 DEF OperatorsOK, OperatorSteps
<1>8. CASE CountOperators
  <2>1. /\ step = "copy_id" /\ step' = "idle" /\ entry > OperatorsKept(operators)
        /\ s_operator_count' = entry - 1 /\ s_operators' = s_operators
    BY <1>8 DEF CountOperators, Goto
  <2>2. /\ entry <= OperatorsKept(operators) + 1
        /\ \A i \in 1 .. MaxOperators : i < entry => Copied(i)
        /\ \A i \in 1 .. MaxOperators : i < entry \/ Blanked(i)
    BY <1>2, <2>1 DEF OperatorsOK
  <2>3. s_operator_count' = OperatorsKept(operators)
    BY <1>1, <1>2, <2>1, <2>2
  <2>4. \A i \in 1 .. OperatorsKept(operators) : Copied(i)'
    BY <1>1, <1>2, <1>3, <2>1, <2>2 DEF Copied
  <2>5. \A i \in 1 .. MaxOperators : s_operators'[i].id = s_operators'[i].pin_hash
    BY <2>1, <2>2 DEF Copied, Blanked
  <2> QED
    BY <1>3, <2>1, <2>3, <2>4, <2>5 DEF OperatorsOK, OperatorSteps
<1> QED
  BY <1>4, <1>5, <1>6, <1>7, <1>8 DEF SetOperators

LEMMA OperatorsStay ==
  ASSUME TablesTypeOK, OperatorsOK,
         \/ \E list \in OperatorLists : ReceiveOperators(list)
         \/ \E list \in ProductLists : ReceiveProducts(list)
         \/ ApplyProducts
  PROVE  OperatorsOK'
<1>1. CASE \E list \in OperatorLists : ReceiveOperators(list)
  <2>1. step = "idle" /\ step' = "wipe_id" /\ entry' = 1 /\ UNCHANGED s_operators
    BY <1>1 DEF ReceiveOperators, Goto, operatorTable
  <2>2. \A i \in 1 .. MaxOperators : s_operators[i].id = s_operators[i].pin_hash
    BY <2>1 DEF OperatorsOK, OperatorSteps
  <2> QED
    BY <2>1, <2>2, SizesAssumption DEF OperatorsOK, OperatorSteps
<1>2. CASE ApplyProducts \/ \E list \in ProductLists : ReceiveProducts(list)
  <2>1. /\ UNCHANGED <<s_operators, s_operator_count, operators>>
        /\ step \in {"idle"} \cup ProductSteps /\ step' \in {"idle"} \cup ProductSteps
    BY <1>2 DEF ApplyProducts, ClearAll, WipeProduct, NoProducts, WipeTypes, WipeCounts, CopyProduct,
         CountProducts, ApplyCategory, NextCategory, CopyType, CountTypes, Applied, ReceiveProducts,
         Goto, operatorTable, inbox, ProductSteps
  <2> QED
    BY <2>1 DEF OperatorsOK, OperatorSteps, ProductSteps, OperatorsKept, Copied
<1> QED
  BY <1>1, <1>2

(* The writes of config_parser_apply_products.                             *)
LEMMA ReceiveKeepsCatalogue ==
  ASSUME TablesTypeOK, CatalogueOK,
         \/ \E list \in OperatorLists : ReceiveOperators(list)
         \/ \E list \in ProductLists : ReceiveProducts(list)
         \/ SetOperators
  PROVE  CatalogueOK'
<1>1. UNCHANGED <<s_products, s_product_count, s_defect_types, s_defect_type_counts>>
  BY DEF ReceiveOperators, ReceiveProducts, SetOperators, WipeId, WipePin, CopyId, CopyPin,
         CountOperators, productTable, typeTable
<1>2. step \in {"idle"} \cup OperatorSteps /\ Settled
  BY DEF ReceiveOperators, ReceiveProducts, SetOperators, WipeId, WipePin, CopyId, CopyPin,
         CountOperators, CatalogueOK, OperatorSteps, ProductSteps
<1>3. CASE \E list \in ProductLists : ReceiveProducts(list)
  <2>1. previous' = products /\ step' = "wipe_product" /\ entry' = 1
    BY <1>3 DEF ReceiveProducts, Goto
  <2>2. ProductsKept(previous)' = ProductsKept(products)
    BY <2>1 DEF ProductsKept
  <2>3. \A i \in 1 .. ProductsKept(products) : Holds(previous, i)'
    BY <1>1, <1>2, <2>1 DEF Settled, Holds, Shows
  <2>4. Wiping'
    BY <1>1, <1>2, <2>1, <2>2, <2>3, SizesAssumption DEF Wiping, Settled
  <2> QED
    BY <2>1, <2>4 DEF CatalogueOK, ProductSteps
<1>4. CASE SetOperators \/ \E list \in OperatorLists : ReceiveOperators(list)
  <2>1. products' = products /\ step' \in {"idle"} \cup OperatorSteps
    BY <1>4 DEF ReceiveOperators, SetOperators, WipeId, WipePin, CopyId, CopyPin, CountOperators,
                Goto, inbox, OperatorSteps
  <2>2. Settled'
    BY <1>1, <1>2, <2>1 DEF Settled, Holds, Shows, ProductsKept
  <2> QED
    BY <2>1, <2>2 DEF CatalogueOK, OperatorSteps
<1> QED
  BY <1>3, <1>4

LEMMA ClearKeepsCatalogue == ASSUME TablesTypeOK, CatalogueOK, ClearAll PROVE CatalogueOK'
<1>1. ProductsKept(previous) \in 0 .. MaxProducts /\ MaxProducts \in Nat \ {0} /\ entry \in Nat \ {0}
  BY ProductsFit, SizesAssumption DEF TablesTypeOK
<1>2. products' = products /\ previous' = previous /\ ProductsKept(previous)' = ProductsKept(previous)
  BY DEF ClearAll, WipeProduct, NoProducts, WipeTypes, WipeCounts, inbox, ProductsKept
<1>3. CASE WipeProduct
  <2>1. /\ step = "wipe_product" /\ s_products' = [s_products EXCEPT ![entry] = 0]
        /\ UNCHANGED <<s_product_count, s_defect_types, s_defect_type_counts>>
        /\ IF entry < MaxProducts THEN step' = "wipe_product" /\ entry' = entry + 1
           ELSE step' = "no_products"
    BY <1>3 DEF WipeProduct, Goto, typeTable
  <2>2. Wiping
    BY <2>1 DEF CatalogueOK
  <2>3. \A i \in 1 .. MaxProducts :
          s_products'[i] = IF i = entry THEN 0 ELSE s_products[i]
    BY <1>1, <2>1 DEF TablesTypeOK
  <2>4. \A i \in 1 .. MaxProducts : i <= entry => s_products'[i] = 0
    BY <1>1, <2>2, <2>3 DEF Wiping
  <2>5. \A i \in 1 .. ProductsKept(previous) : i > entry => Holds(previous, i)'
    BY <1>1, <1>2, <2>1, <2>2, <2>3 DEF Wiping, Holds, Shows
  <2>6. CASE entry < MaxProducts
    <3>1. Wiping'
      BY <1>1, <1>2, <2>1, <2>2, <2>4, <2>5, <2>6 DEF Wiping
    <3> QED
      BY <2>1, <2>6, <3>1 DEF CatalogueOK, ProductSteps
  <2>7. CASE ~(entry < MaxProducts)
    <3>1. \A i \in 1 .. MaxProducts : s_products'[i] = 0
      BY <1>1, <2>4, <2>7
    <3> QED
      BY <2>1, <2>7, <3>1 DEF CatalogueOK, ProductSteps
  <2> QED
    BY <2>6, <2>7
<1>4. CASE NoProducts
  BY <1>4 DEF NoProducts, Goto, CatalogueOK, ProductSteps
<1>5. CASE WipeTypes
  BY <1>5 DEF WipeTypes, Goto, CatalogueOK, ProductSteps
<1>6. CASE WipeCounts
  <2>1. /\ step = "wipe_counts" /\ step' = "copy_product" /\ entry' = 1
        /\ s_product_count' = s_product_count
        /\ s_defect_type_counts' = [i \in 1 .. MaxProducts |-> [c \in Category |-> 0]]
    BY <1>6 DEF WipeCounts, ZeroCounts, Goto
  <2>2. ProductsKept(products)' \in 0 .. MaxProducts
    BY <1>2, ProductsFit DEF TablesTypeOK, ProductsKept
  <2>3. /\ \A i \in 1 .. MaxProducts : ~(i < entry')
        /\ entry' <= ProductsKept(products)' + 1
    BY <2>1, <2>2, SizesAssumption
  <2>4. \A i \in 1 .. MaxProducts, c \in Category : s_defect_type_counts'[i][c] = 0
    BY <2>1
  <2>5. Copying'
    BY <2>3, <2>4 DEF Copying
  <2> QED
    BY <2>1, <2>5 DEF CatalogueOK, ProductSteps
<1> QED
  BY <1>3, <1>4, <1>5, <1>6 DEF ClearAll

LEMMA CopyKeepsCatalogue ==
  ASSUME TablesTypeOK, CatalogueOK, CopyProduct \/ CountProducts PROVE CatalogueOK'
<1>1. ProductsKept(products) \in 0 .. MaxProducts /\ MaxProducts \in Nat \ {0} /\ entry \in Nat \ {0}
  BY ProductsFit, SizesAssumption DEF TablesTypeOK
<1>2. /\ step = "copy_product" /\ Copying /\ s_product_count = 0
      /\ UNCHANGED <<products, s_defect_types, s_defect_type_counts>>
  BY DEF CopyProduct, CountProducts, CatalogueOK, inbox, typeTable
<1>3. ProductsKept(products)' = ProductsKept(products)
  BY <1>2 DEF ProductsKept
<1>4. CASE CopyProduct
  <2>1. /\ entry <= ProductsKept(products) /\ step' = "copy_product" /\ entry' = entry + 1
        /\ s_products' = [s_products EXCEPT ![entry] = products[entry].id]
        /\ s_product_count' = s_product_count
    BY <1>4 DEF CopyProduct, Goto
  <2>2. \A i \in 1 .. MaxProducts :
          s_products'[i] = IF i = entry THEN products[i].id ELSE s_products[i]
    BY <1>1, <2>1 DEF TablesTypeOK
  <2>3. \A i \in 1 .. MaxProducts : i < entry + 1 => s_products'[i] = products'[i].id
    BY <1>1, <1>2, <2>2 DEF Copying
  <2>4. Copying'
    BY <1>1, <1>2, <1>3, <2>1, <2>3 DEF Copying
  <2> QED
    BY <1>2, <2>1, <2>4 DEF CatalogueOK, ProductSteps
<1>5. CASE CountProducts
  <2>1. /\ entry > ProductsKept(products) /\ step' = "types" /\ entry' = 1 /\ cat' = "PMP" /\ pos' = 1
        /\ s_products' = s_products /\ s_product_count' = entry - 1
    BY <1>5 DEF CountProducts, Goto
  <2>2. s_product_count' = ProductsKept(products)' /\ entry = ProductsKept(products) + 1
    BY <1>1, <1>2, <1>3, <2>1 DEF Copying
  <2>3. \A i \in 1 .. ProductsKept(products)' :
          /\ s_products'[i] = products'[i].id
          /\ \A c \in Category : s_defect_type_counts'[i][c] = 0 /\ ~Done(i, c)'
    BY <1>1, <1>2, <1>3, <2>1, <2>2 DEF Copying, Done
  <2>4. ASSUME 1 <= ProductsKept(products), "PMP" \in DOMAIN products[1].categories
        PROVE  TypesKept(products[1].categories["PMP"]) \in Nat
    BY <1>1, <2>4, TypesFit, SizesAssumption DEF TablesTypeOK
  <2>5. Filling'
    BY <1>1, <1>2, <1>3, <2>1, <2>2, <2>3, <2>4 DEF Filling, TypesKept
  <2> QED
    BY <2>1, <2>5 DEF CatalogueOK, ProductSteps
<1> QED
  BY <1>4, <1>5

(* While the types are written, a product's slot is its place in the list, *)
(* as no id occurs twice.                                                  *)
LEMMA SlotOfEntry ==
  ASSUME TablesTypeOK, Filling, NEW i \in 1 .. ProductsKept(products)
  PROVE  FindSlot(products[i].id) = i
<1>1. /\ ProductsKept(products) \in 0 .. MaxProducts
      /\ \A j, k \in 1 .. ProductsKept(products) : products[j].id = products[k].id => j = k
  BY ProductsFit DEF TablesTypeOK
<1>2. s_product_count = ProductsKept(products) /\ s_products[i] = products[i].id
  BY DEF Filling
<1>3. i \in Slots(products[i].id)
  BY <1>2 DEF Slots
<1>4. FindSlot(products[i].id) \in Slots(products[i].id)
  BY <1>3, SlotFacts
<1>5. \A j \in Slots(products[i].id) : j = i
  BY <1>1, <1>2 DEF Slots, Filling
<1> QED
  BY <1>4, <1>5

LEMMA FillKeepsCatalogue ==
  ASSUME TablesTypeOK, CatalogueOK, ApplyCategory \/ Applied PROVE CatalogueOK'
<1>1. /\ ProductsKept(products) \in 0 .. MaxProducts /\ MaxProducts \in Nat \ {0}
      /\ entry \in Nat \ {0} /\ cat \in Category /\ pos \in Nat \ {0}
  BY ProductsFit, SizesAssumption DEF TablesTypeOK
<1>2. /\ step = "types" /\ Filling
      /\ UNCHANGED <<s_products, s_product_count, products>>
  BY DEF ApplyCategory, Applied, CatalogueOK, inbox, productTable
<1>3. ProductsKept(products)' = ProductsKept(products)
  BY <1>2 DEF ProductsKept
<1>4. CASE Applied
  <2>1. /\ entry > ProductsKept(products) /\ step' = "idle"
        /\ UNCHANGED <<s_defect_types, s_defect_type_counts>>
    BY <1>4 DEF Applied, Goto, productTable, typeTable
  <2>2. \A i \in 1 .. ProductsKept(products) : Holds(products, i)
    BY <1>1, <1>2, <2>1 DEF Filling, Done, Holds
  <2>3. \A i \in 1 .. ProductsKept(products)' : Holds(products, i)'
    BY <1>2, <1>3, <2>1, <2>2 DEF Holds, Shows
  <2>4. Settled'
    BY <1>2, <1>3, <2>3 DEF Settled, Filling
  <2> QED
    BY <2>1, <2>4 DEF CatalogueOK, ProductSteps
<1>5. CASE ApplyCategory
  <2> DEFINE types == products[entry].categories[cat]
  <2>1. entry \in 1 .. ProductsKept(products)
    BY <1>1, <1>5 DEF ApplyCategory
  <2>2. FindSlot(products[entry].id) = entry /\ entry # 0 /\ entry \in 1 .. MaxProducts
    BY <1>1, <1>2, <2>1, SlotOfEntry
  <2>3. /\ s_product_count' = ProductsKept(products)'
        /\ \A i \in 1 .. ProductsKept(products)' : s_products'[i] = products'[i].id
    BY <1>2, <1>3 DEF Filling
  <2>4. \A i \in 1 .. ProductsKept(products), c \in Category :
          IF Done(i, c) THEN Shows(products, i, c) ELSE s_defect_type_counts[i][c] = 0
    BY <1>2 DEF Filling
  <2>5. CASE cat \in DOMAIN products[entry].categories /\ CopyType(entry, types)
    <3>1. /\ pos <= TypesKept(types) /\ pos' = pos + 1
          /\ s_defect_types' = [s_defect_types EXCEPT ![entry][cat][pos] = types[pos]]
          /\ UNCHANGED <<s_defect_type_counts, step, entry, cat>>
      BY <2>5 DEF CopyType
    <3>2. TypesKept(types) \in 0 .. MaxTypes
      BY <2>1, <2>5, TypesFit DEF TablesTypeOK
    <3>3. /\ \A i \in 1 .. MaxProducts, c \in Category :
               i # entry \/ c # cat => s_defect_types'[i][c] = s_defect_types[i][c]
          /\ \A k \in 1 .. MaxTypes :
               s_defect_types'[entry][cat][k] = IF k = pos THEN types[pos] ELSE s_defect_types[entry][cat][k]
      <4>1. s_defect_types \in [1 .. MaxProducts -> [Category -> [1 .. MaxTypes -> DefectType]]]
        BY DEF TablesTypeOK
      <4> HIDE DEF types
      <4> QED
        BY <1>1, <2>2, <3>1, <4>1
    <3>4. \A i \in 1 .. ProductsKept(products), c \in Category :
            IF Done(i, c)' THEN Shows(products, i, c)' ELSE s_defect_type_counts'[i][c] = 0
      <4> SUFFICES ASSUME NEW i \in 1 .. ProductsKept(products), NEW c \in Category
                   PROVE  IF Done(i, c)' THEN Shows(products, i, c)' ELSE s_defect_type_counts'[i][c] = 0
        OBVIOUS
      <4>1. Done(i, c)' <=> Done(i, c)
        BY <3>1 DEF Done
      <4>2. ASSUME Done(i, c) PROVE s_defect_types'[i][c] = s_defect_types[i][c]
        BY <1>1, <3>3, <4>2 DEF Done
      <4>3. ASSUME Done(i, c) PROVE Shows(products, i, c)'
        BY <1>2, <2>4, <3>1, <4>2, <4>3 DEF Shows, TypesKept
      <4> QED
        BY <2>4, <3>1, <4>1, <4>3
    <3>5. \A k \in 1 .. TypesKept(types) : k < pos + 1 => s_defect_types'[entry][cat][k] = types[k]
      <4>1. \A k \in 1 .. TypesKept(types) : k < pos => s_defect_types[entry][cat][k] = types[k]
        BY <1>1, <1>2, <2>1, <2>5 DEF Filling
      <4> HIDE DEF types
      <4> QED
        BY <1>1, <3>2, <3>3, <4>1, SizesAssumption
    <3>6. Filling'
      BY <1>1, <1>2, <1>3, <2>1, <2>3, <2>5, <3>1, <3>2, <3>4, <3>5 DEF Filling, TypesKept
    <3> QED
      BY <1>2, <3>1, <3>6 DEF CatalogueOK, ProductSteps
  <2>6. CASE \/ cat \in DOMAIN products[entry].categories /\ CountTypes(entry, types)
             \/ cat \notin DOMAIN products[entry].categories /\ NextCategory /\ UNCHANGED typeTable
    <3>1. s_defect_types' = s_defect_types /\ NextCategory
      BY <2>6 DEF CountTypes, typeTable
    <3>2. \A i \in 1 .. MaxProducts, c \in Category :
            i # entry \/ c # cat => s_defect_type_counts'[i][c] = s_defect_type_counts[i][c]
      <4>1. s_defect_type_counts \in [1 .. MaxProducts -> [Category -> 0 .. MaxTypes]]
        BY DEF TablesTypeOK
      <4> HIDE DEF types
      <4> QED
        BY <1>1, <2>2, <2>6, <4>1 DEF CountTypes, typeTable
    <3>3. ASSUME NEW i, NEW c, i = entry, c = cat PROVE Shows(products, i, c)'
      <4>1. CASE cat \in DOMAIN products[entry].categories /\ CountTypes(entry, types)
        <5>1. TypesKept(types) \in 0 .. MaxTypes
          BY <2>1, <4>1, TypesFit DEF TablesTypeOK
        <5>2. pos = TypesKept(types) + 1
          BY <1>1, <1>2, <2>1, <4>1, <5>1 DEF CountTypes, Filling
        <5>3. \A k \in 1 .. TypesKept(types) : s_defect_types[entry][cat][k] = types[k]
          BY <1>2, <2>1, <4>1, <5>1, <5>2 DEF Filling
        <5>4. s_defect_type_counts'[entry][cat] = TypesKept(types)
          <6>1. s_defect_type_counts' = [s_defect_type_counts EXCEPT ![entry][cat] = pos - 1]
            BY <4>1 DEF CountTypes
          <6>2. s_defect_type_counts \in [1 .. MaxProducts -> [Category -> 0 .. MaxTypes]]
            BY DEF TablesTypeOK
          <6> HIDE DEF types
          <6> QED
            BY <1>1, <2>2, <5>1, <5>2, <6>1, <6>2
        <5> QED
          BY <1>2, <3>1, <3>3, <4>1, <5>3, <5>4 DEF Shows, TypesKept
      <4>2. CASE cat \notin DOMAIN products[entry].categories
        <5>1. s_defect_type_counts'[entry][cat] = 0
          BY <1>1, <2>1, <2>4, <2>6, <4>2 DEF Done, typeTable
        <5> QED
          BY <1>2, <3>3, <4>2, <5>1 DEF Shows
      <4> QED
        BY <2>6, <4>1, <4>2
    <3>4. \A i \in 1 .. ProductsKept(products), c \in Category :
            Done(i, c)' <=> Done(i, c) \/ (i = entry /\ c = cat)
      <4> SUFFICES ASSUME NEW i \in 1 .. ProductsKept(products), NEW c \in Category
                   PROVE  Done(i, c)' <=> Done(i, c) \/ (i = entry /\ c = cat)
        OBVIOUS
      <4>1. CASE cat = "PMP"
        BY <1>1, <3>1, <4>1 DEF Done, NextCategory, Category
      <4>2. CASE cat = "INJ"
        BY <1>1, <3>1, <4>2 DEF Done, NextCategory, Goto, Category
      <4> QED
        BY <1>1, <4>1, <4>2 DEF Category
    <3>5. \A i \in 1 .. ProductsKept(products), c \in Category :
            IF Done(i, c)' THEN Shows(products, i, c)' ELSE s_defect_type_counts'[i][c] = 0
      <4> SUFFICES ASSUME NEW i \in 1 .. ProductsKept(products), NEW c \in Category
                   PROVE  IF Done(i, c)' THEN Shows(products, i, c)' ELSE s_defect_type_counts'[i][c] = 0
        OBVIOUS
      <4>1. CASE i = entry /\ c = cat
        BY <3>3, <3>4, <4>1
      <4>2. CASE i # entry \/ c # cat
        <5>1. s_defect_type_counts'[i][c] = s_defect_type_counts[i][c] /\ (Done(i, c)' <=> Done(i, c))
          BY <1>1, <3>2, <3>4, <4>2
        <5>2. ASSUME Done(i, c) PROVE Shows(products, i, c)'
          BY <1>2, <2>4, <3>1, <5>1, <5>2 DEF Shows, TypesKept
        <5> QED
          BY <2>4, <5>1, <5>2
      <4> QED
        BY <4>1, <4>2
    <3>6. /\ step' = "types" /\ pos' = 1 /\ entry' \in {entry, entry + 1} /\ cat' \in Category
      BY <1>2, <3>1 DEF NextCategory, Goto, Category
    <3>7. ASSUME entry' <= ProductsKept(products), cat' \in DOMAIN products[entry'].categories
          PROVE  TypesKept(products[entry'].categories[cat']) \in Nat
      <4>1. entry' \in 1 .. ProductsKept(products)
        BY <1>1, <3>6, <3>7
      <4> QED
        BY <3>7, <4>1, TypesFit, SizesAssumption DEF TablesTypeOK
    <3>8. Filling'
      <4>1. entry' <= ProductsKept(products)' + 1
        BY <1>1, <1>3, <2>1, <3>6
      <4>2. IF entry' <= ProductsKept(products)' /\ cat' \in DOMAIN products'[entry'].categories
            THEN pos' <= TypesKept(products'[entry'].categories[cat']) + 1
            ELSE pos' = 1
        BY <1>2, <1>3, <3>6, <3>7 DEF TypesKept
      <4>3. entry' <= ProductsKept(products)' /\ cat' \in DOMAIN products'[entry'].categories =>
              \A k \in 1 .. TypesKept(products'[entry'].categories[cat']) :
                k < pos' => s_defect_types'[entry'][cat'][k] = products'[entry'].categories[cat'][k]
        BY <1>2, <1>3, <3>6, <3>7 DEF TypesKept
      <4> QED
        BY <1>2, <1>3, <2>3, <3>5, <4>1, <4>2, <4>3 DEF Filling, TypesKept
    <3> QED
      BY <3>6, <3>8 DEF CatalogueOK, ProductSteps
  <2> QED
    BY <1>5, <2>2, <2>5, <2>6 DEF ApplyCategory
<1> QED
  BY <1>4, <1>5

-----------------------------------------------------------------------------
(* The invariant of the tables, and what it gives a reader.                *)
TablesInv == TablesTypeOK /\ OperatorsOK /\ CatalogueOK

LEMMA TablesSame == ASSUME TablesInv, UNCHANGED tables PROVE TablesInv'
<1>1. /\ UNCHANGED <<s_operators, s_operator_count, s_products, s_product_count, s_defect_types>>
      /\ UNCHANGED <<s_defect_type_counts, step, entry, cat, pos, operators, products, previous, received>>
  BY DEF tables, operatorTable, productTable, typeTable, place, inbox
<1>2. TablesTypeOK'
  BY <1>1 DEF TablesInv, TablesTypeOK
<1>3. OperatorsOK'
  BY <1>1 DEF TablesInv, OperatorsOK, OperatorsKept, Blanked, Copied
<1>4. CatalogueOK'
  BY <1>1 DEF TablesInv, CatalogueOK, Settled, Wiping, Copying, Filling, Holds, Shows, Done,
              ProductsKept, TypesKept
<1> QED
  BY <1>2, <1>3, <1>4 DEF TablesInv

LEMMA TablesStep == ASSUME TablesInv, TablesNext PROVE TablesInv'
<1>1. CASE \/ \E list \in OperatorLists : ReceiveOperators(list)
           \/ \E list \in ProductLists : ReceiveProducts(list)
  BY <1>1, ReceiveTypes, OperatorsStay, ReceiveKeepsCatalogue DEF TablesInv
<1>2. CASE SetOperators
  BY <1>2, OperatorTypes, OperatorsKeepOK, ReceiveKeepsCatalogue DEF TablesInv
<1>3. CASE ApplyProducts
  <2>1. CatalogueOK'
    BY <1>3, ClearKeepsCatalogue, CopyKeepsCatalogue, FillKeepsCatalogue DEF TablesInv, ApplyProducts
  <2> QED
    BY <1>3, <2>1, CatalogueTypes, OperatorsStay DEF TablesInv
<1> QED
  BY <1>1, <1>2, <1>3 DEF TablesNext

(* A reader that finds a slot finds the types of that product or none, if  *)
(* each slot with its id is the product's and shows its types or none.     *)
LEMMA ReadWhole ==
  ASSUME TablesTypeOK, NEW list \in ProductLists \cup {<<>>}, NEW id, NEW c \in Category,
         s_product_count = ProductsKept(list),
         \A i \in 1 .. ProductsKept(list) : s_products[i] = id =>
           list[i].id = id /\ (Shows(list, i, c) \/ s_defect_type_counts[i][c] = 0)
  PROVE  /\ DefectTypes(id, c) \in {<<>>, TypesIn(list, id, c)}
         /\ (\A i \in 1 .. ProductsKept(list) : Holds(list, i)) =>
              DefectTypes(id, c) = TypesIn(list, id, c)
<1>1. /\ ProductsKept(list) \in 0 .. MaxProducts
      /\ \A i, j \in 1 .. ProductsKept(list) : list[i].id = list[j].id => i = j
  BY ProductsFit
<1> DEFINE Giving == {i \in 1 .. ProductsKept(list) : list[i].id = id /\ c \in DOMAIN list[i].categories}
           slot == FindSlot(id)
<1>2. CASE slot = 0
  <2>1. DefectTypes(id, c) = <<>>
    BY <1>2 DEF DefectTypes
  <2>2. ASSUME \A i \in 1 .. ProductsKept(list) : Holds(list, i) PROVE Giving = {}
    <3>1. Slots(id) = {}
      BY <1>2, SlotFacts
    <3>2. \A i \in 1 .. ProductsKept(list) : s_products[i] = list[i].id /\ s_products[i] # id
      BY <2>2, <3>1 DEF Slots, Holds
    <3> QED
      BY <3>2
  <2> QED
    BY <2>1, <2>2 DEF TypesIn
<1>3. CASE slot # 0
  <2>1. slot \in 1 .. ProductsKept(list) /\ s_products[slot] = id
    BY <1>3, SlotFacts DEF Slots
  <2>2. list[slot].id = id /\ (Shows(list, slot, c) \/ s_defect_type_counts[slot][c] = 0)
    BY <2>1
  <2>3. DefectTypes(id, c) = [k \in 1 .. s_defect_type_counts[slot][c] |-> s_defect_types[slot][c][k]]
    BY <1>3 DEF DefectTypes
  <2> HIDE DEF slot
  <2>4. CASE Shows(list, slot, c) /\ c \in DOMAIN list[slot].categories
    <3>1. Giving = {slot}
      BY <1>1, <2>1, <2>2, <2>4
    <3>2. (CHOOSE i \in Giving : TRUE) = slot
      BY <3>1
    <3> DEFINE types == list[slot].categories[c]
    <3>3. TypesIn(list, id, c) = [k \in 1 .. TypesKept(types) |-> types[k]]
      BY <3>1, <3>2 DEF TypesIn
    <3>4. /\ s_defect_type_counts[slot][c] = TypesKept(types)
          /\ \A k \in 1 .. TypesKept(types) : s_defect_types[slot][c][k] = types[k]
      BY <2>4 DEF Shows
    <3> HIDE DEF types
    <3>5. DefectTypes(id, c) = TypesIn(list, id, c)
      BY <2>3, <3>3, <3>4
    <3> QED
      BY <3>5
  <2>5. CASE ~Shows(list, slot, c) \/ c \notin DOMAIN list[slot].categories
    <3>1. s_defect_type_counts[slot][c] = 0
      BY <2>2, <2>5 DEF Shows
    <3>2. DefectTypes(id, c) = <<>>
      BY <2>3, <3>1
    <3>3. ASSUME \A i \in 1 .. ProductsKept(list) : Holds(list, i) PROVE Giving = {}
      <4>1. Shows(list, slot, c)
        BY <2>1, <3>3 DEF Holds
      <4> QED
        BY <1>1, <2>1, <2>2, <2>5, <4>1
    <3> QED
      BY <3>2, <3>3 DEF TypesIn
  <2> QED
    BY <2>4, <2>5
<1> QED
  BY <1>2, <1>3

LEMMA WholeWhenRead == TablesInv => TypesWhole
<1> SUFFICES ASSUME TablesInv, NEW id \in ProductIds, NEW c \in Category
             PROVE  DefectTypes(id, c) \in
                      {TypesIn(products, id, c)}
                        \cup IF step \in ProductSteps THEN {<<>>, TypesIn(previous, id, c)} ELSE {}
  BY DEF TypesWhole
<1>1. id # 0
  <2>1. PICK list \in ProductLists : \E i \in DOMAIN list : id = list[i].id
    BY DEF ProductIds
  <2> QED
    BY <2>1, ProductsAssumption
<1>2. /\ TablesTypeOK /\ CatalogueOK
      /\ products \in ProductLists \cup {<<>>} /\ previous \in ProductLists \cup {<<>>}
      /\ step \in {"idle"} \cup OperatorSteps \cup ProductSteps
  BY DEF TablesInv, TablesTypeOK
<1>3. CASE step \notin ProductSteps
  <2>1. Settled
    BY <1>2, <1>3 DEF CatalogueOK
  <2> QED
    BY <1>2, <2>1, ReadWhole DEF Settled, Holds
<1>4. CASE step = "wipe_product"
  <2>1. Wiping
    BY <1>2, <1>4 DEF CatalogueOK
  <2>2. \A i \in 1 .. ProductsKept(previous) : s_products[i] = id =>
          previous[i].id = id /\ (Shows(previous, i, c) \/ s_defect_type_counts[i][c] = 0)
    <3>1. ProductsKept(previous) \in 0 .. MaxProducts /\ entry \in Nat
      BY <1>2, ProductsFit DEF TablesTypeOK
    <3> QED
      BY <1>1, <2>1, <3>1, SizesAssumption DEF Wiping, Holds
  <2>3. DefectTypes(id, c) \in {<<>>, TypesIn(previous, id, c)}
    BY <1>2, <2>1, <2>2, ReadWhole DEF Wiping
  <2> QED
    BY <1>4, <2>3 DEF ProductSteps
<1>5. CASE step \in {"no_products", "wipe_types", "wipe_counts", "copy_product"}
  <2>1. Slots(id) = {}
    <3>1. CASE step = "no_products"
      BY <1>1, <1>2, <3>1, SizesAssumption DEF CatalogueOK, Slots, TablesTypeOK
    <3>2. CASE step # "no_products"
      BY <1>2, <1>5, <3>2 DEF CatalogueOK, Slots
    <3> QED
      BY <3>1, <3>2
  <2>2. DefectTypes(id, c) = <<>>
    BY <2>1 DEF DefectTypes, FindSlot
  <2> QED
    BY <1>5, <2>2 DEF ProductSteps
<1>6. CASE step = "types"
  <2>1. Filling
    BY <1>2, <1>6 DEF CatalogueOK
  <2>2. \A i \in 1 .. ProductsKept(products) : s_products[i] = id =>
          products[i].id = id /\ (Shows(products, i, c) \/ s_defect_type_counts[i][c] = 0)
    BY <2>1 DEF Filling
  <2>3. DefectTypes(id, c) \in {<<>>, TypesIn(products, id, c)}
    BY <1>2, <2>1, <2>2, ReadWhole DEF Filling
  <2> QED
    BY <1>6, <2>3 DEF ProductSteps
<1> QED
  BY <1>2, <1>3, <1>4, <1>5, <1>6 DEF ProductSteps

-----------------------------------------------------------------------------
(* 2. The part in hand.                                                    *)
(*                                                                         *)
(* Where the user is with a part: before its first defect screen was left, *)
(* or after that, on the second.                                           *)
OnFirst  == screen = "pmp" \/ (screen = "keyboard" /\ origin = "pmp")
OnSecond == screen = "inj" \/ (screen = "keyboard" /\ origin = "inj")
Clean    == defects = NoDefects /\ note = NoText

(* The inductive invariant: a part is pending from its first commit to its *)
(* summary; otherwise the Model is clean.  Of the notes confirmed for the  *)
(* part in hand the Model has one, if there is one.                        *)
PartInv ==
  /\ pending \in BOOLEAN
  /\ pending = TRUE => OnSecond \/ screen = "summary"
  /\ OnSecond => pending = TRUE
  /\ pending = FALSE => Clean
  /\ OnFirst => typed = {}
  /\ pending = TRUE => IF typed = {} THEN note = NoText ELSE note \in typed
  /\ screen = "keyboard" => origin \in DefectScreen
  /\ screen # "keyboard" => origin = "none"

LEMMA InitPart == FlowInit => PartInv
BY DEF FlowInit, PartInv, OnFirst, OnSecond, Clean

LEMMA LookPart ==
  ASSUME PartInv, UNCHANGED <<screen, origin, defects, note, pending, typed>> PROVE PartInv'
BY DEF PartInv, OnFirst, OnSecond, Clean

LEMMA LoginPart ==
  ASSUME PartInv, SplashEnds \/ (\E person \in People : Login(person)) \/ ChangeProduct \/ SignOut
  PROVE  PartInv'
BY DEF PartInv, OnFirst, OnSecond, Clean, SplashEnds, Login, ChangeProduct, SignOut, Show, model,
       truth

LEMMA TakePartPart == ASSUME PartInv, ProductNext \/ NextPiece PROVE PartInv'
BY DEF PartInv, OnFirst, OnSecond, Clean, ProductNext, NextPiece, TakePart, Show

LEMMA KeyboardPart ==
  ASSUME PartInv, OpenKeyboard \/ (\E t \in Texts \cup {NoText} : KeyboardDone(t)) PROVE PartInv'
BY DEF PartInv, OnFirst, OnSecond, Clean, OpenKeyboard, KeyboardDone, Show, DefectScreen, model,
       truth

(* What Next on a defect screen does to the note. *)
LEMMA CommitNote ==
  ASSUME Commit, IF typed = {} THEN note = NoText ELSE note \in typed
  PROVE  IF typed' = {} THEN note' = NoText ELSE note' \in typed'
<1>1. CASE NoteNow # NoText
  BY <1>1 DEF Commit, CommittedNote
<1>2. CASE NoteNow = NoText
  BY <1>2 DEF Commit, CommittedNote
<1> QED
  BY <1>1, <1>2

LEMMA NextPart == ASSUME PartInv, PmpNext \/ InjNext PROVE PartInv'
<1>1. /\ Commit
      /\ screen' \in {"inj", "summary"} /\ screen \in {"pmp", "inj"}
  BY DEF PmpNext, InjNext, Show
<1>2. IF typed = {} THEN note = NoText ELSE note \in typed
  BY <1>1 DEF PartInv, OnFirst, OnSecond, Clean
<1>3. pending' = TRUE /\ origin' = origin
  BY <1>1 DEF Commit
<1>4. IF typed' = {} THEN note' = NoText ELSE note' \in typed'
  BY <1>1, <1>2, CommitNote
<1> QED
  BY <1>1, <1>3, <1>4 DEF PartInv, OnFirst, OnSecond, Clean

LEMMA SummaryPart == ASSUME PartInv, ShowSummary PROVE PartInv'
BY DEF PartInv, OnFirst, OnSecond, Clean, ShowSummary, Forget, view

LEMMA NextInv == ASSUME PartInv, [FlowNext]_vars PROVE PartInv'
<1>1. CASE UNCHANGED vars
  BY <1>1, LookPart DEF vars, view, model, truth
<1>2. CASE TablesNext /\ UNCHANGED <<view, model, truth>>
  BY <1>2, LookPart DEF view, model, truth
<1>3. CASE LoginRefused \/ \E b \in Buttons("PMP") \cup Buttons("INJ") : Toggle(b)
  BY <1>3, LookPart DEF LoginRefused, Toggle, vars, view, model, truth
<1> QED
  BY <1>1, <1>2, <1>3, LoginPart, TakePartPart, KeyboardPart, NextPart, SummaryPart DEF FlowNext

-----------------------------------------------------------------------------
(* 3. The whole.                                                           *)
(*                                                                         *)
(* The session is the owner's, and how many parts there may still be.   *)
LoggedIn == session.operator = owner
PartsOK  ==
  screen \in {"product", "pmp", "inj", "keyboard"} \/ (screen = "summary" /\ pending = TRUE)
    => inspected < MaxParts

FlowInv == TablesInv /\ PartInv /\ FlowTypeOK /\ LoggedIn /\ PartsOK

LEMMA InitFlow == FlowInit => FlowInv
<1> SUFFICES ASSUME FlowInit PROVE FlowInv
  OBVIOUS
<1>1. TablesInv
  BY InitTypes, InitOperators DEF FlowInit, TablesInv
<1>2. FlowTypeOK
  <2>1. defects \in [Category -> SUBSET Nat] /\ inspected \in 0 .. MaxParts
    BY PartsAssumption DEF FlowInit, NoDefects
  <2> QED
    BY <1>1, <2>1 DEF FlowInit, FlowTypeOK, TablesInv
<1> QED
  BY <1>1, <1>2, InitPart DEF FlowInit, FlowInv, LoggedIn, PartsOK, NoSession

(* A defect list is committed as ids.                                      *)
LEMMA ResolvedIds ==
  ASSUME TablesTypeOK, NEW id, NEW c \in Category, NEW buttons
  PROVE  Resolve(DefectTypes(id, c), c, buttons) \subseteq Nat
<1> DEFINE types == DefectTypes(id, c)
<1>1. \A k \in DOMAIN types : types[k].id \in Nat
  <2>1. CASE FindSlot(id) = 0
    <3>1. types = <<>>
      BY <2>1 DEF DefectTypes
    <3> QED
      BY <3>1
  <2>2. CASE FindSlot(id) # 0
    <3> DEFINE slot == FindSlot(id)
    <3>1. slot \in 1 .. MaxProducts
      BY <2>2, SlotFacts, SizesAssumption
    <3>2. types = [k \in 1 .. s_defect_type_counts[slot][c] |-> s_defect_types[slot][c][k]]
      BY <2>2 DEF DefectTypes
    <3> HIDE DEF slot, types
    <3>3. /\ s_defect_type_counts[slot][c] \in 0 .. MaxTypes
          /\ \A k \in 1 .. MaxTypes : s_defect_types[slot][c][k] \in DefectType
      <4>1. s_defect_type_counts[slot] \in [Category -> 0 .. MaxTypes]
        BY <3>1 DEF TablesTypeOK
      <4>2. s_defect_types[slot] \in [Category -> [1 .. MaxTypes -> DefectType]]
        BY <3>1 DEF TablesTypeOK
      <4>3. s_defect_types[slot][c] \in [1 .. MaxTypes -> DefectType]
        BY <4>2
      <4> QED
        BY <4>1, <4>3
    <3>4. \A k \in 1 .. s_defect_type_counts[slot][c] : s_defect_types[slot][c][k] \in DefectType
      BY <3>3, SizesAssumption
    <3> QED
      BY <3>2, <3>4 DEF DefectType
  <2> QED
    BY <2>1, <2>2
<1> HIDE DEF types
<1>2. \A b : TypesOf(types, c, b) \subseteq DOMAIN types
  BY DEF TypesOf
<1>3. Resolve(types, c, buttons) \subseteq Nat
  BY <1>1, <1>2 DEF Resolve
<1> QED
  BY <1>3 DEF types

(* The steps of the screens.                                               *)
LEMMA LoginFlow ==
  ASSUME FlowInv, NEW person \in People, Login(person)
  PROVE  FlowTypeOK' /\ LoggedIn' /\ PartsOK'
<1> DEFINE i == CheckPin(person)
<1>1. TablesTypeOK /\ OperatorsOK /\ TablesTypeOK'
  BY TablesSame DEF FlowInv, TablesInv, Login
<1>2. i \in 1 .. MaxOperators /\ s_operators[i].pin_hash = person
  BY <1>1, PinFacts DEF Login
<1>3. s_operators[i].id \in People \cup {0} /\ person # 0
  BY <1>1, <1>2, OperatorsAssumption DEF TablesTypeOK
<1>0. Caught(person) <=> step = "wipe_pin_hash" /\ entry = i
  BY DEF Caught
<1> HIDE DEF i
<1>4. s_operators[i].id = IF Caught(person) THEN 0 ELSE person
  <2>1. CASE step \notin OperatorSteps
    <3>1. ~Caught(person)
      BY <2>1, <1>0 DEF OperatorSteps
    <3>2. s_operators[i].id = s_operators[i].pin_hash
      BY <1>1, <1>2, <2>1 DEF OperatorsOK
    <3> QED
      BY <1>2, <3>1, <3>2
  <2>2. CASE step \in {"wipe_id", "wipe_pin_hash"}
    <3>1. /\ i < entry => s_operators[i].pin_hash = 0
          /\ i > entry \/ step = "wipe_id" => s_operators[i].id = s_operators[i].pin_hash
          /\ i = entry /\ step = "wipe_pin_hash" => s_operators[i].id = 0
      BY <1>1, <1>2, <2>2 DEF OperatorsOK, Blanked
    <3>2. i \in Nat /\ entry \in Nat
      BY <1>1, <1>2 DEF TablesTypeOK
    <3> QED
      BY <1>0, <1>2, <1>3, <2>2, <3>1, <3>2
  <2>3. CASE step \in {"copy_id", "copy_pin_hash"}
    <3>1. /\ i < entry => s_operators[i].id = s_operators[i].pin_hash
          /\ i > entry \/ step = "copy_id" => i < entry \/ s_operators[i].pin_hash = 0
          /\ i = entry /\ step = "copy_pin_hash" => s_operators[i].pin_hash = 0
      BY <1>1, <1>2, <2>3 DEF OperatorsOK, Blanked, Copied
    <3>2. i \in Nat /\ entry \in Nat
      BY <1>1, <1>2 DEF TablesTypeOK
    <3> QED
      BY <1>0, <1>2, <1>3, <2>3, <3>1, <3>2
  <2> QED
    BY <2>1, <2>2, <2>3 DEF OperatorSteps
<1>5. /\ screen' = "product" /\ selected' = {} /\ text' = NoText /\ inspected' = 0
      /\ session' = SessionOf(i) /\ owner' = IF Caught(person) THEN owner ELSE person
      /\ UNCHANGED <<origin, defects, note, pending, typed>>
  BY DEF Login, Show, i
<1>6. session' \in [operator : People, product : {1}] \cup {NoSession} /\ LoggedIn'
  <2>1. CASE Caught(person)
    <3>1. ~(s_operators[i].id > 0)
      BY <1>4, <2>1
    <3>2. session' = session /\ owner' = owner
      BY <1>5, <2>1, <3>1 DEF SessionOf
    <3> QED
      BY <3>2 DEF FlowInv, FlowTypeOK, LoggedIn
  <2>2. CASE ~Caught(person)
    <3>1. s_operators[i].id = person /\ s_operators[i].id > 0
      BY <1>3, <1>4, <2>2, OperatorsAssumption
    <3>2. session' = [operator |-> person, product |-> 1] /\ owner' = person
      BY <1>5, <2>2, <3>1 DEF SessionOf
    <3> QED
      BY <3>2 DEF LoggedIn
  <2> QED
    BY <2>1, <2>2
<1>7. FlowTypeOK'
  BY <1>1, <1>5, <1>6, PartsAssumption DEF FlowInv, FlowTypeOK
<1>8. PartsOK'
  BY <1>5, PartsAssumption DEF PartsOK
<1> QED
  BY <1>6, <1>7, <1>8

LEMMA ScreenFlow ==
  ASSUME FlowInv,
         SplashEnds \/ ProductNext \/ OpenKeyboard \/ NextPiece \/ ChangeProduct \/ SignOut
  PROVE  FlowTypeOK' /\ LoggedIn' /\ PartsOK'
<1>1. TablesTypeOK' /\ UNCHANGED <<session, defects, note, pending, inspected, owner>>
  <2>1. UNCHANGED tables
    BY DEF SplashEnds, ProductNext, OpenKeyboard, NextPiece, ChangeProduct, SignOut, TakePart
  <2> QED
    BY <2>1, TablesSame
    DEF FlowInv, TablesInv, SplashEnds, ProductNext, OpenKeyboard, NextPiece, ChangeProduct,
        SignOut, TakePart, model, truth
<1>2. /\ screen' \in {"login", "product", "pmp", "keyboard"} /\ selected' = {} /\ text' = NoText
      /\ typed' \in {typed, {}}
      /\ origin' \in {origin, screen} /\ (origin' = origin \/ screen \in DefectScreen)
  BY DEF SplashEnds, ProductNext, OpenKeyboard, NextPiece, ChangeProduct, SignOut, TakePart, Show,
         truth
<1>3. FlowTypeOK'
  BY <1>1, <1>2 DEF FlowInv, FlowTypeOK
<1>4. PartsOK'
  <2>1. CASE ProductNext \/ OpenKeyboard
    BY <1>1, <2>1 DEF FlowInv, PartsOK, ProductNext, OpenKeyboard, DefectScreen
  <2>2. CASE NextPiece \/ ChangeProduct
    BY <1>1, <2>2 DEF PartsOK, NextPiece, ChangeProduct
  <2>3. CASE SplashEnds \/ SignOut
    BY <2>3 DEF PartsOK, SplashEnds, SignOut, Show
  <2> QED
    BY <2>1, <2>2, <2>3
<1> QED
  BY <1>1, <1>3, <1>4 DEF FlowInv, LoggedIn

LEMMA ButtonFlow ==
  ASSUME FlowInv, \/ \E b \in Buttons("PMP") \cup Buttons("INJ") : Toggle(b)
                  \/ \E t \in Texts \cup {NoText} : KeyboardDone(t)
  PROVE  FlowTypeOK' /\ LoggedIn' /\ PartsOK'
<1>1. TablesTypeOK' /\ UNCHANGED <<session, defects, note, pending, inspected, owner, typed>>
  <2>1. UNCHANGED tables
    BY DEF Toggle, KeyboardDone
  <2> QED
    BY <2>1, TablesSame DEF FlowInv, TablesInv, Toggle, KeyboardDone, model, truth
<1>2. CASE \E b \in Buttons("PMP") \cup Buttons("INJ") : Toggle(b)
  <2>1. PICK b : Toggle(b)
    BY <1>2
  <2>2. UNCHANGED <<screen, text, origin>> /\ selected' \subseteq Buttons(CategoryOf(screen))'
    BY <2>1 DEF Toggle, FlowInv, FlowTypeOK, CategoryOf, Buttons
  <2> QED
    BY <1>1, <2>2 DEF FlowInv, FlowTypeOK, LoggedIn, PartsOK
<1>3. CASE \E t \in Texts \cup {NoText} : KeyboardDone(t)
  <2>1. PICK t \in Texts \cup {NoText} : KeyboardDone(t)
    BY <1>3
  <2>2. /\ screen = "keyboard" /\ screen' \in {"pmp", "inj"} /\ screen' = origin
        /\ origin' = "none" /\ text' = t
    BY <2>1 DEF KeyboardDone, FlowInv, PartInv, DefectScreen
  <2>3. Autre(CategoryOf(origin)) \in Buttons(CategoryOf(origin))
    <3>1. CategoryOf(origin) \in Category
      BY DEF CategoryOf, Category
    <3> QED
      BY <3>1, GridAssumption DEF Autre, Buttons
  <2>4. selected' \subseteq Buttons(CategoryOf(screen))'
    BY <2>1, <2>2, <2>3 DEF KeyboardDone, Buttons, CategoryOf
  <2> QED
    BY <1>1, <2>2, <2>4 DEF FlowInv, FlowTypeOK, LoggedIn, PartsOK
<1> QED
  BY <1>2, <1>3

LEMMA CommitFlow ==
  ASSUME FlowInv, PmpNext \/ InjNext PROVE FlowTypeOK' /\ LoggedIn' /\ PartsOK'
<1>1. /\ Commit /\ screen \in {"pmp", "inj"} /\ screen' \in {"inj", "summary"}
      /\ selected' = {} /\ text' = NoText
  BY DEF PmpNext, InjNext, Show
<1>2. TablesTypeOK' /\ UNCHANGED <<origin, session, inspected, owner>> /\ pending' = TRUE
  BY <1>1, TablesSame DEF FlowInv, TablesInv, Commit
<1>3. NoteNow \in Texts \cup {NoText}
  BY DEF NoteNow, FlowInv, FlowTypeOK
<1>4. note' \in Texts \cup {NoText} /\ typed' \subseteq Texts
  BY <1>1, <1>3 DEF Commit, CommittedNote, FlowInv, FlowTypeOK
<1>5. defects' \in [Category -> SUBSET Nat]
  <2> DEFINE c   == CategoryOf(screen)
             ids == Resolve(DefectTypes(session.product, c), c, selected)
  <2>1. c \in Category
    BY DEF CategoryOf, Category
  <2>2. ids \subseteq Nat
    BY <2>1, ResolvedIds DEF FlowInv, TablesInv
  <2>3. defects' = [defects EXCEPT ![c] = ids]
    BY <1>1 DEF Commit
  <2> HIDE DEF c, ids
  <2> QED
    BY <2>1, <2>2, <2>3 DEF FlowInv, FlowTypeOK
<1>6. FlowTypeOK'
  BY <1>1, <1>2, <1>4, <1>5 DEF FlowInv, FlowTypeOK
<1> QED
  BY <1>1, <1>2, <1>6 DEF FlowInv, LoggedIn, PartsOK

LEMMA SummaryFlow == ASSUME FlowInv, ShowSummary PROVE FlowTypeOK' /\ LoggedIn' /\ PartsOK'
<1>1. /\ screen = "summary" /\ pending = TRUE /\ inspected' = inspected + 1
      /\ defects' = NoDefects /\ note' = NoText /\ pending' = FALSE
      /\ UNCHANGED <<screen, selected, text, origin, session, owner, typed>>
  BY DEF ShowSummary, Forget, view, FlowInv, PartInv
<1>2. TablesTypeOK'
  BY TablesSame DEF FlowInv, TablesInv, ShowSummary
<1>3. inspected' \in 0 .. MaxParts
  BY <1>1, PartsAssumption DEF FlowInv, FlowTypeOK, PartsOK
<1>4. FlowTypeOK'
  BY <1>1, <1>2, <1>3 DEF FlowInv, FlowTypeOK, NoDefects, Buttons, CategoryOf
<1> QED
  BY <1>1, <1>4 DEF FlowInv, LoggedIn, PartsOK

LEMMA RestFlow ==
  ASSUME FlowInv, TablesInv', UNCHANGED <<view, model, truth>>
  PROVE  FlowTypeOK' /\ LoggedIn' /\ PartsOK'
BY DEF FlowInv, TablesInv, FlowTypeOK, LoggedIn, PartsOK, view, model, truth, Buttons, CategoryOf

LEMMA NextFlow == ASSUME FlowInv, [FlowNext]_vars PROVE FlowInv'
<1>1. PartInv'
  BY NextInv DEF FlowInv
<1>2. CASE TablesNext /\ UNCHANGED <<view, model, truth>>
  BY <1>1, <1>2, TablesStep, RestFlow DEF FlowInv
<1>3. CASE UNCHANGED vars \/ LoginRefused
  <2>1. UNCHANGED <<tables, view, model, truth>>
    BY <1>3 DEF vars, LoginRefused
  <2> QED
    BY <1>1, <2>1, TablesSame, RestFlow DEF FlowInv
<1>4. CASE \/ SplashEnds \/ ProductNext \/ OpenKeyboard \/ NextPiece \/ ChangeProduct \/ SignOut
           \/ PmpNext \/ InjNext \/ ShowSummary
           \/ \E person \in People : Login(person)
           \/ \E b \in Buttons("PMP") \cup Buttons("INJ") : Toggle(b)
           \/ \E t \in Texts \cup {NoText} : KeyboardDone(t)
  <2>1. UNCHANGED tables
    BY <1>4 DEF SplashEnds, ProductNext, OpenKeyboard, NextPiece, ChangeProduct, SignOut, PmpNext,
                InjNext, ShowSummary, Login, Toggle, KeyboardDone, TakePart, Commit
  <2>2. TablesInv'
    BY <2>1, TablesSame DEF FlowInv
  <2> QED
    BY <1>1, <1>4, <2>2, LoginFlow, ScreenFlow, ButtonFlow, CommitFlow, SummaryFlow DEF FlowInv
<1> QED
  BY <1>2, <1>3, <1>4 DEF FlowNext

LEMMA FlowInvariance == FlowSpec => []FlowInv
BY InitFlow, NextFlow, PTL DEF FlowSpec

(* Only the summary screen publishes.                                      *)
LEMMA WhoPublishes == ASSUME PartInv, [FlowNext]_vars, Publishing PROVE ShowSummary
<1>1. pending = TRUE /\ pending' # TRUE
  BY DEF PartInv, Publishing
<1>2. ~(PmpNext \/ InjNext)
  BY <1>1 DEF PmpNext, InjNext, Commit
<1>3. CASE UNCHANGED vars \/ LoginRefused \/ (TablesNext /\ UNCHANGED <<view, model, truth>>)
  BY <1>1, <1>3 DEF LoginRefused, vars, model
<1>4. CASE \/ SplashEnds \/ ProductNext \/ OpenKeyboard \/ NextPiece \/ ChangeProduct \/ SignOut
           \/ \E person \in People : Login(person)
           \/ \E b \in Buttons("PMP") \cup Buttons("INJ") : Toggle(b)
           \/ \E t \in Texts \cup {NoText} : KeyboardDone(t)
  BY <1>1, <1>4 DEF SplashEnds, ProductNext, OpenKeyboard, NextPiece, ChangeProduct, SignOut,
                    Login, Toggle, KeyboardDone, TakePart, model
<1> QED
  BY <1>2, <1>3, <1>4 DEF FlowNext

-----------------------------------------------------------------------------
(* The theorems.                                                           *)

(* The tables, the Model and the screens have their types; above all the   *)
(* indices of every loop stay inside the arrays, and a session has the id  *)
(* of an operator (operator_list_set, defect_config_set_defect_types,      *)
(* session_start).                                                         *)
THEOREM FlowTypes == FlowSpec => []FlowTypeOK
<1>1. FlowInv => FlowTypeOK
  BY DEF FlowInv
<1> QED
  BY <1>1, FlowInvariance, PTL

(* defect_config_get_defect_types never returns a list torn between two    *)
(* configurations, although it reads a table that is rewritten without a   *)
(* lock: the number of types is cleared before the first type is written   *)
(* and set after the last one.                                             *)
THEOREM NeverTorn == FlowSpec => []TypesWhole
<1>1. FlowInv => TypesWhole
  BY WholeWhenRead DEF FlowInv
<1> QED
  BY <1>1, FlowInvariance, PTL

(* A part is pending exactly between the defect screens and the summary,   *)
(* and nothing of it is left in the Model before the next: setCategory-    *)
(* Defects, publishInspection and clearInspection of Model.cpp, however    *)
(* the user goes through the screens.                                      *)
THEOREM OneAtATime == FlowSpec => []HalfInspected
<1>1. PartInv => HalfInspected
  BY DEF PartInv, OnFirst, OnSecond, Clean, HalfInspected, DefectScreen
<1>2. FlowInv => PartInv
  BY DEF FlowInv
<1> QED
  BY <1>1, <1>2, FlowInvariance, PTL

(* The note published with a part was confirmed for this part, and none    *)
(* that was confirmed is dropped for an empty one, although the two defect *)
(* screens share it (setCategoryDefects).                                  *)
THEOREM OwnNote == FlowSpec => NoteOfThisPart
<1> DEFINE Own == Publishing => IF typed = {} THEN sent'.note = NoText ELSE sent'.note \in typed
<1>1. ASSUME FlowInv, [FlowNext]_vars PROVE [Own]_vars
  <2>1. ASSUME Publishing PROVE sent'.note = note /\ pending = TRUE
    BY <1>1, <2>1, WhoPublishes DEF ShowSummary, Publishing, FlowInv, PartInv
  <2> QED
    BY <1>1, <2>1 DEF FlowInv, PartInv
<1> QED
  BY <1>1, FlowInvariance, PTL DEF FlowSpec, NoteOfThisPart

(* A part is published under the operator who logged in or under none, and *)
(* under none only while the operator list is rewritten or no longer names *)
(* him; a login between the id and the PIN write of its own entry counts   *)
(* for nothing, and the parts stay with the operator before (session_start *)
(* refuses, session.c l.29).  No other login between two writes of         *)
(* operator_list_set and no new order of the list gives a part to somebody *)
(* else.                                                                   *)
THEOREM OwnOperator == FlowSpec => Attributed
<1> DEFINE Own == Publishing =>
             /\ sent'.operator \in {0, owner}
             /\ /\ step \notin OperatorSteps
                /\ \E i \in 1 .. OperatorsKept(operators) : operators[i] = owner
                => sent'.operator = owner
<1>1. ASSUME FlowInv, [FlowNext]_vars PROVE [Own]_vars
  <2> SUFFICES ASSUME Publishing PROVE Own
    OBVIOUS
  <2>1. sent'.operator = CurrentOperator /\ session.operator = owner
    BY <1>1, WhoPublishes DEF ShowSummary, FlowInv, LoggedIn
  <2>2. ASSUME step \notin OperatorSteps, \E i \in 1 .. OperatorsKept(operators) : operators[i] = owner
        PROVE  CurrentOperator = owner
    <3>1. PICK i \in 1 .. OperatorsKept(operators) : operators[i] = owner
      BY <2>2
    <3>2. i \in 1 .. s_operator_count /\ s_operators[i].id = owner
      BY <1>1, <2>2, <3>1 DEF FlowInv, TablesInv, OperatorsOK, Copied
    <3>3. owner > 0
      <4>1. operators \in OperatorLists \cup {<<>>}
        BY <1>1 DEF FlowInv, TablesInv, TablesTypeOK
      <4>2. owner \in People
        BY <3>1, <4>1, OperatorsFit
      <4>3. owner \in Nat \ {0}
        BY <4>2, OperatorsAssumption
      <4> QED
        BY <4>3
    <3> QED
      BY <2>1, <3>2, <3>3 DEF CurrentOperator, Listed
  <2> QED
    BY <2>1, <2>2 DEF CurrentOperator
<1> QED
  BY <1>1, FlowInvariance, PTL DEF FlowSpec, Attributed
=============================================================================
