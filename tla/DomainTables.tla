---------------------------- MODULE DomainTables ----------------------------
(***************************************************************************)
(* The operator list and the defect configuration in RAM                   *)
(* (domain/operator_list.c, domain/defect_config.c) and the agent task     *)
(* that rewrites them when a configuration message arrives                 *)
(* (mqtt_config_callbacks.c, domain/config_parser.c).                      *)
(*                                                                         *)
(* The tables have no lock.  The agent task (priority 3) writes them word  *)
(* after word and the GUI task (priority 24) reads them whenever it        *)
(* preempts the agent, so what matters is the order of the writes: every   *)
(* write of a loop is a step, and `place' says where the agent is in the   *)
(* loops.  The GUI's handlers are atomic for the agent.                    *)
(*                                                                         *)
(* Names and labels are left out; an operator's pin_hash is abstracted to  *)
(* the id of the person whose PIN it encodes, 0 when it is blank and       *)
(* matches no PIN.                                                         *)
(***************************************************************************)
EXTENDS Naturals, Sequences, FiniteSets

CONSTANTS
  People,         (* the operators' ids                                    *)
  OperatorLists,  (* the operators configurations the server sends:        *)
                  (* sequences of ids                                      *)
  ProductLists,   (* the products configurations: sequences of             *)
                  (* [id, categories], where categories is a function from *)
                  (* the categories present to sequences of defect types   *)
  MaxOperators,   (* MAX_OPERATORS                                         *)
  MaxProducts,    (* DEFECT_CONFIG_MAX_PRODUCTS                            *)
  MaxTypes,       (* DEFECT_CONFIG_MAX_DEFECTS_PER_CATEGORY                *)
  MaxConfigs      (* bound on the configurations received                  *)

Category == {"PMP", "INJ"}
DefectType == [id : Nat, is_other : BOOLEAN]
Blank      == [id |-> 0, is_other |-> FALSE]

(* The three array sizes are positive. *)
ASSUME SizesAssumption ==
  /\ MaxOperators \in Nat \ {0} /\ MaxProducts \in Nat \ {0} /\ MaxTypes \in Nat \ {0}
  /\ MaxConfigs \in Nat

(* Ids are primary keys of the server's tables (defect_config.h l.34 and   *)
(* l.42, operator_list.h l.27): positive, and in the list of products each *)
(* once.                                                                   *)
ASSUME OperatorsAssumption == People \subseteq Nat \ {0} /\ OperatorLists \subseteq Seq(People)
ASSUME ProductsAssumption ==
  \A list \in ProductLists :
    /\ list \in Seq({list[i] : i \in DOMAIN list})
    /\ \A i \in DOMAIN list :
         /\ list[i].id \in Nat \ {0}
         /\ DOMAIN list[i].categories \subseteq Category
         /\ \A c \in DOMAIN list[i].categories : list[i].categories[c] \in Seq(DefectType)
    /\ \A i, j \in DOMAIN list : list[i].id = list[j].id => i = j

VARIABLES
  s_operators,          (* the tables, with the names of the source        *)
  s_operator_count,
  s_products,           (* the products' ids                               *)
  s_product_count,
  s_defect_types,
  s_defect_type_counts,
  step,      (* the write the agent does next, "idle" between two messages *)
  entry,     (* the loops' variables: the entry of a list,                 *)
  cat,       (* the category of that product                               *)
  pos,       (* and the defect type in it                                  *)
  operators, (* the last operators configuration received                  *)
  products,  (* the last products configuration received                   *)
  previous,  (* the products configuration before it                       *)
  received   (* how many configurations have been received                 *)

operatorTable == <<s_operators, s_operator_count>>
typeTable     == <<s_defect_types, s_defect_type_counts>>
productTable  == <<s_products, s_product_count, typeTable>>
place         == <<step, entry, cat, pos>>
inbox         == <<operators, products, previous, received>>
tables        == <<operatorTable, productTable, place, inbox>>

Least(a, b) == IF a < b THEN a ELSE b

(* The part of a list that the program keeps: config_parser.c and the      *)
(* tables have the same limits.                                            *)
OperatorsKept(list) == Least(Len(list), MaxOperators)
ProductsKept(list)  == Least(Len(list), MaxProducts)
TypesKept(list)     == Least(Len(list), MaxTypes)

-----------------------------------------------------------------------------
(* What the GUI reads. *)

(* find_product_slot: the first one, 0 when there is none *)
Slots(id) == {i \in 1 .. s_product_count : s_products[i] = id}
FindSlot(id) ==
  IF Slots(id) = {} THEN 0 ELSE CHOOSE i \in Slots(id) : \A j \in Slots(id) : i <= j

(* defect_config_get_defect_types *)
DefectTypes(id, c) ==
  LET slot == FindSlot(id)
  IN IF slot = 0 THEN <<>>
     ELSE [k \in 1 .. s_defect_type_counts[slot][c] |-> s_defect_types[slot][c][k]]

(* operator_list_check_pin: the first entry with this person's PIN, 0 when *)
(* there is none                                                           *)
Matches(person) == {i \in 1 .. s_operator_count : s_operators[i].pin_hash = person}
CheckPin(person) ==
  IF Matches(person) = {} THEN 0
  ELSE CHOOSE i \in Matches(person) : \A j \in Matches(person) : i <= j

Listed(id) == \E i \in 1 .. s_operator_count : s_operators[i].id = id

-----------------------------------------------------------------------------
BlankTypes == [i \in 1 .. MaxProducts |-> [c \in Category |-> [k \in 1 .. MaxTypes |-> Blank]]]
ZeroCounts == [i \in 1 .. MaxProducts |-> [c \in Category |-> 0]]
TablesInit ==
  /\ s_operators = [i \in 1 .. MaxOperators |-> [id |-> 0, pin_hash |-> 0]]
  /\ s_operator_count = 0
  /\ s_products = [i \in 1 .. MaxProducts |-> 0]
  /\ s_product_count = 0
  /\ s_defect_types = BlankTypes
  /\ s_defect_type_counts = ZeroCounts
  /\ step = "idle" /\ entry = 1 /\ cat = "PMP" /\ pos = 1
  /\ operators = <<>>
  /\ products = <<>>
  /\ previous = <<>>
  /\ received = 0

Goto(s, i) == step' = s /\ entry' = i /\ cat' = "PMP" /\ pos' = 1

(* mqtt_callback_config_operators and ..._products: the agent takes up the *)
(* next message only when the last one has been applied.  The messages are *)
(* retained: the same one comes again at every reconnect.                  *)
ReceiveOperators(list) ==
  /\ step = "idle"
  /\ received < MaxConfigs
  /\ operators' = list
  /\ received' = received + 1
  /\ Goto("wipe_id", 1)
  /\ UNCHANGED <<operatorTable, productTable, products, previous>>

ReceiveProducts(list) ==
  /\ step = "idle"
  /\ received < MaxConfigs
  /\ products' = list
  /\ previous' = products
  /\ received' = received + 1
  /\ Goto("wipe_product", 1)
  /\ UNCHANGED <<operatorTable, productTable, operators>>

(* operator_list_set: memset, the entries one by one, the count last. *)
WipeId ==
  /\ step = "wipe_id"
  /\ s_operators' = [s_operators EXCEPT ![entry].id = 0]
  /\ Goto("wipe_pin_hash", entry)
  /\ UNCHANGED <<s_operator_count, productTable, inbox>>

WipePin ==
  /\ step = "wipe_pin_hash"
  /\ s_operators' = [s_operators EXCEPT ![entry].pin_hash = 0]
  /\ IF entry < MaxOperators THEN Goto("wipe_id", entry + 1) ELSE Goto("copy_id", 1)
  /\ UNCHANGED <<s_operator_count, productTable, inbox>>

CopyId ==
  /\ step = "copy_id" /\ entry <= OperatorsKept(operators)
  /\ s_operators' = [s_operators EXCEPT ![entry].id = operators[entry]]
  /\ Goto("copy_pin_hash", entry)
  /\ UNCHANGED <<s_operator_count, productTable, inbox>>

CopyPin ==
  /\ step = "copy_pin_hash"
  /\ s_operators' = [s_operators EXCEPT ![entry].pin_hash = operators[entry]]
  /\ Goto("copy_id", entry + 1)
  /\ UNCHANGED <<s_operator_count, productTable, inbox>>

CountOperators ==
  /\ step = "copy_id" /\ entry > OperatorsKept(operators)
  /\ s_operator_count' = entry - 1
  /\ Goto("idle", 1)
  /\ UNCHANGED <<s_operators, productTable, inbox>>

SetOperators == WipeId \/ WipePin \/ CopyId \/ CopyPin \/ CountOperators

(* clear_all: products, their number, defect types, their numbers.  From    *)
(* the second write on no slot can be found, so how far the memsets of the *)
(* types and of their numbers have come is left out: each is one write.    *)
WipeProduct ==
  /\ step = "wipe_product"
  /\ s_products' = [s_products EXCEPT ![entry] = 0]
  /\ IF entry < MaxProducts THEN Goto("wipe_product", entry + 1) ELSE Goto("no_products", 1)
  /\ UNCHANGED <<s_product_count, typeTable, operatorTable, inbox>>

NoProducts ==
  /\ step = "no_products"
  /\ s_product_count' = 0
  /\ Goto("wipe_types", 1)
  /\ UNCHANGED <<s_products, typeTable, operatorTable, inbox>>

WipeTypes ==
  /\ step = "wipe_types"
  /\ s_defect_types' = BlankTypes
  /\ Goto("wipe_counts", 1)
  /\ UNCHANGED <<s_products, s_product_count, s_defect_type_counts, operatorTable, inbox>>

WipeCounts ==
  /\ step = "wipe_counts"
  /\ s_defect_type_counts' = ZeroCounts
  /\ Goto("copy_product", 1)
  /\ UNCHANGED <<s_products, s_product_count, s_defect_types, operatorTable, inbox>>

ClearAll == WipeProduct \/ NoProducts \/ WipeTypes \/ WipeCounts

(* defect_config_set_products after clear_all *)
CopyProduct ==
  /\ step = "copy_product" /\ entry <= ProductsKept(products)
  /\ s_products' = [s_products EXCEPT ![entry] = products[entry].id]
  /\ Goto("copy_product", entry + 1)
  /\ UNCHANGED <<s_product_count, typeTable, operatorTable, inbox>>

CountProducts ==
  /\ step = "copy_product" /\ entry > ProductsKept(products)
  /\ s_product_count' = entry - 1
  /\ Goto("types", 1)
  /\ UNCHANGED <<s_products, typeTable, operatorTable, inbox>>

(* The loop of config_parser_apply_products over products and categories. *)
NextCategory ==
  IF cat = "PMP"
  THEN cat' = "INJ" /\ pos' = 1 /\ UNCHANGED <<step, entry>>
  ELSE Goto("types", entry + 1)

(* defect_config_set_defect_types: the types one by one, the count last. *)
CopyTypeAndCount(slot, types) ==
  /\ pos <= TypesKept(types)
  /\ s_defect_types' = [s_defect_types EXCEPT ![slot][cat][pos] = types[pos]]
  /\ s_defect_type_counts' = [s_defect_type_counts EXCEPT ![slot][cat] = pos]
  /\ pos' = pos + 1
  /\ UNCHANGED <<step, entry, cat>>
CopyType(slot, types) ==
  /\ pos <= TypesKept(types)
  /\ s_defect_types' = [s_defect_types EXCEPT ![slot][cat][pos] = types[pos]]
  /\ pos' = pos + 1
  /\ UNCHANGED <<s_defect_type_counts, step, entry, cat>>
CountTypes(slot, types) ==
  /\ pos > TypesKept(types)
  /\ s_defect_type_counts' = [s_defect_type_counts EXCEPT ![slot][cat] = pos - 1]
  /\ NextCategory
  /\ UNCHANGED s_defect_types

(* apply_category: nothing for a category that is absent, and nothing for  *)
(* a product that find_product_slot does not find.                         *)
ApplyCategory ==
  LET slot  == FindSlot(products[entry].id)
      types == products[entry].categories[cat]
  IN
  /\ step = "types" /\ entry <= ProductsKept(products)
  /\ IF cat \in DOMAIN products[entry].categories /\ slot # 0
     THEN CopyType(slot, types) \/ CountTypes(slot, types)
     ELSE NextCategory /\ UNCHANGED typeTable
  /\ UNCHANGED <<s_products, s_product_count, operatorTable, inbox>>

Applied ==
  /\ step = "types" /\ entry > ProductsKept(products)
  /\ Goto("idle", 1)
  /\ UNCHANGED <<operatorTable, productTable, inbox>>

(* config_parser_apply_products *)
ApplyProducts == ClearAll \/ CopyProduct \/ CountProducts \/ ApplyCategory \/ Applied

TablesNext ==
  \/ \E list \in OperatorLists : ReceiveOperators(list)
  \/ \E list \in ProductLists : ReceiveProducts(list)
  \/ SetOperators
  \/ ApplyProducts

-----------------------------------------------------------------------------
OperatorSteps == {"wipe_id", "wipe_pin_hash", "copy_id", "copy_pin_hash"}
ProductSteps  ==
  {"wipe_product", "no_products", "wipe_types", "wipe_counts", "copy_product", "types"}

TablesTypeOK ==
  /\ s_operators \in [1 .. MaxOperators -> [id : People \cup {0}, pin_hash : People \cup {0}]]
  /\ s_operator_count \in 0 .. MaxOperators
  /\ s_products \in [1 .. MaxProducts -> Nat]
  /\ s_product_count \in 0 .. MaxProducts
  /\ s_defect_types \in [1 .. MaxProducts -> [Category -> [1 .. MaxTypes -> DefectType]]]
  /\ s_defect_type_counts \in [1 .. MaxProducts -> [Category -> 0 .. MaxTypes]]
  /\ step \in {"idle"} \cup OperatorSteps \cup ProductSteps
  /\ entry \in Nat \ {0} /\ cat \in Category /\ pos \in Nat \ {0}
  /\ operators \in OperatorLists \cup {<<>>}
  /\ products \in ProductLists \cup {<<>>} /\ previous \in ProductLists \cup {<<>>}
  /\ received \in 0 .. MaxConfigs

(* The types a products configuration gives a product's category, as far   *)
(* as the tables have room.                                                *)
TypesIn(list, id, c) ==
  LET Giving == {i \in 1 .. ProductsKept(list) : list[i].id = id /\ c \in DOMAIN list[i].categories}
  IN IF Giving = {} THEN <<>>
     ELSE LET types == list[CHOOSE i \in Giving : TRUE].categories[c]
          IN [k \in 1 .. TypesKept(types) |-> types[k]]

ProductIds == UNION {{list[i].id : i \in DOMAIN list} : list \in ProductLists}

(* Whenever the GUI looks, it finds the defect types of a category whole:  *)
(* those of the newest products configuration or, while that is being      *)
(* applied, those of the one before or none at all; never a list torn      *)
(* between two configurations, although nothing locks the tables.          *)
TypesWhole ==
  \A id \in ProductIds, c \in Category :
    DefectTypes(id, c) \in
      {TypesIn(products, id, c)}
        \cup IF step \in ProductSteps THEN {<<>>, TypesIn(previous, id, c)} ELSE {}
=============================================================================
