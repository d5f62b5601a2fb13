----------------------- MODULE PersistentQueue_proofs -----------------------
(***************************************************************************)
(* Proofs about PersistentQueue for every capacity, message size and       *)
(* sector size, with any mixture of power losses and flash failures: the   *)
(* type invariant, the agreement of the three numbers of the control       *)
(* record, and that a message once stored keeps its content.               *)
(***************************************************************************)
EXTENDS PersistentQueue, TLAPS

-----------------------------------------------------------------------------
(* Arithmetic of the circular array.                                       *)

(* The remainder of a sum of a slot and at most one turn of the array. *)
LEMMA ModSum ==
  ASSUME NEW n \in Nat \ {0}, NEW a \in 0 .. n - 1, NEW b \in 0 .. n
  PROVE  (a + b) % n = IF a + b < n THEN a + b ELSE a + b - n
<1>1. CASE a + b < n
  BY <1>1, SMT
<1>2. CASE a + b >= n
  <2>1. a + b - n \in 0 .. n - 1
    BY <1>2
  <2>2. \A x \in 0 .. n - 1 : (x + n) % n = x
    BY SMT
  <2> QED
    BY <1>2, <2>1, <2>2
<1> QED
  BY <1>1, <1>2

(* A remainder is a slot of the array. *)
LEMMA ModRange ==
  ASSUME NEW n \in Nat \ {0}, NEW x \in Nat
  PROVE  x % n \in 0 .. n - 1
BY SMT

(* Rounding down to a sector keeps the order of addresses. *)
LEMMA DivMonotone ==
  ASSUME NEW n \in Nat \ {0}, NEW x \in Nat, NEW y \in Nat, x <= y
  PROVE  /\ x \div n \in Nat
         /\ y \div n \in Nat
         /\ x \div n <= y \div n
BY SMT

(* The address of a cell, and that the cells of a message are consecutive. *)
LEMMA AddrType ==
  ASSUME NEW s \in Slot, NEW k \in Part
  PROVE  /\ Addr(<<s, k>>) \in Nat
         /\ Addr(<<s, k>>) <= Addr(<<Capacity - 1, MsgCells>>)
<1>1. /\ Capacity \in Nat /\ MsgCells \in Nat /\ MsgCells > 0 /\ Capacity > 0
      /\ s \in Nat /\ s <= Capacity - 1 /\ k \in Nat /\ 1 <= k /\ k <= MsgCells
  BY CapacityAssumption, MsgCellsAssumption DEF Slot, Part
<1>2. s * MsgCells \in Nat
  BY <1>1
<1>3. s * MsgCells <= (Capacity - 1) * MsgCells
  BY <1>1
<1>4. (Capacity - 1) * MsgCells \in Nat
  BY <1>1
<1> QED
  BY <1>1, <1>2, <1>3, <1>4 DEF Addr

LEMMA SectorType ==
  ASSUME NEW s \in Slot, NEW k \in Part
  PROVE  SectorOf(<<s, k>>) \in Sector /\ LastSector \in Nat
<1>1. Capacity - 1 \in Slot /\ MsgCells \in Part
  BY CapacityAssumption, MsgCellsAssumption DEF Slot, Part
<1>2. /\ Addr(<<s, k>>) \in Nat
      /\ Addr(<<Capacity - 1, MsgCells>>) \in Nat
      /\ Addr(<<s, k>>) <= Addr(<<Capacity - 1, MsgCells>>)
  BY <1>1, AddrType
<1> QED
  BY <1>2, SectorCellsAssumption, DivMonotone DEF SectorOf, Sector, LastSector

(* A record whose numbers agree points at a free slot unless it is full. *)
LEMMA WriteSlotFree ==
  ASSUME NEW c \in Control, Consistent(c), c.count < Capacity,
         NEW i \in 0 .. c.count - 1
  PROVE  (c.read_pos + i) % Capacity # c.write_pos
<1>1. /\ Capacity \in Nat \ {0}
      /\ c.read_pos \in 0 .. Capacity - 1
      /\ c.count \in 0 .. Capacity
      /\ i \in 0 .. Capacity
  BY CapacityAssumption DEF Control, Slot
<1>2. (c.read_pos + i) % Capacity
        = IF c.read_pos + i < Capacity THEN c.read_pos + i
          ELSE c.read_pos + i - Capacity
  BY <1>1, ModSum
<1>3. c.write_pos = IF c.read_pos + c.count < Capacity THEN c.read_pos + c.count
                    ELSE c.read_pos + c.count - Capacity
  BY <1>1, ModSum DEF Consistent
<1> QED
  BY <1>1, <1>2, <1>3

(* Storing moves write_pos and count together, retrieving read_pos and     *)
(* count, so the numbers keep agreeing.                                    *)
LEMMA UpdatedConsistent ==
  ASSUME cur \in Control, Consistent(cur),
         op = "store" => cur.count < Capacity,
         op = "retrieve" => cur.count > 0
  PROVE  Updated \in Control /\ Consistent(Updated)
<1>1. /\ Capacity \in Nat \ {0}
      /\ cur.read_pos \in 0 .. Capacity - 1
      /\ cur.write_pos \in 0 .. Capacity - 1
      /\ cur.count \in 0 .. Capacity
  BY CapacityAssumption DEF Control, Slot
<1>2. cur = [write_pos |-> cur.write_pos, read_pos |-> cur.read_pos, count |-> cur.count]
  BY DEF Control
<1>3. cur.write_pos = IF cur.read_pos + cur.count < Capacity THEN cur.read_pos + cur.count
                      ELSE cur.read_pos + cur.count - Capacity
  BY <1>1, ModSum DEF Consistent
<1>4. CASE op = "store"
  <2>1. Updated = [write_pos |-> (cur.write_pos + 1) % Capacity,
                   read_pos |-> cur.read_pos, count |-> cur.count + 1]
    BY <1>2, <1>4 DEF Updated
  <2>2. cur.count + 1 \in 0 .. Capacity /\ 1 \in 0 .. Capacity
    BY <1>1, <1>4
  <2>3. (cur.write_pos + 1) % Capacity
          = IF cur.write_pos + 1 < Capacity THEN cur.write_pos + 1
            ELSE cur.write_pos + 1 - Capacity
    BY <1>1, <2>2, ModSum
  <2>4. (cur.read_pos + (cur.count + 1)) % Capacity
          = IF cur.read_pos + (cur.count + 1) < Capacity THEN cur.read_pos + (cur.count + 1)
            ELSE cur.read_pos + (cur.count + 1) - Capacity
    BY <1>1, <2>2, ModSum
  <2>5. (cur.write_pos + 1) % Capacity = (cur.read_pos + (cur.count + 1)) % Capacity
    BY <1>1, <1>3, <1>4, <2>3, <2>4
  <2> QED
    BY <1>1, <2>1, <2>2, <2>3, <2>5 DEF Control, Slot, Consistent
<1>5. CASE op = "retrieve"
  <2>1. Updated = [write_pos |-> cur.write_pos,
                   read_pos |-> (cur.read_pos + 1) % Capacity, count |-> cur.count - 1]
    BY <1>2, <1>5 DEF Updated
  <2>2. cur.count - 1 \in 0 .. Capacity /\ 1 \in 0 .. Capacity
    BY <1>1, <1>5
  <2>3. (cur.read_pos + 1) % Capacity
          = IF cur.read_pos + 1 < Capacity THEN cur.read_pos + 1
            ELSE cur.read_pos + 1 - Capacity
    BY <1>1, <2>2, ModSum
  <2>4. (cur.read_pos + 1) % Capacity \in 0 .. Capacity - 1
    BY <1>1, <2>3
  <2>5. (((cur.read_pos + 1) % Capacity) + (cur.count - 1)) % Capacity
          = IF ((cur.read_pos + 1) % Capacity) + (cur.count - 1) < Capacity
            THEN ((cur.read_pos + 1) % Capacity) + (cur.count - 1)
            ELSE ((cur.read_pos + 1) % Capacity) + (cur.count - 1) - Capacity
    BY <1>1, <2>2, <2>4, ModSum
  <2>6. cur.write_pos = (((cur.read_pos + 1) % Capacity) + (cur.count - 1)) % Capacity
    BY <1>1, <1>3, <1>5, <2>3, <2>5
  <2> QED
    BY <1>1, <2>1, <2>2, <2>4, <2>6 DEF Control, Slot, Consistent
<1>6. CASE op \notin {"store", "retrieve"}
  BY <1>6 DEF Updated
<1> QED
  BY <1>4, <1>5, <1>6

-----------------------------------------------------------------------------
(* The inductive invariant.  TypeOK and ControlConsistent hold of every    *)
(* step only because of where the running call can be (CallOK), and a      *)
(* sector update preserves its neighbours only because the RAM copy made   *)
(* before the erase is complete (CopyOK).                                  *)

CallOK ==
  /\ op = "none" <=> pc \in {"boot", "idle"}
  /\ pc = "clear" => op = "clear"
  /\ pc \in {"update", "erase", "program", "refill"} => op = "store"
  /\ pc = "programControl" => ctrl = Unreadable
  /\ op = "store" => /\ msg \in Messages
                     /\ cur.count < Capacity
                     /\ pc # "programControl" => ctrl = cur
  /\ op = "retrieve" => /\ msg \in [Part -> Content]
                        /\ cur.count > 0
                        /\ pc \in {"control", "programControl"}

CopyOK ==
  /\ pc = "erase" =>
       /\ DOMAIN buf \subseteq CellsOf(sec)
       /\ \A c \in CellsOf(sec) :
            c[1] # cur.write_pos => data[c] = IF c \in DOMAIN buf THEN buf[c] ELSE Erased
  /\ pc = "refill" => \A c \in DOMAIN buf : data[c] = Erased
  /\ pc = "program" => \A c \in DOMAIN buf : c[1] = cur.write_pos

IInv == TypeOK /\ ControlConsistent /\ CallOK /\ CopyOK

LEMMA EmptyControlOK == EmptyControl \in Control /\ Consistent(EmptyControl)
<1>1. Capacity \in Nat \ {0} /\ 0 \in 0 .. Capacity - 1 /\ 0 \in 0 .. Capacity
  BY CapacityAssumption
<1>2. (0 + 0) % Capacity = 0
  BY <1>1, ModSum
<1> QED
  BY <1>1, <1>2 DEF EmptyControl, Control, Slot, Consistent

LEMMA UnreadableOK == Unreadable \notin Control
BY DistinctAssumption, CapacityAssumption DEF Control, Slot

LEMMA SectorZero == 0 \in Sector
<1>1. 0 \in Slot /\ 1 \in Part
  BY CapacityAssumption, MsgCellsAssumption DEF Slot, Part
<1>2. Addr(<<0, 1>>) = 0
  BY MsgCellsAssumption DEF Addr
<1>3. SectorOf(<<0, 1>>) = 0
  BY <1>2, SectorCellsAssumption, SMT DEF SectorOf
<1> QED
  BY <1>1, <1>3, SectorType

LEMMA InitInv == Init => IInv
BY EmptyControlOK, SectorZero DEF Init, IInv, TypeOK, Content, NoCells,
   ControlConsistent, CallOK, CopyOK

(* The end of a call, in whichever way it ends. *)
LEMMA EndInv ==
  ASSUME IInv, Return \/ PowerLoss, out' \in [Part -> Content] \cup {Nothing},
         data' \in [Cell -> Content],
         ctrl' \in Control \cup {Unreadable},
         ctrl' # Unreadable => Consistent(ctrl')
  PROVE  IInv'
<1>1. /\ pc' \in {"boot", "idle"}
      /\ op' = "none"
      /\ msg' = Nothing
      /\ cur' = EmptyControl
      /\ sec' = 0
      /\ buf' = NoCells
  BY DEF Return, PowerLoss
<1>2. DOMAIN buf' = {}
  BY <1>1 DEF NoCells
<1>3. TypeOK'
  BY <1>1, <1>2, EmptyControlOK, SectorZero DEF TypeOK
<1>4. ControlConsistent'
  BY <1>1, EmptyControlOK DEF ControlConsistent, Consistent
<1>5. CallOK' /\ CopyOK'
  BY <1>1 DEF CallOK, CopyOK
<1> QED
  BY <1>3, <1>4, <1>5 DEF IInv

(* An interrupted command leaves cells with some content. *)
LEMMA InterruptedType ==
  ASSUME IInv, Interrupted
  PROVE  data' \in [Cell -> Content]
<1> USE DEF IInv, TypeOK
<1>1. CASE UNCHANGED data
  BY <1>1
<1>2. CASE \E left \in {Erased, Torn} :
             data' = [c \in Cell |-> IF c \in CellsOf(sec) THEN left ELSE data[c]]
  BY <1>2 DEF Content
<1>3. CASE \E c \in DOMAIN buf : \E left \in {Programmed(data[c], buf[c]), Torn} :
             data' = [data EXCEPT ![c] = left]
  BY <1>3 DEF Content, Programmed
<1> QED
  BY <1>1, <1>2, <1>3 DEF Interrupted

LEMMA QueueInitInv == IInv /\ QueueInit => IInv'
<1> SUFFICES ASSUME IInv, QueueInit PROVE IInv'
  OBVIOUS
<1>1. CASE ctrl # Unreadable
  BY <1>1, EndInv DEF QueueInit, flash, IInv, TypeOK, ControlConsistent, Consistent
<1>2. CASE ctrl = Unreadable
  BY <1>2 DEF QueueInit, flash, IInv, TypeOK, ControlConsistent, Consistent, CallOK, CopyOK
<1> QED
  BY <1>1, <1>2

LEMMA InitMisreadsInv == IInv /\ InitMisreads => IInv'
BY DEF InitMisreads, IInv, TypeOK, ControlConsistent, Consistent, CallOK, CopyOK

LEMMA StoreInv ==
  ASSUME NEW m \in Messages
  PROVE  IInv /\ Store(m) => IInv'
<1> USE DEF HasRoom
<1> SUFFICES ASSUME IInv, Store(m) PROVE IInv'
  OBVIOUS
<1>1. ctrl \in Control /\ Consistent(ctrl)
  BY DEF Store, IInv, TypeOK, ControlConsistent
<1>2. 1 \in Part /\ ctrl.write_pos \in Slot
  BY <1>1, MsgCellsAssumption DEF Part, Control
<1>3. SectorOf(<<ctrl.write_pos, 1>>) \in Sector
  BY <1>2, SectorType
<1>4. TypeOK'
  BY <1>1, <1>3 DEF Store, flash, IInv, TypeOK
<1>5. ControlConsistent'
  BY <1>1 DEF Store, flash, ControlConsistent, Consistent
<1>6. CallOK' /\ CopyOK'
  BY DEF Store, flash, CallOK, CopyOK
<1> QED
  BY <1>4, <1>5, <1>6 DEF IInv

LEMMA RetrieveInv == IInv /\ Retrieve => IInv'
<1> SUFFICES ASSUME IInv, Retrieve PROVE IInv'
  OBVIOUS
<1>1. ctrl \in Control /\ Consistent(ctrl) /\ ctrl.count \in 0 .. Capacity
  BY DEF Retrieve, IInv, TypeOK, ControlConsistent, Control
<1>2. ctrl.read_pos \in Slot /\ data \in [Cell -> Content]
  BY <1>1 DEF Control, IInv, TypeOK
<1>3. msg' \in [Part -> Content]
  BY <1>2 DEF Retrieve, Cell
<1>4. TypeOK'
  BY <1>1, <1>3 DEF Retrieve, flash, IInv, TypeOK
<1>5. ControlConsistent'
  BY <1>1 DEF Retrieve, flash, ControlConsistent, Consistent
<1>6. CallOK' /\ CopyOK'
  BY <1>1, <1>3 DEF Retrieve, CallOK, CopyOK
<1> QED
  BY <1>4, <1>5, <1>6 DEF IInv

LEMMA ClearInv == IInv /\ Clear => IInv'
BY DEF Clear, flash, IInv, TypeOK, ControlConsistent, Consistent, CallOK, CopyOK

(* Moving on to the next sector stays within the data sectors. *)
LEMMA NextChunkType ==
  ASSUME IInv, NextChunk
  PROVE  /\ sec' \in Sector
         /\ pc' \in {"update", "control"}
<1>1. cur.write_pos \in Slot /\ MsgCells \in Part /\ sec \in Sector
  BY MsgCellsAssumption DEF IInv, TypeOK, Control, Part
<1>2. SectorOf(<<cur.write_pos, MsgCells>>) \in Sector /\ LastSector \in Nat
  BY <1>1, SectorType
<1>3. CASE SectorOf(<<cur.write_pos, MsgCells>>) > sec
  BY <1>1, <1>2, <1>3 DEF NextChunk, Sector
<1>4. CASE ~(SectorOf(<<cur.write_pos, MsgCells>>) > sec)
  BY <1>1, <1>4 DEF NextChunk
<1> QED
  BY <1>3, <1>4

LEMMA UpdateSectorInv == IInv /\ UpdateSector => IInv'
<1> SUFFICES ASSUME IInv, UpdateSector PROVE IInv'
  OBVIOUS
<1>1. /\ pc = "update" /\ op = "store" /\ msg \in Messages
      /\ ctrl = cur /\ cur.count < Capacity /\ sec \in Sector
      /\ data \in [Cell -> Content]
  BY DEF UpdateSector, IInv, CallOK, TypeOK
<1>2. UNCHANGED <<data, ctrl, op, msg, cur, out>>
  BY DEF UpdateSector, flash
<1>3. ControlConsistent'
  BY <1>2 DEF IInv, ControlConsistent, Consistent
<1>4. \A c \in Chunk : c \in Cell /\ c[1] = cur.write_pos /\ Wanted(c) \in Content
  BY <1>1 DEF Chunk, CellsOf, Cell, Wanted, Content, Piece
<1>5. CASE NextChunk /\ UNCHANGED buf
  BY <1>1, <1>2, <1>3, <1>5, NextChunkType DEF IInv, TypeOK, CallOK, CopyOK
<1>6. CASE buf' = [c \in Chunk |-> Wanted(c)] /\ pc' = "program" /\ UNCHANGED sec
  BY <1>1, <1>2, <1>3, <1>4, <1>6 DEF IInv, TypeOK, CallOK, CopyOK
<1>7. ASSUME buf' = [c \in {d \in CellsOf(sec) : Merged(d) # Erased} |-> Merged(c)],
             pc' = "erase", UNCHANGED sec
      PROVE  IInv'
  <2>1. \A c \in CellsOf(sec) : c \in Cell /\ Merged(c) \in Content
    BY <1>1, <1>4 DEF CellsOf, Merged
  <2>2. TypeOK'
    BY <1>1, <1>2, <1>7, <2>1 DEF IInv, TypeOK
  <2>3. CallOK'
    BY <1>1, <1>2, <1>7 DEF IInv, CallOK
  <2>4. \A c \in CellsOf(sec) :
          c[1] # cur.write_pos => data[c] = IF c \in DOMAIN buf' THEN buf'[c] ELSE Erased
    BY <1>4, <1>7 DEF Merged
  <2>5. CopyOK'
    BY <1>2, <1>7, <2>4 DEF CopyOK, CellsOf
  <2> QED
    BY <1>3, <2>2, <2>3, <2>5 DEF IInv
<1> QED
  BY <1>5, <1>6, <1>7 DEF UpdateSector

LEMMA EraseSectorInv == IInv /\ EraseSector => IInv'
<1> SUFFICES ASSUME IInv, EraseSector PROVE IInv'
  OBVIOUS
<1>1. data' \in [Cell -> Content]
  BY DEF EraseSector, IInv, TypeOK, Content
<1>2. \A c \in DOMAIN buf' : data'[c] = Erased
  BY DEF EraseSector, call, IInv, CopyOK, CellsOf
<1> QED
  BY <1>1, <1>2 DEF EraseSector, call, IInv, TypeOK, ControlConsistent, Consistent, CallOK, CopyOK

LEMMA ProgramCellInv == IInv /\ ProgramCell => IInv'
<1> SUFFICES ASSUME IInv, ProgramCell PROVE IInv'
  OBVIOUS
<1>1. PICK c \in DOMAIN buf : /\ data' = [data EXCEPT ![c] = Programmed(@, buf[c])]
                             /\ buf' = [d \in DOMAIN buf \ {c} |-> buf[d]]
  BY DEF ProgramCell
<1>2. /\ pc \in {"program", "refill"} /\ op = "store"
      /\ UNCHANGED <<ctrl, op, msg, cur, out>>
  BY DEF ProgramCell, IInv, CallOK
<1>3. data' \in [Cell -> Content]
  BY <1>1 DEF IInv, TypeOK, Content, Programmed
<1>4. \A d \in DOMAIN buf' : d \in DOMAIN buf /\ buf'[d] = buf[d]
  BY <1>1
<1>5. /\ sec' \in Sector
      /\ pc' \in {"update", "control", pc}
  BY NextChunkType DEF ProgramCell, IInv, TypeOK
<1>6. TypeOK'
  BY <1>2, <1>3, <1>4, <1>5 DEF IInv, TypeOK
<1>7. pc' = "refill" => \A d \in DOMAIN buf' : data'[d] = Erased
  BY <1>1, <1>5 DEF IInv, TypeOK, CopyOK
<1>8. ControlConsistent' /\ CallOK' /\ CopyOK'
  BY <1>2, <1>4, <1>5, <1>7 DEF IInv, ControlConsistent, Consistent, CallOK, CopyOK
<1> QED
  BY <1>6, <1>8 DEF IInv

LEMMA ClearSectorInv == IInv /\ ClearSector => IInv'
<1> SUFFICES ASSUME IInv, ClearSector PROVE IInv'
  OBVIOUS
<1>1. data' \in [Cell -> Content]
  BY DEF ClearSector, IInv, TypeOK, Content
<1>2. sec' \in Sector
  <2>1. LastSector \in Nat
    <3>1. 0 \in Slot /\ 1 \in Part
      BY CapacityAssumption, MsgCellsAssumption DEF Slot, Part
    <3> QED
      BY <3>1, SectorType
  <2> QED
    BY <2>1 DEF ClearSector, IInv, TypeOK, Sector
<1>3. pc' \in {"clear", "control"} /\ UNCHANGED <<ctrl, op, msg, cur, buf, out>>
  BY DEF ClearSector
<1> QED
  BY <1>1, <1>2, <1>3
  DEF ClearSector, IInv, TypeOK, ControlConsistent, Consistent, CallOK, CopyOK

(* What a call writes back is a control record whose numbers agree. *)
LEMMA UpdatedOK == IInv => Updated \in Control /\ Consistent(Updated)
BY UpdatedConsistent DEF IInv, TypeOK, ControlConsistent, CallOK

LEMMA WriteControlInv == IInv /\ WriteControl => IInv'
<1> SUFFICES ASSUME IInv, WriteControl PROVE IInv'
  OBVIOUS
<1>1. CASE ctrl = Updated
  BY <1>1, UpdatedOK, EndInv DEF WriteControl, IInv, TypeOK
<1>2. CASE ctrl # Updated
  BY <1>2 DEF WriteControl, call, IInv, TypeOK, ControlConsistent, Consistent, CallOK, CopyOK
<1> QED
  BY <1>1, <1>2

LEMMA ProgramControlInv == IInv /\ ProgramControl => IInv'
<1> SUFFICES ASSUME IInv, ProgramControl PROVE IInv'
  OBVIOUS
<1>1. out' \in [Part -> Content] \cup {Nothing}
  BY DEF ProgramControl, IInv, TypeOK, CallOK
<1> QED
  BY <1>1, UpdatedOK, EndInv DEF ProgramControl, IInv, TypeOK

LEMMA PowerLossInv == IInv /\ PowerLoss => IInv'
BY InterruptedType, EndInv DEF PowerLoss, IInv, TypeOK, ControlConsistent, Consistent

LEMMA FlashFaultInv == IInv /\ FlashFault => IInv'
<1> SUFFICES ASSUME IInv, FlashFault PROVE IInv'
  OBVIOUS
<1>1. data' \in [Cell -> Content]
  BY InterruptedType DEF FlashFault
<1>2. /\ ctrl' \in Control \cup {Unreadable}
      /\ ctrl' # Unreadable => Consistent(ctrl')
  BY UpdatedOK DEF FlashFault, IInv, TypeOK, ControlConsistent, Consistent
<1> QED
  BY <1>1, <1>2, EndInv DEF FlashFault, IInv, TypeOK

LEMMA StutterInv == IInv /\ UNCHANGED vars => IInv'
BY DEF vars, IInv, TypeOK, ControlConsistent, Consistent, CallOK, CopyOK

LEMMA NextInv == IInv /\ [Next]_vars => IInv'
BY QueueInitInv, InitMisreadsInv, StoreInv, RetrieveInv, ClearInv, UpdateSectorInv, EraseSectorInv,
   ProgramCellInv, ClearSectorInv, WriteControlInv, ProgramControlInv, PowerLossInv,
   FlashFaultInv, StutterInv
DEF Next, Works, Step

(* In every reachable state the running call is where its operation can    *)
(* be, and the RAM copy of a sector about to be erased is complete.        *)
THEOREM Invariance == Spec => []IInv
<1>1. Init => IInv
  BY InitInv
<1>2. IInv /\ [Next]_vars => IInv'
  BY NextInv
<1> QED
  BY <1>1, <1>2, PTL DEF Spec

(* Every variable keeps its type, with any faults: no slot, sector or cell *)
(* outside the region is ever addressed.                                   *)
THEOREM TypeCorrect == Spec => []TypeOK
<1>1. IInv => TypeOK
  BY DEF IInv
<1> QED
  BY <1>1, Invariance, PTL

(* The numbers of every readable control record agree, whatever sequence   *)
(* of calls, failed commands and power losses wrote it.                    *)
THEOREM ControlAgrees == Spec => []ControlConsistent
<1>1. IInv => ControlConsistent
  BY DEF IInv
<1> QED
  BY <1>1, Invariance, PTL

-----------------------------------------------------------------------------
(* A stored message keeps its content.                                     *)

LEMMA LiveSlotType == IInv => LiveSlots \subseteq Slot
<1> SUFFICES ASSUME IInv, InForce # Unreadable, NEW i \in 0 .. InForce.count - 1
             PROVE  (InForce.read_pos + i) % Capacity \in Slot
  BY DEF LiveSlots
<1>1. InForce \in Control
  BY DEF InForce, IInv, TypeOK
<1>2. InForce.read_pos + i \in Nat
  BY <1>1, CapacityAssumption DEF Control, Slot
<1> QED
  BY <1>2, CapacityAssumption, ModRange DEF Slot

(* The slot being written is not one of the stored messages. *)
LEMMA WriteSlotNotLive ==
  IInv /\ pc \in {"update", "erase", "program", "refill"} => cur.write_pos \notin LiveSlots
<1> SUFFICES ASSUME IInv, pc \in {"update", "erase", "program", "refill"}
             PROVE  cur.write_pos \notin LiveSlots
  OBVIOUS
<1>1. /\ InForce = cur
      /\ cur \in Control
      /\ Consistent(cur)
      /\ cur.count < Capacity
  BY DEF IInv, CallOK, TypeOK, ControlConsistent, InForce
<1> QED
  BY <1>1, WriteSlotFree DEF LiveSlots

LEMMA NoneLiveWhileClearing == IInv /\ pc = "clear" => LiveSlots = {}
BY DEF IInv, CallOK, LiveSlots

(* A slot keeps its content when each of its cells does. *)
LEMMA StoredByCell ==
  ASSUME NEW s \in Slot, \A k \in Part : View(<<s, k>>)' = View(<<s, k>>)
  PROVE  Stored(s)' = Stored(s)
BY DEF Stored

LEMMA InterruptedIntact ==
  ASSUME IInv, Interrupted, pc \notin {"erase", "refill"},
         pc' \in {"boot", "idle"},
         NEW s \in LiveSlots, NEW k \in Part
  PROVE  View(<<s, k>>)' = View(<<s, k>>)
<1>1. pc # "clear"
  BY NoneLiveWhileClearing
<1>2. data'[<<s, k>>] = data[<<s, k>>]
  <2>1. CASE UNCHANGED data
    BY <2>1
  <2>2. ASSUME pc = "program", NEW c \in DOMAIN buf, NEW left, data' = [data EXCEPT ![c] = left]
        PROVE  data'[<<s, k>>] = data[<<s, k>>]
    <3>1. c[1] # s
      BY <2>2, WriteSlotNotLive DEF IInv, CopyOK
    <3>2. c # <<s, k>>
      BY <3>1
    <3>3. <<s, k>> \in Cell
      BY LiveSlotType DEF Cell
    <3> QED
      BY <2>2, <3>2, <3>3 DEF IInv, TypeOK
  <2> QED
    BY <1>1, <2>1, <2>2 DEF Interrupted
<1> QED
  BY <1>2 DEF View

LEMMA ProgramCellIntact ==
  ASSUME IInv, ProgramCell, NEW s \in LiveSlots, NEW k \in Part
  PROVE  View(<<s, k>>)' = View(<<s, k>>)
<1>1. PICK c \in DOMAIN buf : /\ data' = [data EXCEPT ![c] = Programmed(@, buf[c])]
                             /\ buf' = [d \in DOMAIN buf \ {c} |-> buf[d]]
  BY DEF ProgramCell
<1>2. <<s, k>> \in Cell /\ data \in [Cell -> Content]
  BY LiveSlotType DEF Cell, IInv, TypeOK
<1>3. pc \in {"program", "refill"} /\ (DOMAIN buf' # {} => pc' = pc)
  BY DEF ProgramCell
<1>4. CASE pc = "program"
  <2>1. c # <<s, k>>
    BY <1>4, WriteSlotNotLive DEF IInv, CopyOK
  <2>2. pc' \notin {"erase", "refill"}
    BY <1>4 DEF ProgramCell, NextChunk
  <2> QED
    BY <1>1, <1>2, <1>4, <2>1, <2>2 DEF View
<1>5. CASE pc = "refill" /\ c = <<s, k>>
  <2>1. data'[c] = buf[c]
    BY <1>1, <1>2, <1>5 DEF IInv, CopyOK, Programmed, OnlyClears
  <2> QED
    BY <1>1, <1>5, <2>1 DEF View
<1>6. CASE pc = "refill" /\ c # <<s, k>>
  <2>1. data'[<<s, k>>] = data[<<s, k>>]
    BY <1>1, <1>2, <1>6
  <2>2. CASE <<s, k>> \in DOMAIN buf
    <3>1. <<s, k>> \in DOMAIN buf' /\ buf'[<<s, k>>] = buf[<<s, k>>]
      BY <1>1, <1>6, <2>2
    <3> QED
      BY <1>3, <1>6, <2>2, <3>1 DEF View
  <2>3. CASE <<s, k>> \notin DOMAIN buf
    BY <1>1, <2>1, <2>3 DEF View
  <2> QED
    BY <2>2, <2>3
<1> QED
  BY <1>3, <1>4, <1>5, <1>6

LEMMA UpdateSectorIntact ==
  ASSUME IInv, UpdateSector, NEW s \in LiveSlots, NEW k \in Part
  PROVE  View(<<s, k>>)' = View(<<s, k>>)
<1>1. pc = "update" /\ s # cur.write_pos /\ UNCHANGED <<data, cur>>
  BY WriteSlotNotLive DEF UpdateSector, flash
<1>2. CASE pc' # "erase"
  <2>1. pc' \notin {"erase", "refill"}
    BY <1>2 DEF UpdateSector, NextChunk
  <2> QED
    BY <1>1, <2>1 DEF View
<1>3. CASE pc' = "erase"
  <2>1. buf' = [c \in {d \in CellsOf(sec) : Merged(d) # Erased} |-> Merged(c)]
    BY <1>3 DEF UpdateSector, NextChunk
  <2>2. <<s, k>> \notin Chunk
    BY <1>1 DEF Chunk
  <2>3. <<s, k>> \in DOMAIN buf' => buf'[<<s, k>>] = data[<<s, k>>]
    BY <2>1, <2>2 DEF Merged
  <2> QED
    BY <1>1, <1>3, <2>3 DEF View
<1> QED
  BY <1>2, <1>3

LEMMA EraseSectorIntact ==
  ASSUME IInv, EraseSector, NEW s \in LiveSlots, NEW k \in Part
  PROVE  View(<<s, k>>)' = View(<<s, k>>)
<1>1. /\ pc = "erase" /\ pc' = "refill" /\ s # cur.write_pos /\ UNCHANGED buf
      /\ data' = [c \in Cell |-> IF c \in CellsOf(sec) THEN Erased ELSE data[c]]
  BY WriteSlotNotLive DEF EraseSector, call
<1>2. <<s, k>> \in Cell
  BY LiveSlotType DEF Cell
<1>3. CASE <<s, k>> \in CellsOf(sec)
  <2>1. data[<<s, k>>] = IF <<s, k>> \in DOMAIN buf THEN buf[<<s, k>>] ELSE Erased
    BY <1>1, <1>3 DEF IInv, CopyOK
  <2> QED
    BY <1>1, <1>2, <1>3, <2>1 DEF View
<1>4. CASE <<s, k>> \notin CellsOf(sec)
  BY <1>1, <1>2, <1>4 DEF View
<1> QED
  BY <1>3, <1>4

(* Steps that leave the data sectors alone and touch no RAM copy. *)
LEMMA DataAloneIntact ==
  ASSUME UNCHANGED data, pc \notin {"erase", "refill"}, pc' \notin {"erase", "refill"},
         NEW s, NEW k
  PROVE  View(<<s, k>>)' = View(<<s, k>>)
BY DEF View

LEMMA StepIntact ==
  ASSUME IInv, [Next]_vars, ~CutShort, NEW s \in LiveSlots \cap LiveSlots', NEW k \in Part
  PROVE  View(<<s, k>>)' = View(<<s, k>>)
<1>1. CASE QueueInit
  BY <1>1, DataAloneIntact DEF QueueInit, Return, flash
<1>2. CASE \E m \in Messages : Store(m)
  BY <1>2, DataAloneIntact DEF Store, flash
<1>3. CASE Retrieve
  BY <1>3, DataAloneIntact DEF Retrieve, flash
<1>4. CASE Clear
  BY <1>4, DataAloneIntact DEF Clear, flash
<1>5. CASE UpdateSector
  BY <1>5, UpdateSectorIntact
<1>6. CASE EraseSector
  BY <1>6, EraseSectorIntact
<1>7. CASE ProgramCell
  BY <1>7, ProgramCellIntact
<1>8. CASE ClearSector
  BY <1>8, NoneLiveWhileClearing DEF ClearSector
<1>9. CASE WriteControl
  BY <1>9, DataAloneIntact DEF WriteControl, Return
<1>10. CASE ProgramControl
  BY <1>10, DataAloneIntact DEF ProgramControl, Return
<1>11. CASE PowerLoss
  BY <1>11, InterruptedIntact DEF PowerLoss, CutShort
<1>12. CASE FlashFault
  BY <1>12, InterruptedIntact DEF FlashFault, Return, CutShort
<1>13. CASE InitMisreads
  BY <1>13, DataAloneIntact DEF InitMisreads
<1>14. CASE UNCHANGED vars
  BY <1>14 DEF vars, View
<1> QED
  BY <1>1, <1>2, <1>3, <1>4, <1>5, <1>6, <1>7, <1>8, <1>9, <1>10, <1>11, <1>12, <1>13, <1>14
  DEF Next, Works, Step

(* Whatever is stored, retrieved or cleared next to it, and whatever goes  *)
(* wrong, a message in the queue is damaged only by a call cut short       *)
(* between the erase and the last program command of a sector update.      *)
THEOREM Survival == Spec => SurvivorsIntact
<1>1. IInv /\ [Next]_vars
        => [CutShort \/ \A s \in LiveSlots \cap LiveSlots' : Stored(s)' = Stored(s)]_vars
  <2> SUFFICES ASSUME IInv, [Next]_vars, ~CutShort, NEW s \in LiveSlots \cap LiveSlots'
               PROVE  Stored(s)' = Stored(s)
    OBVIOUS
  <2>1. s \in Slot
    BY LiveSlotType
  <2> QED
    BY <2>1, StepIntact, StoredByCell
<1> QED
  BY <1>1, Invariance, PTL DEF Spec, SurvivorsIntact
=============================================================================
