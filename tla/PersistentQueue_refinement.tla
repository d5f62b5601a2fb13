--------------------- MODULE PersistentQueue_refinement ---------------------
(***************************************************************************)
(* Proof that PersistentQueue implements BoundedFifo for every capacity,   *)
(* message size and sector size: steps that work are calls of the bounded  *)
(* queue or stutter, and the others are its faults, so nothing that goes   *)
(* wrong reorders, repeats or brings back a message.                       *)
(***************************************************************************)
EXTENDS PersistentQueue_proofs, SequenceTheorems

-----------------------------------------------------------------------------
(* What a running call has done so far.  A store has programmed its        *)
(* message up to the sector it works on, and what it still has to program  *)
(* it can program; a retrieve still finds its message where it read it.    *)

Own(k) == <<cur.write_pos, k>>

StoreSoFar ==
  op = "store" => \A k \in Part :
    /\ pc \in {"control", "programControl"} => data[Own(k)] = Wanted(Own(k))
    /\ SectorOf(Own(k)) < sec => data[Own(k)] = Wanted(Own(k))
    /\ pc = "erase" /\ SectorOf(Own(k)) = sec
         => Own(k) \in DOMAIN buf /\ buf[Own(k)] = Wanted(Own(k))
    /\ pc \in {"program", "refill"} /\ SectorOf(Own(k)) = sec
         => IF Own(k) \in DOMAIN buf
            THEN /\ buf[Own(k)] = Wanted(Own(k))
                 /\ OnlyClears(data[Own(k)], Wanted(Own(k)))
            ELSE data[Own(k)] = Wanted(Own(k))

RetrieveSoFar ==
  op = "retrieve" => /\ msg = [k \in Part |-> data[<<cur.read_pos, k>>]]
                     /\ pc = "control" => ctrl = cur

EmptySoFar ==
  /\ op \notin {"store", "retrieve"} => cur = EmptyControl
  /\ op = "init" => pc \in {"control", "programControl"}
  /\ op = "init" /\ pc = "control" => ctrl = Unreadable

OneSector == pc \in {"erase", "program", "refill"} => DOMAIN buf \subseteq CellsOf(sec)

SoFar == StoreSoFar /\ RetrieveSoFar /\ EmptySoFar /\ OneSector

RInv == IInv /\ SoFar

-----------------------------------------------------------------------------
(* RInv is an invariant.                                                   *)

(* A message's cells lie in consecutive sectors. *)
LEMMA PartSectors ==
  ASSUME NEW s \in Slot, NEW k \in Part
  PROVE  /\ SectorOf(<<s, 1>>) \in Nat
         /\ SectorOf(<<s, k>>) \in Nat
         /\ SectorOf(<<s, MsgCells>>) \in Nat
         /\ SectorOf(<<s, 1>>) <= SectorOf(<<s, k>>)
         /\ SectorOf(<<s, k>>) <= SectorOf(<<s, MsgCells>>)
<1>1. /\ MsgCells \in Part /\ 1 \in Part
      /\ 1 <= k /\ k <= MsgCells /\ k \in Nat /\ MsgCells \in Nat
  BY MsgCellsAssumption DEF Part
<1>2. /\ Addr(<<s, 1>>) \in Nat /\ Addr(<<s, k>>) \in Nat /\ Addr(<<s, MsgCells>>) \in Nat
  BY <1>1, AddrType
<1>3. s * MsgCells \in Nat
  BY <1>1, CapacityAssumption DEF Slot
<1>4. Addr(<<s, 1>>) <= Addr(<<s, k>>) /\ Addr(<<s, k>>) <= Addr(<<s, MsgCells>>)
  BY <1>1, <1>3 DEF Addr
<1> QED
  BY <1>2, <1>4, SectorCellsAssumption, DivMonotone DEF SectorOf

LEMMA OwnType ==
  ASSUME IInv, NEW k \in Part
  PROVE  /\ Own(k) \in Cell
         /\ SectorOf(Own(k)) \in Nat
         /\ SectorOf(Own(MsgCells)) \in Nat
         /\ SectorOf(Own(k)) <= SectorOf(Own(MsgCells))
<1>1. cur.write_pos \in Slot
  BY DEF IInv, TypeOK, Control
<1> QED
  BY <1>1, PartSectors DEF Own, Cell

LEMMA LastSectorNat == LastSector \in Nat
<1>1. 0 \in Slot /\ 1 \in Part
  BY CapacityAssumption, MsgCellsAssumption DEF Slot, Part
<1> QED
  BY <1>1, SectorType

(* No call is running: nothing has been done. *)
LEMMA EndSoFar ==
  ASSUME op' = "none", pc' \in {"boot", "idle"}, cur' = EmptyControl
  PROVE  SoFar'
BY DEF SoFar, StoreSoFar, RetrieveSoFar, EmptySoFar, OneSector, EmptyControl

LEMMA InitSoFar == Init => RInv
<1> SUFFICES ASSUME Init PROVE RInv
  OBVIOUS
<1>1. IInv
  BY InitInv
<1>2. SoFar
  BY DEF Init, SoFar, StoreSoFar, RetrieveSoFar, EmptySoFar, OneSector
<1> QED
  BY <1>1, <1>2 DEF RInv

LEMMA QueueInitSoFar == RInv /\ QueueInit => SoFar'
<1> SUFFICES ASSUME RInv, QueueInit PROVE SoFar'
  OBVIOUS
<1>1. CASE ctrl # Unreadable
  BY <1>1, EndSoFar DEF QueueInit, Return
<1>2. CASE ctrl = Unreadable
  <2>1. op = "none" /\ cur = EmptyControl
    BY DEF QueueInit, RInv, IInv, CallOK, SoFar, EmptySoFar
  <2> QED
    BY <1>2, <2>1
    DEF QueueInit, flash, SoFar, StoreSoFar, RetrieveSoFar, EmptySoFar, OneSector
<1> QED
  BY <1>1, <1>2

LEMMA InitMisreadsSoFar == RInv /\ InitMisreads => SoFar'
BY DEF InitMisreads, EmptyControl, RInv, IInv, CallOK, SoFar, StoreSoFar, RetrieveSoFar,
   EmptySoFar, OneSector

LEMMA StoreSoFarLemma ==
  ASSUME NEW m \in Messages, RInv, Store(m)
  PROVE  SoFar'
<1>1. ctrl.write_pos \in Slot
  BY DEF Store, RInv, IInv, TypeOK, Control
<1>2. \A k \in Part : ~(SectorOf(<<ctrl.write_pos, k>>) < sec')
  <2> TAKE k \in Part
  <2>1. /\ SectorOf(<<ctrl.write_pos, 1>>) \in Nat
        /\ SectorOf(<<ctrl.write_pos, k>>) \in Nat
        /\ SectorOf(<<ctrl.write_pos, 1>>) <= SectorOf(<<ctrl.write_pos, k>>)
    BY <1>1, PartSectors
  <2>2. sec' = SectorOf(<<ctrl.write_pos, 1>>)
    BY DEF Store
  <2> QED
    BY <2>1, <2>2
<1> QED
  <2>1. op' = "store" /\ pc' = "update" /\ cur' = ctrl
    BY DEF Store
  <2>2. \A k \in Part : ~(SectorOf(Own(k)) < sec)'
    BY <1>2, <2>1 DEF Own, SectorOf, Addr
  <2>3. StoreSoFar'
    BY <2>1, <2>2 DEF StoreSoFar
  <2> QED
    BY <2>1, <2>3 DEF SoFar, RetrieveSoFar, EmptySoFar, OneSector

LEMMA RetrieveSoFarLemma == RInv /\ Retrieve => SoFar'
BY DEF Retrieve, flash, SoFar, StoreSoFar, RetrieveSoFar, EmptySoFar, OneSector

LEMMA ClearSoFar == RInv /\ Clear => SoFar'
BY DEF Clear, flash, RInv, IInv, CallOK, SoFar, StoreSoFar, RetrieveSoFar, EmptySoFar, OneSector

(* When the sector worked on holds all of the message it should, going on  *)
(* to the next one leaves no part behind.                                  *)
LEMMA NextChunkSoFar ==
  ASSUME IInv, NextChunk, op = "store", op' = "store", UNCHANGED <<cur, msg>>,
         \A k \in Part : SectorOf(Own(k)) <= sec => data'[Own(k)] = Wanted(Own(k))
  PROVE  SoFar'
<1>1. sec \in Nat
  BY LastSectorNat DEF IInv, TypeOK, Sector
<1>2. pc' \in {"update", "control"}
  BY DEF NextChunk
<1>3. \A k \in Part : /\ Own(k)' = Own(k)
                      /\ Wanted(Own(k))' = Wanted(Own(k))
                      /\ SectorOf(Own(k))' = SectorOf(Own(k))
  BY DEF Own, Wanted, SectorOf, Addr
<1>4. \A k \in Part : /\ pc' = "control" => data'[Own(k)] = Wanted(Own(k))
                      /\ SectorOf(Own(k)) < sec' => data'[Own(k)] = Wanted(Own(k))
  <2> TAKE k \in Part
  <2>1. /\ SectorOf(Own(k)) \in Nat /\ SectorOf(Own(MsgCells)) \in Nat
        /\ SectorOf(Own(k)) <= SectorOf(Own(MsgCells))
    BY OwnType
  <2> QED
    BY <1>1, <2>1 DEF NextChunk, Own
<1> QED
  BY <1>2, <1>3, <1>4 DEF SoFar, StoreSoFar, RetrieveSoFar, EmptySoFar, OneSector
LEMMA UpdateSectorSoFar == RInv /\ UpdateSector => SoFar'
<1> SUFFICES ASSUME RInv, UpdateSector PROVE SoFar'
  OBVIOUS
<1>1. /\ IInv /\ pc = "update" /\ op = "store" /\ op' = "store"
      /\ UNCHANGED <<data, cur, msg>>
  BY DEF UpdateSector, flash, RInv, IInv, CallOK
<1>2. \A k \in Part : /\ Own(k)' = Own(k)
                      /\ Wanted(Own(k))' = Wanted(Own(k))
                      /\ SectorOf(Own(k))' = SectorOf(Own(k))
  BY <1>1 DEF Own, Wanted, SectorOf, Addr
<1>3. \A k \in Part : /\ Own(k) \in Cell
                      /\ SectorOf(Own(k)) \in Nat
                      /\ SectorOf(Own(k)) < sec => data[Own(k)] = Wanted(Own(k))
  BY <1>1, OwnType DEF RInv, SoFar, StoreSoFar
<1>4. \A k \in Part : SectorOf(Own(k)) = sec => Own(k) \in Chunk
  BY <1>3 DEF Chunk, CellsOf, Own
<1>5. sec \in Nat
  BY <1>1, LastSectorNat DEF IInv, TypeOK, Sector
<1>6. CASE /\ \A c \in Chunk : data[c] = Wanted(c)
           /\ NextChunk
  <2>1. \A k \in Part : SectorOf(Own(k)) <= sec => data'[Own(k)] = Wanted(Own(k))
    BY <1>1, <1>3, <1>4, <1>5, <1>6
  <2> QED
    BY <1>1, <1>6, <2>1, NextChunkSoFar
<1>7. CASE /\ \A c \in Chunk : CanProgram(data[c], Wanted(c))
           /\ buf' = [c \in Chunk |-> Wanted(c)]
           /\ pc' = "program"
           /\ UNCHANGED sec
  <2>1. \A k \in Part : SectorOf(Own(k)) = sec =>
          /\ Own(k) \in DOMAIN buf'
          /\ buf'[Own(k)] = Wanted(Own(k))
          /\ OnlyClears(data[Own(k)], Wanted(Own(k)))
    BY <1>4, <1>7 DEF CanProgram
  <2>2. StoreSoFar'
    BY <1>1, <1>2, <1>3, <1>7, <2>1 DEF StoreSoFar
  <2>3. OneSector'
    BY <1>7 DEF OneSector, Chunk, CellsOf, SectorOf, Addr
  <2> QED
    BY <1>1, <2>2, <2>3 DEF SoFar, RetrieveSoFar, EmptySoFar
<1>8. CASE /\ buf' = [c \in {d \in CellsOf(sec) : Merged(d) # Erased} |-> Merged(c)]
           /\ pc' = "erase"
           /\ UNCHANGED sec
  <2>1. \A k \in Part : SectorOf(Own(k)) = sec =>
          Own(k) \in DOMAIN buf' /\ buf'[Own(k)] = Wanted(Own(k))
    <3> SUFFICES ASSUME NEW k \in Part, SectorOf(Own(k)) = sec
                 PROVE  Own(k) \in DOMAIN buf' /\ buf'[Own(k)] = Wanted(Own(k))
      OBVIOUS
    <3>1. Own(k) \in Chunk /\ Own(k) \in CellsOf(sec)
      BY <1>4 DEF Chunk
    <3>2. Wanted(Own(k)) # Erased
      BY <1>1, DistinctAssumption DEF RInv, IInv, CallOK, Wanted, Own, Part
    <3> QED
      BY <1>8, <3>1, <3>2 DEF Merged
  <2>2. StoreSoFar'
    BY <1>1, <1>2, <1>3, <1>8, <2>1 DEF StoreSoFar
  <2>3. OneSector'
    BY <1>8 DEF OneSector, CellsOf, SectorOf, Addr
  <2> QED
    BY <1>1, <2>2, <2>3 DEF SoFar, RetrieveSoFar, EmptySoFar
<1> QED
  BY <1>6, <1>7, <1>8 DEF UpdateSector

LEMMA EraseSectorSoFar == RInv /\ EraseSector => SoFar'
<1> SUFFICES ASSUME RInv, EraseSector PROVE SoFar'
  OBVIOUS
<1>1. /\ IInv /\ pc = "erase" /\ pc' = "refill" /\ op = "store" /\ op' = "store"
      /\ data' = [c \in Cell |-> IF c \in CellsOf(sec) THEN Erased ELSE data[c]]
      /\ UNCHANGED <<cur, msg, sec, buf>>
  BY DEF EraseSector, call, RInv, IInv, CallOK
<1>2. \A k \in Part : /\ Own(k)' = Own(k)
                      /\ Wanted(Own(k))' = Wanted(Own(k))
                      /\ SectorOf(Own(k))' = SectorOf(Own(k))
  BY <1>1 DEF Own, Wanted, SectorOf, Addr
<1>3. sec \in Nat
  BY <1>1, LastSectorNat DEF IInv, TypeOK, Sector
<1>4. \A k \in Part : SectorOf(Own(k)) < sec => data'[Own(k)] = Wanted(Own(k))
  BY <1>1, <1>3, OwnType DEF CellsOf, RInv, SoFar, StoreSoFar
<1>5. \A k \in Part : SectorOf(Own(k)) = sec =>
        /\ Own(k) \in DOMAIN buf
        /\ buf[Own(k)] = Wanted(Own(k))
        /\ OnlyClears(data'[Own(k)], Wanted(Own(k)))
  BY <1>1, OwnType DEF CellsOf, RInv, SoFar, StoreSoFar, OnlyClears
<1>6. StoreSoFar'
  BY <1>1, <1>2, <1>4, <1>5 DEF StoreSoFar
<1>7. OneSector'
  BY <1>1 DEF RInv, SoFar, OneSector, CellsOf, SectorOf, Addr
<1> QED
  BY <1>1, <1>6, <1>7 DEF SoFar, RetrieveSoFar, EmptySoFar

LEMMA ProgramCellSoFar == RInv /\ ProgramCell => SoFar'
<1> SUFFICES ASSUME RInv, ProgramCell PROVE SoFar'
  OBVIOUS
<1>1. /\ IInv /\ pc \in {"program", "refill"} /\ op = "store" /\ op' = "store"
      /\ UNCHANGED <<cur, msg>>
      /\ DOMAIN buf \subseteq CellsOf(sec)
      /\ data \in [Cell -> Content]
  BY DEF ProgramCell, RInv, IInv, CallOK, SoFar, OneSector, TypeOK
<1>2. PICK c \in DOMAIN buf : /\ data' = [data EXCEPT ![c] = Programmed(@, buf[c])]
                             /\ buf' = [d \in DOMAIN buf \ {c} |-> buf[d]]
  BY DEF ProgramCell
<1>3. \A k \in Part : /\ Own(k)' = Own(k)
                      /\ Wanted(Own(k))' = Wanted(Own(k))
                      /\ SectorOf(Own(k))' = SectorOf(Own(k))
  BY <1>1 DEF Own, Wanted, SectorOf, Addr
<1>4. sec \in Nat
  BY <1>1, LastSectorNat DEF IInv, TypeOK, Sector
<1>5. \A k \in Part : SectorOf(Own(k)) < sec => data'[Own(k)] = Wanted(Own(k))
  <2> SUFFICES ASSUME NEW k \in Part, SectorOf(Own(k)) < sec
               PROVE  data'[Own(k)] = Wanted(Own(k))
    OBVIOUS
  <2>1. Own(k) # c
    BY <1>1, <1>4 DEF CellsOf
  <2>2. data[Own(k)] = Wanted(Own(k))
    BY <1>1 DEF RInv, SoFar, StoreSoFar
  <2> QED
    BY <1>1, <1>2, <2>1, <2>2, OwnType
<1>6. \A k \in Part : SectorOf(Own(k)) = sec =>
        IF Own(k) \in DOMAIN buf'
        THEN /\ buf'[Own(k)] = Wanted(Own(k))
             /\ OnlyClears(data'[Own(k)], Wanted(Own(k)))
        ELSE data'[Own(k)] = Wanted(Own(k))
  <2> SUFFICES ASSUME NEW k \in Part, SectorOf(Own(k)) = sec
               PROVE  IF Own(k) \in DOMAIN buf'
                      THEN /\ buf'[Own(k)] = Wanted(Own(k))
                           /\ OnlyClears(data'[Own(k)], Wanted(Own(k)))
                      ELSE data'[Own(k)] = Wanted(Own(k))
    OBVIOUS
  <2>1. IF Own(k) \in DOMAIN buf
        THEN /\ buf[Own(k)] = Wanted(Own(k))
             /\ OnlyClears(data[Own(k)], Wanted(Own(k)))
        ELSE data[Own(k)] = Wanted(Own(k))
    BY <1>1 DEF RInv, SoFar, StoreSoFar
  <2>2. CASE c = Own(k)
    BY <1>1, <1>2, <2>1, <2>2, OwnType DEF Programmed
  <2>3. CASE c # Own(k)
    <3>1. data'[Own(k)] = data[Own(k)]
      BY <1>1, <1>2, <2>3, OwnType
    <3> QED
      BY <1>2, <2>1, <2>3, <3>1
  <2> QED
    BY <2>2, <2>3
<1>7. CASE DOMAIN buf' = {}
  <2>1. \A k \in Part : SectorOf(Own(k)) <= sec => data'[Own(k)] = Wanted(Own(k))
    BY <1>1, <1>4, <1>5, <1>6, <1>7, OwnType
  <2> QED
    BY <1>1, <1>7, <2>1, NextChunkSoFar DEF ProgramCell
<1>8. CASE DOMAIN buf' # {}
  <2>1. UNCHANGED <<pc, sec>>
    BY <1>8 DEF ProgramCell
  <2>2. StoreSoFar'
    BY <1>1, <1>3, <1>5, <1>6, <2>1 DEF StoreSoFar
  <2>3. DOMAIN buf' \subseteq CellsOf(sec)
    BY <1>1, <1>2
  <2>4. OneSector'
    BY <2>1, <2>3 DEF OneSector, CellsOf, SectorOf, Addr
  <2> QED
    BY <1>1, <2>2, <2>4 DEF SoFar, RetrieveSoFar, EmptySoFar
<1> QED
  BY <1>7, <1>8

LEMMA ClearSectorSoFar == RInv /\ ClearSector => SoFar'
<1> SUFFICES ASSUME RInv, ClearSector PROVE SoFar'
  OBVIOUS
<1>1. /\ op = "clear" /\ op' = "clear" /\ pc' \in {"clear", "control"}
      /\ cur = EmptyControl /\ cur' = EmptyControl
  BY DEF ClearSector, RInv, IInv, CallOK, SoFar, EmptySoFar, EmptyControl
<1> QED
  BY <1>1 DEF SoFar, StoreSoFar, RetrieveSoFar, EmptySoFar, OneSector, EmptyControl

LEMMA WriteControlSoFar == RInv /\ WriteControl => SoFar'
<1> SUFFICES ASSUME RInv, WriteControl PROVE SoFar'
  OBVIOUS
<1>1. CASE ctrl = Updated
  BY <1>1, EndSoFar DEF WriteControl, Return
<1>2. CASE ctrl # Updated
  BY <1>2 DEF WriteControl, call, RInv, SoFar, StoreSoFar, RetrieveSoFar, EmptySoFar,
     OneSector, Own, Wanted, SectorOf, Addr, EmptyControl
<1> QED
  BY <1>1, <1>2

LEMMA RestSoFar ==
  ASSUME RInv, ProgramControl \/ PowerLoss \/ FlashFault
  PROVE  SoFar'
BY EndSoFar DEF ProgramControl, PowerLoss, FlashFault, Return

LEMMA StutterSoFar == RInv /\ UNCHANGED vars => SoFar'
BY DEF vars, RInv, SoFar, StoreSoFar, RetrieveSoFar, EmptySoFar, OneSector, Own, Wanted,
   SectorOf, Addr, EmptyControl, CellsOf

LEMMA NextSoFar == RInv /\ [Next]_vars => RInv'
<1> SUFFICES ASSUME RInv, [Next]_vars PROVE SoFar'
  BY NextInv DEF RInv
<1> QED
  BY QueueInitSoFar, InitMisreadsSoFar, StoreSoFarLemma, RetrieveSoFarLemma, ClearSoFar, UpdateSectorSoFar,
     EraseSectorSoFar, ProgramCellSoFar, ClearSectorSoFar, WriteControlSoFar, RestSoFar,
     StutterSoFar
  DEF Next, Works, Step

(* Whatever has gone wrong before, a running store has written its message *)
(* whole into every sector it has left behind, and a running retrieve      *)
(* returns what is still in the slot it is about to free.                  *)
THEOREM Progress == Spec => []RInv
<1>1. Init => RInv
  BY InitSoFar
<1>2. RInv /\ [Next]_vars => RInv'
  BY NextSoFar
<1> QED
  BY <1>1, <1>2, PTL DEF Spec

-----------------------------------------------------------------------------
(* The queue a control record describes.                                   *)

LEMMA EmptyFunction == ASSUME NEW f(_) PROVE [i \in 1 .. 0 |-> f(i)] = <<>>
OBVIOUS

LEMMA FunctionIsSeq ==
  ASSUME NEW S, NEW n \in Nat, NEW f \in [1 .. n -> S]
  PROVE  f \in Seq(S) /\ Len(f) = n
<1>1. f \in Seq(S)
  BY SeqDef, Zenon
<1> QED
  BY <1>1, LenProperties

LEMMA AppendFunction ==
  ASSUME NEW S, NEW n \in Nat, NEW f \in [1 .. n -> S], NEW g \in [1 .. n + 1 -> S],
         NEW x \in S, \A i \in 1 .. n : g[i] = f[i], g[n + 1] = x
  PROVE  Len(f) = n /\ g = Append(f, x)
<1>1. f \in Seq(S) /\ Len(f) = n /\ g \in Seq(S) /\ Len(g) = n + 1
  <2>1. n + 1 \in Nat
    OBVIOUS
  <2> QED
    BY <2>1, FunctionIsSeq
<1>2. /\ Append(f, x) \in Seq(S)
      /\ Len(Append(f, x)) = n + 1
      /\ \A i \in 1 .. n : Append(f, x)[i] = f[i]
      /\ Append(f, x)[n + 1] = x
  BY <1>1, AppendProperties
<1>3. \A i \in 1 .. n + 1 : g[i] = Append(f, x)[i]
  BY <1>2
<1> QED
  BY <1>1, <1>2, <1>3, SeqEqual

LEMMA TailFunction ==
  ASSUME NEW S, NEW n \in Nat, n > 0, NEW f \in [1 .. n -> S], NEW g \in [1 .. n - 1 -> S],
         \A i \in 1 .. n - 1 : g[i] = f[i + 1]
  PROVE  f # <<>> /\ Head(f) = f[1] /\ g = Tail(f)
<1>1. f \in Seq(S) /\ Len(f) = n /\ g \in Seq(S) /\ Len(g) = n - 1
  <2>1. n - 1 \in Nat
    OBVIOUS
  <2> QED
    BY <2>1, FunctionIsSeq
<1>2. f # <<>>
  BY <1>1, EmptySeq
<1>3. /\ Tail(f) \in Seq(S)
      /\ Len(Tail(f)) = n - 1
      /\ \A i \in 1 .. n - 1 : Tail(f)[i] = f[i + 1]
  BY <1>1, <1>2, HeadTailProperties
<1>4. g = Tail(f)
  BY <1>1, <1>3, SeqEqual
<1> QED
  BY <1>1, <1>2, <1>4

LEMMA QueueOf ==
  ASSUME IInv, InForce # Unreadable
  PROVE  /\ InForce \in Control
         /\ InForce.count \in Nat /\ InForce.count <= Capacity
         /\ DOMAIN Queue = 1 .. InForce.count
         /\ Queue \in [1 .. InForce.count -> [Part -> Content]]
         /\ \A i \in 1 .. InForce.count :
              /\ (InForce.read_pos + i - 1) % Capacity \in Slot
              /\ Queue[i] = Stored((InForce.read_pos + i - 1) % Capacity)
              /\ op # "clear" => (InForce.read_pos + i - 1) % Capacity \in LiveSlots
<1>1. InForce \in Control
  BY DEF InForce, IInv, TypeOK
<1>2. InForce.count \in Nat /\ InForce.count <= Capacity
  BY <1>1, CapacityAssumption DEF Control
<1>3. InForce.read_pos \in Nat
  BY <1>1, CapacityAssumption DEF Control, Slot
<1>4. \A i \in 1 .. InForce.count : (InForce.read_pos + i - 1) % Capacity \in Slot
  BY <1>2, <1>3, CapacityAssumption, ModRange DEF Slot
<1>5. Queue = [i \in 1 .. InForce.count |-> Stored((InForce.read_pos + i - 1) % Capacity)]
  BY DEF Queue
<1>6. ASSUME NEW i \in 1 .. InForce.count, op # "clear"
      PROVE  (InForce.read_pos + i - 1) % Capacity \in LiveSlots
  <2>1. i - 1 \in 0 .. InForce.count - 1 /\ InForce.read_pos + (i - 1) = InForce.read_pos + i - 1
    BY <1>2, <1>3
  <2>2. LiveSlots = {(InForce.read_pos + j) % Capacity : j \in 0 .. InForce.count - 1}
    BY <1>6 DEF LiveSlots
  <2> QED
    BY <2>1, <2>2
<1>7. \A i \in 1 .. InForce.count :
        Stored((InForce.read_pos + i - 1) % Capacity) \in [Part -> Content]
  BY <1>4 DEF Stored, View, IInv, TypeOK, Cell
<1>8. Queue \in [1 .. InForce.count -> [Part -> Content]]
  BY <1>5, <1>7
<1> QED
  BY <1>1, <1>2, <1>4, <1>5, <1>6, <1>8

LEMMA EmptyQueue == InForce = Unreadable \/ InForce = EmptyControl => Queue = <<>>
<1>1. CASE InForce = Unreadable
  BY <1>1 DEF Queue
<1>2. CASE InForce # Unreadable /\ InForce = EmptyControl
  <2>1. InForce.count = 0
    BY <1>2 DEF EmptyControl
  <2> QED
    BY <1>2, <2>1, EmptyFunction DEF Queue
<1> QED
  BY <1>1, <1>2

(* A step that leaves the control record in force and every stored message *)
(* alone leaves the queue alone.                                           *)
LEMMA SameQueue ==
  ASSUME IInv, InForce # Unreadable, InForce' = InForce,
         \A i \in 1 .. InForce.count :
            \A k \in Part : LET s == (InForce.read_pos + i - 1) % Capacity
                            IN  View(<<s, k>>)' = View(<<s, k>>)
  PROVE  Queue' = Queue
<1>1. Queue' = [i \in 1 .. InForce.count |-> Stored((InForce.read_pos + i - 1) % Capacity)']
  BY DEF Queue
<1>2. \A i \in 1 .. InForce.count :
        Stored((InForce.read_pos + i - 1) % Capacity)'
          = Stored((InForce.read_pos + i - 1) % Capacity)
  BY DEF Stored
<1>3. Queue = [i \in 1 .. InForce.count |-> Stored((InForce.read_pos + i - 1) % Capacity)]
  BY DEF Queue
<1> QED
  BY <1>1, <1>2, <1>3

LEMMA QuietStep ==
  ASSUME IInv, [Next]_vars, ~CutShort, op # "clear", op' # "clear",
         InForce # Unreadable, InForce' = InForce
  PROVE  Queue' = Queue
<1>1. LiveSlots' = LiveSlots
  BY DEF LiveSlots
<1>2. \A i \in 1 .. InForce.count :
        \A k \in Part : LET s == (InForce.read_pos + i - 1) % Capacity
                        IN  View(<<s, k>>)' = View(<<s, k>>)
  BY <1>1, QueueOf, StepIntact
<1> QED
  BY <1>2, SameQueue

-----------------------------------------------------------------------------
(* Storing and retrieving are Append and Tail.                             *)

(* Slots of the array seen from a record that store or retrieve updated. *)
LEMMA UpdatedSlots ==
  ASSUME IInv, op \in {"store", "retrieve"}
  PROVE  /\ cur \in Control /\ Updated \in Control
         /\ cur.count \in Nat /\ cur.read_pos \in Nat
         /\ op = "store" =>
              /\ Updated.count = cur.count + 1
              /\ Updated.read_pos = cur.read_pos
              /\ (cur.read_pos + (cur.count + 1) - 1) % Capacity = cur.write_pos
              /\ cur.count < Capacity
         /\ op = "retrieve" =>
              /\ cur.count > 0
              /\ Updated.count = cur.count - 1
              /\ \A i \in 1 .. cur.count - 1 :
                   (Updated.read_pos + i - 1) % Capacity = (cur.read_pos + (i + 1) - 1) % Capacity
<1>1. /\ cur \in Control /\ Updated \in Control
      /\ cur.count \in 0 .. Capacity /\ cur.read_pos \in 0 .. Capacity - 1
      /\ Capacity \in Nat \ {0}
      /\ cur.write_pos = (cur.read_pos + cur.count) % Capacity
      /\ op = "store" => cur.count < Capacity
      /\ op = "retrieve" => cur.count > 0
  BY UpdatedOK, CapacityAssumption
  DEF IInv, TypeOK, CallOK, ControlConsistent, Consistent, Control, Slot
<1>2. CASE op = "store"
  <2>1. Updated.count = cur.count + 1 /\ Updated.read_pos = cur.read_pos
    BY <1>1, <1>2 DEF Updated, Control
  <2>2. cur.read_pos + (cur.count + 1) - 1 = cur.read_pos + cur.count
    BY <1>1
  <2> QED
    BY <1>1, <1>2, <2>1, <2>2
<1>3. CASE op = "retrieve"
  <2>1. Updated.count = cur.count - 1 /\ Updated.read_pos = (cur.read_pos + 1) % Capacity
    BY <1>1, <1>3 DEF Updated, Control
  <2>2. ASSUME NEW i \in 1 .. cur.count - 1
        PROVE  (Updated.read_pos + i - 1) % Capacity = (cur.read_pos + (i + 1) - 1) % Capacity
    <3>1. i - 1 \in 0 .. Capacity /\ i \in 0 .. Capacity /\ 1 \in 0 .. Capacity
      BY <1>1
    <3>2. (cur.read_pos + 1) % Capacity
            = IF cur.read_pos + 1 < Capacity THEN cur.read_pos + 1
              ELSE cur.read_pos + 1 - Capacity
      BY <1>1, <3>1, ModSum
    <3>3. Updated.read_pos \in 0 .. Capacity - 1
      BY <1>1, <2>1, <3>2
    <3>4. (Updated.read_pos + (i - 1)) % Capacity
            = IF Updated.read_pos + (i - 1) < Capacity THEN Updated.read_pos + (i - 1)
              ELSE Updated.read_pos + (i - 1) - Capacity
      BY <1>1, <3>1, <3>3, ModSum
    <3>5. (cur.read_pos + i) % Capacity
            = IF cur.read_pos + i < Capacity THEN cur.read_pos + i
              ELSE cur.read_pos + i - Capacity
      BY <1>1, <3>1, ModSum
    <3>6. (Updated.read_pos + (i - 1)) % Capacity = (cur.read_pos + i) % Capacity
      <4> DEFINE r == cur.read_pos
                 u == Updated.read_pos
                 N == Capacity
                 a == (u + (i - 1)) % N
                 b == (r + i) % N
      <4>1. /\ r \in 0 .. N - 1 /\ N \in Nat /\ N > 0 /\ i \in 0 .. N /\ i >= 1
            /\ u = IF r + 1 < N THEN r + 1 ELSE r + 1 - N
            /\ a = IF u + (i - 1) < N THEN u + (i - 1) ELSE u + (i - 1) - N
            /\ b = IF r + i < N THEN r + i ELSE r + i - N
        BY <1>1, <2>1, <3>1, <3>2, <3>4, <3>5
      <4> HIDE DEF r, u, N, a, b
      <4>2. a = b
        BY <4>1
      <4> QED
        BY <4>2 DEF r, u, N, a, b
    <3>7. /\ Updated.read_pos + i - 1 = Updated.read_pos + (i - 1)
          /\ cur.read_pos + (i + 1) - 1 = cur.read_pos + i
      BY <1>1, <3>1, <3>3
    <3> QED
      BY <3>6, <3>7
  <2> QED
    BY <1>1, <1>3, <2>1, <2>2
<1> QED
  BY <1>1, <1>2, <1>3

(* The control record of a finished store or retrieve comes into force. *)
Slice(s) == [k \in Part |-> data[<<s, k>>]]

LEMMA ControlDone ==
  ASSUME RInv, pc \in {"control", "programControl"}, op \in {"store", "retrieve"},
         UNCHANGED data, pc' = "idle", ctrl' = Updated
  PROVE  /\ InForce = cur /\ InForce # Unreadable
         /\ \A s \in Slot : Stored(s) = Slice(s)
         /\ Queue' = [i \in 1 .. Updated.count |->
                         Slice((Updated.read_pos + i - 1) % Capacity)]
<1>1. InForce = cur
  BY DEF InForce, RInv, IInv, CallOK, SoFar, RetrieveSoFar
<1>2. InForce' = Updated
  BY DEF InForce
<1>3. cur \in Control /\ Updated \in Control /\ Updated # Unreadable /\ cur # Unreadable
  BY UpdatedOK, UnreadableOK DEF RInv, IInv, TypeOK
<1>4. \A s \in Slot : Stored(s) = Slice(s)
  BY DEF View, Stored, Slice
<1>5. Queue' = [i \in 1 .. Updated.count |->
                  [k \in Part |-> data[<<(Updated.read_pos + i - 1) % Capacity, k>>]]]
  BY <1>2, <1>3 DEF Queue, Stored, View
<1> QED
  BY <1>1, <1>3, <1>4, <1>5 DEF Slice

LEMMA StorePuts ==
  ASSUME RInv, pc \in {"control", "programControl"}, op = "store",
         UNCHANGED data, pc' = "idle", ctrl' = Updated
  PROVE  /\ Len(Queue) < Capacity
         /\ msg \in Messages
         /\ Queue' = Append(Queue, Whole(msg))
<1> DEFINE n == cur.count
<1>1. /\ InForce = cur /\ InForce # Unreadable
      /\ \A s \in Slot : Stored(s) = Slice(s)
      /\ Queue' = [i \in 1 .. Updated.count |->
                      Slice((Updated.read_pos + i - 1) % Capacity)]
  BY ControlDone
<1>2. /\ n \in Nat /\ cur.read_pos \in Nat
      /\ Updated.count = n + 1 /\ Updated.read_pos = cur.read_pos
      /\ (cur.read_pos + (n + 1) - 1) % Capacity = cur.write_pos
      /\ n < Capacity
  BY UpdatedSlots DEF RInv
<1>3. /\ Queue \in [1 .. n -> [Part -> Content]]
      /\ \A i \in 1 .. n : /\ (cur.read_pos + i - 1) % Capacity \in Slot
                           /\ Queue[i] = Slice((cur.read_pos + i - 1) % Capacity)
  BY <1>1, QueueOf DEF RInv
<1>4. \A i \in 1 .. n : Queue'[i] = Queue[i]
  <2> TAKE i \in 1 .. n
  <2>1. i \in 1 .. Updated.count
    BY <1>2
  <2>2. Queue'[i] = Slice((cur.read_pos + i - 1) % Capacity)
    BY <1>1, <1>2, <2>1
  <2> QED
    BY <1>3, <2>2
<1>5. msg \in Messages /\ cur.write_pos \in Slot
  BY DEF RInv, IInv, CallOK, TypeOK, Control
<1>6. Slice(cur.write_pos) = Whole(msg)
  BY DEF RInv, SoFar, StoreSoFar, Own, Wanted, Slice, Whole
<1>7. Queue'[n + 1] = Whole(msg)
  <2>1. n + 1 \in 1 .. Updated.count
    BY <1>2
  <2>2. Queue'[n + 1] = Slice((cur.read_pos + (n + 1) - 1) % Capacity)
    BY <1>1, <1>2, <2>1
  <2> QED
    BY <1>2, <1>6, <2>2
<1>8. Whole(msg) \in [Part -> Content]
  BY <1>5 DEF Whole, Content, Piece
<1>9. Queue' \in [1 .. n + 1 -> [Part -> Content]]
  <2>1. Queue' = [i \in 1 .. n + 1 |-> Slice((Updated.read_pos + i - 1) % Capacity)]
    BY <1>1, <1>2
  <2>2. \A i \in 1 .. n + 1 : i \in 1 .. n \/ i = n + 1
    BY <1>2
  <2>3. \A i \in 1 .. n + 1 : Queue'[i] \in [Part -> Content]
    BY <1>3, <1>4, <1>7, <1>8, <2>2
  <2>4. \A i \in 1 .. n + 1 :
          Slice((Updated.read_pos + i - 1) % Capacity) \in [Part -> Content]
    BY <2>1, <2>3
  <2> QED
    BY <2>1, <2>4
<1> HIDE DEF n
<1>10. Len(Queue) = n /\ Queue' = Append(Queue, Whole(msg))
  BY <1>2, <1>3, <1>4, <1>7, <1>8, <1>9, AppendFunction
<1> QED
  BY <1>2, <1>5, <1>10

LEMMA RetrieveGets ==
  ASSUME RInv, pc \in {"control", "programControl"}, op = "retrieve",
         UNCHANGED data, pc' = "idle", ctrl' = Updated
  PROVE  /\ Queue # <<>>
         /\ msg = Head(Queue)
         /\ Queue' = Tail(Queue)
<1> DEFINE n == cur.count
<1>1. /\ InForce = cur /\ InForce # Unreadable
      /\ \A s \in Slot : Stored(s) = Slice(s)
      /\ Queue' = [i \in 1 .. Updated.count |->
                      Slice((Updated.read_pos + i - 1) % Capacity)]
  BY ControlDone
<1>2. /\ n \in Nat /\ n > 0 /\ cur.read_pos \in Nat
      /\ Updated.count = n - 1
      /\ \A i \in 1 .. n - 1 :
           (Updated.read_pos + i - 1) % Capacity = (cur.read_pos + (i + 1) - 1) % Capacity
  BY UpdatedSlots DEF RInv
<1>3. /\ Queue \in [1 .. n -> [Part -> Content]]
      /\ \A i \in 1 .. n : /\ (cur.read_pos + i - 1) % Capacity \in Slot
                           /\ Queue[i] = Slice((cur.read_pos + i - 1) % Capacity)
  BY <1>1, QueueOf DEF RInv
<1>4. \A i \in 1 .. n - 1 : Queue'[i] = Queue[i + 1]
  <2> TAKE i \in 1 .. n - 1
  <2>1. i + 1 \in 1 .. n /\ i \in 1 .. Updated.count
    BY <1>2
  <2>2. Queue'[i] = Slice((Updated.read_pos + i - 1) % Capacity)
    BY <1>1, <2>1
  <2>3. Queue[i + 1] = Slice((cur.read_pos + (i + 1) - 1) % Capacity)
    BY <1>3, <2>1
  <2> QED
    BY <1>2, <2>2, <2>3
<1>5. Queue' \in [1 .. n - 1 -> [Part -> Content]]
  <2>1. Queue' = [i \in 1 .. n - 1 |-> Slice((Updated.read_pos + i - 1) % Capacity)]
    BY <1>1, <1>2
  <2>2. \A i \in 1 .. n - 1 :
          Slice((Updated.read_pos + i - 1) % Capacity) \in [Part -> Content]
    <3> TAKE i \in 1 .. n - 1
    <3>1. i + 1 \in 1 .. n
      BY <1>2
    <3>2. Queue'[i] = Slice((Updated.read_pos + i - 1) % Capacity)
      BY <2>1
    <3>3. Queue[i + 1] \in [Part -> Content]
      BY <1>3, <3>1
    <3> QED
      BY <1>4, <3>2, <3>3
  <2> QED
    BY <2>1, <2>2
<1>6. Queue[1] = msg
  <2>1. (cur.read_pos + 1 - 1) % Capacity = cur.read_pos
    <3>1. /\ cur.read_pos \in 0 .. Capacity - 1 /\ 0 \in 0 .. Capacity
          /\ Capacity \in Nat \ {0}
          /\ cur.read_pos + 1 - 1 = cur.read_pos + 0
      BY CapacityAssumption DEF RInv, IInv, TypeOK, Control, Slot
    <3>2. (cur.read_pos + 0) % Capacity
            = IF cur.read_pos + 0 < Capacity THEN cur.read_pos + 0
              ELSE cur.read_pos + 0 - Capacity
      BY <3>1, ModSum
    <3> QED
      BY <3>1, <3>2
  <2>2. Queue[1] = Slice(cur.read_pos)
    <3>1. 1 \in 1 .. n
      BY <1>2
    <3> QED
      BY <1>3, <2>1, <3>1
  <2> QED
    BY <2>2 DEF RInv, SoFar, RetrieveSoFar, Slice
<1> HIDE DEF n
<1> QED
  BY <1>2, <1>3, <1>4, <1>5, <1>6, TailFunction

-----------------------------------------------------------------------------
(* Every step that works is a call of the bounded queue or a stutter.      *)

LEMMA Stutter ==
  ASSUME UNCHANGED <<Queue, out>>, Clearing = FALSE, Clearing' = FALSE
  PROVE  [Fifo!Call]_(Fifo!vars)
BY DEF Fifo!vars

LEMMA BeginStutters ==
  ASSUME RInv, [Next]_vars, QueueInit \/ (\E m \in Messages : Store(m)) \/ Retrieve
  PROVE  [Fifo!Call]_(Fifo!vars)
<1>1. /\ op = "none" /\ op' # "clear" /\ pc # "programControl" /\ pc' # "programControl"
      /\ UNCHANGED <<ctrl, out>> /\ pc \in {"boot", "idle"}
  BY DEF QueueInit, Store, Retrieve, Return, flash, RInv, IInv, CallOK
<1>2. InForce' = InForce /\ ~CutShort
  BY <1>1 DEF InForce, CutShort
<1>3. UNCHANGED Queue
  BY <1>1, <1>2, QuietStep, EmptyQueue DEF RInv, Queue
<1>4. Clearing = FALSE /\ Clearing' = FALSE
  BY <1>1 DEF Clearing
<1> QED
  BY <1>1, <1>3, <1>4, Stutter

LEMMA ClearBegins == RInv /\ Clear => [Fifo!Call]_(Fifo!vars)
<1> SUFFICES ASSUME RInv, Clear PROVE Fifo!BeginClear
  BY DEF Fifo!Call
<1>1. /\ op = "none" /\ pc = "idle" /\ op' = "clear" /\ pc' = "clear"
      /\ UNCHANGED <<data, ctrl, out>>
  BY DEF Clear, flash, RInv, IInv, CallOK
<1>2. Clearing = FALSE /\ Clearing' = TRUE
  BY <1>1 DEF Clearing
<1>3. UNCHANGED Queue
  BY <1>1 DEF Queue, InForce, Stored, View
<1> QED
  BY <1>1, <1>2, <1>3 DEF Fifo!BeginClear

LEMMA UpdateStutters ==
  ASSUME RInv, [Next]_vars, UpdateSector \/ EraseSector \/ ProgramCell
  PROVE  [Fifo!Call]_(Fifo!vars)
<1>1. /\ op = "store" /\ op' = "store" /\ pc # "programControl" /\ pc' # "programControl"
      /\ UNCHANGED <<ctrl, out>> /\ ctrl = cur /\ pc' \notin {"boot", "idle"}
  BY DEF UpdateSector, EraseSector, ProgramCell, NextChunk, flash, call, RInv, IInv, CallOK
<1>2. InForce' = InForce /\ ~CutShort
  BY <1>1 DEF InForce, CutShort
<1>3. InForce # Unreadable
  BY <1>1, UnreadableOK DEF InForce, RInv, IInv, TypeOK
<1>4. UNCHANGED Queue
  BY <1>1, <1>2, <1>3, QuietStep DEF RInv
<1>5. Clearing = FALSE /\ Clearing' = FALSE
  BY <1>1 DEF Clearing
<1> QED
  BY <1>1, <1>4, <1>5, Stutter

LEMMA SpoiltByCell ==
  ASSUME NEW m, NEW n \in [Part -> Content], \A k \in Part : n[k] \in {m[k], Erased, Torn}
  PROVE  n \in Spoilt(m)
BY DEF Spoilt

(* Damage keeps the queue's places when the control record in force stays  *)
(* and every cell of it is what it was, erased or undefined.               *)
LEMMA DamageByCell ==
  ASSUME IInv, IInv', InForce # Unreadable, InForce' = InForce,
         \A i \in 1 .. InForce.count : \A s \in Slot : \A k \in Part :
            s = (InForce.read_pos + i - 1) % Capacity
              => View(<<s, k>>)' \in {View(<<s, k>>), Erased, Torn}
  PROVE  Fifo!Damage
<1>1. /\ DOMAIN Queue = 1 .. InForce.count
      /\ \A i \in 1 .. InForce.count :
           /\ (InForce.read_pos + i - 1) % Capacity \in Slot
           /\ Queue[i] = Stored((InForce.read_pos + i - 1) % Capacity)
  BY QueueOf
<1>2. Queue' = [i \in 1 .. InForce.count |-> Stored((InForce.read_pos + i - 1) % Capacity)']
  BY DEF Queue
<1>3. ASSUME NEW i \in 1 .. InForce.count
      PROVE  Queue'[i] \in Spoilt(Queue[i])
  <2>1. PICK s \in Slot : s = (InForce.read_pos + i - 1) % Capacity /\ Queue[i] = Stored(s)
    BY <1>1
  <2>2. Queue'[i] = [k \in Part |-> View(<<s, k>>)']
    <3>1. Queue'[i] = Stored((InForce.read_pos + i - 1) % Capacity)'
      BY <1>2
    <3>2. Stored((InForce.read_pos + i - 1) % Capacity)' = Stored(s)'
      BY <2>1
    <3> QED
      BY <3>1, <3>2 DEF Stored
  <2>3. \A k \in Part : View(<<s, k>>)' \in {View(<<s, k>>), Erased, Torn}
    BY <2>1
  <2>4. \A k \in Part : View(<<s, k>>)' \in Content
    BY <2>1 DEF View, IInv, TypeOK, Cell
  <2>5. Stored(s) = [k \in Part |-> View(<<s, k>>)]
    BY DEF Stored
  <2>6. Queue'[i] \in [Part -> Content]
    BY <2>2, <2>4
  <2>7. \A k \in Part : Queue'[i][k] \in {Queue[i][k], Erased, Torn}
    BY <2>1, <2>2, <2>3, <2>5
  <2> QED
    BY <2>6, <2>7, SpoiltByCell
<1> QED
  BY <1>1, <1>2, <1>3 DEF Fifo!Damage

LEMMA ClearSectorClears ==
  ASSUME RInv, [Next]_vars, ClearSector
  PROVE  [Fifo!Call]_(Fifo!vars)
<1> SUFFICES Fifo!ClearSome
  BY DEF Fifo!Call
<1>1. /\ op = "clear" /\ pc = "clear" /\ op' = "clear" /\ pc' \in {"clear", "control"}
      /\ UNCHANGED <<ctrl, out>>
  BY DEF ClearSector, RInv, IInv, CallOK
<1>2. Clearing = TRUE /\ Clearing' = TRUE
  BY <1>1 DEF Clearing
<1>3. InForce' = InForce
  BY <1>1 DEF InForce
<1>4. Fifo!Damage
  <2>1. CASE InForce = Unreadable
    BY <1>3, <2>1 DEF Queue, Fifo!Damage
  <2>2. CASE InForce # Unreadable
    <3>1. IInv /\ IInv'
      BY NextInv DEF RInv
    <3>2. ASSUME NEW s \in Slot, NEW k \in Part
          PROVE  View(<<s, k>>)' \in {View(<<s, k>>), Erased, Torn}
      BY <1>1 DEF ClearSector, View, Cell
    <3>3. \A i \in 1 .. InForce.count : (InForce.read_pos + i - 1) % Capacity \in Slot
      BY <2>2, <3>1, QueueOf
    <3> QED
      BY <1>3, <2>2, <3>1, <3>2, <3>3, DamageByCell
  <2> QED
    BY <2>1, <2>2
<1> QED
  BY <1>1, <1>2, <1>4 DEF Fifo!ClearSome

(* The control record as a clear or an initialisation leaves it. *)
LEMMA UpdatedEmpty ==
  RInv /\ op \notin {"store", "retrieve"} => cur = EmptyControl /\ Updated = EmptyControl
BY DEF RInv, SoFar, EmptySoFar, Updated

LEMMA WriteControlRefines ==
  ASSUME RInv, [Next]_vars, WriteControl
  PROVE  [Fifo!Call]_(Fifo!vars)
<1>1. pc = "control" /\ UNCHANGED <<data, out>> /\ pc' \in {"idle", "programControl"}
  BY DEF WriteControl, Return
<1>2. InForce' = IF ctrl = Updated THEN Updated ELSE cur
  BY DEF WriteControl, Return, call, InForce
<1>3. CASE op = "clear"
  <2>1. Clearing = TRUE /\ Clearing' = FALSE
    BY <1>1, <1>3 DEF Clearing
  <2>2. Queue' = <<>>
    <3>1. InForce' = EmptyControl
      BY <1>2, <1>3, UpdatedEmpty
    <3>2. InForce' # Unreadable
      BY <3>1, EmptyControlOK, UnreadableOK
    <3>3. EmptyControl.count = 0
      BY DEF EmptyControl
    <3> QED
      BY <3>1, <3>2, <3>3, EmptyFunction DEF Queue
  <2> QED
    BY <1>1, <2>1, <2>2 DEF Fifo!Call, Fifo!EndClear
<1>4. CASE op = "init"
  <2>1. ctrl = Unreadable /\ InForce = ctrl
    BY <1>1, <1>4 DEF InForce, RInv, SoFar, EmptySoFar
  <2>2. Queue = <<>>
    BY <2>1, EmptyQueue
  <2>3. InForce' = EmptyControl
    BY <1>2, <1>4, UpdatedEmpty
  <2>4. Queue' = <<>>
    BY <2>3, EmptyControlOK, UnreadableOK, EmptyFunction DEF Queue, EmptyControl
  <2>5. Clearing = FALSE /\ Clearing' = FALSE
    BY <1>4 DEF WriteControl, Return, call, Clearing
  <2> QED
    BY <1>1, <2>2, <2>4, <2>5, Stutter
<1>5. CASE op \in {"store", "retrieve"}
  <2>1. ctrl = cur
    BY <1>1, <1>5 DEF RInv, IInv, CallOK, SoFar, RetrieveSoFar
  <2>2. InForce = cur /\ InForce' = InForce
    BY <1>1, <1>2, <2>1 DEF InForce
  <2>3. InForce # Unreadable
    BY <2>2, UnreadableOK DEF RInv, IInv, TypeOK
  <2>4. op' # "clear" /\ ~CutShort
    BY <1>1, <1>5 DEF WriteControl, Return, call, CutShort
  <2>5. UNCHANGED Queue
    BY <1>5, <2>2, <2>3, <2>4, QuietStep DEF RInv
  <2>6. Clearing = FALSE /\ Clearing' = FALSE
    BY <1>5, <2>4 DEF Clearing
  <2> QED
    BY <1>1, <2>5, <2>6, Stutter
<1>6. op \in {"clear", "init", "store", "retrieve"}
  BY <1>1 DEF RInv, IInv, TypeOK, CallOK
<1> QED
  BY <1>3, <1>4, <1>5, <1>6

LEMMA ProgramControlRefines == RInv /\ ProgramControl => [Fifo!Call]_(Fifo!vars)
<1> SUFFICES ASSUME RInv, ProgramControl PROVE [Fifo!Call]_(Fifo!vars)
  OBVIOUS
<1>1. /\ pc = "programControl" /\ pc' = "idle" /\ op' = "none"
      /\ ctrl' = Updated /\ UNCHANGED data
      /\ out' = IF op = "retrieve" THEN msg ELSE out
  BY DEF ProgramControl, Return
<1>2. Clearing = FALSE /\ Clearing' = FALSE
  BY <1>1 DEF Clearing
<1>3. CASE op = "store"
  <2>1. Fifo!Put(Whole(msg)) /\ msg \in Messages
    BY <1>1, <1>2, <1>3, StorePuts DEF Fifo!Put
  <2> QED
    BY <2>1 DEF Fifo!Call
<1>4. CASE op = "retrieve"
  <2>1. Fifo!Get
    BY <1>1, <1>2, <1>4, RetrieveGets DEF Fifo!Get
  <2> QED
    BY <2>1 DEF Fifo!Call
<1>5. CASE op \notin {"store", "retrieve"}
  <2>1. InForce = EmptyControl /\ InForce' = EmptyControl
    BY <1>1, <1>5, UpdatedEmpty DEF InForce
  <2>2. Queue = <<>>
    BY <2>1, EmptyQueue
  <2>3. Queue' = <<>>
    BY <2>1, EmptyControlOK, UnreadableOK, EmptyFunction DEF Queue, EmptyControl
  <2> QED
    BY <1>1, <1>2, <1>5, <2>2, <2>3, Stutter
<1> QED
  BY <1>3, <1>4, <1>5

LEMMA WorksRefine == RInv /\ [Next]_vars /\ Works => [Fifo!Call]_(Fifo!vars)
BY BeginStutters, ClearBegins, UpdateStutters, ClearSectorClears, WriteControlRefines,
   ProgramControlRefines
DEF Works, Step

-----------------------------------------------------------------------------
(* Every step that does not work is a fault of the bounded queue.          *)

(* An interrupted command leaves every cell of a stored message as it was, *)
(* erased or undefined: in the RAM copy of a sector there is nothing of    *)
(* the message that was not in the sector too.                             *)
LEMMA InterruptedSpoils ==
  ASSUME RInv, Interrupted, pc' \in {"boot", "idle"},
         NEW s \in Slot, op = "clear" \/ s \in LiveSlots, NEW k \in Part
  PROVE  View(<<s, k>>)' \in {View(<<s, k>>), Erased, Torn}
<1>1. /\ <<s, k>> \in Cell
      /\ data \in [Cell -> Content]
      /\ View(<<s, k>>)' = data'[<<s, k>>]
  BY DEF Cell, View, RInv, IInv, TypeOK
<1>2. CASE pc \in {"erase", "refill"}
  <2>1. s # cur.write_pos
    BY <1>2, WriteSlotNotLive DEF RInv, IInv, CallOK
  <2>2. CASE pc = "erase"
    <3>1. data'[<<s, k>>] \in {data[<<s, k>>], Erased, Torn}
      BY <1>1, <2>2 DEF Interrupted
    <3>2. View(<<s, k>>) = data[<<s, k>>]
      BY <2>1, <2>2 DEF View, RInv, IInv, CopyOK
    <3> QED
      BY <1>1, <3>1, <3>2
  <2>3. CASE pc = "refill"
    <3>1. CASE UNCHANGED data
      <4>1. <<s, k>> \in DOMAIN buf => data'[<<s, k>>] = Erased
        BY <2>3, <3>1 DEF RInv, IInv, CopyOK
      <4> QED
        BY <1>1, <3>1, <4>1 DEF View
    <3>2. ASSUME NEW c \in DOMAIN buf, NEW left \in {Programmed(data[c], buf[c]), Torn},
                 data' = [data EXCEPT ![c] = left]
          PROVE  View(<<s, k>>)' \in {View(<<s, k>>), Erased, Torn}
      <4>1. Programmed(data[c], buf[c]) = buf[c]
        BY <2>3 DEF RInv, IInv, CopyOK, Programmed, OnlyClears
      <4>2. CASE c = <<s, k>>
        BY <1>1, <2>3, <3>2, <4>1, <4>2 DEF View
      <4>3. CASE c # <<s, k>>
        <5>1. data'[<<s, k>>] = data[<<s, k>>]
          BY <1>1, <3>2, <4>3
        <5>2. <<s, k>> \in DOMAIN buf => data[<<s, k>>] = Erased
          BY <2>3 DEF RInv, IInv, CopyOK
        <5> QED
          BY <1>1, <5>1, <5>2 DEF View
      <4> QED
        BY <4>2, <4>3
    <3> QED
      BY <2>3, <3>1, <3>2 DEF Interrupted
  <2> QED
    BY <1>2, <2>2, <2>3
<1>3. CASE pc \notin {"erase", "refill"} /\ op # "clear"
  BY <1>3, InterruptedIntact DEF RInv
<1>4. CASE pc \notin {"erase", "refill"} /\ op = "clear"
  <2>1. View(<<s, k>>) = data[<<s, k>>]
    BY <1>4 DEF View
  <2>2. pc # "program"
    BY <1>4 DEF RInv, IInv, CallOK
  <2>3. data'[<<s, k>>] \in {data[<<s, k>>], Erased, Torn}
    BY <1>1, <1>4, <2>2 DEF Interrupted
  <2> QED
    BY <1>1, <2>1, <2>3
<1> QED
  BY <1>2, <1>3, <1>4

(* The call is cut short and the control record stays as it was found. *)
LEMMA RecordKept ==
  ASSUME RInv, IInv', Interrupted, op' = "none", pc' \in {"boot", "idle"}, UNCHANGED ctrl
  PROVE  Fifo!Damage \/ Queue' = <<>>
<1>1. InForce' = ctrl
  BY DEF InForce
<1>2. CASE ctrl = Unreadable
  BY <1>1, <1>2 DEF Queue
<1>3. CASE ctrl # Unreadable
  <2>1. InForce = ctrl
    BY <1>3 DEF InForce, RInv, IInv, CallOK
  <2>2. \A i \in 1 .. InForce.count :
          op = "clear" \/ (InForce.read_pos + i - 1) % Capacity \in LiveSlots
    BY <1>3, <2>1, QueueOf DEF RInv
  <2>3. \A i \in 1 .. InForce.count : \A s \in Slot : \A k \in Part :
           s = (InForce.read_pos + i - 1) % Capacity
             => View(<<s, k>>)' \in {View(<<s, k>>), Erased, Torn}
    BY <2>2, InterruptedSpoils
  <2> QED
    BY <1>1, <1>3, <2>1, <2>3, DamageByCell DEF RInv
<1> QED
  BY <1>2, <1>3

LEMMA MisreadRefines == RInv /\ InitMisreads => Fifo!Fault
<1> SUFFICES ASSUME RInv, InitMisreads PROVE Fifo!Fault
  OBVIOUS
<1>1. /\ op = "none" /\ op' = "init" /\ pc' = "programControl" /\ cur' = cur
      /\ UNCHANGED out /\ Faults # {}
  BY DEF InitMisreads, RInv, IInv, CallOK
<1>2. InForce' = EmptyControl
  BY <1>1 DEF InForce, RInv, SoFar, EmptySoFar
<1>3. Queue' = <<>>
  BY <1>2, EmptyControlOK, UnreadableOK, EmptyFunction DEF Queue, EmptyControl
<1>4. Clearing' = FALSE
  BY <1>1 DEF Clearing
<1> QED
  BY <1>1, <1>3, <1>4 DEF Fifo!Fault

LEMMA FaultRefines ==
  ASSUME RInv, [Next]_vars, PowerLoss \/ FlashFault
  PROVE  Fifo!Fault
<1>1. /\ op' = "none" /\ pc' \in {"boot", "idle"} /\ UNCHANGED out
      /\ Faults # {} /\ Interrupted /\ IInv'
  BY NextInv DEF PowerLoss, FlashFault, Return, RInv
<1>2. Clearing' = FALSE
  BY <1>1 DEF Clearing
<1>3. CASE UNCHANGED ctrl
  <2>1. Fifo!Damage \/ Queue' = <<>>
    BY <1>1, <1>3, RecordKept
  <2> QED
    BY <1>1, <1>2, <2>1 DEF Fifo!Fault
<1>4. CASE ctrl' = Unreadable
  <2>1. Queue' = <<>>
    BY <1>1, <1>4 DEF Queue, InForce
  <2> QED
    BY <1>1, <1>2, <2>1 DEF Fifo!Fault
<1>5. ASSUME FlashFault, pc \in {"control", "programControl"}, ctrl' = Updated
      PROVE  Fifo!Fault
  <2>1. pc' = "idle" /\ UNCHANGED data
    BY <1>5 DEF FlashFault, Return, Interrupted
  <2>2. CASE op = "store"
    <3>1. /\ Clearing = FALSE
          /\ Len(Queue) < Capacity
          /\ msg \in Messages
          /\ Queue' = Append(Queue, Whole(msg))
      BY <1>5, <2>1, <2>2, StorePuts DEF Clearing
    <3> QED
      BY <1>1, <1>2, <3>1 DEF Fifo!Fault
  <2>3. CASE op = "retrieve"
    <3>1. Clearing = FALSE /\ Queue # <<>> /\ Queue' = Tail(Queue)
      BY <1>5, <2>1, <2>3, RetrieveGets DEF Clearing
    <3> QED
      BY <1>1, <1>2, <3>1 DEF Fifo!Fault
  <2>4. CASE op \notin {"store", "retrieve"}
    <3>1. InForce' = EmptyControl
      BY <1>5, <2>1, <2>4, UpdatedEmpty DEF InForce
    <3>2. Queue' = <<>>
      BY <3>1, EmptyControlOK, UnreadableOK, EmptyFunction DEF Queue, EmptyControl
    <3> QED
      BY <1>1, <1>2, <3>2 DEF Fifo!Fault
  <2> QED
    BY <2>2, <2>3, <2>4
<1>6. CASE PowerLoss
  BY <1>3, <1>6 DEF PowerLoss
<1>7. CASE FlashFault
  BY <1>3, <1>4, <1>5, <1>7 DEF FlashFault
<1> QED
  BY <1>6, <1>7

(* The flash queue implements the bounded FIFO: stored messages leave in   *)
(* the order they came, each once, a full queue accepts nothing, and a     *)
(* call cut short or failed empties the queue or damages messages in their *)
(* places, cell by cell, at worst.                                         *)
THEOREM Refinement == Spec => ImplementsFifo
<1>1. Init => Fifo!Init
  <2> SUFFICES ASSUME Init PROVE Fifo!Init
    OBVIOUS
  <2>1. Queue = <<>> /\ out = Nothing /\ Clearing = FALSE
    BY DEF Init, Queue, InForce, Clearing
  <2> QED
    BY <2>1 DEF Fifo!Init
<1>2. RInv /\ [Next]_vars => [[Fifo!Call]_(Fifo!vars) \/ (~Works /\ Fifo!Fault)]_vars
  <2> SUFFICES ASSUME RInv, [Next]_vars, ~UNCHANGED vars
               PROVE  [Fifo!Call]_(Fifo!vars) \/ (~Works /\ Fifo!Fault)
    OBVIOUS
  <2>1. CASE Works
    BY <2>1, WorksRefine
  <2>2. CASE ~Works
    BY <2>2, FaultRefines, MisreadRefines DEF Next
  <2> QED
    BY <2>1, <2>2
<1> QED
  BY <1>1, <1>2, Progress, PTL DEF Spec, ImplementsFifo
=============================================================================
