--------------------------- MODULE PersistentQueue ---------------------------
(***************************************************************************)
(* The inspection queue kept in NOR flash                                  *)
(* (Application/net/persistent_inspection_queue.c).                        *)
(*                                                                         *)
(* A control record {write_pos, read_pos, count, crc32} has an erase       *)
(* sector of its own; the messages follow in a circular array that is cut  *)
(* into erase sectors without regard to message boundaries.  A bit of NOR  *)
(* flash can be cleared by a program command and set again only by erasing *)
(* its whole sector, so overwriting a message reads the sector to RAM,     *)
(* erases it and programs every byte back.                                 *)
(*                                                                         *)
(* Every flash command is a step.  Between two steps the board may lose    *)
(* power, and a command may fail before, in the middle of or after its     *)
(* effect on the chip (a status timeout, or a failed return to             *)
(* memory-mapped mode, l.202-206).                                         *)
(*                                                                         *)
(* Data are abstracted to pieces: a message is MsgCells cells, cell k of   *)
(* message m holds <<m, k>>, and a program command writes cell after cell. *)
(***************************************************************************)
EXTENDS Naturals, Sequences, FiniteSets

CONSTANTS
  Messages,     (* the messages stored                                     *)
  Capacity,     (* MAX_PERSISTENT_INSPECTION_MESSAGES                      *)
  MsgCells,     (* PERSISTENT_INSPECTION_MSG_SIZE, in cells                *)
  SectorCells,  (* PERSISTENT_INSPECTION_QUEUE_SECTOR_SIZE, in cells       *)
  Clears,       (* pairs <<a, b>>: b sets no bit that a has cleared        *)
  Faults,       (* which of "power" and "flash" may go wrong               *)
  Erased,       (* a cell whose bits are all set                           *)
  Torn,         (* a cell left undefined by an interrupted command         *)
  Unreadable,   (* a control record whose CRC does not match               *)
  Nothing       (* no message                                              *)

ASSUME CapacityAssumption == Capacity \in Nat \ {0}
ASSUME MsgCellsAssumption == MsgCells \in Nat \ {0}
ASSUME SectorCellsAssumption == SectorCells \in Nat \ {0}
ASSUME ClearsAssumption == Clears \subseteq Messages \X Messages
ASSUME DistinctAssumption ==
  /\ Erased \notin Messages \X (1 .. MsgCells)
  /\ Torn \notin Messages \X (1 .. MsgCells)
  /\ Torn # Erased
  /\ Unreadable \notin [write_pos : Nat, read_pos : Nat, count : Nat]

VARIABLES
  data,   (* the data sectors: what each cell of each slot holds           *)
  ctrl,   (* the control record, or Unreadable when its CRC does not match *)
  pc,     (* where the running call is                                     *)
  op,     (* the running call                                              *)
  msg,    (* *msg of the call: what to store, or the cells just read       *)
  cur,    (* the control record the call has read, or init_control's       *)
  sec,    (* the data sector being worked on                               *)
  buf,    (* the cells still to be programmed, and with what               *)
  out     (* the message the last successful retrieve returned             *)

flash == <<data, ctrl>>
call  == <<op, msg, cur, sec, buf>>
vars  == <<data, ctrl, pc, op, msg, cur, sec, buf, out>>

Slot == 0 .. Capacity - 1
Part == 1 .. MsgCells
Cell == Slot \X Part

NoCells == [c \in {} |-> Erased]

Piece   == Messages \X Part
Content == Piece \cup {Erased, Torn}
Control == [write_pos : Slot, read_pos : Slot, count : 0 .. Capacity]

(* The cell's address, in cells, and the erase sector it lies in. *)
Addr(c)     == c[1] * MsgCells + c[2] - 1
SectorOf(c) == Addr(c) \div SectorCells
LastSector  == SectorOf(<<Capacity - 1, MsgCells>>)
Sector      == 0 .. LastSector
CellsOf(s)  == {c \in Cell : SectorOf(c) = s}

(* persistent_inspection_queue_init_control *)
EmptyControl == [write_pos |-> 0, read_pos |-> 0, count |-> 0]

(* The control record the running call will write back. *)
UpdatedUnwrapped ==
  IF op = "store"
  THEN [cur EXCEPT !.write_pos = @ + 1, !.count = @ + 1]
  ELSE IF op = "retrieve"
       THEN [cur EXCEPT !.read_pos = (@ + 1) % Capacity, !.count = @ - 1]
       ELSE cur
UpdatedUncounted ==
  IF op = "store"
  THEN [cur EXCEPT !.write_pos = (@ + 1) % Capacity, !.count = @ + 1]
  ELSE IF op = "retrieve"
       THEN [cur EXCEPT !.read_pos = (@ + 1) % Capacity]
       ELSE cur
Updated ==
  IF op = "store"
  THEN [cur EXCEPT !.write_pos = (@ + 1) % Capacity, !.count = @ + 1]
  ELSE IF op = "retrieve"
       THEN [cur EXCEPT !.read_pos = (@ + 1) % Capacity, !.count = @ - 1]
       ELSE cur

(* The part of the message being stored that lies in sector sec. *)
Chunk     == {c \in CellsOf(sec) : c[1] = cur.write_pos}
Wanted(c) == <<msg, c[2]>>

(* Programming desired over current only has to clear bits. *)
OnlyClears(current, desired) ==
  \/ current \in {Erased, desired}
  \/ /\ current \in Piece
     /\ current[2] = desired[2]
     /\ <<current[1], desired[1]>> \in Clears

(* What a program command makes of a cell: no bit is ever set by it. *)
Programmed(current, desired) ==
  IF OnlyClears(current, desired) THEN desired ELSE Torn

(* queue_can_program_without_erase *)
CanProgramAnything(current, desired) == TRUE
CanProgram(current, desired) == OnlyClears(current, desired)

(* The check of store that the queue is not full. *)
HasRoom == ctrl.count < Capacity

-----------------------------------------------------------------------------
(* The board starts with whatever the flash holds; it leaves the factory   *)
(* blank, which no CRC matches.                                            *)
Init ==
  /\ data = [c \in Cell |-> Erased]
  /\ ctrl = Unreadable
  /\ pc = "boot"
  /\ op = "none"
  /\ msg = Nothing
  /\ cur = EmptyControl
  /\ sec = 0
  /\ buf = NoCells
  /\ out = Nothing

(* The call returns; its locals are gone. *)
Return ==
  /\ pc' = "idle"
  /\ op' = "none"
  /\ msg' = Nothing
  /\ cur' = EmptyControl
  /\ sec' = 0
  /\ buf' = NoCells

(* persistent_inspection_queue_init: a readable control record is kept, an *)
(* unreadable one is replaced by an empty one.                             *)
QueueInit ==
  /\ pc = "boot"
  /\ IF ctrl # Unreadable
     THEN Return
     ELSE /\ op' = "init"
          /\ pc' = "control"
          /\ UNCHANGED <<msg, cur, sec, buf>>
  /\ UNCHANGED <<flash, out>>

(* The same when reading the control record fails although the record is   *)
(* good (l.406): it is taken for an unreadable one and overwritten by an   *)
(* empty one (l.466-475).  The step ends where the record is gone; failing *)
(* before that leaves everything as QueueInit does.                        *)
InitMisreads ==
  /\ "flash" \in Faults
  /\ pc = "boot"
  /\ ctrl \notin {Unreadable, EmptyControl}
  /\ op' = "init"
  /\ ctrl' = Unreadable
  /\ pc' = "programControl"
  /\ UNCHANGED <<data, msg, cur, sec, buf, out>>

(* persistent_inspection_queue_store, up to its first flash write.  A full *)
(* queue or an unreadable control record returns -1 and changes nothing.   *)
Store(m) ==
  /\ pc = "idle"
  /\ ctrl # Unreadable
  /\ HasRoom
  /\ op' = "store"
  /\ msg' = m
  /\ cur' = ctrl
  /\ sec' = SectorOf(<<ctrl.write_pos, 1>>)
  /\ pc' = "update"
  /\ UNCHANGED <<flash, buf, out>>

(* persistent_inspection_queue_retrieve, up to its control write: the      *)
(* message is read before it is removed, and nothing checks what was read. *)
Retrieve ==
  /\ pc = "idle"
  /\ ctrl # Unreadable
  /\ ctrl.count > 0
  /\ op' = "retrieve"
  /\ msg' = [k \in Part |-> data[<<ctrl.read_pos, k>>]]
  /\ cur' = ctrl
  /\ pc' = "control"
  /\ UNCHANGED <<flash, sec, buf, out>>

(* persistent_inspection_queue_clear, up to its first erase. *)
Clear ==
  /\ pc = "idle"
  /\ op' = "clear"
  /\ pc' = "clear"
  /\ UNCHANGED <<flash, msg, cur, sec, buf, out>>

-----------------------------------------------------------------------------
(* The loop of queue_write_region: on to the next sector of the message,   *)
(* or to the control record.                                               *)
NextChunk ==
  IF SectorOf(<<cur.write_pos, MsgCells>>) > sec
  THEN /\ sec' = sec + 1
       /\ pc' = "update"
  ELSE /\ pc' = "control"
       /\ UNCHANGED sec

(* s_queueSectorBuf after the chunk has been copied into it. *)
MergedFromBlank(c) == IF c \in Chunk THEN Wanted(c) ELSE Erased
Merged(c) == IF c \in Chunk THEN Wanted(c) ELSE data[c]

(* queue_update_sector_range, up to its first flash command: nothing to do *)
(* when the sector already holds the chunk, program in place when that     *)
(* only clears bits, else merge the chunk into the RAM copy of the sector  *)
(* and erase.                                                              *)
UpdateSector ==
  /\ pc = "update"
  /\ \/ /\ \A c \in Chunk : data[c] = Wanted(c)
        /\ NextChunk
        /\ UNCHANGED buf
     \/ /\ \E c \in Chunk : data[c] # Wanted(c)
        /\ \A c \in Chunk : CanProgram(data[c], Wanted(c))
        /\ buf' = [c \in Chunk |-> Wanted(c)]
        /\ pc' = "program"
        /\ UNCHANGED sec
     \/ /\ \E c \in Chunk : ~CanProgram(data[c], Wanted(c))
        /\ buf' = [c \in {d \in CellsOf(sec) : Merged(d) # Erased} |-> Merged(c)]
        /\ pc' = "erase"
        /\ UNCHANGED sec
  /\ UNCHANGED <<flash, op, msg, cur, out>>

(* queue_erase_sector on the sector just copied to RAM *)
EraseSector ==
  /\ pc = "erase"
  /\ data' = [c \in Cell |-> IF c \in CellsOf(sec) THEN Erased ELSE data[c]]
  /\ pc' = "refill"
  /\ UNCHANGED <<ctrl, call, out>>

(* The cells of buf in the order queue_program_bytes writes them. *)
IsFirst(c) == /\ c \in DOMAIN buf
              /\ \A d \in DOMAIN buf : Addr(c) <= Addr(d)

(* queue_program_bytes, one cell of it. *)
ProgramCell ==
  /\ pc \in {"program", "refill"}
  /\ \E c \in DOMAIN buf :
       /\ IsFirst(c)
       /\ data' = [data EXCEPT ![c] = Programmed(@, buf[c])]
       /\ buf' = [d \in DOMAIN buf \ {c} |-> buf[d]]
  /\ IF DOMAIN buf' = {}
     THEN NextChunk
     ELSE UNCHANGED <<pc, sec>>
  /\ UNCHANGED <<ctrl, op, msg, cur, out>>

(* persistent_inspection_queue_clear, one sector of its loop. *)
ClearSector ==
  /\ pc = "clear"
  /\ data' = [c \in Cell |-> IF c \in CellsOf(sec) THEN Erased ELSE data[c]]
  /\ IF sec < LastSector
     THEN /\ sec' = sec + 1
          /\ UNCHANGED pc
     ELSE /\ pc' = "control"
          /\ UNCHANGED sec
  /\ UNCHANGED <<ctrl, op, msg, cur, buf, out>>

(* persistent_inspection_queue_write_control.  Unless the record is there  *)
(* already, it is unreadable until it is complete: the sector is erased    *)
(* first or, when only bits have to be cleared, holds a mixture.           *)
WriteControl ==
  /\ pc = "control"
  /\ IF ctrl = Updated
     THEN /\ Return
          /\ UNCHANGED ctrl
     ELSE /\ ctrl' = Unreadable
          /\ pc' = "programControl"
          /\ UNCHANGED call
  /\ UNCHANGED <<data, out>>

ProgramControl ==
  /\ pc = "programControl"
  /\ ctrl' = Updated
  /\ out' = IF op = "retrieve" THEN msg ELSE out
  /\ Return
  /\ UNCHANGED data

-----------------------------------------------------------------------------
(* What the data sectors may hold after an interrupted command: it had no  *)
(* effect yet, it had all of its effect, or it leaves an undefined value   *)
(* behind.                                                                 *)
Interrupted ==
  \/ UNCHANGED data
  \/ /\ pc \in {"erase", "clear"}
     /\ \E c \in CellsOf(sec) : data[c] # Erased
     /\ \E left \in {Erased, Torn} :
          data' = [c \in Cell |-> IF c \in CellsOf(sec) THEN left ELSE data[c]]
  \/ /\ pc \in {"program", "refill"}
     /\ \E c \in DOMAIN buf :
          /\ IsFirst(c)
          /\ \E left \in {Programmed(data[c], buf[c]), Torn} : data' = [data EXCEPT ![c] = left]

(* The board loses power; RAM is lost, flash stays as the interrupted      *)
(* command left it.                                                        *)
PowerLoss ==
  /\ "power" \in Faults
  /\ pc # "boot"
  /\ Interrupted
  /\ pc' = "boot"
  /\ op' = "none"
  /\ msg' = Nothing
  /\ cur' = EmptyControl
  /\ sec' = 0
  /\ buf' = NoCells
  /\ UNCHANGED <<ctrl, out>>

(* A flash command fails and the call returns -1 (-1 also when only the    *)
(* return to memory-mapped mode failed, after the command took effect).    *)
FlashFault ==
  /\ "flash" \in Faults
  /\ pc \in {"erase", "program", "refill", "clear", "control", "programControl"}
  /\ Interrupted
  /\ \/ UNCHANGED ctrl
     \/ /\ pc \in {"control", "programControl"}
        /\ ctrl' \in {Unreadable, Updated}
  /\ Return
  /\ UNCHANGED out

Step == UpdateSector \/ EraseSector \/ ProgramCell \/ ClearSector
          \/ WriteControl \/ ProgramControl

Works ==
  \/ QueueInit
  \/ \E m \in Messages : Store(m)
  \/ Retrieve
  \/ Clear
  \/ Step

Next == Works \/ InitMisreads \/ PowerLoss \/ FlashFault

Spec == Init /\ [][Next]_vars

-----------------------------------------------------------------------------
(* What the flash and the RAM of the running call say is stored.           *)

(* The control record in force: while it is being rewritten, the one the   *)
(* call started from.                                                      *)
InForce == IF pc = "programControl" THEN cur ELSE ctrl

LiveSlots ==
  IF InForce = Unreadable \/ op = "clear"
  THEN {}
  ELSE {(InForce.read_pos + i) % Capacity : i \in 0 .. InForce.count - 1}

(* A cell's content: during a sector update it may be in RAM only. *)
View(c) == IF pc \in {"erase", "refill"} /\ c \in DOMAIN buf THEN buf[c] ELSE data[c]

Stored(s) == [k \in Part |-> View(<<s, k>>)]
Whole(m)  == [k \in Part |-> <<m, k>>]

Queue ==
  IF InForce = Unreadable
  THEN <<>>
  ELSE [i \in 1 .. InForce.count |-> Stored((InForce.read_pos + i - 1) % Capacity)]

(* Type invariant. *)
TypeOK ==
  /\ data \in [Cell -> Content]
  /\ ctrl \in Control \cup {Unreadable}
  /\ pc \in {"boot", "idle", "update", "erase", "program", "refill", "clear",
             "control", "programControl"}
  /\ op \in {"none", "init", "store", "retrieve", "clear"}
  /\ msg \in Messages \cup [Part -> Content] \cup {Nothing}
  /\ cur \in Control
  /\ sec \in Sector
  /\ DOMAIN buf \subseteq Cell
  /\ \A c \in DOMAIN buf : buf[c] \in Content
  /\ out \in [Part -> Content] \cup {Nothing}

(* The three numbers of the control record agree whenever it is readable,  *)
(* after any sequence of calls, failures and power losses: write_pos is    *)
(* count slots after read_pos, so store never writes into a stored message *)
(* and retrieve never reads a free slot.                                   *)
Consistent(c) == c.write_pos = (c.read_pos + c.count) % Capacity
ControlConsistent ==
  /\ ctrl # Unreadable => Consistent(ctrl)
  /\ Consistent(cur)

(* A stored message keeps its content at every step as long as it is       *)
(* stored, although its sector is erased and programmed again whenever a   *)
(* neighbour is written; only a call cut short between the erase and the   *)
(* last program of such an update may damage it.                           *)
CutShort == pc \in {"erase", "refill"} /\ pc' \in {"boot", "idle"}
SurvivorsIntact ==
  [][CutShort \/ \A s \in LiveSlots \cap LiveSlots' : Stored(s)' = Stored(s)]_vars

(* The flash queue is the bounded FIFO its header promises, whatever the   *)
(* alignment of messages and sectors and however often the array wraps     *)
(* around.  A call that fails or is cut short may have had its effect or   *)
(* not, may empty the queue, and may leave messages that are, cell for     *)
(* cell, what they were or erased or undefined; it does nothing worse, and *)
(* all other calls keep the promise ever after.                            *)
Clearing == op = "clear" /\ pc \in {"clear", "control"}
Spoilt(m) == {n \in [Part -> Content] : \A k \in Part : n[k] \in {m[k], Erased, Torn}}
Fifo == INSTANCE BoundedFifo
          WITH Messages <- {Whole(m) : m \in Messages}, q <- Queue, Damaged <- Spoilt,
               clearing <- Clearing, Faulty <- Faults # {}
ImplementsFifo ==
  /\ Fifo!Init
  /\ [][[Fifo!Call]_(Fifo!vars) \/ (~Works /\ Fifo!Fault)]_vars

(* A power loss leaves what was stored to be found at the next boot,       *)
(* whatever the queue was doing (emptying it on request apart), as         *)
(* "reboot-survival backstop" (mqtt_task.c l.200) and the planned test     *)
(* "persistence across power cycle" (TEST_PLAN.md l.71) say.               *)
PowerCycleKeepsQueue ==
  [][pc # "boot" /\ pc' = "boot" /\ op # "clear" => Queue' = Queue]_vars
=============================================================================
