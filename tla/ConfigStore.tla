----------------------------- MODULE ConfigStore -----------------------------
(***************************************************************************)
(* The configuration kept in NOR flash (persistence/config_store.c), the   *)
(* callbacks that write it when built with CONFIG_PERSIST_TO_FLASH         *)
(* (mqtt_config_callbacks.c) and the boot that reads it.                   *)
(*                                                                         *)
(* The operators and the products have a region of erase sectors each, and *)
(* one metadata record with a CRC, in a sector of its own, tells how long  *)
(* both are.  Nothing else says whether what lies in a region is one       *)
(* configuration.  The credentials carry their own CRC.  Writes go sector  *)
(* by sector through a RAM copy, as in PersistentQueue; a power loss or a  *)
(* failing flash command may come at every command.                        *)
(***************************************************************************)
EXTENDS Naturals, FiniteSets

CONSTANTS
  Configs,      (* the configurations of each kind                         *)
  Length,       (* how many cells a configuration fills                    *)
  Sectors,      (* how many sectors the region of each kind has            *)
  SectorCells,  (* CONFIG_STORE_SECTOR_SIZE, in cells                      *)
  Clears,       (* pairs of pieces: the second sets no bit the first has   *)
                (* cleared                                                 *)
  Creds,        (* sets of credentials                                     *)
  Faults,       (* which of "power" and "flash" may go wrong               *)
  Erased,       (* a cell whose bits are all set                           *)
  Torn,         (* a cell left undefined by an interrupted command         *)
  Unreadable,   (* a record whose CRC does not match                       *)
  Nothing       (* no configuration                                        *)

Kind    == {"operators", "products"}
Room(k) == Sectors[k] * SectorCells
AllConfigs == Configs["operators"] \cup Configs["products"]

ASSUME SectorsAssumption ==
  /\ Sectors \in [Kind -> Nat \ {0}]
  /\ SectorCells \in Nat \ {0}
ASSUME ConfigsAssumption ==
  /\ DOMAIN Configs = Kind
  /\ Length \in [AllConfigs -> Nat \ {0}]
ASSUME DistinctAssumption ==
  /\ Erased \notin AllConfigs \X Nat
  /\ Torn \notin AllConfigs \X Nat
  /\ Nothing \notin AllConfigs
  /\ Unreadable \notin [Kind -> Nat] \cup Creds

VARIABLES
  data,    (* what each cell of the two regions holds                      *)
  meta,    (* the sizes in the metadata record, or Unreadable              *)
  creds,   (* the credentials, or Unreadable                               *)
  pc,      (* where the running call is                                    *)
  kind,    (* the region it works on                                       *)
  conf,    (* the configuration it writes                                  *)
  sec,     (* the sector it works on                                       *)
  buf,     (* the cells still to be programmed, and with what              *)
  new,     (* the record it will write                                     *)
  last,    (* the configuration of each kind last stored with its size and *)
           (* not lost since                                               *)
  started  (* those whose storing has begun since                          *)

flash   == <<data, meta, creds>>
locals  == <<kind, conf, sec, buf, new>>
history == <<last, started>>
vars    == <<data, meta, creds, pc, kind, conf, sec, buf, new, last, started>>

Piece   == AllConfigs \X Nat
Content == Piece \cup {Erased, Torn}
Cell    == UNION {{k} \X (1 .. Room(k)) : k \in Kind}

SectorOf(c)   == (c[2] - 1) \div SectorCells
CellsOf(k, s) == {c \in Cell : c[1] = k /\ SectorOf(c) = s}
NoCells       == [c \in {} |-> Erased]
NoSizes       == [k \in Kind |-> 0]

(* The part of the configuration being written that lies in sector sec. *)
Chunk     == {c \in CellsOf(kind, sec) : c[2] <= Length[conf]}
Wanted(c) == <<conf, c[2]>>

(* Programming desired over current only has to clear bits. *)
OnlyClears(current, desired) ==
  \/ current \in {Erased, desired}
  \/ <<current, desired>> \in Clears

Programmed(current, desired) ==
  IF OnlyClears(current, desired) THEN desired ELSE Torn

(* can_program_without_erase *)
CanProgram(current, desired) == OnlyClears(current, desired)

-----------------------------------------------------------------------------
(* The device leaves the factory with blank flash. *)
Init ==
  /\ data = [c \in Cell |-> Erased]
  /\ meta = Unreadable
  /\ creds = Unreadable
  /\ pc = "idle"
  /\ kind = "operators"
  /\ conf = Nothing
  /\ sec = 0
  /\ buf = NoCells
  /\ new = NoSizes
  /\ last = [k \in Kind |-> Nothing]
  /\ started = [k \in Kind |-> {}]

(* The call returns; its locals are gone. *)
Return ==
  /\ pc' = "idle"
  /\ kind' = "operators"
  /\ conf' = Nothing
  /\ sec' = 0
  /\ buf' = NoCells
  /\ new' = NoSizes

(* The persisting half of mqtt_callback_config_operators and _products. *)
Persist(k, c) ==
  /\ pc = "idle"
  /\ Length[c] <= Room(k)
  /\ pc' = "update"
  /\ kind' = k
  /\ conf' = c
  /\ sec' = 0
  /\ started' = [started EXCEPT ![k] = @ \cup {c}]
  /\ UNCHANGED <<flash, buf, new, last>>

(* The loop of write_region: the next sector, or on to the metadata. *)
NextChunkPast ==
  IF Length[conf] >= (sec + 1) * SectorCells
  THEN /\ sec' = sec + 1
       /\ pc' = "update"
  ELSE /\ pc' = "meta"
       /\ UNCHANGED sec
NextChunk ==
  IF Length[conf] > (sec + 1) * SectorCells
  THEN /\ sec' = sec + 1
       /\ pc' = "update"
  ELSE /\ pc' = "meta"
       /\ UNCHANGED sec

(* s_sectorBuf after the chunk has been copied into it. *)
Merged(c) == IF c \in Chunk THEN Wanted(c) ELSE data[c]

(* update_sector_range, up to its first flash command. *)
UpdateSector ==
  /\ pc = "update"
  /\ \/ /\ \A c \in Chunk : data[c] = Wanted(c)
        /\ NextChunk
        /\ UNCHANGED buf
     \/ /\ \E c \in Chunk : data[c] # Wanted(c)
        /\ \A c \in Chunk : CanProgram(data[c], Wanted(c))
        /\ buf' = [c \in Chunk |-> Wanted(c)]
        /\ pc' = "program"
        /\ UNCHANGED sec
     \/ /\ \E c \in Chunk : ~CanProgram(data[c], Wanted(c))
        /\ buf' = [c \in {d \in CellsOf(kind, sec) : Merged(d) # Erased} |-> Merged(c)]
        /\ pc' = "erase"
        /\ UNCHANGED sec
  /\ UNCHANGED <<flash, kind, conf, new, history>>

EraseSector ==
  /\ pc = "erase"
  /\ data' = [c \in Cell |-> IF c \in CellsOf(kind, sec) THEN Erased ELSE data[c]]
  /\ pc' = "program"
  /\ UNCHANGED <<meta, creds, locals, history>>

(* program_non_ff_locked, one cell of it, lowest address first. *)
IsFirst(c) == c \in DOMAIN buf /\ \A d \in DOMAIN buf : c[2] <= d[2]

ProgramCell ==
  /\ pc = "program"
  /\ \E c \in DOMAIN buf :
       /\ IsFirst(c)
       /\ data' = [data EXCEPT ![c] = Programmed(@, buf[c])]
       /\ buf' = [d \in DOMAIN buf \ {c} |-> buf[d]]
  /\ IF DOMAIN buf' = {}
     THEN NextChunk
     ELSE UNCHANGED <<pc, sec>>
  /\ UNCHANGED <<meta, creds, kind, conf, new, history>>

(* config_store_read_meta, or zeros, and config_store_write_meta up to the *)
(* command that makes the old record unreadable.  The record is left alone *)
(* when it is to stay the same, time stamps included.                      *)
NewSizesUnset ==
  [(IF meta = Unreadable THEN [k \in Kind |-> Room(k)] ELSE meta)
     EXCEPT ![kind] = Length[conf]]
NewSizesFresh == [NoSizes EXCEPT ![kind] = Length[conf]]
NewSizes ==
  [(IF meta = Unreadable THEN NoSizes ELSE meta) EXCEPT ![kind] = Length[conf]]

Complete ==
  /\ last' = [last EXCEPT ![kind] = conf]
  /\ started' = [started EXCEPT ![kind] = {}]

Lose ==
  /\ last' = [k \in Kind |-> Nothing]
  /\ started' = [k \in Kind |-> {}]

WriteMeta ==
  /\ pc = "meta"
  /\ \/ /\ meta = NewSizes
        /\ Complete
        /\ Return
        /\ UNCHANGED meta
     \/ /\ meta' = Unreadable
        /\ new' = NewSizes
        /\ pc' = "programMeta"
        /\ UNCHANGED <<kind, conf, sec, buf, history>>
  /\ UNCHANGED <<data, creds>>

ProgramMeta ==
  /\ pc = "programMeta"
  /\ meta' = new
  /\ Complete
  /\ Return
  /\ UNCHANGED <<data, creds>>

-----------------------------------------------------------------------------
(* save_credentials_to_storage: nothing to do when they are there already, *)
(* else unreadable until they are complete.                                *)
SaveCredentials(s) ==
  /\ pc = "idle"
  /\ creds # s
  /\ creds' = Unreadable
  /\ conf' = s
  /\ pc' = "programCreds"
  /\ UNCHANGED <<data, meta, kind, sec, buf, new, history>>

ProgramCreds ==
  /\ pc = "programCreds"
  /\ creds' = conf
  /\ Return
  /\ UNCHANGED <<data, meta, history>>

(* config_store_clear_credentials *)
ClearCredentials ==
  /\ pc = "idle"
  /\ creds' = Unreadable
  /\ UNCHANGED <<data, meta, pc, locals, history>>

(* config_store_clear_all: the metadata first, then the operators, the     *)
(* products sector by sector, and the credentials.                         *)
ClearAll ==
  /\ pc = "idle"
  /\ pc' = "clearMeta"
  /\ UNCHANGED <<flash, locals, history>>

ClearMeta ==
  /\ pc = "clearMeta"
  /\ meta' = Unreadable
  /\ pc' = "clear"
  /\ Lose
  /\ UNCHANGED <<data, creds, locals>>

ClearSector ==
  /\ pc = "clear"
  /\ data' = [c \in Cell |-> IF c \in CellsOf(kind, sec) THEN Erased ELSE data[c]]
  /\ IF sec < Sectors[kind] - 1
     THEN /\ sec' = sec + 1
          /\ UNCHANGED <<pc, kind>>
     ELSE /\ sec' = 0
          /\ kind' = "products"
          /\ pc' = IF kind = "operators" THEN "clear" ELSE "clearCreds"
  /\ UNCHANGED <<meta, creds, conf, buf, new, history>>

ClearCreds ==
  /\ pc = "clearCreds"
  /\ creds' = Unreadable
  /\ Return
  /\ UNCHANGED <<data, meta, history>>

-----------------------------------------------------------------------------
(* What the regions may hold after an interrupted command. *)
Interrupted ==
  \/ UNCHANGED data
  \/ /\ pc \in {"erase", "clear"}
     /\ \E left \in {Erased, Torn} :
          data' = [c \in Cell |-> IF c \in CellsOf(kind, sec) THEN left ELSE data[c]]
  \/ /\ pc = "program"
     /\ \E c \in DOMAIN buf :
          /\ IsFirst(c)
          /\ \E left \in {Programmed(data[c], buf[c]), Torn} : data' = [data EXCEPT ![c] = left]

(* A call that is cut short while there are no readable metadata has lost  *)
(* all configurations.                                                     *)
Account ==
  IF meta' = Unreadable
  THEN Lose
  ELSE IF pc = "programMeta" THEN Complete ELSE UNCHANGED history

(* Power is lost: the flash stays as the interrupted command left it, and  *)
(* the board starts again.                                                 *)
PowerLoss ==
  /\ "power" \in Faults
  /\ pc # "idle"
  /\ Interrupted
  /\ UNCHANGED <<meta, creds>>
  /\ Account
  /\ Return

(* A flash command fails, before or after it had its effect (-1 also when  *)
(* only the return to memory-mapped mode failed), and so does the call.    *)
FlashFault ==
  /\ "flash" \in Faults
  /\ pc # "idle"
  /\ Interrupted
  /\ CASE pc \in {"meta", "clearMeta"} -> meta' \in {meta, Unreadable}
       [] pc = "programMeta"          -> meta' \in {Unreadable, new}
       [] OTHER                       -> UNCHANGED meta
  /\ CASE pc = "clearCreds"           -> creds' \in {creds, Unreadable}
       [] pc = "programCreds"         -> creds' \in {Unreadable, conf}
       [] OTHER                       -> UNCHANGED creds
  /\ Account
  /\ Return

Next ==
  \/ \E k \in Kind : \E c \in Configs[k] : Persist(k, c)
  \/ UpdateSector
  \/ EraseSector
  \/ ProgramCell
  \/ WriteMeta
  \/ ProgramMeta
  \/ \E s \in Creds : SaveCredentials(s)
  \/ ProgramCreds
  \/ ClearCredentials
  \/ ClearAll
  \/ ClearMeta
  \/ ClearSector
  \/ ClearCreds
  \/ PowerLoss
  \/ FlashFault

Spec == Init /\ [][Next]_vars

-----------------------------------------------------------------------------
(* config_store_read_operators and _products, which read when no call that *)
(* writes is running.                                                      *)
Read(k) ==
  IF meta = Unreadable \/ meta[k] = 0 \/ meta[k] > Room(k)
  THEN [n \in {} |-> Erased]
  ELSE [n \in 1 .. meta[k] |-> data[<<k, n>>]]

Whole(c) ==
  IF c = Nothing THEN [n \in {} |-> Erased] ELSE [n \in 1 .. Length[c] |-> <<c, n>>]

(* Type invariant. *)
StoreTypeOK ==
  /\ data \in [Cell -> Content]
  /\ meta \in [Kind -> Nat] \cup {Unreadable}
  /\ creds \in Creds \cup {Unreadable}
  /\ pc \in {"idle", "update", "erase", "program", "meta", "programMeta",
             "programCreds", "clearMeta", "clear", "clearCreds"}
  /\ kind \in Kind
  /\ conf \in AllConfigs \cup Creds \cup {Nothing}
  /\ sec \in 0 .. Sectors[kind] - 1
  /\ DOMAIN buf \subseteq Cell
  /\ \A c \in DOMAIN buf : buf[c] \in Content
  /\ new \in [Kind -> Nat]
  /\ last \in [Kind -> AllConfigs \cup {Nothing}]
  /\ started \in [Kind -> SUBSET AllConfigs]

(* Whatever was written, cleared, cut short or lost before: as long as no  *)
(* attempt to replace it has begun and failed, what is read is the         *)
(* configuration last stored with its size, whole, and nothing when there  *)
(* is none; in particular, storing one kind never harms the other, and     *)
(* what was cleared or lost never comes back.                              *)
ReadsLastStored ==
  pc = "idle" => \A k \in Kind : started[k] = {} => Read(k) = Whole(last[k])

(* After an attempt that failed, a reader may find a mixture, which the    *)
(* metadata do not tell from a configuration, but only of the attempts     *)
(* since the last success and of that one: never of anything older.        *)
MixesOnlyRecent ==
  pc = "idle" =>
    \A k \in Kind : \A n \in DOMAIN Read(k) :
      Read(k)[n] \in {<<c, n>> : c \in started[k] \cup {last[k]}} \cup {Erased, Torn}
=============================================================================
