------------------------- MODULE ConfigStore_proofs -------------------------
(***************************************************************************)
(* Proofs about ConfigStore for every set of configurations, their         *)
(* lengths, the sizes of regions and sectors and any mixture of power      *)
(* losses and flash failures: what is read back is what was last stored,   *)
(* and a mixture is made of recent attempts only.                          *)
(***************************************************************************)
EXTENDS ConfigStore, Integers, TLAPS

-----------------------------------------------------------------------------
(* Arithmetic of sectors.                                                  *)

LEMMA DivLess ==
  ASSUME NEW n \in Nat \ {0}, NEW x \in Nat, NEW m \in Nat
  PROVE  /\ x \div n \in Nat
         /\ x < m * n => x \div n < m
         /\ m * n <= x => m <= x \div n
<1>1. /\ x \div n \in Nat
      /\ n * (x \div n) <= x /\ x < n * (x \div n) + n
  BY SMT
<1> DEFINE q == x \div n
<1>2. q \in Nat /\ n * q <= x /\ x < n * q + n
  BY <1>1
<1> HIDE DEF q
<1>3. ASSUME x < m * n, q >= m PROVE FALSE
  <2>1. n * q >= n * m
    BY <1>2, <1>3
  <2> QED
    BY <1>2, <1>3, <2>1
<1>4. ASSUME m * n <= x, q < m PROVE FALSE
  <2>1. q + 1 <= m
    BY <1>2, <1>4
  <2>2. n * (q + 1) <= n * m
    BY <1>2, <2>1
  <2>3. n * (q + 1) = n * q + n
    BY <1>2
  <2> QED
    BY <1>2, <1>4, <2>2, <2>3
<1>5. x \div n = q
  BY DEF q
<1> QED
  BY <1>2, <1>3, <1>4, <1>5

LEMMA LessByFactor ==
  ASSUME NEW n \in Nat \ {0}, NEW a \in Nat, NEW b \in Nat, a * n < b * n
  PROVE  a < b
<1> SUFFICES ASSUME a >= b PROVE FALSE
  OBVIOUS
<1>1. a * n >= b * n
  OBVIOUS
<1> QED
  BY <1>1

LEMMA RoomType == ASSUME NEW k \in Kind PROVE Room(k) \in Nat /\ Sectors[k] \in Nat \ {0}
BY SectorsAssumption DEF Room

LEMMA CellFacts ==
  ASSUME NEW k \in Kind, NEW n \in 1 .. Room(k)
  PROVE  /\ <<k, n>> \in Cell
         /\ SectorOf(<<k, n>>) \in Nat
         /\ <<k, n>> \in CellsOf(k, SectorOf(<<k, n>>))
<1>1. n \in Nat /\ n - 1 \in Nat
  BY RoomType
<1>2. <<k, n>> \in Cell
  BY DEF Cell
<1> QED
  BY <1>1, <1>2, SectorsAssumption, DivLess DEF SectorOf, CellsOf

LEMMA CellShape ==
  ASSUME NEW c \in Cell
  PROVE  /\ c[1] \in Kind /\ c[2] \in 1 .. Room(c[1]) /\ c = <<c[1], c[2]>>
BY DEF Cell

-----------------------------------------------------------------------------
(* The inductive invariant.  The metadata and the history agree, a region  *)
(* that is not being replaced holds what they say, and the running call    *)
(* has written what it should up to the sector it works on.                *)

Writing == {"update", "erase", "program", "meta", "programMeta"}

SizeOf(c) == IF c = Nothing THEN 0 ELSE Length[c]

Recent(k, n) == {<<c, n>> : c \in started[k] \cup {last[k]}} \cup {Erased, Torn}

CallOK ==
  /\ pc \in Writing => /\ conf \in Configs[kind]
                       /\ Length[conf] <= Room(kind)
                       /\ conf \in started[kind]
  /\ pc = "programCreds" => conf \in Creds
  /\ pc = "programMeta" =>
       /\ meta = Unreadable
       /\ \A k \in Kind : new[k] = IF k = kind THEN Length[conf] ELSE SizeOf(last[k])
  /\ pc \in {"clear", "clearCreds"} => meta = Unreadable

RecordOK ==
  /\ \A k \in Kind : last[k] # Nothing => /\ last[k] \in Configs[k]
                                          /\ Length[last[k]] <= Room(k)
  /\ meta # Unreadable => \A k \in Kind : meta[k] = SizeOf(last[k])
  /\ meta = Unreadable /\ pc # "programMeta" => \A k \in Kind : last[k] = Nothing

DataOK ==
  \A k \in Kind : last[k] # Nothing =>
    \A n \in 1 .. Length[last[k]] :
      /\ started[k] = {} => data[<<k, n>>] = <<last[k], n>>
      /\ data[<<k, n>>] \in Recent(k, n)

BufOK ==
  pc \in {"erase", "program"} =>
    /\ DOMAIN buf \subseteq CellsOf(kind, sec)
    /\ last[kind] # Nothing =>
         \A c \in DOMAIN buf : c[2] <= Length[last[kind]] => buf[c] \in Recent(kind, c[2])

SoFar ==
  pc \in Writing => \A n \in 1 .. Length[conf] :
    /\ pc \in {"meta", "programMeta"} => data[<<kind, n>>] = <<conf, n>>
    /\ SectorOf(<<kind, n>>) < sec => data[<<kind, n>>] = <<conf, n>>
    /\ pc = "erase" /\ SectorOf(<<kind, n>>) = sec
         => <<kind, n>> \in DOMAIN buf /\ buf[<<kind, n>>] = <<conf, n>>
    /\ pc = "program" /\ SectorOf(<<kind, n>>) = sec
         => IF <<kind, n>> \in DOMAIN buf
            THEN /\ buf[<<kind, n>>] = <<conf, n>>
                 /\ OnlyClears(data[<<kind, n>>], <<conf, n>>)
            ELSE data[<<kind, n>>] = <<conf, n>>

IInv == StoreTypeOK /\ CallOK /\ RecordOK /\ DataOK /\ BufOK /\ SoFar

-----------------------------------------------------------------------------

LEMMA ConfigType ==
  ASSUME NEW k \in Kind, NEW c \in Configs[k]
  PROVE  c \in AllConfigs /\ Length[c] \in Nat /\ Length[c] > 0 /\ c # Nothing
BY ConfigsAssumption, DistinctAssumption DEF Kind, AllConfigs

(* Cells of the configuration being written. *)
LEMMA OwnCells ==
  ASSUME IInv, pc \in Writing, NEW n \in 1 .. Length[conf]
  PROVE  /\ n \in 1 .. Room(kind)
         /\ <<kind, n>> \in Cell
         /\ SectorOf(<<kind, n>>) \in Nat
         /\ <<kind, n>> \in CellsOf(kind, SectorOf(<<kind, n>>))
         /\ <<conf, n>> \in Piece
<1>1. kind \in Kind /\ conf \in Configs[kind] /\ Length[conf] <= Room(kind)
  BY DEF IInv, StoreTypeOK, CallOK
<1>2. Length[conf] \in Nat /\ conf \in AllConfigs
  BY <1>1, ConfigType
<1>3. n \in 1 .. Room(kind) /\ n \in Nat
  BY <1>1, <1>2, RoomType
<1> QED
  BY <1>1, <1>2, <1>3, CellFacts DEF Piece

LEMMA InitInv == Init => IInv
<1> SUFFICES ASSUME Init PROVE IInv
  OBVIOUS
<1>1. StoreTypeOK
  BY SectorsAssumption DEF Init, StoreTypeOK, Content, Kind, NoCells, NoSizes
<1>2. CallOK /\ RecordOK /\ DataOK /\ BufOK /\ SoFar
  BY DEF Init, CallOK, RecordOK, DataOK, BufOK, SoFar, Writing
<1> QED
  BY <1>1, <1>2 DEF IInv

(* The end of a call that keeps the history: the metadata are as before.   *)
LEMMA EndType ==
  ASSUME IInv, Return, data' \in [Cell -> Content],
         meta' \in [Kind -> Nat] \cup {Unreadable}, creds' \in Creds \cup {Unreadable},
         last' \in [Kind -> AllConfigs \cup {Nothing}],
         started' \in [Kind -> SUBSET AllConfigs]
  PROVE  /\ StoreTypeOK' /\ CallOK' /\ BufOK' /\ SoFar'
<1>1. /\ pc' = "idle" /\ kind' = "operators" /\ conf' = Nothing /\ sec' = 0
      /\ buf' = NoCells /\ new' = NoSizes
  BY DEF Return
<1>2. DOMAIN buf' = {} /\ new' \in [Kind -> Nat]
  BY <1>1 DEF NoCells, NoSizes
<1>3. sec' \in 0 .. Sectors[kind'] - 1 /\ kind' \in Kind
  BY <1>1, SectorsAssumption DEF Kind
<1>4. StoreTypeOK'
  BY <1>1, <1>2, <1>3 DEF StoreTypeOK
<1> QED
  BY <1>1, <1>4 DEF CallOK, BufOK, SoFar, Writing

(* What the actions may write into a cell. *)
LEMMA ContentType ==
  /\ Erased \in Content /\ Torn \in Content
  /\ \A cur, want \in Content : Programmed(cur, want) \in {want, Torn}
  /\ \A cur, want \in Content : OnlyClears(cur, want) => Programmed(cur, want) = want
BY DEF Content, Programmed

LEMMA SectorCellsType ==
  ASSUME NEW k \in Kind, NEW s \in Nat, NEW c \in CellsOf(k, s)
  PROVE  /\ c \in Cell /\ c[1] = k /\ c[2] \in 1 .. Room(k) /\ c = <<k, c[2]>>
         /\ SectorOf(c) = s
BY CellShape DEF CellsOf

(* The chunk in the sector the call works on. *)
LEMMA ChunkFacts ==
  ASSUME IInv, pc \in Writing
  PROVE  /\ conf \in Configs[kind] /\ conf \in AllConfigs /\ conf \in started[kind]
         /\ Length[conf] \in Nat /\ Length[conf] > 0 /\ Length[conf] <= Room(kind)
         /\ sec \in Nat /\ sec < Sectors[kind]
         /\ Chunk \subseteq CellsOf(kind, sec)
         /\ \A n \in 1 .. Length[conf] :
              SectorOf(<<kind, n>>) = sec => <<kind, n>> \in Chunk /\ Wanted(<<kind, n>>) = <<conf, n>>
         /\ \A c \in Chunk : Wanted(c) = <<conf, c[2]>> /\ Wanted(c) \in Piece
<1>1. /\ kind \in Kind /\ conf \in Configs[kind] /\ Length[conf] <= Room(kind)
      /\ conf \in started[kind] /\ sec \in 0 .. Sectors[kind] - 1
  BY DEF IInv, StoreTypeOK, CallOK
<1>2. conf \in AllConfigs /\ Length[conf] \in Nat /\ Length[conf] > 0
  BY <1>1, ConfigType
<1>3. sec \in Nat /\ sec < Sectors[kind]
  BY <1>1, RoomType
<1>4. Chunk \subseteq CellsOf(kind, sec)
  BY DEF Chunk
<1>5. ASSUME NEW n \in 1 .. Length[conf], SectorOf(<<kind, n>>) = sec
      PROVE  <<kind, n>> \in Chunk /\ Wanted(<<kind, n>>) = <<conf, n>>
  <2>1. <<kind, n>> \in CellsOf(kind, SectorOf(<<kind, n>>))
    BY OwnCells
  <2>2. <<kind, n>> \in CellsOf(kind, sec)
    BY <1>5, <2>1
  <2>3. <<kind, n>>[2] = n /\ n <= Length[conf]
    BY <1>2
  <2> QED
    BY <2>2, <2>3 DEF Chunk, Wanted
<1>6. ASSUME NEW c \in Chunk PROVE Wanted(c) = <<conf, c[2]>> /\ Wanted(c) \in Piece
  BY <1>1, <1>2, <1>3, <1>4, SectorCellsType, RoomType DEF Wanted, Piece
<1> QED
  BY <1>1, <1>2, <1>3, <1>4, <1>5, <1>6

(* The loop goes on after a chunk: everything up to its end is written.    *)
LEMMA NextChunkInv ==
  ASSUME IInv, pc \in {"update", "program"}, NextChunk,
         UNCHANGED <<meta, creds, kind, conf, new, last, started>>,
         data' \in [Cell -> Content], DOMAIN buf' \subseteq Cell,
         \A c \in DOMAIN buf' : buf'[c] \in Content,
         DataOK',
         \A n \in 1 .. Length[conf] :
           SectorOf(<<kind, n>>) <= sec => data'[<<kind, n>>] = <<conf, n>>
  PROVE  IInv'
<1>1. pc \in Writing /\ pc # "programMeta"
  BY DEF Writing
<1>2. /\ conf \in Configs[kind] /\ conf \in AllConfigs /\ conf \in started[kind]
      /\ Length[conf] \in Nat /\ Length[conf] > 0 /\ Length[conf] <= Room(kind)
      /\ sec \in Nat /\ sec < Sectors[kind] /\ kind \in Kind
  BY <1>1, ChunkFacts DEF IInv, StoreTypeOK
<1>3. /\ pc' \in {"update", "meta"}
      /\ pc' = "update" => sec' = sec + 1 /\ Length[conf] > (sec + 1) * SectorCells
      /\ pc' = "meta" => sec' = sec /\ Length[conf] <= (sec + 1) * SectorCells
  BY <1>2, SectorsAssumption DEF NextChunk
<1>4. sec' \in 0 .. Sectors[kind] - 1
  <2>1. CASE pc' = "update"
    <3>1. (sec + 1) * SectorCells < Sectors[kind] * SectorCells
      BY <1>2, <1>3, <2>1, SectorsAssumption DEF Room
    <3>2. sec + 1 < Sectors[kind]
      BY <1>2, <3>1, LessByFactor, RoomType, SectorsAssumption
    <3> QED
      BY <1>2, <1>3, <2>1, <3>2, RoomType
  <2>2. CASE pc' = "meta"
    BY <1>2, <1>3, <2>2, RoomType
  <2> QED
    BY <1>3, <2>1, <2>2
<1>5. StoreTypeOK'
  BY <1>3, <1>4 DEF IInv, StoreTypeOK
<1>6. CallOK' /\ RecordOK' /\ BufOK'
  BY <1>1, <1>2, <1>3 DEF IInv, CallOK, RecordOK, BufOK, Writing
<1>7. SoFar'
  <2>1. SUFFICES ASSUME NEW n \in 1 .. Length[conf]
                 PROVE  /\ pc' = "meta" => data'[<<kind, n>>] = <<conf, n>>
                        /\ pc' = "update" /\ SectorOf(<<kind, n>>) < sec'
                             => data'[<<kind, n>>] = <<conf, n>>
                        /\ pc' = "meta" /\ SectorOf(<<kind, n>>) < sec'
                             => data'[<<kind, n>>] = <<conf, n>>
    BY <1>3 DEF SoFar, Writing
  <2>2. SectorOf(<<kind, n>>) \in Nat
    BY <1>1, OwnCells
  <2>3. CASE pc' = "update"
    BY <1>2, <1>3, <2>2, <2>3
  <2>4. CASE pc' = "meta"
    <3>1. n - 1 \in Nat /\ n - 1 < (sec + 1) * SectorCells
      BY <1>2, <1>3, <2>4, SectorsAssumption
    <3>2. (n - 1) \div SectorCells < sec + 1
      <4>1. sec + 1 \in Nat /\ SectorCells \in Nat \ {0}
        BY <1>2, SectorsAssumption
      <4> DEFINE x == n - 1
      <4>2. x \in Nat /\ x < (sec + 1) * SectorCells
        BY <3>1
      <4> HIDE DEF x
      <4>3. x \div SectorCells < sec + 1
        BY <4>1, <4>2, DivLess
      <4> QED
        BY <4>3 DEF x
    <3>3. SectorOf(<<kind, n>>) < sec + 1
      BY <3>2 DEF SectorOf
    <3> QED
      BY <1>2, <2>2, <2>4, <3>3
  <2> QED
    BY <1>3, <2>3, <2>4
<1> QED
  BY <1>5, <1>6, <1>7 DEF IInv

-----------------------------------------------------------------------------
(* The steps of a call that writes a configuration.                        *)

LEMMA PersistInv ==
  ASSUME IInv, NEW k \in Kind, NEW c \in Configs[k], Persist(k, c) PROVE IInv'
<1>1. /\ pc = "idle" /\ pc' = "update" /\ kind' = k /\ conf' = c /\ sec' = 0
      /\ Length[c] <= Room(k) /\ started' = [started EXCEPT ![k] = @ \cup {c}]
      /\ UNCHANGED <<data, meta, creds, buf, new, last>>
  BY DEF Persist, flash
<1>2. c \in AllConfigs /\ Length[c] \in Nat /\ Sectors[k] \in Nat /\ Sectors[k] > 0
  BY ConfigType, RoomType
<1>3. started \in [Kind -> SUBSET AllConfigs]
  BY DEF IInv, StoreTypeOK
<1>4. /\ started' \in [Kind -> SUBSET AllConfigs]
      /\ c \in started'[k]
      /\ \A j \in Kind : started[j] \subseteq started'[j]
      /\ \A j \in Kind : started'[j] = {} => started[j] = {}
  BY <1>1, <1>2, <1>3
<1>5. StoreTypeOK'
  BY <1>1, <1>2, <1>4 DEF IInv, StoreTypeOK
<1>6. CallOK' /\ RecordOK' /\ BufOK'
  BY <1>1, <1>4 DEF IInv, CallOK, RecordOK, BufOK, Writing
<1>7. DataOK'
  BY <1>1, <1>4 DEF IInv, DataOK, Recent
<1>8. SoFar'
  <2>1. SUFFICES ASSUME NEW n \in 1 .. Length[c]
                 PROVE  SectorOf(<<k, n>>) < 0 => data'[<<k, n>>] = <<c, n>>
    BY <1>1 DEF SoFar
  <2>2. n \in 1 .. Room(k)
    BY <1>1, <1>2, RoomType
  <2>3. SectorOf(<<k, n>>) \in Nat
    BY <2>2, CellFacts
  <2> QED
    BY <2>3
<1> QED
  BY <1>5, <1>6, <1>7, <1>8 DEF IInv

(* What the sector will be made to hold is recent. *)
LEMMA MergedRecent ==
  ASSUME IInv, pc \in Writing, last[kind] # Nothing,
         NEW c \in CellsOf(kind, sec), c[2] <= Length[last[kind]]
  PROVE  /\ data[c] \in Recent(kind, c[2])
         /\ c \in Chunk => Wanted(c) \in Recent(kind, c[2])
<1>1. kind \in Kind /\ sec \in Nat /\ conf \in started[kind]
  BY ChunkFacts DEF IInv, StoreTypeOK
<1>2. c = <<kind, c[2]>> /\ c[2] \in 1 .. Room(kind)
  BY <1>1, SectorCellsType
<1>3. last[kind] \in Configs[kind]
  BY <1>1 DEF IInv, RecordOK
<1>4. Length[last[kind]] \in Nat
  BY <1>1, <1>3, ConfigType
<1>5. c[2] \in 1 .. Length[last[kind]]
  BY <1>1, <1>2, <1>4, RoomType
<1>6. data[<<kind, c[2]>>] \in Recent(kind, c[2])
  BY <1>1, <1>5 DEF IInv, DataOK
<1>7. c \in Chunk => Wanted(c) \in Recent(kind, c[2])
  BY <1>1 DEF Wanted, Recent
<1> QED
  BY <1>2, <1>6, <1>7

LEMMA UpdateSectorInv == ASSUME IInv, UpdateSector PROVE IInv'
<1>1. /\ pc = "update" /\ pc \in Writing
      /\ UNCHANGED <<data, meta, creds, kind, conf, new, last, started>>
  BY DEF UpdateSector, flash, history, Writing
<1>2. /\ conf \in Configs[kind] /\ conf \in AllConfigs /\ conf \in started[kind]
      /\ Length[conf] \in Nat /\ sec \in Nat /\ kind \in Kind
      /\ Chunk \subseteq CellsOf(kind, sec)
      /\ \A n \in 1 .. Length[conf] :
           SectorOf(<<kind, n>>) = sec => <<kind, n>> \in Chunk /\ Wanted(<<kind, n>>) = <<conf, n>>
      /\ \A c \in Chunk : Wanted(c) = <<conf, c[2]>> /\ Wanted(c) \in Piece
  BY <1>1, ChunkFacts DEF IInv, StoreTypeOK
<1>3. \A n \in 1 .. Length[conf] : SectorOf(<<kind, n>>) \in Nat
  BY <1>1, OwnCells
<1>4. /\ data' \in [Cell -> Content] /\ DataOK'
      /\ \A c \in Cell : data[c] \in Content
      /\ DOMAIN buf \subseteq Cell /\ \A c \in DOMAIN buf : buf[c] \in Content
  BY <1>1 DEF IInv, StoreTypeOK, DataOK, Recent
<1>5. \A n \in 1 .. Length[conf] : SectorOf(<<kind, n>>) < sec => data[<<kind, n>>] = <<conf, n>>
  BY <1>1 DEF IInv, SoFar
<1>6. CellsOf(kind, sec) \subseteq Cell
  BY DEF CellsOf
<1>7. CASE /\ \A c \in Chunk : data[c] = Wanted(c)
           /\ NextChunk
           /\ UNCHANGED buf
  <2>1. \A n \in 1 .. Length[conf] :
          SectorOf(<<kind, n>>) <= sec => data'[<<kind, n>>] = <<conf, n>>
    BY <1>1, <1>2, <1>3, <1>5, <1>7
  <2> QED
    BY <1>1, <1>4, <1>7, <2>1, NextChunkInv
<1>8. ASSUME \/ /\ pc' = "program"
                /\ \A c \in Chunk : CanProgram(data[c], Wanted(c))
                /\ buf' = [c \in Chunk |-> Wanted(c)]
             \/ /\ pc' = "erase"
                /\ buf' = [c \in {d \in CellsOf(kind, sec) : Merged(d) # Erased} |-> Merged(c)],
             UNCHANGED sec
      PROVE  IInv'
  <2>1. \A c \in CellsOf(kind, sec) : Merged(c) \in Content
    BY <1>2, <1>4, <1>6 DEF Merged, Content
  <2>2. \A c \in Chunk : Wanted(c) \in Content
    BY <1>2 DEF Content
  <2>3. /\ DOMAIN buf' \subseteq CellsOf(kind, sec)
        /\ \A c \in DOMAIN buf' : /\ buf'[c] \in Content
                                  /\ \/ buf'[c] = data[c]
                                     \/ c \in Chunk /\ buf'[c] = Wanted(c)
    BY <1>2, <1>8, <2>1, <2>2 DEF Merged
  <2>4. StoreTypeOK'
    BY <1>1, <1>6, <1>8, <2>3 DEF IInv, StoreTypeOK
  <2>5. CallOK' /\ RecordOK'
    BY <1>1, <1>8 DEF IInv, CallOK, RecordOK, Writing
  <2>6. BufOK'
    <3>1. SUFFICES ASSUME last[kind] # Nothing, NEW c \in DOMAIN buf',
                          c[2] <= Length[last[kind]]
                   PROVE  buf'[c] \in Recent(kind, c[2])
      BY <1>1, <1>8, <2>3 DEF BufOK, Recent
    <3> QED
      BY <1>1, <2>3, <3>1, MergedRecent
  <2>7. SoFar'
    <3>1. SUFFICES ASSUME NEW n \in 1 .. Length[conf]
                   PROVE  /\ SectorOf(<<kind, n>>) < sec => data[<<kind, n>>] = <<conf, n>>
                          /\ pc' = "erase" /\ SectorOf(<<kind, n>>) = sec
                               => <<kind, n>> \in DOMAIN buf' /\ buf'[<<kind, n>>] = <<conf, n>>
                          /\ pc' = "program" /\ SectorOf(<<kind, n>>) = sec
                               => /\ <<kind, n>> \in DOMAIN buf'
                                  /\ buf'[<<kind, n>>] = <<conf, n>>
                                  /\ OnlyClears(data[<<kind, n>>], <<conf, n>>)
      BY <1>1, <1>8 DEF SoFar, Writing
    <3>2. SectorOf(<<kind, n>>) < sec => data[<<kind, n>>] = <<conf, n>>
      BY <1>5
    <3>3. ASSUME SectorOf(<<kind, n>>) = sec
          PROVE  /\ <<kind, n>> \in Chunk /\ Wanted(<<kind, n>>) = <<conf, n>>
                 /\ <<kind, n>> \in CellsOf(kind, sec)
                 /\ Wanted(<<kind, n>>) # Erased
      BY <1>2, <3>3, DistinctAssumption DEF Piece
    <3>4. ASSUME pc' = "erase", SectorOf(<<kind, n>>) = sec
          PROVE  <<kind, n>> \in DOMAIN buf' /\ buf'[<<kind, n>>] = <<conf, n>>
      BY <1>8, <3>3, <3>4 DEF Merged
    <3>5. ASSUME pc' = "program", SectorOf(<<kind, n>>) = sec
          PROVE  /\ <<kind, n>> \in DOMAIN buf'
                 /\ buf'[<<kind, n>>] = <<conf, n>>
                 /\ OnlyClears(data[<<kind, n>>], <<conf, n>>)
      BY <1>8, <3>3, <3>5 DEF CanProgram
    <3> QED
      BY <3>2, <3>4, <3>5
  <2> QED
    BY <1>4, <2>4, <2>5, <2>6, <2>7 DEF IInv
<1> QED
  BY <1>7, <1>8 DEF UpdateSector

(* Erased and torn cells are always allowed where something is replaced.   *)
LEMMA DisturbedData ==
  ASSUME IInv, UNCHANGED <<last, started>>,
         \/ started[kind] # {}
         \/ last[kind] = Nothing,
         \A c \in Cell : \/ data'[c] = data[c]
                         \/ /\ c \in CellsOf(kind, sec)
                            /\ last[kind] # Nothing /\ c[2] <= Length[last[kind]]
                                 => data'[c] \in Recent(kind, c[2])
  PROVE  DataOK'
<1>1. SUFFICES ASSUME NEW k \in Kind, last[k] # Nothing, NEW n \in 1 .. Length[last[k]]
               PROVE  /\ started[k] = {} => data'[<<k, n>>] = <<last[k], n>>
                      /\ data'[<<k, n>>] \in Recent(k, n)
  BY DEF DataOK, Recent
<1>2. /\ started[k] = {} => data[<<k, n>>] = <<last[k], n>>
      /\ data[<<k, n>>] \in Recent(k, n)
  BY <1>1 DEF IInv, DataOK
<1>3. last[k] \in Configs[k] /\ Length[last[k]] <= Room(k)
  BY <1>1 DEF IInv, RecordOK
<1>4. Length[last[k]] \in Nat /\ Room(k) \in Nat
  BY <1>3, ConfigType, RoomType
<1>5. n \in 1 .. Room(k) /\ n <= Length[last[k]]
  BY <1>3, <1>4
<1>6. <<k, n>> \in Cell /\ <<k, n>>[1] = k /\ <<k, n>>[2] = n
  BY <1>5, CellFacts
<1>7. CASE data'[<<k, n>>] = data[<<k, n>>]
  BY <1>2, <1>7
<1>8. CASE /\ <<k, n>> \in CellsOf(kind, sec)
           /\ last[kind] # Nothing /\ n <= Length[last[kind]]
                => data'[<<k, n>>] \in Recent(kind, n)
  <2>1. k = kind
    BY <1>6, <1>8 DEF CellsOf
  <2> QED
    BY <1>1, <1>5, <1>8, <2>1
<1> QED
  BY <1>6, <1>7, <1>8

LEMMA EraseSectorInv == ASSUME IInv, EraseSector PROVE IInv'
<1>1. /\ pc = "erase" /\ pc \in Writing /\ pc' = "program"
      /\ data' = [c \in Cell |-> IF c \in CellsOf(kind, sec) THEN Erased ELSE data[c]]
      /\ UNCHANGED <<meta, creds, kind, conf, sec, buf, new, last, started>>
  BY DEF EraseSector, locals, history, Writing
<1>2. /\ conf \in Configs[kind] /\ conf \in started[kind] /\ kind \in Kind
      /\ Length[conf] \in Nat /\ sec \in Nat
  BY <1>1, ChunkFacts DEF IInv, StoreTypeOK
<1>3. data \in [Cell -> Content]
  BY DEF IInv, StoreTypeOK
<1>4. StoreTypeOK'
  BY <1>1, <1>3, ContentType DEF IInv, StoreTypeOK
<1>5. CallOK' /\ RecordOK'
  BY <1>1 DEF IInv, CallOK, RecordOK, Writing
<1>6. BufOK'
  BY <1>1 DEF IInv, BufOK, Recent
<1>7. DataOK'
  <2>1. \A c \in Cell : \/ data'[c] = data[c]
                        \/ c \in CellsOf(kind, sec) /\ data'[c] \in Recent(kind, c[2])
    BY <1>1 DEF Recent
  <2> QED
    BY <1>1, <1>2, <2>1, DisturbedData
<1>8. SoFar'
  <2>1. SUFFICES ASSUME NEW n \in 1 .. Length[conf]
                 PROVE  /\ SectorOf(<<kind, n>>) < sec => data'[<<kind, n>>] = <<conf, n>>
                        /\ SectorOf(<<kind, n>>) = sec
                             => /\ <<kind, n>> \in DOMAIN buf
                                /\ buf[<<kind, n>>] = <<conf, n>>
                                /\ data'[<<kind, n>>] = Erased
    BY <1>1 DEF SoFar, Writing, OnlyClears
  <2>2. /\ <<kind, n>> \in Cell /\ SectorOf(<<kind, n>>) \in Nat
        /\ <<kind, n>> \in CellsOf(kind, SectorOf(<<kind, n>>))
    BY <1>1, OwnCells
  <2>3. ASSUME SectorOf(<<kind, n>>) < sec PROVE data'[<<kind, n>>] = <<conf, n>>
    <3>1. <<kind, n>> \notin CellsOf(kind, sec)
      BY <1>2, <2>2, <2>3, SectorCellsType
    <3>2. data[<<kind, n>>] = <<conf, n>>
      BY <1>1, <2>3 DEF IInv, SoFar
    <3> QED
      BY <1>1, <2>2, <3>1, <3>2
  <2>4. ASSUME SectorOf(<<kind, n>>) = sec
        PROVE  /\ <<kind, n>> \in DOMAIN buf
               /\ buf[<<kind, n>>] = <<conf, n>>
               /\ data'[<<kind, n>>] = Erased
    <3>1. <<kind, n>> \in CellsOf(kind, sec)
      BY <2>2, <2>4
    <3>2. data'[<<kind, n>>] = Erased
      BY <1>1, <2>2, <3>1
    <3>3. <<kind, n>> \in DOMAIN buf /\ buf[<<kind, n>>] = <<conf, n>>
      BY <1>1, <2>4 DEF IInv, SoFar
    <3> QED
      BY <3>2, <3>3
  <2> QED
    BY <2>3, <2>4
<1> QED
  BY <1>4, <1>5, <1>6, <1>7, <1>8 DEF IInv

LEMMA ProgramCellInv == ASSUME IInv, ProgramCell PROVE IInv'
<1>1. /\ pc = "program" /\ pc \in Writing
      /\ UNCHANGED <<meta, creds, kind, conf, new, last, started>>
  BY DEF ProgramCell, history, Writing
<1>2. PICK c \in DOMAIN buf :
         /\ data' = [data EXCEPT ![c] = Programmed(@, buf[c])]
         /\ buf' = [d \in DOMAIN buf \ {c} |-> buf[d]]
  BY DEF ProgramCell
<1>3. /\ conf \in Configs[kind] /\ conf \in started[kind] /\ kind \in Kind
      /\ Length[conf] \in Nat /\ sec \in Nat
  BY <1>1, ChunkFacts DEF IInv, StoreTypeOK
<1>4. /\ data \in [Cell -> Content] /\ DOMAIN buf \subseteq Cell
      /\ \A d \in DOMAIN buf : buf[d] \in Content
      /\ DOMAIN buf \subseteq CellsOf(kind, sec)
  BY <1>1 DEF IInv, StoreTypeOK, BufOK
<1>5. /\ c \in Cell /\ c \in CellsOf(kind, sec)
      /\ data[c] \in Content /\ buf[c] \in Content
      /\ data'[c] \in {buf[c], Torn}
      /\ OnlyClears(data[c], buf[c]) => data'[c] = buf[c]
      /\ \A d \in Cell : d # c => data'[d] = data[d]
  <2>1. /\ c \in Cell /\ c \in CellsOf(kind, sec)
        /\ data[c] \in Content /\ buf[c] \in Content
    BY <1>4
  <2>2. data'[c] = Programmed(data[c], buf[c])
    BY <1>2, <1>4, <2>1
  <2>3. \A d \in Cell : d # c => data'[d] = data[d]
    BY <1>2, <1>4
  <2> QED
    BY <2>1, <2>2, <2>3, ContentType
<1>6. data' \in [Cell -> Content]
  <2>1. Programmed(data[c], buf[c]) \in Content
    BY <1>5, ContentType
  <2> QED
    BY <1>2, <1>4, <2>1
<1>7. /\ DOMAIN buf' = DOMAIN buf \ {c}
      /\ \A d \in DOMAIN buf' : buf'[d] = buf[d]
  BY <1>2
<1>8. DataOK'
  <2>1. last[kind] # Nothing /\ c[2] <= Length[last[kind]] => data'[c] \in Recent(kind, c[2])
    <3>1. ASSUME last[kind] # Nothing, c[2] <= Length[last[kind]]
          PROVE  buf[c] \in Recent(kind, c[2])
      BY <1>1, <3>1 DEF IInv, BufOK
    <3> QED
      BY <1>5, <3>1 DEF Recent
  <2> QED
    BY <1>1, <1>3, <1>5, <2>1, DisturbedData
<1>9. \A n \in 1 .. Length[conf] :
        /\ SectorOf(<<kind, n>>) \in Nat /\ <<kind, n>> \in Cell
        /\ SectorOf(<<kind, n>>) < sec => data'[<<kind, n>>] = <<conf, n>>
        /\ SectorOf(<<kind, n>>) = sec
             => IF <<kind, n>> \in DOMAIN buf'
                THEN /\ buf'[<<kind, n>>] = <<conf, n>>
                     /\ OnlyClears(data'[<<kind, n>>], <<conf, n>>)
                ELSE data'[<<kind, n>>] = <<conf, n>>
  <2>1. SUFFICES ASSUME NEW n \in 1 .. Length[conf]
        PROVE /\ SectorOf(<<kind, n>>) \in Nat /\ <<kind, n>> \in Cell
              /\ SectorOf(<<kind, n>>) < sec => data'[<<kind, n>>] = <<conf, n>>
              /\ SectorOf(<<kind, n>>) = sec
                   => IF <<kind, n>> \in DOMAIN buf'
                      THEN /\ buf'[<<kind, n>>] = <<conf, n>>
                           /\ OnlyClears(data'[<<kind, n>>], <<conf, n>>)
                      ELSE data'[<<kind, n>>] = <<conf, n>>
    OBVIOUS
  <2>2. SectorOf(<<kind, n>>) \in Nat /\ <<kind, n>> \in Cell
    BY <1>1, OwnCells
  <2>3. /\ SectorOf(<<kind, n>>) < sec => data[<<kind, n>>] = <<conf, n>>
        /\ SectorOf(<<kind, n>>) = sec
             => IF <<kind, n>> \in DOMAIN buf
                THEN /\ buf[<<kind, n>>] = <<conf, n>>
                     /\ OnlyClears(data[<<kind, n>>], <<conf, n>>)
                ELSE data[<<kind, n>>] = <<conf, n>>
    BY <1>1 DEF IInv, SoFar
  <2>4. CASE <<kind, n>> = c
    <3>1. SectorOf(<<kind, n>>) = sec
      BY <1>3, <1>5, <2>4, SectorCellsType
    <3>2. data'[<<kind, n>>] = <<conf, n>>
      BY <1>5, <2>3, <2>4, <3>1
    <3> QED
      BY <1>3, <1>7, <2>2, <2>4, <3>1, <3>2
  <2>5. CASE <<kind, n>> # c
    BY <1>5, <1>7, <2>2, <2>3, <2>5
  <2> QED
    BY <2>4, <2>5
<1>10. CASE DOMAIN buf' = {}
  <2>1. NextChunk
    BY <1>10 DEF ProgramCell
  <2>2. \A n \in 1 .. Length[conf] :
          SectorOf(<<kind, n>>) <= sec => data'[<<kind, n>>] = <<conf, n>>
    BY <1>3, <1>9, <1>10
  <2> QED
    BY <1>1, <1>4, <1>6, <1>7, <1>8, <1>10, <2>1, <2>2, NextChunkInv
<1>11. CASE DOMAIN buf' # {}
  <2>1. UNCHANGED <<pc, sec>>
    BY <1>11 DEF ProgramCell
  <2>2. StoreTypeOK'
    BY <1>1, <1>4, <1>6, <1>7, <2>1 DEF IInv, StoreTypeOK
  <2>3. CallOK' /\ RecordOK'
    BY <1>1, <2>1 DEF IInv, CallOK, RecordOK, Writing
  <2>4. BufOK'
    BY <1>1, <1>7, <2>1 DEF IInv, BufOK, Recent
  <2>5. SoFar'
    BY <1>1, <1>9, <2>1 DEF SoFar, Writing
  <2> QED
    BY <1>8, <2>2, <2>3, <2>4, <2>5 DEF IInv
<1> QED
  BY <1>10, <1>11

(* All of the new configuration is in its region when the metadata are     *)
(* written.                                                                *)
LEMMA CompleteInv ==
  ASSUME IInv, pc \in {"meta", "programMeta"}, Complete, Return,
         data' = data, creds' \in Creds \cup {Unreadable},
         meta' \in [Kind -> Nat],
         \A k \in Kind : meta'[k] = IF k = kind THEN Length[conf] ELSE SizeOf(last[k])
  PROVE  IInv'
<1>1. /\ pc \in Writing /\ kind \in Kind
      /\ conf \in Configs[kind] /\ conf \in AllConfigs /\ conf # Nothing
      /\ Length[conf] \in Nat /\ Length[conf] <= Room(kind)
  BY ChunkFacts, ConfigType DEF Writing, IInv, StoreTypeOK
<1>2. /\ last \in [Kind -> AllConfigs \cup {Nothing}]
      /\ started \in [Kind -> SUBSET AllConfigs] /\ data \in [Cell -> Content]
  BY DEF IInv, StoreTypeOK
<1>3. /\ last' \in [Kind -> AllConfigs \cup {Nothing}]
      /\ started' \in [Kind -> SUBSET AllConfigs]
      /\ last'[kind] = conf
      /\ \A k \in Kind : k # kind => last'[k] = last[k] /\ started'[k] = started[k]
  BY <1>1, <1>2 DEF Complete
<1>4. StoreTypeOK' /\ CallOK' /\ BufOK' /\ SoFar'
  BY <1>2, <1>3, EndType
<1>5. meta' # Unreadable
  BY DistinctAssumption
<1>6. RecordOK'
  <2>1. \A k \in Kind : last'[k] # Nothing => /\ last'[k] \in Configs[k]
                                              /\ Length[last'[k]] <= Room(k)
    BY <1>1, <1>3 DEF IInv, RecordOK
  <2>2. \A k \in Kind : meta'[k] = IF last'[k] = Nothing THEN 0 ELSE Length[last'[k]]
    BY <1>1, <1>3 DEF SizeOf
  <2> QED
    BY <1>5, <2>1, <2>2 DEF RecordOK, SizeOf
<1>7. DataOK'
  <2>1. SUFFICES ASSUME NEW k \in Kind, last'[k] # Nothing, NEW n \in 1 .. Length[last'[k]]
                 PROVE  /\ started'[k] = {} => data[<<k, n>>] = <<last'[k], n>>
                        /\ data[<<k, n>>] \in
                             {<<c, n>> : c \in started'[k] \cup {last'[k]}} \cup {Erased, Torn}
    BY DEF DataOK, Recent
  <2>2. CASE k = kind
    <3>1. data[<<k, n>>] = <<conf, n>>
      BY <1>1, <1>3, <2>2 DEF IInv, SoFar
    <3> QED
      BY <1>3, <2>2, <3>1
  <2>3. CASE k # kind
    <3>1. last'[k] = last[k] /\ started'[k] = started[k]
      BY <1>3, <2>3
    <3> QED
      BY <2>1, <3>1 DEF IInv, DataOK, Recent
  <2> QED
    BY <2>2, <2>3
<1> QED
  BY <1>4, <1>6, <1>7 DEF IInv

LEMMA NewSizesFacts ==
  ASSUME IInv, pc = "meta"
  PROVE  /\ NewSizes \in [Kind -> Nat]
         /\ \A k \in Kind : NewSizes[k] = IF k = kind THEN Length[conf] ELSE SizeOf(last[k])
<1>1. kind \in Kind /\ Length[conf] \in Nat
  BY ChunkFacts DEF Writing, IInv, StoreTypeOK
<1>2. CASE meta = Unreadable
  <2>1. NewSizes = [NoSizes EXCEPT ![kind] = Length[conf]]
    BY <1>2 DEF NewSizes
  <2>2. \A k \in Kind : SizeOf(last[k]) = 0
    BY <1>2 DEF IInv, RecordOK, SizeOf
  <2> QED
    BY <1>1, <2>1, <2>2 DEF NoSizes
<1>3. CASE meta # Unreadable
  <2>1. NewSizes = [meta EXCEPT ![kind] = Length[conf]]
    BY <1>3 DEF NewSizes
  <2>2. meta \in [Kind -> Nat] /\ \A k \in Kind : meta[k] = SizeOf(last[k])
    BY <1>3 DEF IInv, StoreTypeOK, RecordOK
  <2> QED
    BY <1>1, <2>1, <2>2
<1> QED
  BY <1>2, <1>3

LEMMA WriteMetaInv == ASSUME IInv, WriteMeta PROVE IInv'
<1>1. pc = "meta" /\ UNCHANGED <<data, creds>>
  BY DEF WriteMeta
<1>2. creds' \in Creds \cup {Unreadable}
  BY <1>1 DEF IInv, StoreTypeOK
<1>3. CASE meta = NewSizes /\ Complete /\ Return /\ UNCHANGED meta
  BY <1>1, <1>2, <1>3, NewSizesFacts, CompleteInv
<1>4. ASSUME meta' = Unreadable, new' = NewSizes, pc' = "programMeta",
             UNCHANGED <<kind, conf, sec, buf, last, started>>
      PROVE  IInv'
  <2>1. StoreTypeOK'
    BY <1>1, <1>4, NewSizesFacts DEF IInv, StoreTypeOK
  <2>2. CallOK'
    BY <1>1, <1>4, NewSizesFacts DEF IInv, CallOK, Writing, SizeOf
  <2>3. RecordOK' /\ DataOK' /\ BufOK'
    BY <1>1, <1>4 DEF IInv, RecordOK, DataOK, BufOK, Recent
  <2>4. SoFar'
    BY <1>1, <1>4 DEF IInv, SoFar, Writing
  <2> QED
    BY <2>1, <2>2, <2>3, <2>4 DEF IInv
<1> QED
  BY <1>3, <1>4 DEF WriteMeta, history

LEMMA ProgramMetaInv == ASSUME IInv, ProgramMeta PROVE IInv'
<1>1. /\ pc = "programMeta" /\ meta' = new /\ Complete /\ Return
      /\ UNCHANGED <<data, creds>>
  BY DEF ProgramMeta
<1>2. /\ creds' \in Creds \cup {Unreadable} /\ meta' \in [Kind -> Nat]
      /\ \A k \in Kind : meta'[k] = IF k = kind THEN Length[conf] ELSE SizeOf(last[k])
  BY <1>1 DEF IInv, StoreTypeOK, CallOK
<1> QED
  BY <1>1, <1>2, CompleteInv

-----------------------------------------------------------------------------
(* The other calls.                                                        *)

(* A call that ends, or is cut short, without readable metadata. *)
LEMMA LoseInv ==
  ASSUME IInv, Lose, Return, meta' = Unreadable,
         data' \in [Cell -> Content], creds' \in Creds \cup {Unreadable}
  PROVE  IInv'
<1>1. /\ last' \in [Kind -> AllConfigs \cup {Nothing}]
      /\ started' \in [Kind -> SUBSET AllConfigs]
      /\ \A k \in Kind : last'[k] = Nothing
  BY DEF Lose
<1>2. StoreTypeOK' /\ CallOK' /\ BufOK' /\ SoFar'
  BY <1>1, EndType
<1>3. RecordOK' /\ DataOK'
  BY <1>1 DEF RecordOK, DataOK
<1> QED
  BY <1>2, <1>3 DEF IInv

(* A call that ends, or is cut short, and leaves the metadata as they were. *)
LEMMA KeepInv ==
  ASSUME IInv, Return, UNCHANGED <<meta, last, started>>, pc # "programMeta",
         data' \in [Cell -> Content], creds' \in Creds \cup {Unreadable}, DataOK'
  PROVE  IInv'
<1>1. /\ meta \in [Kind -> Nat] \cup {Unreadable}
      /\ last \in [Kind -> AllConfigs \cup {Nothing}]
      /\ started \in [Kind -> SUBSET AllConfigs]
  BY DEF IInv, StoreTypeOK
<1>2. StoreTypeOK' /\ CallOK' /\ BufOK' /\ SoFar'
  BY <1>1, EndType
<1>3. RecordOK'
  BY DEF IInv, RecordOK, SizeOf
<1> QED
  BY <1>2, <1>3 DEF IInv

LEMMA CredentialsInv ==
  ASSUME IInv,
         \/ \E s \in Creds : SaveCredentials(s)
         \/ ProgramCreds
         \/ ClearCredentials
  PROVE  IInv'
<1>1. /\ data \in [Cell -> Content] /\ creds \in Creds \cup {Unreadable}
  BY DEF IInv, StoreTypeOK
<1>2. ASSUME NEW s \in Creds, SaveCredentials(s) PROVE IInv'
  <2>1. /\ pc = "idle" /\ pc' = "programCreds" /\ creds' = Unreadable /\ conf' = s
        /\ UNCHANGED <<data, meta, kind, sec, buf, new, last, started>>
    BY <1>2 DEF SaveCredentials, history
  <2>2. StoreTypeOK'
    BY <2>1 DEF IInv, StoreTypeOK
  <2>3. CallOK' /\ BufOK' /\ SoFar'
    BY <2>1 DEF IInv, CallOK, BufOK, SoFar, Writing
  <2>4. RecordOK' /\ DataOK'
    BY <2>1 DEF IInv, RecordOK, DataOK, Recent
  <2> QED
    BY <2>2, <2>3, <2>4 DEF IInv
<1>3. CASE ProgramCreds
  <2>1. /\ pc = "programCreds" /\ creds' = conf /\ Return
        /\ UNCHANGED <<data, meta, last, started>>
    BY <1>3 DEF ProgramCreds, history
  <2>2. creds' \in Creds \cup {Unreadable}
    BY <2>1 DEF IInv, CallOK
  <2>3. DataOK'
    BY <2>1 DEF IInv, DataOK, Recent
  <2> QED
    BY <1>1, <2>1, <2>2, <2>3, KeepInv
<1>4. CASE ClearCredentials
  <2>1. /\ pc = "idle" /\ creds' = Unreadable
        /\ UNCHANGED <<data, meta, pc, kind, conf, sec, buf, new, last, started>>
    BY <1>4 DEF ClearCredentials, locals, history
  <2>2. StoreTypeOK'
    BY <2>1 DEF IInv, StoreTypeOK
  <2>3. CallOK' /\ BufOK' /\ SoFar' /\ RecordOK' /\ DataOK'
    BY <2>1 DEF IInv, CallOK, BufOK, SoFar, RecordOK, DataOK, Recent, Writing
  <2> QED
    BY <2>2, <2>3 DEF IInv
<1> QED
  BY <1>2, <1>3, <1>4

(* While everything is cleared, nothing is stored. *)
LEMMA NothingStored ==
  ASSUME IInv, pc \in {"clear", "clearCreds"}
  PROVE  meta = Unreadable /\ \A k \in Kind : last[k] = Nothing
BY DEF IInv, CallOK, RecordOK

LEMMA ClearInv ==
  ASSUME IInv, ClearAll \/ ClearMeta \/ ClearSector \/ ClearCreds PROVE IInv'
<1>1. /\ data \in [Cell -> Content] /\ creds \in Creds \cup {Unreadable}
      /\ kind \in Kind /\ sec \in 0 .. Sectors[kind] - 1 /\ sec \in Nat
      /\ \A k \in Kind : Sectors[k] \in Nat \ {0}
  BY RoomType DEF IInv, StoreTypeOK
<1>2. CASE ClearAll
  <2>1. /\ pc = "idle" /\ pc' = "clearMeta"
        /\ UNCHANGED <<data, meta, creds, kind, conf, sec, buf, new, last, started>>
    BY <1>2 DEF ClearAll, flash, locals, history
  <2>2. StoreTypeOK'
    BY <2>1 DEF IInv, StoreTypeOK
  <2>3. CallOK' /\ BufOK' /\ SoFar' /\ RecordOK' /\ DataOK'
    BY <2>1 DEF IInv, CallOK, BufOK, SoFar, RecordOK, DataOK, Recent, Writing
  <2> QED
    BY <2>2, <2>3 DEF IInv
<1>3. CASE ClearMeta
  <2>1. /\ pc = "clearMeta" /\ pc' = "clear" /\ meta' = Unreadable /\ Lose
        /\ UNCHANGED <<data, creds, kind, conf, sec, buf, new>>
    BY <1>3 DEF ClearMeta, locals
  <2>2. /\ last' \in [Kind -> AllConfigs \cup {Nothing}]
        /\ started' \in [Kind -> SUBSET AllConfigs]
        /\ \A k \in Kind : last'[k] = Nothing
    BY <2>1 DEF Lose
  <2>3. StoreTypeOK'
    BY <2>1, <2>2 DEF IInv, StoreTypeOK
  <2>4. CallOK' /\ BufOK' /\ SoFar' /\ RecordOK' /\ DataOK'
    BY <2>1, <2>2 DEF CallOK, BufOK, SoFar, RecordOK, DataOK, Writing
  <2> QED
    BY <2>3, <2>4 DEF IInv
<1>4. CASE ClearSector
  <2>1. /\ pc = "clear"
        /\ data' = [c \in Cell |-> IF c \in CellsOf(kind, sec) THEN Erased ELSE data[c]]
        /\ UNCHANGED <<meta, creds, conf, buf, new, last, started>>
    BY <1>4 DEF ClearSector, history
  <2>2. /\ pc' \in {"clear", "clearCreds"}
        /\ kind' \in Kind /\ sec' \in 0 .. Sectors[kind'] - 1
    <3>1. CASE sec < Sectors[kind] - 1
      BY <1>1, <1>4, <2>1, <3>1 DEF ClearSector
    <3>2. CASE ~(sec < Sectors[kind] - 1)
      <4>1. sec' = 0 /\ kind' = "products" /\ pc' \in {"clear", "clearCreds"}
        BY <1>4, <3>2 DEF ClearSector
      <4> QED
        BY <1>1, <4>1 DEF Kind
    <3> QED
      BY <3>1, <3>2
  <2>3. meta = Unreadable /\ \A k \in Kind : last[k] = Nothing
    BY <2>1, NothingStored
  <2>4. data' \in [Cell -> Content]
    BY <1>1, <2>1, ContentType
  <2>5. StoreTypeOK'
    BY <2>1, <2>2, <2>4 DEF IInv, StoreTypeOK
  <2>6. CallOK' /\ BufOK' /\ SoFar' /\ RecordOK' /\ DataOK'
    BY <2>1, <2>2, <2>3 DEF CallOK, BufOK, SoFar, RecordOK, DataOK, Writing
  <2> QED
    BY <2>5, <2>6 DEF IInv
<1>5. CASE ClearCreds
  <2>1. /\ pc = "clearCreds" /\ creds' = Unreadable /\ Return
        /\ UNCHANGED <<data, meta, last, started>>
    BY <1>5 DEF ClearCreds, history
  <2>2. DataOK'
    BY <2>1 DEF IInv, DataOK, Recent
  <2> QED
    BY <1>1, <2>1, <2>2, KeepInv
<1> QED
  BY <1>2, <1>3, <1>4, <1>5

-----------------------------------------------------------------------------
(* Interrupted calls.                                                      *)

LEMMA InterruptedData ==
  ASSUME IInv, Interrupted
  PROVE  /\ data' \in [Cell -> Content]
         /\ UNCHANGED <<last, started>> => DataOK'
         /\ pc = "programMeta" => UNCHANGED data
<1>1. /\ data \in [Cell -> Content] /\ kind \in Kind
  BY DEF IInv, StoreTypeOK
<1>2. CASE UNCHANGED data
  BY <1>1, <1>2 DEF IInv, DataOK, Recent
<1>3. ASSUME pc \in {"erase", "clear"}, NEW left \in {Erased, Torn},
             data' = [c \in Cell |-> IF c \in CellsOf(kind, sec) THEN left ELSE data[c]]
      PROVE  data' \in [Cell -> Content] /\ (UNCHANGED <<last, started>> => DataOK')
  <2>1. data' \in [Cell -> Content]
    BY <1>1, <1>3, ContentType
  <2>2. started[kind] # {} \/ last[kind] = Nothing
    BY <1>1, <1>3, ChunkFacts, NothingStored DEF Writing
  <2>3. \A c \in Cell : \/ data'[c] = data[c]
                        \/ c \in CellsOf(kind, sec) /\ data'[c] \in Recent(kind, c[2])
    BY <1>3 DEF Recent
  <2> QED
    BY <2>1, <2>2, <2>3, DisturbedData
<1>4. ASSUME pc = "program", NEW c \in DOMAIN buf,
             NEW left \in {Programmed(data[c], buf[c]), Torn},
             data' = [data EXCEPT ![c] = left]
      PROVE  data' \in [Cell -> Content] /\ (UNCHANGED <<last, started>> => DataOK')
  <2>1. /\ c \in Cell /\ c \in CellsOf(kind, sec) /\ buf[c] \in Content
        /\ data[c] \in Content /\ started[kind] # {}
        /\ \A d \in Cell : data[d] \in Content
    BY <1>1, <1>4, ChunkFacts DEF IInv, StoreTypeOK, BufOK, Writing
  <2>2. left \in {buf[c], Torn} /\ left \in Content
    BY <1>4, <2>1, ContentType
  <2>3. /\ data'[c] = left
        /\ \A d \in Cell : d # c => data'[d] = data[d]
        /\ data' \in [Cell -> Content]
    BY <1>1, <1>4, <2>1, <2>2
  <2>4. last[kind] # Nothing /\ c[2] <= Length[last[kind]] => left \in Recent(kind, c[2])
    <3>1. ASSUME last[kind] # Nothing, c[2] <= Length[last[kind]]
          PROVE  buf[c] \in Recent(kind, c[2])
      BY <1>4, <3>1 DEF IInv, BufOK
    <3> QED
      BY <2>2, <3>1 DEF Recent
  <2> QED
    BY <2>1, <2>3, <2>4, DisturbedData
<1> QED
  BY <1>2, <1>3, <1>4 DEF Interrupted

LEMMA AccountInv ==
  ASSUME IInv, Interrupted, Account, Return,
         creds' \in Creds \cup {Unreadable},
         \/ meta' \in {meta, Unreadable}
         \/ pc = "programMeta" /\ meta' = new
  PROVE  IInv'
<1>1. data' \in [Cell -> Content]
  BY InterruptedData
<1>2. CASE meta' = Unreadable
  <2>1. Lose
    BY <1>2 DEF Account
  <2> QED
    BY <1>1, <1>2, <2>1, LoseInv
<1>3. CASE meta' # Unreadable /\ pc = "programMeta"
  <2>1. Complete
    BY <1>3 DEF Account
  <2>2. data' = data
    BY <1>3, InterruptedData
  <2>3. /\ meta' = new /\ meta' \in [Kind -> Nat]
        /\ \A k \in Kind : meta'[k] = IF k = kind THEN Length[conf] ELSE SizeOf(last[k])
    BY <1>3 DEF IInv, CallOK, StoreTypeOK
  <2> QED
    BY <1>3, <2>1, <2>2, <2>3, CompleteInv
<1>4. CASE meta' # Unreadable /\ pc # "programMeta"
  <2>1. UNCHANGED <<last, started>> /\ meta' = meta
    BY <1>4 DEF Account, history
  <2> QED
    BY <1>1, <1>4, <2>1, InterruptedData, KeepInv
<1> QED
  BY <1>2, <1>3, <1>4

LEMMA FaultInv == ASSUME IInv, PowerLoss \/ FlashFault PROVE IInv'
<1>1. creds \in Creds \cup {Unreadable}
  BY DEF IInv, StoreTypeOK
<1>2. CASE PowerLoss
  BY <1>1, <1>2, AccountInv DEF PowerLoss
<1>3. CASE FlashFault
  <2>1. Interrupted /\ Account /\ Return
    BY <1>3 DEF FlashFault
  <2>2. \/ meta' \in {meta, Unreadable}
        \/ pc = "programMeta" /\ meta' = new
    <3>1. CASE pc \in {"meta", "clearMeta"}
      BY <1>3, <3>1 DEF FlashFault
    <3>2. CASE pc = "programMeta"
      BY <1>3, <3>2 DEF FlashFault
    <3>3. CASE pc \notin {"meta", "clearMeta", "programMeta"}
      BY <1>3, <3>3 DEF FlashFault
    <3> QED
      BY <3>1, <3>2, <3>3
  <2>3. creds' \in Creds \cup {Unreadable}
    <3>1. CASE pc = "clearCreds"
      BY <1>1, <1>3, <3>1 DEF FlashFault
    <3>2. CASE pc = "programCreds"
      BY <1>3, <3>2 DEF FlashFault, IInv, CallOK
    <3>3. CASE pc \notin {"clearCreds", "programCreds"}
      BY <1>1, <1>3, <3>3 DEF FlashFault
    <3> QED
      BY <3>1, <3>2, <3>3
  <2> QED
    BY <2>1, <2>2, <2>3, AccountInv
<1> QED
  BY <1>2, <1>3

-----------------------------------------------------------------------------
LEMMA StutterInv == ASSUME IInv, UNCHANGED vars PROVE IInv'
<1>1. UNCHANGED <<data, meta, creds, pc, kind, conf, sec, buf, new, last, started>>
  BY DEF vars
<1>2. StoreTypeOK' /\ CallOK' /\ BufOK'
  BY <1>1 DEF IInv, StoreTypeOK, CallOK, BufOK, Recent, SizeOf
<1>3. RecordOK' /\ DataOK' /\ SoFar'
  BY <1>1 DEF IInv, RecordOK, DataOK, SoFar, Recent, SizeOf
<1> QED
  BY <1>2, <1>3 DEF IInv

LEMMA NextInv == ASSUME IInv, [Next]_vars PROVE IInv'
<1>1. ASSUME NEW k \in Kind, NEW c \in Configs[k], Persist(k, c) PROVE IInv'
  BY <1>1, PersistInv
<1>2. CASE UpdateSector
  BY <1>2, UpdateSectorInv
<1>3. CASE EraseSector
  BY <1>3, EraseSectorInv
<1>4. CASE ProgramCell
  BY <1>4, ProgramCellInv
<1>5. CASE WriteMeta
  BY <1>5, WriteMetaInv
<1>6. CASE ProgramMeta
  BY <1>6, ProgramMetaInv
<1>7. CASE (\E s \in Creds : SaveCredentials(s)) \/ ProgramCreds \/ ClearCredentials
  BY <1>7, CredentialsInv
<1>8. CASE ClearAll \/ ClearMeta \/ ClearSector \/ ClearCreds
  BY <1>8, ClearInv
<1>9. CASE PowerLoss \/ FlashFault
  BY <1>9, FaultInv
<1>10. CASE UNCHANGED vars
  BY <1>10, StutterInv
<1> QED
  BY <1>1, <1>2, <1>3, <1>4, <1>5, <1>6, <1>7, <1>8, <1>9, <1>10 DEF Next

LEMMA Invariance == Spec => []IInv
<1>1. Init => IInv
  BY InitInv
<1>2. IInv /\ [Next]_vars => IInv'
  BY NextInv
<1> QED
  BY <1>1, <1>2, PTL DEF Spec

(* What a reader of the region finds. *)
LEMMA ReadFacts ==
  ASSUME IInv, pc = "idle", NEW k \in Kind
  PROVE  Read(k) = IF last[k] = Nothing THEN [n \in {} |-> Erased]
                                        ELSE [n \in 1 .. Length[last[k]] |-> data[<<k, n>>]]
<1>1. /\ last[k] # Nothing => /\ last[k] \in Configs[k]
                              /\ Length[last[k]] <= Room(k)
      /\ meta # Unreadable => meta[k] = SizeOf(last[k])
      /\ meta = Unreadable => last[k] = Nothing
  BY DEF IInv, RecordOK
<1>2. CASE last[k] = Nothing
  BY <1>1, <1>2 DEF Read, SizeOf
<1>3. CASE last[k] # Nothing
  <2>1. Length[last[k]] \in Nat /\ Length[last[k]] > 0 /\ Room(k) \in Nat
    BY <1>1, <1>3, ConfigType, RoomType
  <2>2. meta # Unreadable /\ meta[k] = Length[last[k]]
    BY <1>1, <1>3 DEF SizeOf
  <2> QED
    BY <1>1, <1>3, <2>1, <2>2 DEF Read
<1> QED
  BY <1>2, <1>3

(* Every step of the store keeps its variables of their types.             *)
THEOREM TypeCorrect == Spec => []StoreTypeOK
<1>1. IInv => StoreTypeOK
  BY DEF IInv
<1> QED
  BY <1>1, Invariance, PTL

(* config_store_read_operators and config_store_read_products return the   *)
(* configuration last stored with its size, whole, or none, unless an      *)
(* attempt to replace it has begun and failed, whatever else was written,  *)
(* cleared or cut short.                                                   *)
THEOREM LastStoredIsRead == Spec => []ReadsLastStored
<1>1. ASSUME IInv PROVE ReadsLastStored
  <2>1. SUFFICES ASSUME pc = "idle", NEW k \in Kind, started[k] = {}
                 PROVE  Read(k) = Whole(last[k])
    BY DEF ReadsLastStored
  <2>2. CASE last[k] = Nothing
    BY <1>1, <2>1, <2>2, ReadFacts DEF Whole
  <2>3. CASE last[k] # Nothing
    <3>1. \A n \in 1 .. Length[last[k]] : data[<<k, n>>] = <<last[k], n>>
      BY <1>1, <2>1, <2>3 DEF IInv, DataOK
    <3>2. Read(k) = [n \in 1 .. Length[last[k]] |-> data[<<k, n>>]]
      BY <1>1, <2>1, <2>3, ReadFacts
    <3> QED
      BY <2>3, <3>1, <3>2 DEF Whole
  <2> QED
    BY <2>2, <2>3
<1> QED
  BY <1>1, Invariance, PTL

(* What is read after a failed attempt is put together from that attempt,  *)
(* others since the last success, and what succeeded last.                 *)
THEOREM OnlyRecentIsRead == Spec => []MixesOnlyRecent
<1>1. ASSUME IInv PROVE MixesOnlyRecent
  <2>1. SUFFICES ASSUME pc = "idle", NEW k \in Kind, NEW n \in DOMAIN Read(k)
                 PROVE  Read(k)[n] \in
                          {<<c, n>> : c \in started[k] \cup {last[k]}} \cup {Erased, Torn}
    BY DEF MixesOnlyRecent
  <2>2. /\ last[k] # Nothing
        /\ n \in 1 .. Length[last[k]] /\ Read(k)[n] = data[<<k, n>>]
    BY <1>1, <2>1, ReadFacts
  <2> QED
    BY <1>1, <2>2 DEF IInv, DataOK, Recent
<1> QED
  BY <1>1, Invariance, PTL
=============================================================================
