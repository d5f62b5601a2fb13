---------------------------- MODULE EspLink_proofs ----------------------------
(***************************************************************************)
(* Proofs about EspLink for every size of the ring and of the segments and *)
(* any number of connections, packets and late answers.  As long as every  *)
(* prompt came in time and no payload was taken for an answer, the modem   *)
(* never takes a command for payload, and esp01_send reports success only  *)
(* for a packet that was passed on.  What esp01_recv returns is in order   *)
(* and of one connection, whatever is lost, unless the place to be read is *)
(* overwritten (l.141), and without a gap as long as nothing is lost.      *)
(***************************************************************************)
EXTENDS EspLink, Integers, SequenceTheorems, TLAPS

-----------------------------------------------------------------------------
(* Types.                                                                  *)

Kinds == {"nothing", "prompt", "ok", "sendok", "connect", "already", "wifi", "error", "closed",
          "plus", "length", "data"}
Symbols == {s \in [is : Kinds, conn : Nat, n : Nat] : s.is = "length" => s.n > 0}
Commands == [is : {"cipstart", "cipclose", "cipsend", "packet"}, conn : Nat, n : Nat]

RingTypes ==
  /\ buf \in [Position -> Symbols] /\ head \in Position /\ tail \in Position
  /\ byte \in Symbols /\ saved \in Position
  /\ wire \in Seq(Symbols)

FlowTypes ==
  /\ pc \in Loops \cup {"rest", "payload", "flush", "opened"}
  /\ op \in {"none", "start", "startOk", "close", "prompt", "sendok"}
  /\ pc = "await" => op # "none"
  /\ pc = "drain" => op \in {"start", "close"}
  /\ pop \in {"no", "index", "byte", "tail"}
  /\ phase \in {"offline", "online", "broken"}
  /\ packet \in Nat

RecvTypes ==
  /\ state \in {"idle", "header", "payload"}
  /\ remain \in Nat /\ (remain > 0 <=> state = "payload")
  /\ copied \in 0 .. RecvLen - 1

FlagTypes ==
  /\ resetReq \in BOOLEAN /\ connected \in BOOLEAN /\ linkClosed \in BOOLEAN
  /\ open \in BOOLEAN /\ raw \in BOOLEAN
  /\ lost \in BOOLEAN /\ mistaken \in BOOLEAN /\ doubt \in BOOLEAN /\ misled \in BOOLEAN
  /\ fooled \in BOOLEAN

ModemTypes ==
  /\ cmds \in Seq(Commands)
  /\ conn \in Nat
  /\ sent \in Nat

Types == RingTypes /\ FlowTypes /\ RecvTypes /\ FlagTypes /\ ModemTypes

LEMMA AfterType ==
  \A i \in Position : /\ After(i) \in Position
                      /\ After(i) = IF i = RingSize - 1 THEN 0 ELSE i + 1
BY RingSizeAssumption DEF Position, After

LEMMA SymbolTypes ==
  /\ \A k \in Kinds \ {"length"} : Answer(k) \in Symbols /\ Answer(k).is = k
  /\ Nothing \in Symbols
  /\ \A c \in Nat, i \in Nat : Data(c, i) \in Symbols /\ Data(c, i).is = "data"
  /\ \A c \in Nat : Symbol("plus", c, 0) \in Symbols /\ Symbol("plus", c, 0).is = "plus"
  /\ \A c \in Nat, n \in Nat \ {0} :
       Symbol("length", c, n) \in Symbols /\ Symbol("length", c, n).is = "length"
  /\ \A k \in {"cipstart", "cipclose", "cipsend"} : Command(k) \in Commands /\ Command(k).is = k
  /\ \A n \in Nat : Packet(n) \in Commands /\ Packet(n).is = "packet" /\ Packet(n).n = n
BY DEF Answer, Data, Symbol, Nothing, Command, Packet, Symbols, Commands, Kinds

LEMMA InitTypes == Init => Types
<1> SUFFICES ASSUME Init PROVE Types
  OBVIOUS
<1>1. RingTypes
  BY SymbolTypes, RingSizeAssumption DEF Init, RingTypes, Position
<1>2. FlowTypes /\ FlagTypes
  BY DEF Init, FlowTypes, FlagTypes, Loops
<1>3. RecvTypes /\ ModemTypes
  BY RecvLenAssumption DEF Init, RecvTypes, ModemTypes
<1> QED
  BY <1>1, <1>2, <1>3 DEF Types

(* What the modem says: it replies to payload and to AT+CIPSEND, and what  *)
(* it says otherwise is no reply that esp01_send waits for.                *)
Replies == {"prompt", "sendok"}
Others  == {s \in Symbols : s.is \notin Replies}

LEMMA SaysReply ==
  ASSUME TakePayload \/ CipSend
  PROVE  \E k \in {"prompt", "sendok", "error"} : wire' = wire \o <<Answer(k)>>
BY DEF TakePayload, CipSend, Says

LEMMA SaysOther ==
  ASSUME Types, CipStart \/ CipClose \/ Segment \/ LinkLost
  PROVE  \E said \in Seq(Others) : wire' = wire \o said
<1>1. CASE CipStart \/ CipClose \/ LinkLost
  <2> DEFINE K == {"error", "already", "connect", "ok", "closed", "wifi"}
  <2>1. \/ \E k \in K : Says(<<Answer(k)>>)
        \/ \E k, l \in K : Says(<<Answer(k), Answer(l)>>)
    <3>1. CASE CipStart
      BY <3>1 DEF CipStart
    <3>2. CASE CipClose
      <4>1. Says(IF open THEN <<Answer("closed"), Answer("ok")>> ELSE <<Answer("error")>>)
        BY <3>2 DEF CipClose
      <4> QED
        BY <4>1
    <3>3. CASE LinkLost
      BY <3>3 DEF LinkLost
    <3> QED
      BY <1>1, <3>1, <3>2, <3>3
  <2>2. \A k \in K : Answer(k) \in Others
    BY SymbolTypes DEF Kinds, Others, Replies
  <2>3. /\ \A k \in K : <<Answer(k)>> \in Seq(Others)
        /\ \A k, l \in K : <<Answer(k), Answer(l)>> \in Seq(Others)
    BY <2>2
  <2> QED
    BY <2>1, <2>3 DEF Says
<1>2. CASE Segment
  <2>1. PICK n \in Segments :
          wire' = wire \o (<<Symbol("plus", conn, 0), Symbol("length", conn, n)>>
                             \o [i \in 1 .. n |-> Data(conn, sent + i)])
    BY <1>2 DEF Segment, Says
  <2>2. n \in Nat \ {0} /\ conn \in Nat /\ sent \in Nat
    BY SegmentsAssumption DEF Types, ModemTypes
  <2>3. [i \in 1 .. n |-> Data(conn, sent + i)] \in Seq(Others)
    <3>1. \A i \in 1 .. n : Data(conn, sent + i) \in Others
      BY <2>2, SymbolTypes DEF Others, Replies
    <3> QED
      BY <2>2, <3>1
  <2>4. <<Symbol("plus", conn, 0), Symbol("length", conn, n)>> \in Seq(Others)
    <3>1. Symbol("plus", conn, 0) \in Others /\ Symbol("length", conn, n) \in Others
      BY <2>2, SymbolTypes DEF Others, Replies
    <3> QED
      BY <3>1
  <2>5. \A a, b \in Seq(Others) : a \o b \in Seq(Others)
    OBVIOUS
  <2> DEFINE frame == <<Symbol("plus", conn, 0), Symbol("length", conn, n)>>
                        \o [i \in 1 .. n |-> Data(conn, sent + i)]
  <2>6. frame \in Seq(Others) /\ wire' = wire \o frame
    BY <2>1, <2>3, <2>4, <2>5
  <2> HIDE DEF frame
  <2> QED
    BY <2>6
<1> QED
  BY <1>1, <1>2

LEMMA SaysTypes ==
  ASSUME Types, TakePayload \/ CipSend \/ CipStart \/ CipClose \/ Segment \/ LinkLost
  PROVE  /\ UNCHANGED <<buf, head, tail, pc, op, pop, byte, saved, state, remain, copied, resetReq,
                        connected, linkClosed, phase, packet>>
         /\ wire' \in Seq(Symbols)
<1>1. UNCHANGED <<buf, head, tail, pc, op, pop, byte, saved, state, remain, copied, resetReq,
                  connected, linkClosed, phase, packet>>
  BY DEF TakePayload, CipSend, CipStart, CipClose, Segment, LinkLost, driver, ring, loop, popVars,
         recvVars, link
<1>2. wire \in Seq(Symbols) /\ \A a, b \in Seq(Symbols) : a \o b \in Seq(Symbols)
  BY DEF Types, RingTypes
<1>3. CASE TakePayload \/ CipSend
  <2>1. PICK k \in {"prompt", "sendok", "error"} : wire' = wire \o <<Answer(k)>>
    BY <1>3, SaysReply
  <2>2. Answer(k) \in Symbols
    BY SymbolTypes DEF Kinds
  <2>3. <<Answer(k)>> \in Seq(Symbols)
    BY <2>2
  <2> QED
    BY <1>1, <1>2, <2>1, <2>3
<1>4. CASE CipStart \/ CipClose \/ Segment \/ LinkLost
  <2>1. PICK said \in Seq(Others) : wire' = wire \o said
    BY <1>4, SaysOther
  <2>2. said \in Seq(Symbols)
    BY DEF Others
  <2> QED
    BY <1>1, <1>2, <2>1, <2>2
<1> QED
  BY <1>3, <1>4

LEMMA ModemStepTypes ==
  ASSUME Types, TakePayload \/ CipSend \/ CipStart \/ CipClose \/ Segment \/ LinkLost
  PROVE  Types'
<1>1. /\ UNCHANGED <<buf, head, tail, pc, op, pop, byte, saved, state, remain, copied, resetReq,
                     connected, linkClosed, phase, packet>>
      /\ wire' \in Seq(Symbols)
  BY SaysTypes
<1>2. RingTypes' /\ FlowTypes' /\ RecvTypes'
  BY <1>1 DEF Types, RingTypes, FlowTypes, RecvTypes, Position
<1>3. /\ open' \in BOOLEAN /\ raw' \in BOOLEAN /\ misled' \in BOOLEAN /\ conn' \in Nat
      /\ sent' \in Nat /\ UNCHANGED <<lost, mistaken, doubt, fooled>>
      /\ cmds' = cmds \/ (cmds # <<>> /\ cmds' = Tail(cmds))
  <2>1. /\ open \in BOOLEAN /\ raw \in BOOLEAN /\ misled \in BOOLEAN /\ conn \in Nat /\ sent \in Nat
    BY DEF Types, FlagTypes, ModemTypes
  <2>2. CASE TakePayload
    BY <2>1, <2>2 DEF TakePayload, stream
  <2>3. CASE CipSend
    <3>1. /\ raw' = open /\ cmds # <<>> /\ cmds' = Tail(cmds)
          /\ UNCHANGED <<open, conn, sent, hist>>
      BY <2>3 DEF CipSend, Reads
    <3>2. raw' \in BOOLEAN
      BY <2>1, <3>1, Zenon
    <3> QED
      BY <2>1, <3>1, <3>2 DEF hist, stream
  <2>4. CASE CipStart
    <3>1. /\ \/ UNCHANGED <<open, conn, sent>>
             \/ open' = TRUE /\ conn' = conn + 1 /\ sent' = 0
          /\ cmds # <<>> /\ cmds' = Tail(cmds)
          /\ UNCHANGED <<raw, hist>>
      BY <2>4, Zenon DEF CipStart, Reads
    <3>2. open' \in BOOLEAN /\ conn' \in Nat /\ sent' \in Nat
      <4>1. CASE UNCHANGED <<open, conn, sent>>
        BY <2>1, <4>1, Zenon
      <4>2. CASE open' = TRUE /\ conn' = conn + 1 /\ sent' = 0
        BY <2>1, <4>2
      <4> QED
        BY <3>1, <4>1, <4>2
    <3>3. raw' = raw /\ UNCHANGED <<lost, mistaken, doubt, misled, fooled>>
      BY <3>1 DEF hist, stream
    <3>4. raw' \in BOOLEAN /\ misled' \in BOOLEAN
      BY <2>1, <3>3, Zenon
    <3> QED
      BY <3>1, <3>2, <3>3, <3>4, Zenon
  <2>5. CASE CipClose
    BY <2>1, <2>5 DEF CipClose, Reads, hist, stream
  <2>6. CASE Segment
    BY <2>1, <2>6, SegmentsAssumption DEF Segment, hist, stream
  <2>7. CASE LinkLost
    BY <2>1, <2>7 DEF LinkLost, hist, stream
  <2> QED
    BY <2>2, <2>3, <2>4, <2>5, <2>6, <2>7
<1>4. cmds' \in Seq(Commands)
  BY <1>3 DEF Types, ModemTypes
<1> QED
  BY <1>1, <1>2, <1>3, <1>4 DEF Types, FlagTypes, ModemTypes

LEMMA InterruptTypes == ASSUME Types, Interrupt PROVE Types'
<1>1. /\ wire \in Seq(Symbols) /\ wire # <<>> /\ wire' = Tail(wire)
      /\ buf \in [Position -> Symbols] /\ head \in Position /\ tail \in Position
      /\ byte \in Symbols /\ saved \in Position
  BY DEF Types, RingTypes, Interrupt
<1>2. Head(wire) \in Symbols /\ wire' \in Seq(Symbols)
  BY <1>1
<1>3. RingTypes'
  BY <1>1, <1>2, AfterType DEF RingTypes, Interrupt, DropOldest, popVars, Position
<1>4. FlowTypes' /\ RecvTypes' /\ ModemTypes'
  BY DEF Types, FlowTypes, RecvTypes, ModemTypes, Interrupt, loop, popVars, recvVars
<1>5. FlagTypes'
  BY DEF Types, FlagTypes, Interrupt
<1> QED
  BY <1>3, <1>4, <1>5 DEF Types

LEMMA PopTypes == ASSUME Types, PopIndex \/ PopByte \/ PopTail PROVE Types'
<1>1. RingTypes'
  BY DEF Types, RingTypes, PopIndex, PopByte, PopTail, ring, modem, Position
<1>2. FlowTypes' /\ RecvTypes' /\ ModemTypes' /\ FlagTypes'
  BY DEF Types, FlowTypes, RecvTypes, ModemTypes, FlagTypes, PopIndex, PopByte, PopTail, loop, recvVars,
         link, modem, hist, stream, Loops
<1> QED
  BY <1>1, <1>2 DEF Types

(* The last third of ring_pop leaves the ring well-formed. *)
LEMMA PopStoreTypes ==
  ASSUME RingTypes, PopStore, wire' = wire PROVE RingTypes' /\ pop' = "no"
<1>1. Nothing \in Symbols /\ 0 \in Position
  BY SymbolTypes, RingSizeAssumption DEF Position
<1> QED
  BY <1>1, AfterType DEF RingTypes, PopStore, TailStored, Position

LEMMA CompareTypes == ASSUME Types, Compare PROVE Types'
<1>1. RingTypes' /\ pop' = "no"
  BY PopStoreTypes DEF Types, Compare, modem
<1>2. /\ pc = "await" /\ op \in {"start", "startOk", "close", "prompt", "sendok"}
      /\ phase \in {"offline", "online", "broken"} /\ packet \in Nat
  BY DEF Types, FlowTypes, Compare
<1>3. FlowTypes'
  <2>1. CASE pc' = "quiet" /\ UNCHANGED <<op, phase, packet>>
    BY <1>1, <1>2, <2>1 DEF FlowTypes, Loops
  <2>2. CASE Succeeded
    <3>1. CASE op \in {"start", "startOk"}
      BY <1>1, <1>2, <2>2, <3>1 DEF FlowTypes, Loops, Succeeded, Await
    <3>2. CASE op \in {"close", "prompt"}
      BY <1>1, <1>2, <2>2, <3>2 DEF FlowTypes, Loops, Succeeded, Rest
    <3>3. CASE op = "sendok"
      BY <1>1, <1>2, <2>2, <3>3 DEF FlowTypes, Loops, Succeeded, Rest
    <3> QED
      BY <1>2, <3>1, <3>2, <3>3
  <2>3. CASE UNCHANGED <<loop, phase, packet>>
    BY <1>1, <1>2, <2>3 DEF FlowTypes, Loops, loop
  <2> QED
    BY <2>1, <2>2, <2>3 DEF Compare
<1>4. lost' \in BOOLEAN /\ mistaken' \in BOOLEAN /\ fooled' \in BOOLEAN
  BY DEF Types, FlagTypes, Compare, Discarded, Mistaken, Fooled
<1>5. RecvTypes' /\ ModemTypes' /\ FlagTypes'
  BY <1>4 DEF Types, RecvTypes, ModemTypes, FlagTypes, Compare, recvVars, link, modem
<1> QED
  BY <1>1, <1>3, <1>5 DEF Types

LEMMA DropTypes == ASSUME Types, Drop PROVE Types'
<1>1. RingTypes' /\ pop' = "no"
  BY PopStoreTypes DEF Types, Drop, modem
<1>2. lost' \in BOOLEAN
  BY DEF Types, FlagTypes, Drop, Discarded
<1>3. FlowTypes' /\ RecvTypes' /\ ModemTypes' /\ FlagTypes'
  BY <1>1, <1>2 DEF Types, FlowTypes, RecvTypes, ModemTypes, FlagTypes, Drop, loop, recvVars, link,
                    modem
<1> QED
  BY <1>1, <1>3 DEF Types

LEMMA ParseTypes == ASSUME Types, Parse PROVE Types'
<1>1. RingTypes' /\ pop' = "no"
  BY PopStoreTypes DEF Types, Parse, modem
<1>2. /\ state \in {"idle", "header", "payload"} /\ remain \in Nat
      /\ (remain > 0 <=> state = "payload") /\ copied \in 0 .. RecvLen - 1
      /\ byte.n \in Nat /\ (byte.is = "length" => byte.n > 0)
  BY DEF Types, RecvTypes, RingTypes, Symbols
<1>3. RecvTypes' /\ pc' \in {"recv", "rest"}
  <2>1. CASE Idle
    BY <1>2, <2>1 DEF Idle, RecvTypes, Parse
  <2>2. CASE Header
    BY <1>2, <2>2 DEF Header, RecvTypes, Parse
  <2>3. CASE Payload
    <3>1. state = "payload" /\ remain > 0 /\ remain' = remain - 1
          /\ state' = IF remain = 1 THEN "idle" ELSE "payload"
      BY <1>2, <2>3 DEF Payload, PayloadEnds
    <3>2. copied' \in 0 .. RecvLen - 1 /\ pc' \in {"recv", "rest"}
      BY <1>2, <2>3, RecvLenAssumption DEF Payload, Parse
    <3> QED
      BY <1>2, <3>1, <3>2 DEF RecvTypes
  <2> QED
    BY <2>1, <2>2, <2>3 DEF Parse
<1>4. FlowTypes'
  BY <1>1, <1>3 DEF Types, FlowTypes, Parse, Loops
<1>5. ModemTypes' /\ FlagTypes'
  BY DEF Types, ModemTypes, FlagTypes, Parse, link, modem
<1> QED
  BY <1>1, <1>3, <1>4, <1>5 DEF Types

(* What the commands append. *)
LEMMA WriteTypes ==
  ASSUME Types, NEW c \in Commands, Write(c) PROVE cmds' \in Seq(Commands)
BY DEF Write, Types, ModemTypes

LEMMA CommandTypes ==
  ASSUME Types, Connect \/ Disconnect \/ DrainEnds \/ SendStart \/ SendPayload \/ TransmitFails
  PROVE  Types'
<1>1. RingTypes' /\ RecvTypes'
  BY DEF Types, RingTypes, RecvTypes, Connect, Disconnect, DrainEnds, SendStart, SendPayload,
         TransmitFails, ring, popVars, recvVars, modem, modemButCmds, Position
<1>2. FlowTypes'
  <2>1. CASE Connect \/ Disconnect
    BY <2>1 DEF Types, FlowTypes, Connect, Disconnect, popVars, Loops
  <2>2. CASE DrainEnds
    BY <2>2 DEF Types, FlowTypes, DrainEnds, popVars, Loops, Await
  <2>3. CASE SendStart
    BY <2>3 DEF Types, FlowTypes, SendStart, popVars, Loops, Await, loop
  <2>4. CASE SendPayload
    BY <2>4 DEF Types, FlowTypes, SendPayload, popVars, Loops, Await
  <2>5. CASE TransmitFails
    BY <2>5 DEF Types, FlowTypes, TransmitFails, popVars, Loops, Rest
  <2> QED
    BY <2>1, <2>2, <2>3, <2>4, <2>5
<1>3. cmds' \in Seq(Commands) /\ UNCHANGED <<conn, sent>>
  <2>1. cmds \in Seq(Commands) /\ packet \in Nat
    BY DEF Types, ModemTypes, FlowTypes
  <2>2. CASE Connect \/ Disconnect \/ TransmitFails
    BY <2>1, <2>2 DEF Connect, Disconnect, TransmitFails, modem
  <2>3. CASE DrainEnds
    <3>1. Send(op) \in Commands /\ Write(Send(op)) /\ UNCHANGED <<conn, sent>>
      BY <2>3, SymbolTypes DEF DrainEnds, Send, modemButCmds
    <3> QED
      BY <3>1, WriteTypes
  <2>4. CASE SendStart
    <3>1. UNCHANGED <<conn, sent>> /\ (Write(Command("cipsend")) \/ cmds' = cmds)
      BY <2>4 DEF SendStart, modemButCmds, NoWrite
    <3>2. Command("cipsend") \in Commands
      BY SymbolTypes
    <3> QED
      BY <2>1, <3>1, <3>2, WriteTypes
  <2>5. CASE SendPayload
    <3>1. Packet(packet) \in Commands
      BY <2>1, SymbolTypes
    <3>2. Write(Packet(packet)) /\ UNCHANGED <<conn, sent>>
      BY <2>5 DEF SendPayload, modemButCmds
    <3> QED
      BY <3>1, <3>2, WriteTypes
  <2> QED
    BY <2>2, <2>3, <2>4, <2>5
<1>4. FlagTypes'
  <2>1. CASE Connect \/ DrainEnds \/ SendStart \/ SendPayload
    <3>1. UNCHANGED <<resetReq, connected, linkClosed, open, raw, lost, mistaken, doubt, misled, fooled>>
      BY <2>1 DEF Connect, DrainEnds, SendStart, SendPayload, link, modem, modemButCmds, hist, stream
    <3> QED
      BY <3>1 DEF Types, FlagTypes
  <2>2. CASE Disconnect
    BY <2>2 DEF Types, FlagTypes, Disconnect, modem
  <2>3. CASE TransmitFails
    <3>1. /\ UNCHANGED <<resetReq, connected, linkClosed, open, raw, lost, mistaken, fooled>>
          /\ doubt' \in {doubt, TRUE, doubt \/ op = "close"}
          /\ misled' \in {misled, misled \/ op = "close"}
      BY <2>3 DEF TransmitFails, link, modem, stream
    <3> QED
      BY <3>1 DEF Types, FlagTypes
  <2> QED
    BY <2>1, <2>2, <2>3
<1> QED
  BY <1>1, <1>2, <1>3, <1>4 DEF Types, ModemTypes

LEMMA WaitTypes ==
  ASSUME Types, WaitTimesOut \/ QuietEnds \/ Flush \/ Opened \/ RecvStart \/ RecvEmpty
  PROVE  Types'
<1>1. RingTypes'
  BY RingSizeAssumption
     DEF Types, RingTypes, WaitTimesOut, QuietEnds, Flush, Opened, RecvStart, RecvEmpty, EmptyRing,
         ring, popVars, modem, Position
<1>2. FlowTypes'
  <2>1. CASE WaitTimesOut
    BY <2>1 DEF Types, FlowTypes, WaitTimesOut, NotConfirmed, popVars, Loops, Rest
  <2>2. CASE QuietEnds \/ Flush \/ Opened
    BY <2>2 DEF Types, FlowTypes, QuietEnds, Flush, Opened, popVars, Loops, Rest
  <2>3. CASE RecvStart \/ RecvEmpty
    BY <2>3 DEF Types, FlowTypes, RecvStart, RecvEmpty, popVars, Loops
  <2> QED
    BY <2>1, <2>2, <2>3
<1>3. RecvTypes'
  <2>1. 0 \in 0 .. RecvLen - 1
    BY RecvLenAssumption
  <2> QED
    BY <2>1 DEF Types, RecvTypes, WaitTimesOut, QuietEnds, Flush, Opened, RecvStart, RecvEmpty,
                recvVars
<1>4. ModemTypes'
  BY DEF Types, ModemTypes, WaitTimesOut, QuietEnds, Flush, Opened, RecvStart, RecvEmpty, modem
<1>5. FlagTypes'
  <2>1. CASE WaitTimesOut
    BY <2>1 DEF Types, FlagTypes, WaitTimesOut, link, modem, stream
  <2>2. CASE QuietEnds \/ Flush \/ RecvEmpty
    BY <2>2 DEF Types, FlagTypes, QuietEnds, Flush, RecvEmpty, RequestReset, link, modem, hist,
                stream
  <2>3. CASE Opened \/ RecvStart
    BY <2>3 DEF Types, FlagTypes, Opened, RecvStart, link, modem, hist, stream
  <2> QED
    BY <2>1, <2>2, <2>3
<1> QED
  BY <1>1, <1>2, <1>3, <1>4, <1>5 DEF Types

LEMMA NextTypes == ASSUME Types, [Next]_vars PROVE Types'
<1>1. CASE Next
  BY <1>1, InterruptTypes, PopTypes, CompareTypes, DropTypes, ParseTypes, CommandTypes, WaitTypes,
     ModemStepTypes DEF Next
<1>2. CASE UNCHANGED vars
  BY <1>2 DEF Types, RingTypes, FlowTypes, RecvTypes, FlagTypes, ModemTypes, vars, ring, loop,
              popVars, recvVars, link, modem, hist, stream, Position
<1> QED
  BY <1>1, <1>2

-----------------------------------------------------------------------------
(* The ring.                                                               *)

(* The places from j on up to h. *)
Between(j, h) ==
  IF j <= h THEN {i \in Position : j <= i /\ i < h} ELSE {i \in Position : j <= i \/ i < h}

(* What happens to the places in use when ring_push stores at h.           *)
Pushed(t, h) == IF After(h) = t THEN After(t) ELSE t
LEMMA PushFacts ==
  ASSUME NEW t \in Position, NEW h \in Position
  PROVE  /\ After(h) \in Position /\ Pushed(t, h) \in Position
         /\ Pushed(t, h) # After(h)
         /\ Between(Pushed(t, h), After(h)) \subseteq Between(t, h) \cup {h}
         /\ h \notin Between(t, h)
         /\ Between(h, After(h)) = {h}
         /\ \A i \in Between(t, h) : Between(i, After(h)) \subseteq Between(i, h) \cup {h}
         /\ Pushed(t, h) # t => t \notin Between(Pushed(t, h), After(h))
         /\ \A s \in Position : s = t \/ After(h) = t =>
              s = Pushed(t, h) \/ After(After(h)) = Pushed(t, h)
<1>1. RingSize \in Nat /\ RingSize > 1
  BY RingSizeAssumption
<1>2. /\ t \in Nat /\ t < RingSize /\ h \in Nat /\ h < RingSize
      /\ \A i \in Position : i \in Nat /\ i < RingSize
  BY <1>1 DEF Position
<1>3. After(h) = IF h = RingSize - 1 THEN 0 ELSE h + 1
  BY AfterType
<1>4. After(t) = IF t = RingSize - 1 THEN 0 ELSE t + 1
  BY AfterType
<1>5. After(h) \in Position /\ After(t) \in Position /\ Pushed(t, h) \in Position
  BY AfterType DEF Pushed
<1>6. Pushed(t, h) # After(h)
  BY <1>1, <1>2, <1>3, <1>4 DEF Pushed
<1>7. Between(Pushed(t, h), After(h)) \subseteq Between(t, h) \cup {h}
  <2> SUFFICES ASSUME NEW i \in Between(Pushed(t, h), After(h)), i # h PROVE i \in Between(t, h)
    OBVIOUS
  <2>1. i \in Position /\ i \in Nat /\ i < RingSize
    BY <1>2 DEF Between
  <2>2. CASE After(h) = t
    BY <1>1, <1>2, <1>3, <1>4, <2>1, <2>2 DEF Between, Pushed
  <2>3. CASE After(h) # t
    BY <1>1, <1>2, <1>3, <2>1, <2>3 DEF Between, Pushed
  <2> QED
    BY <2>2, <2>3
<1>8. h \notin Between(t, h)
  BY <1>2 DEF Between
<1>9. Between(h, After(h)) = {h}
  <2>1. \A i : i \in Between(h, After(h)) <=> i = h
    <3>1. CASE h = RingSize - 1
      BY <1>1, <1>2, <1>3, <3>1 DEF Between, Position
    <3>2. CASE h # RingSize - 1
      BY <1>1, <1>2, <1>3, <3>2 DEF Between, Position
    <3> QED
      BY <3>1, <3>2
  <2> QED
    BY <2>1
<1>10. \A i \in Between(t, h) : Between(i, After(h)) \subseteq Between(i, h) \cup {h}
  <2> SUFFICES ASSUME NEW i \in Between(t, h), NEW j \in Between(i, After(h)), j # h
               PROVE  j \in Between(i, h)
    OBVIOUS
  <2>1. i \in Position /\ j \in Position /\ i \in Nat /\ i < RingSize /\ j \in Nat /\ j < RingSize
    BY <1>2 DEF Between
  <2>2. i # h
    BY <1>8
  <2> QED
    BY <1>1, <1>2, <1>3, <2>1, <2>2 DEF Between
<1>11. Pushed(t, h) # t => t \notin Between(Pushed(t, h), After(h))
  BY <1>2, <1>3, <1>4 DEF Between, Pushed
<1>12. \A s \in Position : s = t \/ After(h) = t =>
         s = Pushed(t, h) \/ After(After(h)) = Pushed(t, h)
  BY DEF Pushed
<1> QED
  BY <1>5, <1>6, <1>7, <1>8, <1>9, <1>10, <1>11, <1>12

(* The tail that ring_pop stores is right, or too far back in a full ring. *)
LEMMA StoreFacts ==
  ASSUME NEW t \in Position, NEW h \in Position, NEW s \in Position, s = t \/ After(h) = t, t # h
  PROVE  Between(After(s), h) \subseteq Between(t, h) \ {s}
<1>1. RingSize \in Nat /\ RingSize > 1
  BY RingSizeAssumption
<1>2. /\ t \in Nat /\ t < RingSize /\ h \in Nat /\ h < RingSize /\ s \in Nat /\ s < RingSize
  BY <1>1 DEF Position
<1>3. /\ After(h) = IF h = RingSize - 1 THEN 0 ELSE h + 1
      /\ After(s) = IF s = RingSize - 1 THEN 0 ELSE s + 1
  BY AfterType
<1> SUFFICES ASSUME NEW i \in Between(After(s), h) PROVE i \in Between(t, h) /\ i # s
  OBVIOUS
<1>4. i \in Position /\ i \in Nat /\ i < RingSize
  BY <1>1 DEF Between, Position
<1>5. CASE s = t
  BY <1>1, <1>2, <1>3, <1>4, <1>5 DEF Between
<1>6. CASE After(h) = t
  BY <1>1, <1>2, <1>3, <1>4, <1>6 DEF Between
<1> QED
  BY <1>5, <1>6

LEMMA InUseFacts ==
  /\ \A t, h \in Position : t # h => t \in Between(t, h)
  /\ \A h \in Position : Between(h, h) = {}
  /\ \A t, h \in Position : Between(t, h) \subseteq Position
BY RingSizeAssumption DEF Between, Position

-----------------------------------------------------------------------------
(* Replies on their way to the driver.                                     *)

(* The symbol that ring_pop takes, from when it has read where it is. *)
Taken        == IF pop = "index" THEN buf[saved] ELSE byte
InUse        == Between(tail, head)
InWire(k)    == \E i \in DOMAIN wire : wire[i].is = k
InRing(k)    == \E i \in InUse : buf[i].is = k
InTransit(k) == InWire(k) \/ InRing(k) \/ Taken.is = k

(* Between its memory accesses ring_pop has something to take, and what it *)
(* will store is the tail or, in a full ring, a place behind it.           *)
PopOK ==
  /\ pop \in {"no", "index"} => byte = Nothing
  /\ pop # "no" => pc \in Loops /\ tail # head
  /\ pop = "tail" => saved = tail \/ After(head) = tail

(* No reply follows a prompt until that has been read.                     *)
WireOrder ==
  \A i \in DOMAIN wire : wire[i].is = "prompt" =>
    /\ ~InRing("prompt") /\ Taken.is # "prompt"
    /\ \A j \in DOMAIN wire : j > i => wire[j].is \notin Replies
RingOrder ==
  \A i \in InUse : buf[i].is = "prompt" =>
    /\ \A j \in DOMAIN wire : wire[j].is \notin Replies
    /\ \A j \in Between(i, head) : j # i => buf[j].is \notin Replies
ByteOrder ==
  Taken.is = "prompt" =>
    /\ \A j \in DOMAIN wire : wire[j].is \notin Replies
    /\ \A i \in InUse : buf[i].is \in Replies =>
         buf[i].is = "prompt" /\ i = IF pop = "tail" THEN saved ELSE tail
Order == WireOrder /\ RingOrder /\ ByteOrder

LEMMA NothingIsNoReply == Nothing.is \notin Replies
BY SymbolTypes DEF Nothing, Answer, Symbol, Replies

LEMMA PopIndexOrder ==
  ASSUME RingTypes, PopOK, PopIndex
  PROVE  /\ PopOK' /\ (Order => Order')
         /\ \A k \in Replies : InTransit(k)' => InTransit(k)
<1>1. /\ tail # head /\ tail \in Position /\ head \in Position /\ pc \in Loops /\ pop' = "index"
      /\ pop = "no" /\ saved' = tail
      /\ UNCHANGED <<buf, head, tail, byte, pc, wire>>
  BY DEF RingTypes, PopIndex, ring, loop, modem
<1>2. tail \in InUse /\ InUse' = InUse /\ Taken' = buf[tail]
  BY <1>1, InUseFacts DEF InUse, Taken
<1>3. PopOK'
  BY <1>1 DEF PopOK
<1>4. \A k \in Replies : InTransit(k)' => InTransit(k)
  BY <1>1, <1>2 DEF InTransit, InWire, InRing
<1>5. ASSUME Order PROVE Order'
  <2>1. WireOrder'
    BY <1>1, <1>2, <1>5 DEF Order, WireOrder, InRing
  <2>2. RingOrder'
    BY <1>1, <1>2, <1>5 DEF Order, RingOrder
  <2>3. ByteOrder'
    BY <1>1, <1>2, <1>5 DEF Order, RingOrder, ByteOrder, InUse
  <2> QED
    BY <2>1, <2>2, <2>3 DEF Order
<1> QED
  BY <1>3, <1>4, <1>5

LEMMA PopOnOrder ==
  ASSUME PopOK, PopByte \/ PopTail
  PROVE  /\ PopOK' /\ (Order => Order')
         /\ \A k \in Replies : InTransit(k)' => InTransit(k)
<1>1. /\ \/ pop = "index" /\ pop' = "byte" /\ byte' = buf[saved] /\ saved' = saved
         \/ pop = "byte" /\ pop' = "tail" /\ saved' = tail /\ byte' = byte
      /\ UNCHANGED <<buf, head, tail, pc, wire>>
  BY DEF PopByte, PopTail, ring, loop, modem
<1>2. InUse' = InUse /\ Taken' = Taken
  BY <1>1 DEF InUse, Taken
<1>3. PopOK'
  BY <1>1 DEF PopOK
<1>4. \A k \in Replies : InTransit(k)' => InTransit(k)
  BY <1>1, <1>2 DEF InTransit, InWire, InRing
<1>5. Order => Order'
  BY <1>1, <1>2 DEF Order, WireOrder, RingOrder, ByteOrder, InRing
<1> QED
  BY <1>3, <1>4, <1>5

(* A prompt that has been taken out of the ring was the last reply.        *)
LEMMA PopStoreOrder ==
  ASSUME RingTypes, PopOK, PopStore, wire' = wire
  PROVE  /\ PopOK' /\ (Order => Order')
         /\ \A k \in Replies : InTransit(k)' => InTransit(k)
         /\ Order /\ byte.is = "prompt" => \A k \in Replies : ~InTransit(k)'
<1>1. /\ pop = "tail" /\ pop' = "no" /\ byte' = Nothing /\ tail' = After(saved)
      /\ UNCHANGED <<buf, head>>
      /\ Taken = byte /\ Taken' = Nothing
  BY DEF PopStore, TailStored, Taken
<1>2. InUse' \subseteq InUse \ {saved}
  BY <1>1, StoreFacts DEF RingTypes, PopOK, InUse
<1>3. PopOK'
  BY <1>1 DEF PopOK
<1>4. \A k \in Replies : InTransit(k)' => InTransit(k)
  BY <1>1, <1>2, NothingIsNoReply DEF InTransit, InWire, InRing
<1>5. ASSUME Order PROVE Order'
  <2>1. WireOrder'
    BY <1>1, <1>2, <1>5, NothingIsNoReply DEF Order, WireOrder, InRing, Replies
  <2>2. RingOrder'
    BY <1>1, <1>2, <1>5 DEF Order, RingOrder
  <2>3. ByteOrder'
    BY <1>1, NothingIsNoReply DEF ByteOrder, Replies
  <2> QED
    BY <2>1, <2>2, <2>3 DEF Order
<1>6. ASSUME Order, byte.is = "prompt" PROVE \A k \in Replies : ~InTransit(k)'
  BY <1>1, <1>2, <1>6, NothingIsNoReply DEF Order, ByteOrder, InTransit, InWire, InRing
<1> QED
  BY <1>3, <1>4, <1>5, <1>6

LEMMA InterruptOrder ==
  ASSUME Types, PopOK, Interrupt
  PROVE  /\ PopOK'
         /\ ~fooled' => /\ Order => Order'
                        /\ \A k \in Replies : InTransit(k)' => InTransit(k)
<1>1. /\ wire \in Seq(Symbols) /\ wire # <<>> /\ wire' = Tail(wire)
      /\ buf \in [Position -> Symbols] /\ head \in Position /\ tail \in Position
      /\ saved \in Position
      /\ buf' = [buf EXCEPT ![head] = Head(wire)]
      /\ head' = After(head) /\ tail' = Pushed(tail, head)
      /\ UNCHANGED <<pc, pop, byte, saved>>
  BY DEF Types, RingTypes, Interrupt, DropOldest, Pushed, loop, popVars
<1>2. /\ 1 \in DOMAIN wire /\ Head(wire) = wire[1]
      /\ \A i \in DOMAIN wire' : i + 1 \in DOMAIN wire /\ wire'[i] = wire[i + 1] /\ i + 1 > 1
      /\ \A i, j \in DOMAIN wire' : j > i => j + 1 > i + 1
  BY <1>1
<1>3. /\ InUse' \subseteq InUse \cup {head}
      /\ head \notin InUse
      /\ Between(head, head') = {head}
      /\ \A i \in InUse : Between(i, head') \subseteq Between(i, head) \cup {head}
      /\ tail' # tail => tail \notin InUse'
      /\ tail' # head'
  BY <1>1, PushFacts DEF InUse
<1>4. /\ buf'[head] = wire[1]
      /\ \A i \in Position : i # head => buf'[i] = buf[i]
      /\ InUse \subseteq Position /\ \A i \in InUse : Between(i, head) \subseteq Position
  BY <1>1, <1>2, InUseFacts DEF InUse
<1>5. PopOK'
  <2>1. saved = tail \/ After(head) = tail => saved = tail' \/ After(head') = tail'
    BY <1>1, PushFacts
  <2> QED
    BY <1>1, <1>3, <2>1 DEF PopOK
<1>8. ~fooled' => Taken' = Taken
  BY <1>1, <1>4 DEF Taken, Interrupt
<1>6. ASSUME ~fooled' PROVE \A k \in Replies : InTransit(k)' => InTransit(k)
  <2> SUFFICES ASSUME NEW k \in Replies, InTransit(k)' PROVE InTransit(k)
    OBVIOUS
  <2>1. InWire(k)' => InWire(k)
    BY <1>2 DEF InWire
  <2>2. InRing(k)' => InRing(k) \/ InWire(k)
    BY <1>2, <1>3, <1>4 DEF InRing, InWire
  <2> QED
    BY <1>1, <1>6, <1>8, <2>1, <2>2 DEF InTransit
<1>7. ASSUME ~fooled', Order PROVE Order'
  <2>1. WireOrder'
    <3> SUFFICES ASSUME NEW i \in DOMAIN wire', wire'[i].is = "prompt"
                 PROVE  /\ ~InRing("prompt")' /\ Taken'.is # "prompt"
                        /\ \A j \in DOMAIN wire' : j > i => wire'[j].is \notin Replies
      BY DEF WireOrder
    <3>1. /\ ~InRing("prompt") /\ Taken.is # "prompt"
          /\ \A j \in DOMAIN wire : j > i + 1 => wire[j].is \notin Replies
      BY <1>2, <1>7 DEF Order, WireOrder
    <3>2. wire[1].is # "prompt"
      BY <1>2, <1>7 DEF Order, WireOrder, Replies
    <3>3. ~InRing("prompt")'
      BY <1>3, <1>4, <3>1, <3>2 DEF InRing
    <3> QED
      BY <1>1, <1>2, <1>7, <1>8, <3>1, <3>3
  <2>2. RingOrder'
    <3> SUFFICES ASSUME NEW i \in InUse', buf'[i].is = "prompt"
                 PROVE  /\ \A j \in DOMAIN wire' : wire'[j].is \notin Replies
                        /\ \A j \in Between(i, head') : j # i => buf'[j].is \notin Replies
      BY DEF RingOrder
    <3>1. CASE i = head
      BY <1>2, <1>3, <1>4, <1>7, <3>1 DEF Order, WireOrder
    <3>2. CASE i # head
      <4>1. i \in InUse /\ buf[i].is = "prompt"
        BY <1>3, <1>4, <3>2
      <4>2. /\ \A j \in DOMAIN wire : wire[j].is \notin Replies
            /\ \A j \in Between(i, head) : j # i => buf[j].is \notin Replies
        BY <1>7, <4>1 DEF Order, RingOrder
      <4> QED
        BY <1>2, <1>3, <1>4, <4>1, <4>2
    <3> QED
      BY <3>1, <3>2
  <2>3. ByteOrder'
    <3> SUFFICES ASSUME Taken.is = "prompt"
                 PROVE  /\ \A j \in DOMAIN wire' : wire'[j].is \notin Replies
                        /\ \A i \in InUse' : buf'[i].is \in Replies =>
                             buf'[i].is = "prompt" /\ i = IF pop' = "tail" THEN saved' ELSE tail'
      BY <1>1, <1>7, <1>8 DEF ByteOrder
    <3>1. /\ \A j \in DOMAIN wire : wire[j].is \notin Replies
          /\ \A i \in InUse : buf[i].is \in Replies =>
               buf[i].is = "prompt" /\ i = IF pop = "tail" THEN saved ELSE tail
      BY <1>7 DEF Order, ByteOrder
    <3>2. \A j \in DOMAIN wire' : wire'[j].is \notin Replies
      BY <1>2, <3>1
    <3>3. ASSUME NEW i \in InUse', buf'[i].is \in Replies
          PROVE  buf'[i].is = "prompt" /\ i = IF pop' = "tail" THEN saved' ELSE tail'
      <4>1. i # head
        BY <1>2, <1>4, <3>1, <3>3
      <4>2. i \in InUse /\ buf'[i] = buf[i]
        BY <1>3, <1>4, <3>3, <4>1
      <4> QED
        BY <1>1, <1>3, <3>1, <3>3, <4>2
    <3> QED
      BY <3>2, <3>3
  <2> QED
    BY <2>1, <2>2, <2>3 DEF Order
<1> QED
  BY <1>5, <1>6, <1>7

(* Steps that leave the ring alone; the modem may say something else.      *)
LEMMA OtherOrder ==
  ASSUME Types, PopOK, UNCHANGED <<buf, head, tail, byte, pop, saved>>,
         wire' = wire \/ \E said \in Seq(Others) : wire' = wire \o said,
         pop = "no" \/ pc' \in Loops
  PROVE  /\ PopOK' /\ (Order => Order')
         /\ \A k \in Replies : InTransit(k)' => InTransit(k)
<1>1. wire \in Seq(Symbols) /\ InUse' = InUse /\ Taken' = Taken
  BY DEF Types, RingTypes, InUse, Taken
<1>2. \A i \in DOMAIN wire' : wire'[i].is \in Replies => i \in DOMAIN wire /\ wire'[i] = wire[i]
  <2>1. CASE wire' = wire
    BY <2>1
  <2>2. ASSUME NEW said \in Seq(Others), wire' = wire \o said
        PROVE \A i \in DOMAIN wire' : wire'[i].is \in Replies => i \in DOMAIN wire /\ wire'[i] = wire[i]
    <3> SUFFICES ASSUME NEW i \in DOMAIN wire', i \notin DOMAIN wire
                 PROVE  wire'[i].is \notin Replies
      BY <1>1, <2>2
    <3>1. i - Len(wire) \in 1 .. Len(said) /\ wire'[i] = said[i - Len(wire)]
      BY <1>1, <2>2
    <3>2. wire'[i] \in Others
      BY <2>2, <3>1
    <3> QED
      BY <3>2 DEF Others
  <2> QED
    BY <2>1, <2>2
<1>3. PopOK'
  BY DEF PopOK
<1>4. \A k \in Replies : InTransit(k)' => InTransit(k)
  BY <1>1, <1>2 DEF InTransit, InWire, InRing
<1>5. ASSUME Order PROVE Order'
  <2>1. InRing("prompt")' => InRing("prompt")
    BY <1>1 DEF InRing
  <2>2. WireOrder'
    BY <1>1, <1>2, <1>5, <2>1 DEF Order, WireOrder, Replies
  <2>3. RingOrder'
    BY <1>1, <1>2, <1>5 DEF Order, RingOrder
  <2>4. ByteOrder'
    BY <1>1, <1>2, <1>5 DEF Order, ByteOrder
  <2> QED
    BY <2>2, <2>3, <2>4 DEF Order
<1> QED
  BY <1>3, <1>4, <1>5

LEMMA FlushOrder ==
  ASSUME Types, PopOK, Flush
  PROVE  /\ PopOK' /\ (Order => Order')
         /\ \A k \in Replies : InTransit(k)' => InTransit(k)
<1>1. /\ pc = "flush" /\ head' = 0 /\ tail' = 0 /\ UNCHANGED <<buf, byte, pop, saved, wire>>
  BY DEF Flush, EmptyRing, popVars, modem
<1>2. InUse' = {} /\ Taken' = Taken
  <2>1. 0 \in Position
    BY RingSizeAssumption DEF Position
  <2> QED
    BY <1>1, <2>1, InUseFacts DEF InUse, Taken
<1>3. pop = "no" /\ PopOK'
  BY <1>1 DEF PopOK, Types, FlowTypes, Loops
<1>4. \A k \in Replies : InTransit(k)' => InTransit(k)
  BY <1>1, <1>2 DEF InTransit, InWire, InRing
<1>5. Order => Order'
  BY <1>1, <1>2 DEF Order, WireOrder, RingOrder, ByteOrder, InRing
<1> QED
  BY <1>3, <1>4, <1>5

-----------------------------------------------------------------------------
(* The conversation, as long as no prompt came late and no payload was     *)
(* taken for an answer.                                                    *)

AwaitsPrompt       == pc = "await" /\ op = "prompt"
AwaitsConfirmation == pc = "await" /\ op = "sendok"

(* A packet is the first command not read, and then the modem takes it for *)
(* payload; it takes what comes next for payload only before a packet.     *)
(* AT+CIPSEND is the last command as long as its prompt is awaited.        *)
CmdsOK ==
  /\ ~misled
  /\ \A i \in DOMAIN cmds : cmds[i].is = "packet" => i = 1 /\ raw = TRUE
  /\ \A i \in DOMAIN cmds : cmds[i].is = "cipsend" => i = Len(cmds) /\ AwaitsPrompt
  /\ raw = TRUE =>
       IF cmds = <<>> THEN AwaitsPrompt \/ pc = "payload" ELSE cmds[1].is = "packet"

(* A prompt on its way belongs to the AT+CIPSEND that awaits it.           *)
PromptOK == InTransit("prompt") => AwaitsPrompt /\ raw = TRUE /\ cmds = <<>>

(* The payload is written when the prompt was read and nothing else is on  *)
(* its way; so the confirmation that comes is that of the packet.          *)
PayloadOK ==
  /\ pc = "payload" => /\ raw = TRUE /\ cmds = <<>>
                       /\ \A k \in Replies : ~InTransit(k)
  /\ AwaitsConfirmation => /\ cmds = <<>> \/ cmds = <<Packet(packet)>>
                           /\ InTransit("sendok") => packet \in out

Calm == Order /\ CmdsOK /\ PromptOK /\ PayloadOK

(* The inductive invariant. *)
Sure == ~doubt /\ ~fooled
LinkInv == Types /\ PopOK /\ (Sure => Calm)

(* Steps of the driver that write nothing to the modem. *)
LEMMA CalmKept ==
  ASSUME Calm, Order', \A k \in Replies : InTransit(k)' => InTransit(k),
         UNCHANGED <<cmds, raw, misled>>,
         \/ UNCHANGED <<pc, op, packet, out>>
         \/ /\ ~AwaitsPrompt /\ pc # "payload"
            /\ pc' # "payload" /\ ~AwaitsPrompt' /\ ~AwaitsConfirmation'
  PROVE  Calm'
<1>1. InTransit("prompt")' => InTransit("prompt")
  BY DEF Replies
<1>2. InTransit("sendok")' => InTransit("sendok")
  BY DEF Replies
<1>3. CmdsOK'
  BY DEF Calm, CmdsOK, AwaitsPrompt, AwaitsConfirmation
<1>4. PromptOK'
  BY <1>1 DEF Calm, PromptOK, AwaitsPrompt
<1>5. PayloadOK'
  <2>1. CASE UNCHANGED <<pc, op, packet, out>>
    BY <1>2, <2>1 DEF Calm, PayloadOK, AwaitsConfirmation, Packet, Symbol
  <2>2. CASE pc' # "payload" /\ ~AwaitsConfirmation'
    BY <2>2 DEF PayloadOK
  <2> QED
    BY <2>1, <2>2
<1> QED
  BY <1>3, <1>4, <1>5 DEF Calm

LEMMA CmdsFacts ==
  ASSUME Types
  PROVE  /\ cmds \in Seq(Commands)
         /\ cmds # <<>> => /\ 1 \in DOMAIN cmds /\ Head(cmds) = cmds[1]
                           /\ Len(Tail(cmds)) = Len(cmds) - 1
                           /\ Len(cmds) = 1 => Tail(cmds) = <<>>
         /\ cmds # <<>> => \A i \in DOMAIN Tail(cmds) :
              i + 1 \in DOMAIN cmds /\ Tail(cmds)[i] = cmds[i + 1] /\ i + 1 # 1
         /\ \A c \in Commands :
              /\ Append(cmds, c) # <<>> /\ Len(Append(cmds, c)) = Len(cmds) + 1
              /\ cmds # <<>> => Append(cmds, c)[1] = cmds[1]
              /\ cmds = <<>> => Append(cmds, c) = <<c>> /\ Append(cmds, c)[1] = c
              /\ \A i \in DOMAIN Append(cmds, c) :
                   \/ i \in DOMAIN cmds /\ Append(cmds, c)[i] = cmds[i]
                   \/ i = Len(cmds) + 1 /\ Append(cmds, c)[i] = c
<1>1. cmds \in Seq(Commands)
  BY DEF Types, ModemTypes
<1>2. ASSUME cmds # <<>>
      PROVE  /\ 1 \in DOMAIN cmds /\ Head(cmds) = cmds[1]
             /\ Len(Tail(cmds)) = Len(cmds) - 1
             /\ \A i \in DOMAIN Tail(cmds) :
                  i + 1 \in DOMAIN cmds /\ Tail(cmds)[i] = cmds[i + 1] /\ i + 1 # 1
  BY <1>1, <1>2
<1>3. cmds # <<>> /\ Len(cmds) = 1 => Tail(cmds) = <<>>
  BY <1>1, <1>2, EmptySeq
<1>4. ASSUME NEW c \in Commands
      PROVE  /\ Append(cmds, c) # <<>> /\ Len(Append(cmds, c)) = Len(cmds) + 1
             /\ cmds # <<>> => Append(cmds, c)[1] = cmds[1]
             /\ cmds = <<>> => Append(cmds, c) = <<c>> /\ Append(cmds, c)[1] = c
             /\ \A i \in DOMAIN Append(cmds, c) :
                   \/ i \in DOMAIN cmds /\ Append(cmds, c)[i] = cmds[i]
                   \/ i = Len(cmds) + 1 /\ Append(cmds, c)[i] = c
  <2>1. /\ Append(cmds, c) \in Seq(Commands) /\ Len(Append(cmds, c)) = Len(cmds) + 1
        /\ \A i \in 1 .. Len(cmds) : Append(cmds, c)[i] = cmds[i]
        /\ Append(cmds, c)[Len(cmds) + 1] = c
    BY <1>1
  <2>2. /\ DOMAIN cmds = 1 .. Len(cmds) /\ DOMAIN Append(cmds, c) = 1 .. Len(cmds) + 1
        /\ Len(cmds) \in Nat
    BY <1>1, <2>1
  <2>3. cmds # <<>> => Append(cmds, c)[1] = cmds[1]
    BY <1>2, <2>1, <2>2
  <2>4. cmds = <<>> => Append(cmds, c) = <<c>> /\ Append(cmds, c)[1] = c
    <3> SUFFICES ASSUME cmds = <<>> PROVE Append(cmds, c) = <<c>> /\ Append(cmds, c)[1] = c
      OBVIOUS
    <3>1. Len(cmds) = 0 /\ Append(cmds, c)[1] = c
      BY <2>1
    <3> DEFINE appended == Append(cmds, c)  single == <<c>>
    <3>2. /\ appended \in Seq(Commands) /\ Len(appended) = 1 /\ appended[1] = c
          /\ single \in Seq(Commands) /\ Len(single) = 1 /\ single[1] = c
      BY <2>1, <3>1
    <3> HIDE DEF appended, single
    <3>3. \A i \in 1 .. Len(appended) : appended[i] = single[i]
      BY <3>2
    <3>4. appended = single
      BY <3>2, <3>3, SeqEqual
    <3> QED
      BY <3>1, <3>4, Zenon DEF appended, single
  <2>5. Append(cmds, c) # <<>>
    <3> DEFINE length == Len(Append(cmds, c))
    <3>1. length > 0 /\ Len(<<>>) = 0
      BY <2>1, <2>2, EmptySeq
    <3>2. Append(cmds, c) = <<>> => length = Len(<<>>)
      BY Zenon
    <3> HIDE DEF length
    <3> QED
      BY <3>1, <3>2
  <2>6. \A i \in DOMAIN Append(cmds, c) :
          \/ i \in DOMAIN cmds /\ Append(cmds, c)[i] = cmds[i]
          \/ i = Len(cmds) + 1 /\ Append(cmds, c)[i] = c
    BY <2>1, <2>2
  <2> QED
    BY <2>1, <2>3, <2>4, <2>5, <2>6
<1> QED
  BY <1>1, <1>2, <1>3, <1>4

-----------------------------------------------------------------------------
(* The driver's steps.                                                     *)

LEMMA PoppingInv ==
  ASSUME LinkInv, PopIndex \/ PopByte \/ PopTail \/ Drop \/ Parse \/ Interrupt PROVE LinkInv'
<1>1. Types'
  BY InterruptTypes, PopTypes, DropTypes, ParseTypes DEF LinkInv
<1>2. /\ PopOK'
      /\ ~fooled' => /\ Order => Order'
                     /\ \A k \in Replies : InTransit(k)' => InTransit(k)
  <2>1. Types /\ RingTypes /\ PopOK
    BY DEF LinkInv, Types
  <2>2. CASE PopIndex
    BY <2>1, <2>2, PopIndexOrder
  <2>3. CASE PopByte \/ PopTail
    BY <2>1, <2>3, PopOnOrder
  <2>4. CASE Drop \/ Parse
    <3>1. PopStore /\ wire' = wire
      BY <2>4 DEF Drop, Parse, modem
    <3> QED
      BY <2>1, <3>1, PopStoreOrder
  <2>5. CASE Interrupt
    BY <2>1, <2>5, InterruptOrder
  <2> QED
    BY <2>2, <2>3, <2>4, <2>5
<1>3. /\ UNCHANGED <<cmds, raw, misled, doubt>> /\ (~fooled' => ~fooled)
      /\ \/ UNCHANGED <<pc, op, packet, out>>
         \/ pc = "recv" /\ pc' \in {"recv", "rest"}
  <2>1. CASE PopIndex \/ PopByte \/ PopTail
    BY <2>1 DEF PopIndex, PopByte, PopTail, loop, modem, hist
  <2>2. CASE Drop \/ Interrupt
    <3>1. /\ UNCHANGED <<cmds, raw, misled, doubt, pc, op, packet, out>>
          /\ \/ fooled' = fooled
             \/ fooled' = (fooled \/ (pop = "index" /\ head = saved))
      BY <2>2 DEF Drop, Interrupt, loop, modem
    <3>2. ~fooled' => ~fooled
      BY <3>1, Zenon
    <3> QED
      BY <3>1, <3>2
  <2>3. CASE Parse
    <3>1. pc = "recv" /\ pc' \in {"recv", "rest"}
      BY <2>3 DEF Parse, Idle, Header, Payload
    <3> QED
      BY <2>3, <3>1 DEF Parse, modem
  <2> QED
    BY <2>1, <2>2, <2>3
<1>4. Sure' => Calm'
  BY <1>2, <1>3, CalmKept DEF LinkInv, Sure, Calm, AwaitsPrompt, AwaitsConfirmation
<1> QED
  BY <1>1, <1>2, <1>3, <1>4 DEF LinkInv

LEMMA RestingInv ==
  ASSUME LinkInv,
         \/ Connect \/ Disconnect \/ TransmitFails \/ WaitTimesOut \/ QuietEnds \/ Flush \/ Opened
         \/ RecvStart \/ RecvEmpty
  PROVE  LinkInv'
<1>1. Types /\ Types' /\ PopOK
  BY CommandTypes, WaitTypes DEF LinkInv
<1>2. pc \in {"rest", "payload", "flush", "opened"} => pop = "no"
  BY <1>1 DEF PopOK, Loops, Types, FlowTypes
<1>3. /\ PopOK' /\ (Order => Order')
      /\ \A k \in Replies : InTransit(k)' => InTransit(k)
  <2>1. CASE Flush
    BY <1>1, <2>1, FlushOrder
  <2>2. CASE \/ Connect \/ Disconnect \/ TransmitFails \/ WaitTimesOut \/ QuietEnds \/ Opened
             \/ RecvStart \/ RecvEmpty
    <3>1. UNCHANGED <<buf, head, tail, byte, pop, saved, wire>>
      BY <2>2 DEF Connect, Disconnect, TransmitFails, WaitTimesOut, QuietEnds, Opened, RecvStart,
                  RecvEmpty, ring, popVars, modem
    <3>2. pop = "no"
      BY <1>2, <2>2 DEF Connect, Disconnect, TransmitFails, WaitTimesOut, QuietEnds, Opened,
                        RecvStart, RecvEmpty
    <3> QED
      BY <1>1, <3>1, <3>2, OtherOrder
  <2> QED
    BY <2>1, <2>2
<1>4. Sure' => /\ UNCHANGED <<cmds, raw, misled, doubt, fooled>>
               /\ ~AwaitsPrompt /\ pc # "payload"
               /\ pc' # "payload" /\ ~AwaitsPrompt' /\ ~AwaitsConfirmation'
  <2>1. CASE Connect \/ Disconnect \/ QuietEnds \/ Opened
    BY <2>1 DEF Connect, Disconnect, QuietEnds, Opened, Rest, modem, hist, Sure, AwaitsPrompt,
                AwaitsConfirmation
  <2>2. CASE TransmitFails
    <3>1. /\ UNCHANGED <<cmds, raw, fooled>> /\ pc' = "rest" /\ pc \in {"drain", "rest", "payload"}
          /\ pc = "payload" => doubt'
          /\ pc = "drain" /\ op = "close" => doubt'
          /\ (pc = "drain" /\ op # "close") \/ pc = "rest" => UNCHANGED <<doubt, misled>>
      <4>1. doubt \in BOOLEAN /\ misled \in BOOLEAN
        BY <1>1 DEF Types, FlagTypes
      <4>2. /\ pc' = "rest" /\ UNCHANGED <<cmds, raw, fooled>>
            /\ \/ /\ pc = "drain"
                  /\ doubt' = (doubt \/ op = "close") /\ misled' = (misled \/ op = "close")
               \/ pc = "rest" /\ UNCHANGED <<doubt, misled>>
               \/ pc = "payload" /\ doubt' = TRUE /\ UNCHANGED misled
        BY <2>2 DEF TransmitFails, Rest, modem
      <4> QED
        BY <4>1, <4>2
    <3> QED
      BY <3>1 DEF Sure, AwaitsPrompt, AwaitsConfirmation
  <2>3. CASE WaitTimesOut
    BY <2>3 DEF WaitTimesOut, Rest, modem, Sure, AwaitsPrompt, AwaitsConfirmation
  <2>4. CASE Flush \/ RecvStart \/ RecvEmpty
    BY <2>4 DEF Flush, RecvStart, RecvEmpty, modem, hist, Sure, AwaitsPrompt, AwaitsConfirmation
  <2> QED
    BY <2>1, <2>2, <2>3, <2>4
<1>5. Sure' => Calm'
  BY <1>3, <1>4, CalmKept DEF LinkInv, Sure, Calm
<1> QED
  BY <1>1, <1>3, <1>5 DEF LinkInv

(* The prompt that at_wait_result finds is the last reply on its way. *)
LEMMA CompareInv == ASSUME LinkInv, Compare PROVE LinkInv'
<1>1. Types' /\ Types /\ RingTypes
  BY CompareTypes DEF LinkInv, Types
<1>2. /\ PopOK' /\ (Order => Order')
      /\ \A k \in Replies : InTransit(k)' => InTransit(k)
      /\ Order /\ byte.is = "prompt" => \A k \in Replies : ~InTransit(k)'
  <2>1. PopStore /\ wire' = wire
    BY DEF Compare, modem
  <2> QED
    BY <1>1, <2>1, PopStoreOrder DEF LinkInv
<1>3. /\ pc = "await" /\ UNCHANGED <<cmds, raw, misled, doubt, out>>
      /\ op \in {"start", "startOk", "close", "prompt", "sendok"}
  BY <1>1 DEF Compare, modem, Types, FlowTypes
<1>5. PICK token \in Matches(byte) :
        /\ Fooled(byte, token)
        /\ \/ UNCHANGED <<loop, phase, packet>>
           \/ token \in Failure(op) /\ pc' = "quiet"
           \/ token \in Success(op) /\ Succeeded
  BY DEF Compare
<1>4. ASSUME Sure' PROVE Calm'
  <2>0. ~fooled /\ ~fooled' /\ ~doubt
    BY <1>1, <1>3, <1>4, <1>5 DEF Sure, Fooled, Types, FlagTypes
  <2>1. Calm /\ Order'
    BY <1>2, <2>0 DEF LinkInv, Sure, Calm
  <2>2. CASE UNCHANGED <<loop, phase, packet>>
    BY <1>2, <1>3, <2>1, <2>2, CalmKept DEF loop
  <2>3. CASE token \in Failure(op) /\ pc' = "quiet"
    <3>1. op # "prompt"
      BY <2>3 DEF Failure
    <3> QED
      BY <1>2, <1>3, <2>1, <2>3, <3>1, CalmKept DEF AwaitsPrompt, AwaitsConfirmation
  <2>4. CASE token \in Success(op) /\ Succeeded /\ op # "prompt"
    <3>1. pc' # "payload" /\ ~AwaitsPrompt' /\ ~AwaitsConfirmation'
      BY <1>3, <2>4 DEF Succeeded, Await, Rest, AwaitsPrompt, AwaitsConfirmation
    <3> QED
      BY <1>2, <1>3, <2>1, <2>4, <3>1, CalmKept DEF AwaitsPrompt
  <2>5. CASE token \in Success(op) /\ Succeeded /\ op = "prompt"
    <3>1. byte.is = "prompt" /\ pc' = "payload"
      BY <1>5, <2>0, <2>5 DEF Success, Prompt, Succeeded, Matches, Fooled
    <3>6. Taken = byte
      BY DEF Compare, PopStore, Taken
    <3>2. raw = TRUE /\ cmds = <<>>
      BY <2>1, <3>1, <3>6 DEF Calm, PromptOK, InTransit
    <3>3. \A k \in Replies : ~InTransit(k)'
      BY <1>2, <2>1, <3>1 DEF Calm
    <3>4. CmdsOK'
      BY <1>3, <2>1, <3>1, <3>2 DEF Calm, CmdsOK
    <3>5. PromptOK' /\ PayloadOK'
      BY <1>3, <3>1, <3>2, <3>3 DEF PromptOK, PayloadOK, AwaitsConfirmation, Replies
    <3> QED
      BY <2>1, <3>4, <3>5 DEF Calm
  <2> QED
    BY <1>5, <2>2, <2>3, <2>4, <2>5
<1> QED
  BY <1>1, <1>2, <1>3, <1>4 DEF LinkInv

(* The commands and the payload that the driver writes. *)
LEMMA WritingInv == ASSUME LinkInv, DrainEnds \/ SendStart \/ SendPayload PROVE LinkInv'
<1>1. Types /\ Types' /\ PopOK
  BY CommandTypes DEF LinkInv
<1>2. /\ UNCHANGED <<buf, head, tail, byte, pop, saved, wire, raw, misled, doubt, fooled, packet, out>>
      /\ pc' = "await" \/ pop = "no"
  <2>1. pop = "no"
    BY <1>1 DEF DrainEnds, SendStart, SendPayload, PopOK, Loops, Types, FlowTypes
  <2> QED
    BY <2>1 DEF DrainEnds, SendStart, SendPayload, ring, popVars, modemButCmds, hist
<1>3. /\ PopOK' /\ (Order => Order')
      /\ \A k \in Replies : InTransit(k)' => InTransit(k)
  BY <1>1, <1>2, OtherOrder DEF Loops
<1>4. ASSUME Sure' PROVE Calm'
  <2>1. Calm /\ Order'
    BY <1>2, <1>3, <1>4 DEF LinkInv, Sure, Calm
  <2>2. InTransit("prompt")' => InTransit("prompt")
    BY <1>3 DEF Replies
  <2>3. CASE UNCHANGED loop /\ cmds' = cmds
    BY <1>2, <1>3, <2>1, <2>3, CalmKept DEF loop
  <2>4. ASSUME pc \in {"drain", "rest"}, NEW c \in Commands, c.is # "packet",
               cmds' = Append(cmds, c), pc' = "await", op' # "sendok",
               c.is = "cipsend" => op' = "prompt"
        PROVE  Calm'
    <3>1. ~AwaitsPrompt /\ pc # "payload" /\ ~InTransit("prompt")'
      BY <2>1, <2>2, <2>4 DEF AwaitsPrompt, Calm, PromptOK
    <3>2. \A i \in DOMAIN cmds' : \/ i \in DOMAIN cmds /\ cmds'[i] = cmds[i]
                                  \/ i = Len(cmds') /\ cmds'[i] = c
      BY <1>1, <2>4, CmdsFacts
    <3>3. \A i \in DOMAIN cmds' : cmds'[i].is = "packet" => i = 1 /\ raw' = TRUE
      BY <1>2, <2>1, <2>4, <3>2 DEF Calm, CmdsOK
    <3>4. \A i \in DOMAIN cmds' : cmds'[i].is = "cipsend" => i = Len(cmds') /\ AwaitsPrompt'
      BY <2>1, <2>4, <3>1, <3>2 DEF Calm, CmdsOK, AwaitsPrompt
    <3>5. raw' = TRUE => cmds' # <<>> /\ cmds'[1].is = "packet"
      BY <1>1, <1>2, <2>1, <2>4, <3>1, CmdsFacts DEF Calm, CmdsOK
    <3>6. CmdsOK'
      BY <1>2, <2>1, <3>3, <3>4, <3>5 DEF Calm, CmdsOK
    <3>7. PromptOK' /\ PayloadOK'
      BY <2>4, <3>1 DEF PromptOK, PayloadOK, AwaitsConfirmation
    <3> QED
      BY <2>1, <3>6, <3>7 DEF Calm
  <2>5. CASE DrainEnds
    <3>1. /\ Send(op) \in Commands /\ Send(op).is \notin {"packet", "cipsend"}
          /\ op' \in {"start", "close"}
      BY <1>1, <2>5, SymbolTypes DEF Send, DrainEnds, Await, Types, FlowTypes
    <3> QED
      BY <2>4, <2>5, <3>1 DEF DrainEnds, Write, Await
  <2>6. CASE SendStart
    <3>1. Command("cipsend") \in Commands /\ Command("cipsend").is = "cipsend"
      BY SymbolTypes
    <3>2. \/ UNCHANGED loop /\ cmds' = cmds
          \/ cmds' = Append(cmds, Command("cipsend")) /\ pc' = "await" /\ op' = "prompt"
      BY <2>6 DEF SendStart, Write, NoWrite, Await
    <3>3. pc = "rest"
      BY <2>6 DEF SendStart
    <3> QED
      BY <2>3, <2>4, <3>1, <3>2, <3>3
  <2>7. CASE SendPayload
    <3>1. /\ pc = "payload" /\ pc' = "await" /\ op' = "sendok"
          /\ cmds' = Append(cmds, Packet(packet))
      BY <2>7 DEF SendPayload, Write, Await
    <3>2. /\ raw = TRUE /\ cmds = <<>>
          /\ \A k \in Replies : ~InTransit(k)'
      BY <1>3, <2>1, <3>1 DEF Calm, PayloadOK
    <3>3. Packet(packet) \in Commands /\ Packet(packet).is = "packet"
      BY <1>1, SymbolTypes DEF Types, FlowTypes
    <3>4. /\ cmds' = <<Packet(packet)>> /\ cmds'[1].is = "packet" /\ cmds' # <<>>
          /\ \A i \in DOMAIN cmds' : i = 1
      <4>1. /\ cmds' = <<Packet(packet)>> /\ cmds'[1] = Packet(packet) /\ cmds' # <<>>
            /\ \A i \in DOMAIN cmds' : i = Len(cmds) + 1
        BY <1>1, <3>1, <3>2, <3>3, CmdsFacts
      <4> QED
        BY <3>2, <3>3, <4>1
    <3>5. CmdsOK'
      BY <1>2, <2>1, <3>2, <3>4 DEF Calm, CmdsOK
    <3>6. PromptOK' /\ PayloadOK'
      <4>1. Packet(packet)' = Packet(packet)
        BY <1>2 DEF Packet, Symbol
      <4> QED
        BY <3>1, <3>2, <3>4, <4>1 DEF PromptOK, PayloadOK, Replies
    <3> QED
      BY <2>1, <3>5, <3>6 DEF Calm
  <2> QED
    BY <2>5, <2>6, <2>7
<1> QED
  BY <1>1, <1>2, <1>3, <1>4 DEF LinkInv

-----------------------------------------------------------------------------
(* The modem's steps.                                                      *)

LEMMA NoPromptOrder == ~InTransit("prompt") => Order
BY DEF InTransit, InWire, InRing, Order, WireOrder, RingOrder, ByteOrder

(* A reply is the last thing on its way. *)
LEMMA Replied ==
  ASSUME Types, UNCHANGED <<buf, head, tail, byte, pop, saved>>,
         NEW k \in {"prompt", "sendok", "error"}, wire' = wire \o <<Answer(k)>>
  PROVE  /\ \A i \in DOMAIN wire' : \/ i \in DOMAIN wire /\ wire'[i] = wire[i]
                                    \/ i = Len(wire) + 1 /\ wire'[i].is = k
         /\ \A i \in DOMAIN wire' : i <= Len(wire) + 1
         /\ InUse' = InUse
         /\ \A r \in Replies : InTransit(r)' => InTransit(r) \/ r = k
<1>0. Taken' = Taken
  BY DEF Taken
<1>1. wire \in Seq(Symbols) /\ Answer(k).is = k
  BY SymbolTypes DEF Types, RingTypes, Kinds
<1>2. /\ \A i \in DOMAIN wire' : \/ i \in DOMAIN wire /\ wire'[i] = wire[i]
                                 \/ i = Len(wire) + 1 /\ wire'[i] = Answer(k)
      /\ \A i \in DOMAIN wire' : i <= Len(wire) + 1
  BY <1>1
<1>3. InUse' = InUse
  BY DEF InUse
<1>4. \A r \in Replies : InTransit(r)' => InTransit(r) \/ r = k
  BY <1>0, <1>1, <1>2, <1>3 DEF InTransit, InWire, InRing
<1> QED
  BY <1>1, <1>2, <1>3, <1>4

LEMMA ModemInv ==
  ASSUME LinkInv, CipStart \/ CipClose \/ Segment \/ LinkLost PROVE LinkInv'
<1>1. /\ Types /\ Types' /\ PopOK
      /\ UNCHANGED <<buf, head, tail, byte, pop, saved, pc, op, packet>>
      /\ \E said \in Seq(Others) : wire' = wire \o said
  BY ModemStepTypes, SaysTypes, SaysOther DEF LinkInv
<1>2. /\ PopOK' /\ (Order => Order')
      /\ \A k \in Replies : InTransit(k)' => InTransit(k)
  <2>1. pop = "no" \/ pc' \in Loops
    BY <1>1 DEF PopOK
  <2> QED
    BY <1>1, <2>1, OtherOrder
<1>3. UNCHANGED <<raw, misled, doubt, fooled>>
  BY DEF CipStart, CipClose, Segment, LinkLost, hist
<1>4. ASSUME Sure' PROVE Calm'
  <2>1. Calm /\ Order'
    BY <1>2, <1>3, <1>4 DEF LinkInv, Sure, Calm
  <2>2. CASE Segment \/ LinkLost
    <3>1. UNCHANGED <<cmds, out>>
      BY <2>2 DEF Segment, LinkLost
    <3> QED
      BY <1>1, <1>2, <1>3, <2>1, <3>1, CalmKept
  <2>3. CASE CipStart \/ CipClose
    <3>1. /\ raw # TRUE /\ cmds # <<>> /\ cmds' = Tail(cmds)
          /\ cmds[1].is \in {"cipstart", "cipclose"}
      BY <1>1, <2>3, CmdsFacts DEF CipStart, CipClose, Reads
    <3>2. \A i \in DOMAIN cmds' : i + 1 \in DOMAIN cmds /\ cmds'[i] = cmds[i + 1]
      BY <1>1, <3>1, CmdsFacts
    <3>3. \A i \in DOMAIN cmds' : cmds'[i].is # "packet"
      BY <2>1, <3>1, <3>2 DEF Calm, CmdsOK
    <3>4. \A i \in DOMAIN cmds' : cmds'[i].is = "cipsend" => i = Len(cmds') /\ AwaitsPrompt'
      <4>1. Len(cmds') = Len(cmds) - 1 /\ Len(cmds) \in Nat /\ DOMAIN cmds' \subseteq Nat
        BY <1>1, <3>1, CmdsFacts
      <4>2. \A i \in DOMAIN cmds' : cmds'[i].is = "cipsend" => i + 1 = Len(cmds) /\ AwaitsPrompt
        BY <2>1, <3>2 DEF Calm, CmdsOK
      <4> QED
        BY <1>1, <4>1, <4>2 DEF AwaitsPrompt
    <3>5. CmdsOK'
      BY <1>3, <2>1, <3>1, <3>3, <3>4 DEF Calm, CmdsOK
    <3>6. PromptOK'
      BY <1>2, <2>1, <3>1 DEF Calm, PromptOK, Replies
    <3>7. PayloadOK'
      <4>1. pc # "payload"
        BY <2>1, <3>1 DEF Calm, PayloadOK
      <4>2. ~AwaitsConfirmation
        <5>1. <<Packet(packet)>>[1].is = "packet"
          BY <1>1, SymbolTypes DEF Types, FlowTypes
        <5> QED
          BY <2>1, <3>1, <5>1 DEF Calm, PayloadOK
      <4> QED
        BY <1>1, <4>1, <4>2 DEF PayloadOK, AwaitsConfirmation
    <3> QED
      BY <2>1, <3>5, <3>6, <3>7 DEF Calm
  <2> QED
    BY <2>2, <2>3
<1> QED
  BY <1>1, <1>2, <1>3, <1>4 DEF LinkInv

LEMMA CipSendInv == ASSUME LinkInv, CipSend PROVE LinkInv'
<1>1. /\ Types /\ Types' /\ PopOK
      /\ UNCHANGED <<buf, head, tail, byte, pop, saved, pc, op, packet>>
  BY ModemStepTypes, SaysTypes DEF LinkInv
<1>2. PopOK' /\ UNCHANGED <<misled, doubt, fooled>> /\ Taken' = Taken
  BY <1>1 DEF PopOK, CipSend, hist, Taken
<1>3. ASSUME Sure' PROVE Calm'
  <2>1. Calm
    BY <1>2, <1>3 DEF LinkInv, Sure
  <2>2. /\ raw # TRUE /\ cmds # <<>> /\ cmds' = Tail(cmds) /\ cmds[1].is = "cipsend" /\ raw' = open
        /\ open \in BOOLEAN
    BY <1>1, CmdsFacts DEF CipSend, Reads, Types, FlagTypes
  <2>3. AwaitsPrompt /\ AwaitsPrompt' /\ cmds' = <<>> /\ ~InTransit("prompt")
    <3>1. 1 = Len(cmds) /\ AwaitsPrompt
      BY <1>1, <2>1, <2>2, CmdsFacts DEF Calm, CmdsOK
    <3> QED
      BY <1>1, <2>1, <2>2, <3>1, CmdsFacts DEF AwaitsPrompt, Calm, PromptOK
  <2>4. CmdsOK' /\ PayloadOK'
    BY <1>2, <2>1, <2>3 DEF Calm, CmdsOK, PayloadOK, AwaitsPrompt, AwaitsConfirmation
  <2>5. CASE open = TRUE
    <3>1. wire' = wire \o <<Answer("prompt")>>
      BY <2>5 DEF CipSend, Says
    <3>2. /\ \A i \in DOMAIN wire' : \/ i \in DOMAIN wire /\ wire'[i] = wire[i]
                                     \/ i = Len(wire) + 1
          /\ \A i \in DOMAIN wire' : i <= Len(wire) + 1
          /\ InUse' = InUse
      BY <1>1, <3>1, Replied
    <3>3. \A i \in DOMAIN wire' : wire'[i].is = "prompt" => i = Len(wire) + 1
      BY <2>3, <3>2 DEF InTransit, InWire
    <3>4. ~InRing("prompt")' /\ Taken'.is # "prompt"
      BY <1>1, <1>2, <2>3, <3>2 DEF InTransit, InRing
    <3>5. Order'
      <4>1. \A i, j \in DOMAIN wire' : wire'[i].is = "prompt" => ~(j > i)
        <5>1. wire \in Seq(Symbols) /\ wire' \in Seq(Symbols)
          BY <1>1 DEF Types, RingTypes
        <5>2. Len(wire) \in Nat /\ DOMAIN wire' \subseteq Nat
          BY <5>1
        <5> QED
          BY <3>2, <3>3, <5>2
      <4> QED
        BY <3>4, <4>1 DEF Order, WireOrder, RingOrder, ByteOrder, InRing
    <3>6. PromptOK'
      BY <2>2, <2>3, <2>5 DEF PromptOK
    <3> QED
      BY <2>4, <3>5, <3>6 DEF Calm
  <2>6. CASE open = FALSE
    <3>1. wire' = wire \o <<Answer("error")>>
      BY <2>6 DEF CipSend, Says
    <3>2. ~InTransit("prompt")'
      BY <1>1, <2>3, <3>1, Replied DEF Replies
    <3>3. Order'
      BY <3>2 DEF InTransit, InWire, InRing, Order, WireOrder, RingOrder, ByteOrder
    <3> QED
      BY <2>4, <3>2, <3>3 DEF Calm, PromptOK
  <2> QED
    BY <2>2, <2>5, <2>6
<1> QED
  BY <1>1, <1>2, <1>3 DEF LinkInv

LEMMA TakePayloadInv == ASSUME LinkInv, TakePayload PROVE LinkInv'
<1>1. /\ Types /\ Types' /\ PopOK
      /\ UNCHANGED <<buf, head, tail, byte, pop, saved, pc, op, packet>>
  BY ModemStepTypes, SaysTypes DEF LinkInv
<1>2. PopOK' /\ doubt' = doubt /\ fooled' = fooled
  BY <1>1 DEF PopOK, TakePayload
<1>3. ASSUME Sure' PROVE Calm'
  <2>1. Calm
    BY <1>2, <1>3 DEF LinkInv, Sure
  <2>2. /\ cmds # <<>> /\ cmds' = Tail(cmds) /\ raw' = FALSE
        /\ Head(cmds) = cmds[1] /\ 1 \in DOMAIN cmds
        /\ raw \/ Head(cmds).is = "packet"
    BY <1>1, CmdsFacts DEF TakePayload
  <2>3. raw = TRUE /\ cmds[1].is = "packet"
    <3>1. raw \in BOOLEAN
      BY <1>1 DEF Types, FlagTypes
    <3> QED
      BY <2>1, <2>2, <3>1 DEF Calm, CmdsOK
  <2>4. ~misled'
    BY <2>1, <2>2, <2>3 DEF TakePayload, Calm, CmdsOK
  <2>5. \A i \in DOMAIN cmds' : i + 1 \in DOMAIN cmds /\ cmds'[i] = cmds[i + 1] /\ i + 1 # 1
    BY <1>1, <2>2, CmdsFacts
  <2>6. \A i \in DOMAIN cmds' : cmds'[i].is # "packet"
    BY <2>1, <2>5 DEF Calm, CmdsOK
  <2>7. \A i \in DOMAIN cmds' : cmds'[i].is = "cipsend" => i = Len(cmds') /\ AwaitsPrompt'
    <3>1. Len(cmds') = Len(cmds) - 1 /\ Len(cmds) \in Nat /\ DOMAIN cmds' \subseteq Nat
      BY <1>1, <2>2, CmdsFacts
    <3>2. \A i \in DOMAIN cmds' : cmds'[i].is = "cipsend" => i + 1 = Len(cmds) /\ AwaitsPrompt
      BY <2>1, <2>5 DEF Calm, CmdsOK
    <3> QED
      BY <1>1, <3>1, <3>2 DEF AwaitsPrompt
  <2>8. CmdsOK'
    BY <2>2, <2>4, <2>6, <2>7 DEF CmdsOK
  <2>9. PICK k \in {"sendok", "error"} :
          /\ wire' = wire \o <<Answer(k)>>
          /\ out \subseteq out'
          /\ k = "sendok" => cmds[1].n \in out'
    BY <2>2, <2>3 DEF TakePayload, Says
  <2>10. /\ InTransit("prompt")' => InTransit("prompt")
         /\ InTransit("sendok")' => InTransit("sendok") \/ k = "sendok"
    BY <1>1, <2>9, Replied DEF Replies
  <2>11. ~InTransit("prompt")'
    BY <2>1, <2>2, <2>10 DEF Calm, PromptOK
  <2>12. Order' /\ PromptOK'
    BY <2>11 DEF InTransit, InWire, InRing, Order, WireOrder, RingOrder, ByteOrder, PromptOK
  <2>13. PayloadOK'
    <3>1. pc # "payload"
      BY <2>1, <2>2 DEF Calm, PayloadOK
    <3>2. ASSUME AwaitsConfirmation
          PROVE  cmds' = <<>> /\ (InTransit("sendok")' => packet \in out')
      <4>1. cmds = <<Packet(packet)>> /\ (InTransit("sendok") => packet \in out)
        BY <2>1, <2>2, <3>2 DEF Calm, PayloadOK
      <4>2. cmds[1].n = packet
        BY <1>1, <4>1, SymbolTypes DEF Types, FlowTypes
      <4>3. cmds' = <<>>
        BY <1>1, <2>2, <4>1, CmdsFacts
      <4> QED
        BY <2>9, <2>10, <4>1, <4>2, <4>3
    <3> QED
      BY <1>1, <3>1, <3>2 DEF PayloadOK, AwaitsConfirmation
  <2> QED
    BY <2>8, <2>12, <2>13 DEF Calm
<1> QED
  BY <1>1, <1>2, <1>3 DEF LinkInv

-----------------------------------------------------------------------------
LEMMA InitInv == Init => LinkInv
<1> SUFFICES ASSUME Init PROVE LinkInv
  OBVIOUS
<1>1. Types /\ PopOK
  BY InitTypes DEF Init, PopOK
<1>2. InUse = {} /\ \A k \in Replies : ~InTransit(k)
  <2>1. InUse = {}
    BY InUseFacts, RingSizeAssumption DEF Init, InUse, Position
  <2> QED
    BY <2>1, NothingIsNoReply DEF Init, InTransit, InWire, InRing, Taken
<1>3. Order
  BY <1>2, NoPromptOrder DEF Replies
<1>4. CmdsOK /\ PromptOK /\ PayloadOK
  BY <1>2 DEF Init, CmdsOK, PromptOK, PayloadOK, AwaitsConfirmation, Replies
<1> QED
  BY <1>1, <1>3, <1>4 DEF LinkInv, Calm

LEMMA NextInv == ASSUME LinkInv, [Next]_vars PROVE LinkInv'
<1>1. CASE UNCHANGED vars
  <2>1. Types' /\ UNCHANGED <<buf, head, tail, byte, pop, saved, wire, pc, op, packet, out, cmds, raw,
                              misled, doubt, fooled>>
    BY <1>1, NextTypes DEF LinkInv, vars, ring, loop, popVars, modem, hist
  <2>2. /\ PopOK' /\ (Order => Order')
        /\ \A k \in Replies : InTransit(k)' => InTransit(k)
    BY <2>1, OtherOrder DEF LinkInv, PopOK
  <2> QED
    BY <2>1, <2>2, CalmKept DEF LinkInv, Sure, Calm
<1>2. CASE Next
  BY <1>2, PoppingInv, RestingInv, CompareInv, WritingInv, ModemInv, CipSendInv, TakePayloadInv
     DEF Next
<1> QED
  BY <1>1, <1>2

LEMMA Invariance == Spec => []LinkInv
<1>1. Init => LinkInv
  BY InitInv
<1>2. LinkInv /\ [Next]_vars => LinkInv'
  BY NextInv
<1> QED
  BY <1>1, <1>2, PTL DEF Spec

(* Every variable of the driver, the ring and the modem keeps its type;    *)
(* esp01_recv is in the middle of a payload exactly as long as some of it  *)
(* is to come.                                                             *)
THEOREM TypeCorrect == Spec => []LinkTypeOK
<1>1. Types => LinkTypeOK
  BY DEF Types, RingTypes, FlowTypes, RecvTypes, FlagTypes, LinkTypeOK
<1> QED
  BY <1>1, Invariance, PTL DEF LinkInv

(* As long as every prompt came in time, and no payload that was read      *)
(* while a prompt was awaited held a '>' (at_wait_result looks for it      *)
(* there too, l.363), the modem takes commands for commands and payload    *)
(* for payload (esp01_send, l.1416-1434).                                  *)
THEOREM NeverMisread == Spec => []Understood
<1>1. LinkInv => Understood
  BY DEF LinkInv, Sure, Calm, CmdsOK, Understood
<1> QED
  BY <1>1, Invariance, PTL

(* The "SEND OK" that ends esp01_send (l.1448) is that of its own packet,   *)
(* under the same premises and if no payload held these words.             *)
THEOREM SuccessIsReal == Spec => SentIsSent
<1> DEFINE Real == packet' > packet /\ ~doubt /\ ~fooled' => packet \in out
<1>1. LinkInv /\ [Next]_vars => [Real]_vars
  <2> SUFFICES ASSUME LinkInv, Next, packet' > packet, ~doubt, ~fooled' PROVE packet \in out
    OBVIOUS
  <2>1. packet \in Nat
    BY DEF LinkInv, Types, FlowTypes
  <2>2. packet' # packet
    BY <2>1
  <2>3. Compare /\ op = "sendok" /\ byte.is = "sendok" /\ ~fooled
    <3>1. Compare
      BY <2>2 DEF Next, Interrupt, PopIndex, PopByte, PopTail, Drop, Parse, Connect, Disconnect, DrainEnds,
                  WaitTimesOut, NotConfirmed, QuietEnds, SendStart, SendPayload, TransmitFails,
                  Flush, Opened, RecvStart, RecvEmpty, TakePayload, CipSend, CipStart, CipClose,
                  Segment, LinkLost, driver
    <3>2. op \in {"start", "startOk", "close", "prompt", "sendok"}
      BY <3>1 DEF Compare, LinkInv, Types, FlowTypes
    <3>3. PICK token \in Matches(byte) : /\ Fooled(byte, token)
                                         /\ token \in Success(op) /\ Succeeded
      BY <2>2, <3>1 DEF Compare
    <3>5. ~fooled
      BY <3>3 DEF Fooled, LinkInv, Types, FlagTypes
    <3>4. op = "sendok"
      BY <2>2, <3>2, <3>3 DEF Succeeded
    <3> QED
      BY <3>1, <3>3, <3>4, <3>5 DEF Success, Matches, Fooled
  <2>4. AwaitsConfirmation /\ InTransit("sendok")
    BY <2>3 DEF Compare, PopStore, AwaitsConfirmation, InTransit, Taken
  <2> QED
    BY <2>3, <2>4 DEF LinkInv, Sure, Calm, PayloadOK
<1> QED
  BY <1>1, Invariance, PTL DEF Spec, SentIsSent

-----------------------------------------------------------------------------
(* What is to come: the rest of the ring and of the wire as one sequence,  *)
(* which ring_pop and the interrupt shorten and the modem lengthens.       *)

(* The place of the next symbol to be read, the places from a on up to h,  *)
(* and what they hold.                                                     *)
From == CASE pop = "no"   -> tail
          [] pop = "tail" -> After(saved)
          [] OTHER        -> After(tail)
Gap(a, h)     == IF a <= h THEN h - a ELSE h - a + RingSize
Place(a, k)   == IF a + k <= RingSize THEN a + k - 1 ELSE a + k - 1 - RingSize
Kept(b, a, h) == [k \in 1 .. Gap(a, h) |-> b[Place(a, k)]]
Unread == Kept(buf, From, head) \o wire
Coming == IF pop = "no" THEN Unread ELSE <<Taken>> \o Unread

(* The ring keeps up to RingSize - 1 symbols, takes one at its head and    *)
(* gives one away at its tail.                                             *)
LEMMA KeptFacts ==
  ASSUME NEW a \in Position, NEW h \in Position, NEW b \in [Position -> Symbols]
  PROVE  /\ Gap(a, h) \in 0 .. RingSize - 1
         /\ (Gap(a, h) = 0 <=> a = h)
         /\ \A k \in 1 .. Gap(a, h) : Place(a, k) \in Position
         /\ Kept(b, a, h) \in Seq(Symbols) /\ Len(Kept(b, a, h)) = Gap(a, h)
<1>1. RingSize \in Nat /\ RingSize > 1
  BY RingSizeAssumption
<1>2. a \in Nat /\ a < RingSize /\ h \in Nat /\ h < RingSize
  BY <1>1 DEF Position
<1>3. Gap(a, h) \in 0 .. RingSize - 1 /\ (Gap(a, h) = 0 <=> a = h)
  BY <1>1, <1>2 DEF Gap
<1>4. \A k \in 1 .. Gap(a, h) : Place(a, k) \in Position
  BY <1>1, <1>2 DEF Gap, Place, Position
<1>5. \A k \in 1 .. Gap(a, h) : b[Place(a, k)] \in Symbols
  BY <1>4
<1>6. Gap(a, h) \in Nat
  BY <1>1, <1>3
<1>7. Kept(b, a, h) \in Seq(Symbols)
  BY <1>5, <1>6 DEF Kept
<1>8. Len(Kept(b, a, h)) = Gap(a, h)
  BY <1>6 DEF Kept
<1> QED
  BY <1>3, <1>4, <1>7, <1>8

LEMMA KeptPushed ==
  ASSUME NEW a \in Position, NEW h \in Position, NEW b \in [Position -> Symbols],
         NEW s \in Symbols, After(h) # a
  PROVE  Kept([b EXCEPT ![h] = s], a, After(h)) = Append(Kept(b, a, h), s)
<1> DEFINE c == [b EXCEPT ![h] = s]
<1>1. RingSize \in Nat /\ RingSize > 1
  BY RingSizeAssumption
<1>2. a \in Nat /\ a < RingSize /\ h \in Nat /\ h < RingSize
  BY <1>1 DEF Position
<1>3. After(h) \in Position /\ After(h) = IF h = RingSize - 1 THEN 0 ELSE h + 1
  BY AfterType
<1>4. Gap(a, After(h)) = Gap(a, h) + 1 /\ Gap(a, h) \in Nat
  BY <1>1, <1>2, <1>3 DEF Gap
<1>5. Place(a, Gap(a, h) + 1) = h
  BY <1>1, <1>2 DEF Gap, Place
<1>6. \A k \in 1 .. Gap(a, h) : Place(a, k) \in Position /\ Place(a, k) # h
  BY <1>1, <1>2 DEF Gap, Place, Position
<1>7. c \in [Position -> Symbols] /\ c[h] = s /\ \A i \in Position : i # h => c[i] = b[i]
  OBVIOUS
<1> HIDE DEF c
<1>8. /\ Kept(c, a, After(h)) \in Seq(Symbols) /\ Len(Kept(c, a, After(h))) = Gap(a, h) + 1
      /\ Kept(b, a, h) \in Seq(Symbols) /\ Len(Kept(b, a, h)) = Gap(a, h)
  BY <1>3, <1>4, <1>7, KeptFacts
<1>9. \A k \in 1 .. Gap(a, h) : Kept(c, a, After(h))[k] = Kept(b, a, h)[k]
  BY <1>4, <1>6, <1>7 DEF Kept
<1>10. Kept(c, a, After(h))[Gap(a, h) + 1] = s
  BY <1>4, <1>5, <1>7 DEF Kept
<1>11. Kept(c, a, After(h)) = Append(Kept(b, a, h), s)
  <2> DEFINE q == Kept(c, a, After(h))
             r == Kept(b, a, h)
             n == Gap(a, h)
  <2>1. /\ n \in Nat /\ q \in Seq(Symbols) /\ r \in Seq(Symbols) /\ Len(q) = n + 1 /\ Len(r) = n
        /\ \A k \in 1 .. n : q[k] = r[k]
        /\ q[n + 1] = s
    BY <1>4, <1>8, <1>9, <1>10
  <2> HIDE DEF q, r, n
  <2>2. /\ Append(r, s) \in Seq(Symbols) /\ Len(Append(r, s)) = n + 1
        /\ \A k \in 1 .. n : Append(r, s)[k] = r[k]
        /\ Append(r, s)[n + 1] = s
    BY <2>1, AppendProperties
  <2>3. \A k \in 1 .. n + 1 : q[k] = Append(r, s)[k]
    BY <2>1, <2>2
  <2>4. q = Append(r, s)
    BY <2>1, <2>2, <2>3, SeqEqual
  <2> QED
    BY <2>4 DEF q, r
<1> QED
  BY <1>11 DEF c

LEMMA KeptRead ==
  ASSUME NEW a \in Position, NEW h \in Position, NEW b \in [Position -> Symbols], a # h
  PROVE  /\ Kept(b, a, h) = <<b[a]>> \o Kept(b, After(a), h)
<1>1. RingSize \in Nat /\ RingSize > 1
  BY RingSizeAssumption
<1>2. a \in Nat /\ a < RingSize /\ h \in Nat /\ h < RingSize
  BY <1>1 DEF Position
<1>3. After(a) \in Position /\ After(a) = IF a = RingSize - 1 THEN 0 ELSE a + 1
  BY AfterType
<1>4. Gap(a, h) = Gap(After(a), h) + 1 /\ Gap(After(a), h) \in Nat
  BY <1>1, <1>2, <1>3 DEF Gap
<1>5. Place(a, 1) = a /\ \A k \in 1 .. Gap(After(a), h) : Place(a, k + 1) = Place(After(a), k)
  BY <1>1, <1>2, <1>3 DEF Gap, Place
<1> DEFINE q == Kept(b, a, h)
           r == Kept(b, After(a), h)
           n == Gap(After(a), h)
<1>6. /\ q \in Seq(Symbols) /\ r \in Seq(Symbols) /\ Len(q) = n + 1 /\ Len(r) = n
  BY <1>3, <1>4, KeptFacts
<1>7. q[1] = b[a] /\ \A k \in 1 .. n : q[k + 1] = r[k]
  BY <1>4, <1>5 DEF Kept
<1>8. b[a] \in Symbols /\ n \in Nat
  BY <1>4
<1> HIDE DEF q, r, n
<1>9. q = <<b[a]>> \o r
  <2>1. <<b[a]>> \in Seq(Symbols) /\ Len(<<b[a]>>) = 1 /\ <<b[a]>>[1] = b[a]
    BY <1>8
  <2>2. /\ <<b[a]>> \o r \in Seq(Symbols) /\ Len(<<b[a]>> \o r) = n + 1
        /\ (<<b[a]>> \o r)[1] = b[a]
        /\ \A k \in 1 .. n : (<<b[a]>> \o r)[k + 1] = r[k]
    BY <1>6, <1>8, <2>1
  <2>3. \A k \in 1 .. n + 1 : k = 1 \/ (k - 1 \in 1 .. n /\ k = (k - 1) + 1)
    BY <1>8
  <2>4. \A k \in 1 .. n + 1 : q[k] = (<<b[a]>> \o r)[k]
    BY <1>7, <2>2, <2>3
  <2> QED
    BY <1>6, <2>2, <2>4, SeqEqual
<1> QED
  BY <1>9 DEF q, r

LEMMA ComingType ==
  ASSUME Types
  PROVE  /\ From \in Position
         /\ Kept(buf, From, head) \in Seq(Symbols)
         /\ Unread \in Seq(Symbols) /\ Coming \in Seq(Symbols)
<1>1. /\ buf \in [Position -> Symbols] /\ head \in Position /\ tail \in Position
      /\ saved \in Position /\ Taken \in Symbols /\ wire \in Seq(Symbols)
  BY DEF Types, RingTypes, Taken
<1>2. From \in Position
  BY <1>1, AfterType DEF From
<1>3. Kept(buf, From, head) \in Seq(Symbols)
  BY <1>1, <1>2, KeptFacts
<1>4. Unread \in Seq(Symbols)
  BY <1>1, <1>3 DEF Unread
<1>5. Coming \in Seq(Symbols)
  BY <1>1, <1>4 DEF Coming
<1> QED
  BY <1>2, <1>3, <1>4, <1>5

(* What is left of s, in its order, when symbols are taken out of it.      *)
Within(t, s) ==
  /\ \A i \in DOMAIN t : \E k \in DOMAIN s : t[i] = s[k]
  /\ \A i, j \in DOMAIN t : i < j => \E k, l \in DOMAIN s : k < l /\ t[i] = s[k] /\ t[j] = s[l]

LEMMA WithinSame == \A s : Within(s, s)
BY DEF Within

LEMMA Regroup ==
  ASSUME NEW s \in Seq(Symbols), NEW t \in Seq(Symbols), NEW u \in Seq(Symbols)
  PROVE  (s \o t) \o u = s \o (t \o u)
BY ConcatAssociative

LEMMA ConcatFacts ==
  ASSUME NEW S, NEW p \in Seq(S), NEW s \in Seq(S)
  PROVE  /\ p \o s \in Seq(S) /\ Len(p) \in Nat /\ Len(s) \in Nat
         /\ DOMAIN (p \o s) = 1 .. Len(p) + Len(s) /\ DOMAIN p = 1 .. Len(p) /\ DOMAIN s = 1 .. Len(s)
         /\ \A i \in DOMAIN p : i \in DOMAIN (p \o s) /\ (p \o s)[i] = p[i]
         /\ \A i \in DOMAIN s : Len(p) + i \in DOMAIN (p \o s) /\ (p \o s)[Len(p) + i] = s[i]
         /\ \A i \in DOMAIN (p \o s) :
              i \in DOMAIN p \/ (i > Len(p) /\ i - Len(p) \in DOMAIN s /\ (p \o s)[i] = s[i - Len(p)])
BY ConcatProperties

LEMMA WithinRight ==
  ASSUME NEW S, NEW p \in Seq(S), NEW s \in Seq(S)
  PROVE  Within(s, p \o s)
<1> DEFINE n == Len(p)
           q == p \o s
<1>1. /\ n \in Nat /\ DOMAIN s \subseteq Nat
      /\ \A i \in DOMAIN s : n + i \in DOMAIN q /\ q[n + i] = s[i]
  BY ConcatFacts
<1> HIDE DEF n, q
<1>2. \A i, j \in DOMAIN s : i < j => n + i < n + j
  BY <1>1
<1>3. Within(s, q)
  BY <1>1, <1>2 DEF Within
<1> QED
  BY <1>3 DEF q

LEMMA WithinBehind ==
  ASSUME NEW S, NEW p \in Seq(S), NEW s \in Seq(S), NEW t \in Seq(S), Within(t, s)
  PROVE  Within(p \o t, p \o s)
<1> DEFINE n == Len(p)
           q == p \o s
           r == p \o t
<1>1. /\ n \in Nat /\ DOMAIN s \subseteq Nat /\ DOMAIN r \subseteq Nat /\ DOMAIN p = 1 .. n
      /\ \A i \in DOMAIN s : n + i \in DOMAIN q /\ q[n + i] = s[i] /\ i > 0
      /\ \A i \in DOMAIN p : i \in DOMAIN q /\ q[i] = p[i]
      /\ \A i \in DOMAIN p : r[i] = p[i]
      /\ \A i \in DOMAIN r : i \in DOMAIN p \/ (i > n /\ i - n \in DOMAIN t /\ r[i] = t[i - n])
  BY ConcatFacts
<1> HIDE DEF n, q, r
<1>2. \A i \in DOMAIN r : i \notin DOMAIN p => \E k \in DOMAIN s : r[i] = s[k]
  BY <1>1 DEF Within
<1>3. ASSUME NEW i \in DOMAIN r PROVE \E k \in DOMAIN q : r[i] = q[k]
  BY <1>1, <1>2
<1>4. ASSUME NEW i \in DOMAIN r, NEW j \in DOMAIN r, i < j
      PROVE \E k, l \in DOMAIN q : k < l /\ r[i] = q[k] /\ r[j] = q[l]
  <2>1. CASE j \in DOMAIN p
    <3>1. i \in DOMAIN p
      BY <1>1, <1>4, <2>1
    <3> QED
      BY <1>1, <1>4, <2>1, <3>1
  <2>2. CASE j \notin DOMAIN p /\ i \in DOMAIN p
    <3>1. PICK l \in DOMAIN s : r[j] = s[l]
      BY <1>2, <2>2
    <3>2. i < n + l /\ n + l \in DOMAIN q /\ q[n + l] = s[l] /\ i \in DOMAIN q /\ r[i] = q[i]
      BY <1>1, <2>2, <3>1
    <3> QED
      BY <3>1, <3>2
  <2>3. CASE j \notin DOMAIN p /\ i \notin DOMAIN p
    <3>1. /\ i - n \in DOMAIN t /\ j - n \in DOMAIN t /\ i - n < j - n
          /\ r[i] = t[i - n] /\ r[j] = t[j - n]
      BY <1>1, <1>4, <2>3
    <3>2. PICK k \in DOMAIN s, l \in DOMAIN s : k < l /\ r[i] = s[k] /\ r[j] = s[l]
      BY <3>1 DEF Within
    <3>3. n + k < n + l
      BY <1>1, <3>2
    <3> QED
      BY <1>1, <3>2, <3>3
  <2> QED
    BY <2>1, <2>2, <2>3
<1>5. Within(r, q)
  BY <1>3, <1>4 DEF Within
<1> QED
  BY <1>5 DEF q, r

(* The steps of ring_pop: what is to come stays, until its first symbol is *)
(* taken off.                                                              *)
LEMMA PopIndexComing == ASSUME Types, PopIndex PROVE Coming' = Coming
<1>1. /\ pop = "no" /\ pop' = "index" /\ tail # head /\ Taken' = buf[tail]
      /\ UNCHANGED <<buf, head, tail, wire>>
  BY DEF PopIndex, Taken, ring, modem
<1>2. /\ buf \in [Position -> Symbols] /\ head \in Position /\ tail \in Position
      /\ wire \in Seq(Symbols)
  BY DEF Types, RingTypes
<1>3. From = tail /\ From' = After(tail)
  BY <1>1 DEF From
<1>4. Kept(buf, tail, head) = <<buf[tail]>> \o Kept(buf, After(tail), head)
  BY <1>1, <1>2, KeptRead
<1>5. Unread' = Kept(buf, After(tail), head) \o wire
  BY <1>1, <1>3 DEF Unread, Kept, Gap, Place
<1>6. Kept(buf, After(tail), head) \in Seq(Symbols) /\ <<buf[tail]>> \in Seq(Symbols)
  BY <1>2, AfterType, KeptFacts
<1>7. Coming' = <<buf[tail]>> \o (Kept(buf, After(tail), head) \o wire)
  BY <1>1, <1>5 DEF Coming
<1>8. Coming = (<<buf[tail]>> \o Kept(buf, After(tail), head)) \o wire
  BY <1>1, <1>3, <1>4 DEF Coming, Unread
<1> QED
  BY <1>2, <1>6, <1>7, <1>8, Regroup

LEMMA PopOnComing == ASSUME PopByte \/ PopTail PROVE Coming' = Coming
<1>1. /\ \/ pop = "index" /\ pop' = "byte" /\ byte' = buf[saved] /\ saved' = saved
         \/ pop = "byte" /\ pop' = "tail" /\ saved' = tail /\ byte' = byte
      /\ UNCHANGED <<buf, head, tail, wire>>
  BY DEF PopByte, PopTail, ring, modem
<1>2. From = After(tail) /\ From' = After(tail) /\ Taken' = Taken
  BY <1>1 DEF From, Taken
<1>3. Unread' = Unread
  BY <1>1, <1>2 DEF Unread, Kept, Gap, Place
<1> QED
  BY <1>1, <1>2, <1>3 DEF Coming

LEMMA PopStoreComing ==
  ASSUME Types, PopStore, wire' = wire
  PROVE  Coming = <<byte>> \o Coming' /\ Coming' \in Seq(Symbols) /\ byte \in Symbols
<1>1. pop = "tail" /\ pop' = "no" /\ tail' = After(saved) /\ UNCHANGED <<buf, head, wire>>
  BY DEF PopStore, TailStored
<1>2. From = After(saved) /\ From' = After(saved)
  BY <1>1 DEF From
<1>3. Unread' = Unread
  BY <1>1, <1>2 DEF Unread, Kept, Gap, Place
<1>4. Coming = <<byte>> \o Unread /\ Coming' = Unread
  BY <1>1, <1>3 DEF Coming, Taken
<1> QED
  BY <1>4, ComingType DEF Types, RingTypes

(* The interrupt loses what it overwrites, and nothing when there is room. *)
LEMMA InterruptComing ==
  ASSUME Types, PopOK, Interrupt, ~fooled'
  PROVE  /\ Within(Coming', Coming)
         /\ After(head) # tail => Coming' = Coming
<1>1. /\ wire # <<>> /\ wire' = Tail(wire) /\ buf' = [buf EXCEPT ![head] = Head(wire)]
      /\ head' = After(head) /\ tail' = IF After(head) = tail THEN After(tail) ELSE tail
      /\ UNCHANGED <<pop, saved>>
  BY DEF Interrupt, DropOldest, popVars
<1>2. /\ buf \in [Position -> Symbols] /\ head \in Position /\ tail \in Position
      /\ saved \in Position /\ wire \in Seq(Symbols) /\ Taken \in Symbols
      /\ From \in Position /\ Taken' = Taken
  BY ComingType DEF Types, RingTypes, Taken, Interrupt, popVars
<1>3. /\ Head(wire) \in Symbols /\ wire' \in Seq(Symbols) /\ wire = <<Head(wire)>> \o wire'
  BY <1>1, <1>2
<1>4. /\ RingSize \in Nat /\ RingSize > 1
      /\ \A i \in Position : After(i) \in Position /\ After(i) = IF i = RingSize - 1 THEN 0 ELSE i + 1
      /\ \A i \in Position : i \in Nat /\ i < RingSize
  BY RingSizeAssumption, AfterType DEF Position
<1> DEFINE h == After(head)
           K == Kept(buf, From, head)
<1>5. K \in Seq(Symbols) /\ Unread = K \o wire
  BY ComingType DEF Unread
<1>6. \A a \in Position : Kept(buf, a, head)' = Kept([buf EXCEPT ![head] = Head(wire)], a, h)
  BY <1>1 DEF Kept, Gap, Place
<1>7. Unread' = Kept([buf EXCEPT ![head] = Head(wire)], From', h) \o wire'
  BY <1>1 DEF Unread, Kept, Gap, Place
<1>8. \A a \in Position : h # a =>
         Kept([buf EXCEPT ![head] = Head(wire)], a, h) = Kept(buf, a, head) \o <<Head(wire)>>
  <2> SUFFICES ASSUME NEW a \in Position, h # a
               PROVE  Kept([buf EXCEPT ![head] = Head(wire)], a, h) = Kept(buf, a, head) \o <<Head(wire)>>
    OBVIOUS
  <2>1. Kept(buf, a, head) \in Seq(Symbols)
    BY <1>2, KeptFacts
  <2>2. Kept([buf EXCEPT ![head] = Head(wire)], a, h) = Append(Kept(buf, a, head), Head(wire))
    BY <1>2, <1>3, KeptPushed
  <2> QED
    BY <1>3, <2>1, <2>2, AppendIsConcat
<1>9. \A a \in Position :
         /\ Kept(buf, a, head) \in Seq(Symbols)
         /\ Kept(buf, a, head) \o <<Head(wire)>> \in Seq(Symbols)
         /\ (Kept(buf, a, head) \o <<Head(wire)>>) \o wire' = Kept(buf, a, head) \o wire
  <2> SUFFICES ASSUME NEW a \in Position
               PROVE  /\ Kept(buf, a, head) \in Seq(Symbols)
                      /\ Kept(buf, a, head) \o <<Head(wire)>> \in Seq(Symbols)
                      /\ (Kept(buf, a, head) \o <<Head(wire)>>) \o wire' = Kept(buf, a, head) \o wire
    OBVIOUS
  <2>1. Kept(buf, a, head) \in Seq(Symbols)
    BY <1>2, KeptFacts
  <2> DEFINE k == Kept(buf, a, head)
             x == Head(wire)
             v == wire'
  <2>2. k \in Seq(Symbols) /\ x \in Symbols /\ v \in Seq(Symbols) /\ wire = <<x>> \o v
    BY <1>3, <2>1
  <2> HIDE DEF k, x, v
  <2>3. <<x>> \in Seq(Symbols)
    BY <2>2
  <2>4. k \o <<x>> \in Seq(Symbols)
    BY <2>2, <2>3, ConcatProperties
  <2>5. (k \o <<x>>) \o v = k \o wire
    BY <2>2, <2>3, Regroup
  <2> QED
    BY <2>1, <2>4, <2>5 DEF k, x, v
<1> HIDE DEF h, K
<1>10. h \in Position /\ h = After(head) /\ K = Kept(buf, From, head)
  BY <1>2, <1>4 DEF h, K
<1>11. Kept([buf EXCEPT ![head] = Head(wire)], h, h) = <<>>
  <2>1. Gap(h, h) = 0
    BY <1>4, <1>10 DEF Gap
  <2> QED
    BY <2>1 DEF Kept
<1>12. <<>> \o wire' = wire'
  BY <1>3, ConcatEmptySeq
<1>13. /\ K \o <<Head(wire)>> \in Seq(Symbols)
       /\ Unread = (K \o <<Head(wire)>>) \o wire'
  BY <1>2, <1>5, <1>9, <1>10
<1>14. ASSUME Unread' = wire' PROVE Within(Coming', Coming)
  <2>1. Within(Unread', Unread)
    BY <1>3, <1>13, <1>14, WithinRight
  <2>2. CASE pop = "no"
    BY <1>1, <2>1, <2>2 DEF Coming
  <2>3. CASE pop # "no"
    <3>1. Unread \in Seq(Symbols) /\ Unread' \in Seq(Symbols) /\ <<Taken>> \in Seq(Symbols)
      BY <1>2, <1>3, <1>14, ComingType
    <3>2. Within(<<Taken>> \o Unread', <<Taken>> \o Unread)
      BY <2>1, <3>1, WithinBehind
    <3> QED
      BY <1>1, <1>2, <2>3, <3>2 DEF Coming
  <2> QED
    BY <2>2, <2>3
<1>15. CASE From' = From /\ h # From
  <2>1. Unread' = Unread
    BY <1>2, <1>5, <1>7, <1>8, <1>9, <1>15, <1>10
  <2> QED
    BY <1>1, <1>2, <2>1, WithinSame DEF Coming
<1>16. CASE From' = From /\ h = From
  <2>1. h = tail
    <3>1. \A i \in Position : After(i) = After(head) => i = head
      BY <1>2, <1>4
    <3>2. CASE pop = "no"
      BY <1>16, <3>2 DEF From
    <3>3. CASE pop \in {"index", "byte"}
      BY <1>2, <1>16, <1>10, <3>1, <3>3 DEF From, PopOK
    <3>4. CASE pop = "tail"
      BY <1>2, <1>16, <1>10, <3>1, <3>4 DEF From, PopOK
    <3> QED
      BY <3>2, <3>3, <3>4 DEF Types, FlowTypes
  <2>2. Unread' = wire'
    BY <1>7, <1>16, <1>11, <1>12
  <2> QED
    BY <1>10, <1>14, <2>1, <2>2
<1>17. CASE From' # From
  <2>1. h = tail /\ pop # "tail" /\ From' = After(From)
    <3>1. tail' # tail \/ saved' # saved
      BY <1>1, <1>17 DEF From
    <3>2. h = tail /\ tail' = After(tail)
      BY <1>1, <1>10, <3>1
    <3> QED
      BY <1>1, <1>17, <3>2 DEF From
  <2>2. CASE From # head
    <3>1. K = <<buf[From]>> \o Kept(buf, After(From), head)
      BY <1>2, <1>10, <2>2, KeptRead
    <3>2. After(From) \in Position /\ h # After(From)
      BY <1>2, <1>4, <1>10, <2>2
    <3>3. Unread' = Kept(buf, After(From), head) \o wire
      BY <1>7, <1>8, <1>9, <2>1, <3>2
    <3>4. buf[From] \in Symbols /\ Kept(buf, After(From), head) \in Seq(Symbols)
      BY <1>2, <1>9, <3>2
    <3>5. /\ <<buf[From]>> \in Seq(Symbols) /\ Unread' \in Seq(Symbols)
          /\ Unread = <<buf[From]>> \o Unread'
      <4>1. <<buf[From]>> \in Seq(Symbols)
        BY <3>4
      <4>2. Unread' \in Seq(Symbols)
        BY <1>2, <3>3, <3>4, ConcatProperties
      <4>3. Unread = (<<buf[From]>> \o Kept(buf, After(From), head)) \o wire
        BY <1>5, <3>1
      <4> QED
        BY <1>2, <3>3, <3>4, <4>1, <4>2, <4>3, Regroup
    <3>6. Within(Unread', Unread)
      BY <3>5, WithinRight
    <3>7. CASE pop = "no"
      BY <1>1, <1>10, <2>1, <3>6, <3>7 DEF Coming
    <3>8. CASE pop # "no"
      <4>1. Unread \in Seq(Symbols) /\ <<Taken>> \in Seq(Symbols)
        BY <1>2, ComingType
      <4>2. Within(<<Taken>> \o Unread', <<Taken>> \o Unread)
        BY <3>5, <3>6, <4>1, WithinBehind
      <4> QED
        BY <1>1, <1>2, <1>10, <2>1, <3>8, <4>2 DEF Coming
    <3> QED
      BY <1>10, <2>1, <3>7, <3>8
  <2>3. CASE From = head
    <3>1. Unread' = wire'
      BY <1>7, <1>10, <1>11, <1>12, <2>1, <2>3
    <3> QED
      BY <1>10, <1>14, <2>1, <3>1
  <2> QED
    BY <2>2, <2>3
<1> QED
  BY <1>15, <1>16, <1>17, <1>10

LEMMA FlushComing == ASSUME Types, PopOK, Flush PROVE Within(Coming', Coming)
<1>1. /\ pc = "flush" /\ head' = 0 /\ tail' = 0 /\ UNCHANGED <<buf, pop, byte, wire>>
  BY DEF Flush, EmptyRing, popVars, modem
<1>2. pop = "no"
  BY <1>1 DEF PopOK, Loops
<1>3. Kept(buf, 0, 0) = <<>>
  <2>1. Gap(0, 0) = 0
    BY DEF Gap
  <2> QED
    BY <2>1 DEF Kept
<1>4. wire \in Seq(Symbols) /\ Kept(buf, From, head) \in Seq(Symbols)
  BY ComingType DEF Types, RingTypes
<1>5. Coming' = wire /\ Coming = Kept(buf, From, head) \o wire
  BY <1>1, <1>2, <1>3, <1>4 DEF Coming, Unread, From, Kept, Gap, Place
<1> QED
  BY <1>4, <1>5, WithinRight

(* Every other step leaves the ring alone, and the modem adds to its end.  *)
LEMMA SaidComing ==
  ASSUME Types, UNCHANGED <<buf, head, tail, byte, pop, saved>>,
         NEW said \in Seq(Symbols), wire' = wire \o said
  PROVE  Coming' = Coming \o said
<1>1. /\ wire \in Seq(Symbols) /\ Taken \in Symbols /\ Taken' = Taken /\ Unread \in Seq(Symbols)
      /\ Kept(buf, From, head) \in Seq(Symbols)
  BY ComingType DEF Types, RingTypes, Taken
<1>2. Unread' = Kept(buf, From, head) \o (wire \o said)
  BY DEF Unread, From, Kept, Gap, Place
<1>3. Unread' = Unread \o said
  <2>1. Kept(buf, From, head) \o (wire \o said) = (Kept(buf, From, head) \o wire) \o said
    BY <1>1, Regroup
  <2> QED
    BY <1>2, <2>1 DEF Unread
<1>4. <<Taken>> \o (Unread \o said) = (<<Taken>> \o Unread) \o said
  <2>1. <<Taken>> \in Seq(Symbols)
    BY <1>1
  <2> QED
    BY <1>1, <2>1, Regroup
<1> QED
  BY <1>1, <1>3, <1>4 DEF Coming

LEMMA SameComing ==
  ASSUME UNCHANGED <<buf, head, tail, byte, pop, saved, wire>>
  PROVE  Coming' = Coming
BY DEF Coming, Unread, From, Taken, Kept, Gap, Place

-----------------------------------------------------------------------------
(* The phases of the driver.                                               *)

(* Which answers the loops wait for in which phase. *)
FlowOK ==
  /\ op \in {"start", "startOk"} \/ pc \in {"flush", "opened"} => phase = "offline"
  /\ op = "close" => phase # "offline"
  /\ op \in {"prompt", "sendok"} \/ pc \in {"payload", "recv"} => phase = "online"
  /\ pc = "quiet" => op \in {"start", "close"}
  /\ op = "none" <=> pc \in {"rest", "payload", "flush", "opened", "recv"}

(* From the answer that opens the session to ESP01_Disconnect, and from    *)
(* AT+CIPCLOSE to the next such answer.                                    *)
InSession == (op = "startOk" \/ pc \in {"flush", "opened"} \/ phase # "offline") /\ op # "close"
Closing   == ~InSession /\ (phase = "offline" \/ pc \in {"await", "quiet"})

Readers == Interrupt \/ PopIndex \/ PopByte \/ PopTail \/ Drop \/ Parse \/ Compare
Movers == Connect \/ WaitTimesOut \/ QuietEnds \/ Opened \/ RecvStart \/ RecvEmpty \/ TransmitFails
            \/ Flush
Writers == DrainEnds \/ SendStart \/ SendPayload
Modem == TakePayload \/ CipSend \/ CipStart \/ CipClose \/ Segment \/ LinkLost

LEMMA NextGroups == Next <=> Readers \/ Movers \/ Writers \/ Disconnect \/ Modem
BY DEF Next, Readers, Movers, Writers, Modem

LEMMA FlowNext == ASSUME Types, FlowOK, [Next]_vars PROVE FlowOK'
<1>1. /\ pc \in Loops \cup {"rest", "payload", "flush", "opened"}
      /\ op \in {"none", "start", "startOk", "close", "prompt", "sendok"}
      /\ phase \in {"offline", "online", "broken"}
      /\ pc = "await" => op # "none"
      /\ pc = "drain" => op \in {"start", "close"}
  BY DEF Types, FlowTypes
<1>2. CASE Interrupt \/ PopIndex \/ PopByte \/ PopTail \/ Drop \/ Modem \/ UNCHANGED vars
  <2>1. UNCHANGED <<pc, op, phase>>
    BY <1>2 DEF Interrupt, PopIndex, PopByte, PopTail, Drop, Modem, TakePayload, CipSend, CipStart, CipClose,
                Segment, LinkLost, driver, vars, loop
  <2> QED
    BY <2>1 DEF FlowOK
<1>3. CASE Parse
  <2>1. UNCHANGED <<op, phase>> /\ pc = "recv" /\ pc' \in {"recv", "rest"}
    BY <1>3 DEF Parse, Idle, Header, Payload
  <2> QED
    BY <2>1 DEF FlowOK
<1>4. CASE Compare
  <2>1. pc = "await" /\ op # "none"
    BY <1>1, <1>4 DEF Compare
  <2>2. CASE pc' = "quiet" /\ UNCHANGED <<op, phase>> /\ Failure(op) # {}
    <3>1. op \in {"start", "close"}
      BY <1>1, <2>1, <2>2 DEF Failure
    <3> QED
      BY <2>1, <2>2, <3>1 DEF FlowOK
  <2>3. CASE Succeeded
    BY <1>1, <2>1, <2>3 DEF FlowOK, Succeeded, Await, Rest
  <2>4. CASE UNCHANGED <<pc, op, phase>>
    BY <2>4 DEF FlowOK
  <2> QED
    BY <1>4, <2>2, <2>3, <2>4 DEF Compare, loop
<1>5. CASE Connect \/ Disconnect
  BY <1>5 DEF FlowOK, Connect, Disconnect
<1>6. CASE DrainEnds \/ SendStart \/ SendPayload
  BY <1>1, <1>6 DEF FlowOK, DrainEnds, SendStart, SendPayload, Await, loop
<1>7. CASE WaitTimesOut
  BY <1>1, <1>7 DEF FlowOK, WaitTimesOut, Rest, NotConfirmed
<1>8. CASE QuietEnds \/ Opened \/ Flush \/ TransmitFails
  BY <1>8 DEF FlowOK, QuietEnds, Opened, Flush, TransmitFails, Rest
<1>9. CASE RecvStart \/ RecvEmpty
  BY <1>9 DEF FlowOK, RecvStart, RecvEmpty
<1> QED
  BY <1>2, <1>3, <1>4, <1>5, <1>6, <1>7, <1>8, <1>9 DEF Next, Modem

(* A step of the driver that writes nothing to the modem takes symbols off *)
(* the front, or loses some.                                               *)
Reading ==
  /\ UNCHANGED <<cmds, raw, open, conn, sent, out>>
  /\ Within(Coming', Coming)
  /\ (misled => misled') /\ ~fooled

LEMMA ReadingSteps ==
  ASSUME Types, PopOK, Readers \/ Movers \/ Disconnect \/ UNCHANGED vars, ~fooled'
  PROVE  Reading
<1>1. CASE Interrupt
  BY <1>1, InterruptComing DEF Reading, Interrupt
<1>2. CASE PopIndex
  BY <1>2, PopIndexComing, WithinSame DEF Reading, PopIndex, modem, hist
<1>3. CASE PopByte \/ PopTail
  BY <1>3, PopOnComing, WithinSame DEF Reading, PopByte, PopTail, modem, hist
<1>4. CASE Drop \/ Parse \/ Compare
  <2>1. /\ PopStore /\ UNCHANGED <<cmds, raw, open, conn, sent, out, wire, misled>>
    BY <1>4 DEF Drop, Parse, Compare, modem
  <2>2. Coming = <<byte>> \o Coming' /\ Coming' \in Seq(Symbols) /\ byte \in Symbols
    BY <2>1, PopStoreComing
  <2>3. <<byte>> \in Seq(Symbols)
    BY <2>2
  <2>4. Within(Coming', Coming)
    BY <2>2, <2>3, WithinRight
  <2>5. ~fooled
    BY <1>4 DEF Drop, Parse, Compare, Fooled, Types, FlagTypes
  <2> QED
    BY <2>1, <2>4, <2>5 DEF Reading
<1>5. CASE Flush
  BY <1>5, FlushComing DEF Reading, Flush, modem, hist
<1>6. CASE Connect \/ WaitTimesOut \/ QuietEnds \/ Opened \/ RecvStart \/ RecvEmpty \/ TransmitFails
             \/ Disconnect \/ UNCHANGED vars
  <2>1. UNCHANGED <<buf, head, tail, byte, pop, saved, wire, cmds, raw, open, conn, sent, out>>
    BY <1>6 DEF Connect, WaitTimesOut, QuietEnds, Opened, RecvStart, RecvEmpty, TransmitFails,
                Disconnect, vars, ring, popVars, modem
  <2>2. fooled' = fooled /\ (misled => misled')
    <3>1. CASE TransmitFails
      <4>1. /\ fooled' = fooled
            /\ misled' = misled \/ misled' = (misled \/ op = "close")
        BY <3>1 DEF TransmitFails
      <4> QED
        BY <4>1 DEF Types, FlagTypes
    <3>2. CASE ~TransmitFails
      BY <1>6, <3>2 DEF Connect, WaitTimesOut, QuietEnds, Opened, RecvStart, RecvEmpty, Disconnect,
                        vars, hist
    <3> QED
      BY <3>1, <3>2
  <2> QED
    BY <2>1, <2>2, SameComing, WithinSame DEF Reading
<1> QED
  BY <1>1, <1>2, <1>3, <1>4, <1>5, <1>6 DEF Readers, Movers

(* How the driver's steps change what it waits for. *)
LEMMA FlowSteps ==
  ASSUME Types, FlowOK, Readers \/ Movers \/ Disconnect \/ UNCHANGED vars
  PROVE  /\ pc' = "payload" => pc = "payload" \/ (Compare /\ byte.is = "prompt") \/ fooled'
         /\ Closing' => Closing \/ misled'
         /\ InSession' => \/ InSession \/ mistaken'
                          \/ Compare /\ op = "start" /\ byte.is \in {"connect", "already"}
         /\ InSession => InSession' \/ Disconnect
         /\ pc' = "recv" => InSession'
<1>1. /\ pc \in Loops \cup {"rest", "payload", "flush", "opened"}
      /\ op \in {"none", "start", "startOk", "close", "prompt", "sendok"}
      /\ phase \in {"offline", "online", "broken"}
      /\ pc = "await" => op # "none"
      /\ pc = "drain" => op \in {"start", "close"}
  BY DEF Types, FlowTypes
<1>2. FlowOK'
  BY FlowNext, NextGroups
<1>3. pc' = "recv" => InSession'
  BY <1>2 DEF FlowOK, InSession
<1>4. CASE Interrupt \/ PopIndex \/ PopByte \/ PopTail \/ Drop \/ UNCHANGED vars
  <2>1. UNCHANGED <<pc, op, phase>>
    BY <1>4 DEF Interrupt, PopIndex, PopByte, PopTail, Drop, vars, loop
  <2> QED
    BY <1>3, <2>1 DEF InSession, Closing
<1>5. CASE Parse
  <2>1. UNCHANGED <<op, phase>> /\ pc = "recv" /\ pc' \in {"recv", "rest"}
    BY <1>5 DEF Parse, Idle, Header, Payload
  <2> QED
    BY <1>3, <2>1 DEF FlowOK, InSession, Closing
<1>6. CASE Compare
  <2>1. pc = "await" /\ op # "none"
    BY <1>1, <1>6 DEF Compare
  <2>2. CASE pc' = "quiet" /\ UNCHANGED <<op, phase>>
    BY <2>1, <2>2, <1>3 DEF FlowOK, InSession, Closing
  <2>3. ASSUME Succeeded, NEW token \in Matches(byte), token \in Success(op),
               Mistaken(byte, token), Fooled(byte, token)
        PROVE  /\ pc' = "payload" => pc = "payload" \/ (Compare /\ byte.is = "prompt") \/ fooled'
               /\ Closing' => Closing
               /\ InSession' => \/ InSession \/ mistaken'
                                \/ op = "start" /\ byte.is \in {"connect", "already"}
               /\ InSession => InSession'
    <3>1. CASE op \in {"startOk", "close"}
      BY <1>1, <1>6, <1>3, <2>1, <2>3, <3>1 DEF FlowOK, Succeeded, Await, Rest, InSession, Closing
    <3>3. CASE op = "start"
      <4>1. mistaken' \/ byte.is \in {"connect", "already"}
        BY <2>3, <3>3 DEF Mistaken
      <4> QED
        BY <1>1, <2>1, <2>3, <3>3, <4>1 DEF FlowOK, Succeeded, Await, InSession, Closing
    <3>2. CASE op \in {"prompt", "sendok"}
      <4>1. fooled' \/ op = "sendok" \/ byte.is = "prompt"
        BY <2>3, <3>2 DEF Fooled, Matches, Success, Prompt
      <4> QED
        BY <1>1, <1>6, <1>3, <2>1, <2>3, <3>2, <4>1
           DEF FlowOK, Succeeded, Await, Rest, InSession, Closing
    <3> QED
      BY <1>1, <2>1, <3>1, <3>2, <3>3
  <2>4. CASE UNCHANGED <<pc, op, phase>>
    BY <2>4, <1>3 DEF InSession, Closing
  <2> QED
    BY <1>3, <1>6, <2>2, <2>3, <2>4 DEF Compare, loop
<1>7. CASE Connect \/ Disconnect
  BY <1>7, <1>3 DEF FlowOK, Connect, Disconnect, InSession, Closing
<1>8. CASE WaitTimesOut
  BY <1>1, <1>8, <1>3 DEF FlowOK, WaitTimesOut, Rest, NotConfirmed, InSession, Closing
<1>9. CASE QuietEnds \/ Opened \/ Flush
  BY <1>9, <1>3 DEF FlowOK, QuietEnds, Opened, Flush, Rest, InSession, Closing
<1>10. CASE TransmitFails
  <2>1. \/ pc = "drain" /\ phase' = "offline" /\ (op = "close" => misled')
        \/ pc = "rest" /\ phase = "online" /\ phase' = "broken"
        \/ pc = "payload" /\ phase' = "broken"
    BY <1>10 DEF TransmitFails
  <2>2. pc' = "rest" /\ op' = "none"
    BY <1>10 DEF TransmitFails, Rest
  <2> QED
    BY <1>1, <1>3, <2>1, <2>2 DEF FlowOK, InSession, Closing
<1>11. CASE RecvStart \/ RecvEmpty
  BY <1>11, <1>3 DEF FlowOK, RecvStart, RecvEmpty, InSession, Closing
<1> QED
  BY <1>4, <1>5, <1>6, <1>7, <1>8, <1>9, <1>11, <1>10 DEF Readers, Movers
LEMMA DisconnectEnds == ASSUME Disconnect PROVE ~InSession'
BY DEF Disconnect, InSession

-----------------------------------------------------------------------------
(* What the modem was told and what it said.                               *)

Heralds   == {"connect", "already"}
Queued(k) == \E i \in DOMAIN cmds : cmds[i].is = k

(* A prompt is the last of what the modem said, but for answers that none  *)
(* waits for, and it then takes payload.                                   *)
Prompts ==
  /\ \A i, j \in DOMAIN Coming :
       Coming[i].is = "prompt" /\ i < j => Coming[j].is \notin Heralds \cup {"prompt"}
  /\ \A i \in DOMAIN Coming :
       Coming[i].is = "prompt" => raw = TRUE /\ pc # "payload" /\ ~Queued("packet")
  /\ pc = "payload" \/ Queued("packet") =>
       raw = TRUE /\ \A i \in DOMAIN Coming : Coming[i].is \notin Heralds
  /\ pc = "payload" => ~Queued("packet")
  /\ \A i, j \in DOMAIN cmds : cmds[i].is = "packet" /\ cmds[j].is = "packet" => i = j

(* The broker has said nothing on a connection whose beginning the driver  *)
(* has not yet read.                                                       *)
Openings ==
  /\ \A i, j \in DOMAIN Coming : Coming[i].is \in Heralds /\ i < j => ~IsFrame(Coming[j])
  /\ \A i \in DOMAIN Coming : Coming[i].is \in Heralds => out = {}

(* Between a packet and a later AT+CIPSTART comes AT+CIPCLOSE.             *)
Unused == open = FALSE \/ out = {}
Closings ==
  /\ \A i \in DOMAIN cmds : cmds[i].is = "cipstart" =>
       Unused \/ \E j \in DOMAIN cmds : j < i /\ cmds[j].is = "cipclose"
  /\ \A i, k \in DOMAIN cmds : cmds[i].is = "packet" /\ cmds[k].is = "cipstart" /\ i < k =>
       \E j \in DOMAIN cmds : i < j /\ j < k /\ cmds[j].is = "cipclose"
  /\ Closing =>
       /\ \A i \in DOMAIN cmds : cmds[i].is = "packet" =>
            \E j \in DOMAIN cmds : i < j /\ cmds[j].is = "cipclose"
       /\ Unused \/ Queued("cipclose")

(* The connections are numbered, and the broker has got a packet on the    *)
(* current one before anything comes from it.                              *)
Known(c) == c <= conn /\ (c = conn /\ c > 0 => out # {})
Connections ==
  /\ open = TRUE => conn > 0
  /\ \A i \in DOMAIN Coming : Known(Coming[i].conn)

Modems == Prompts /\ Openings /\ Closings /\ Connections

LEMMA ReadingModems ==
  ASSUME Types, Reading, Modems, ~misled',
         pc' = "payload" => pc = "payload" \/ (Compare /\ byte.is = "prompt"),
         Closing' => Closing \/ misled'
  PROVE  Modems'
<1>1. /\ UNCHANGED <<cmds, raw, open, conn, sent, out>>
      /\ \A i \in DOMAIN Coming' : \E k \in DOMAIN Coming : Coming'[i] = Coming[k]
      /\ \A i, j \in DOMAIN Coming' : i < j =>
           \E k, l \in DOMAIN Coming : k < l /\ Coming'[i] = Coming[k] /\ Coming'[j] = Coming[l]
  BY DEF Reading, Within
<1>2. \A k : Queued(k)' = Queued(k)
  BY <1>1 DEF Queued
<1>3. Prompts'
  <2>1. CASE pc' = "payload" => pc = "payload"
    <3>1. \A i, j \in DOMAIN Coming' :
            Coming'[i].is = "prompt" /\ i < j => Coming'[j].is \notin Heralds \cup {"prompt"}
      BY <1>1 DEF Modems, Prompts
    <3>2. \A i \in DOMAIN Coming' :
            Coming'[i].is = "prompt" => raw' = TRUE /\ pc' # "payload" /\ ~Queued("packet")'
      BY <1>1, <1>2, <2>1 DEF Modems, Prompts
    <3>3. pc' = "payload" \/ Queued("packet")' =>
            raw' = TRUE /\ \A i \in DOMAIN Coming' : Coming'[i].is \notin Heralds
      BY <1>1, <1>2, <2>1 DEF Modems, Prompts
    <3>4. pc' = "payload" => ~Queued("packet")'
      BY <1>2, <2>1 DEF Modems, Prompts
    <3>5. \A i, j \in DOMAIN cmds' : cmds'[i].is = "packet" /\ cmds'[j].is = "packet" => i = j
      BY <1>1 DEF Modems, Prompts
    <3> QED
      BY <3>1, <3>2, <3>3, <3>4, <3>5 DEF Prompts
  <2>2. CASE Compare /\ byte.is = "prompt"
    <3>1. /\ Coming = <<byte>> \o Coming' /\ Coming' \in Seq(Symbols) /\ byte \in Symbols
      BY <2>2, PopStoreComing DEF Compare, modem
    <3>2. /\ 1 \in DOMAIN Coming /\ Coming[1] = byte
          /\ \A i \in DOMAIN Coming' : 1 + i \in DOMAIN Coming /\ Coming[1 + i] = Coming'[i] /\ 1 < 1 + i
      <4>1. <<byte>> \in Seq(Symbols) /\ Len(<<byte>>) = 1 /\ <<byte>>[1] = byte /\ 1 \in DOMAIN <<byte>>
        BY <3>1
      <4>2. DOMAIN Coming' \subseteq Nat /\ \A i \in DOMAIN Coming' : i > 0
        BY <3>1
      <4> QED
        BY <3>1, <4>1, <4>2, ConcatFacts
    <3>3. raw = TRUE /\ pc # "payload" /\ ~Queued("packet")
      BY <2>2, <3>2 DEF Modems, Prompts
    <3>4. \A i \in DOMAIN Coming' : Coming'[i].is \notin Heralds \cup {"prompt"}
      BY <2>2, <3>2 DEF Modems, Prompts
    <3>5. \A i, j \in DOMAIN cmds' : cmds'[i].is = "packet" /\ cmds'[j].is = "packet" => i = j
      BY <1>1 DEF Modems, Prompts
    <3> QED
      BY <1>1, <1>2, <3>3, <3>4, <3>5 DEF Prompts
  <2> QED
    BY <2>1, <2>2
<1>4. Openings'
  BY <1>1 DEF Modems, Openings, IsFrame
<1>5. Closings'
  BY <1>1, <1>2 DEF Modems, Closings, Unused
<1>6. Connections'
  BY <1>1 DEF Modems, Connections, Known
<1> QED
  BY <1>3, <1>4, <1>5, <1>6 DEF Modems

(* What the driver writes. *)
LEMMA AppendCmds ==
  ASSUME NEW S, NEW q \in Seq(S), NEW c \in S
  PROVE  LET r == Append(q, c)
         IN  /\ DOMAIN r \subseteq Nat /\ Len(q) \in Nat /\ DOMAIN q = 1 .. Len(q)
             /\ DOMAIN r = 1 .. Len(q) + 1
             /\ \A i \in DOMAIN q : i \in DOMAIN r /\ r[i] = q[i] /\ i < Len(q) + 1
             /\ Len(q) + 1 \in DOMAIN r /\ r[Len(q) + 1] = c
             /\ \A i \in DOMAIN r : i \in DOMAIN q \/ i = Len(q) + 1
BY AppendProperties

LEMMA WritersFacts ==
  ASSUME Types, FlowOK, Writers
  PROVE  /\ UNCHANGED <<raw, open, conn, sent, out, misled, mistaken, fooled, received, earlier>>
         /\ Coming' = Coming
         /\ (InSession' <=> InSession) /\ pc' \notin {"payload", "recv"}
         /\ \/ UNCHANGED <<cmds, pc, op>> /\ (Closing' => Closing)
            \/ InSession /\ cmds' = Append(cmds, Command("cipsend"))
            \/ InSession /\ pc = "payload" /\ cmds' = Append(cmds, Packet(packet))
            \/ Closing /\ cmds' = Append(cmds, Command("cipstart"))
            \/ ~InSession /\ cmds' = Append(cmds, Command("cipclose"))
<1>1. pc = "drain" => op \in {"start", "close"}
  BY DEF Types, FlowTypes
<1>2. /\ UNCHANGED <<buf, head, tail, byte, pop, saved, wire>>
      /\ UNCHANGED <<raw, open, conn, sent, out, misled, mistaken, fooled, received, earlier>>
  BY DEF Writers, DrainEnds, SendStart, SendPayload, ring, popVars, modemButCmds, hist, stream
<1>3. Coming' = Coming
  BY <1>2, SameComing
<1>4. CASE DrainEnds
  <2>1. /\ pc = "drain" /\ pc' = "await" /\ UNCHANGED <<op, phase>>
        /\ cmds' = Append(cmds, Send(op))
    BY <1>4 DEF DrainEnds, Await, Write
  <2>2. (InSession' <=> InSession) /\ ~InSession /\ (op = "start" => Closing)
    BY <1>1, <2>1 DEF FlowOK, InSession, Closing
  <2> QED
    BY <1>1, <1>2, <1>3, <2>1, <2>2 DEF Send
<1>5. CASE SendStart
  <2>1. \/ cmds' = Append(cmds, Command("cipsend")) /\ pc' = "await" /\ op' = "prompt" /\ phase' = phase
        \/ UNCHANGED <<cmds, pc, op>> /\ phase' = "broken"
    BY <1>5 DEF SendStart, Await, Write, NoWrite, loop
  <2>2. pc = "rest" /\ phase = "online" /\ op = "none"
    BY <1>5 DEF SendStart, FlowOK
  <2> QED
    BY <1>2, <1>3, <2>1, <2>2 DEF InSession, Closing
<1>6. CASE SendPayload
  <2>1. /\ cmds' = Append(cmds, Packet(packet)) /\ pc = "payload" /\ pc' = "await" /\ op' = "sendok"
        /\ phase' = phase
    BY <1>6 DEF SendPayload, Await, Write
  <2>2. phase = "online" /\ op = "none"
    BY <2>1 DEF FlowOK
  <2> QED
    BY <1>2, <1>3, <2>1, <2>2 DEF InSession
<1> QED
  BY <1>4, <1>5, <1>6 DEF Writers

LEMMA WritersModems == ASSUME Types, FlowOK, Writers, Modems PROVE Modems'
<1>1. /\ UNCHANGED <<raw, open, conn, out>> /\ Coming' = Coming /\ pc' # "payload"
      /\ cmds \in Seq(Commands) /\ packet \in Nat
  BY WritersFacts DEF Types, ModemTypes, FlowTypes
<1>2. Openings' /\ Connections'
  BY <1>1 DEF Modems, Openings, Connections, Known
<1>3. CASE UNCHANGED <<cmds, pc, op>> /\ (Closing' => Closing)
  <2>1. \A k : Queued(k)' = Queued(k)
    BY <1>3 DEF Queued
  <2>2. Prompts' /\ Closings'
    BY <1>1, <1>3, <2>1 DEF Modems, Prompts, Closings, Unused
  <2> QED
    BY <1>2, <2>2 DEF Modems
<1>4. ASSUME NEW c \in Commands, cmds' = Append(cmds, c),
             c.is = "packet" => pc = "payload",
             c.is = "packet" \/ c.is = "cipsend" => ~Closing',
             c.is = "cipstart" => Closing
      PROVE  Modems'
  <2> DEFINE n == Len(cmds) + 1
  <2>1. /\ DOMAIN cmds' \subseteq Nat /\ n \in Nat
        /\ \A i \in DOMAIN cmds : i \in DOMAIN cmds' /\ cmds'[i] = cmds[i] /\ i < n
        /\ n \in DOMAIN cmds' /\ cmds'[n] = c
        /\ \A i \in DOMAIN cmds' : i \in DOMAIN cmds \/ i = n
    BY <1>1, <1>4, AppendCmds
  <2> HIDE DEF n
  <2>2. \A k : Queued(k)' => Queued(k) \/ c.is = k
    BY <2>1 DEF Queued
  <2>3. Prompts'
    <3>1. ASSUME c.is = "packet"
          PROVE  /\ raw = TRUE /\ \A i \in DOMAIN Coming : Coming[i].is \notin Heralds
                 /\ \A i \in DOMAIN Coming : Coming[i].is # "prompt"
                 /\ \A i \in DOMAIN cmds : cmds[i].is # "packet"
      BY <1>4, <3>1 DEF Modems, Prompts, Queued
    <3> QED
      BY <1>1, <2>1, <2>2, <3>1 DEF Modems, Prompts
  <2>4. \A i \in DOMAIN cmds' : cmds'[i].is = "cipstart" =>
          Unused' \/ \E j \in DOMAIN cmds' : j < i /\ cmds'[j].is = "cipclose"
    <3>1. ASSUME c.is = "cipstart" PROVE Unused \/ \E j \in DOMAIN cmds : cmds[j].is = "cipclose"
      BY <1>4, <3>1 DEF Modems, Closings, Queued
    <3>2. ASSUME NEW i \in DOMAIN cmds, cmds[i].is = "cipstart"
          PROVE  Unused \/ \E j \in DOMAIN cmds' : j < i /\ cmds'[j].is = "cipclose"
      BY <2>1, <3>2 DEF Modems, Closings
    <3>3. ASSUME c.is = "cipstart" PROVE Unused \/ \E j \in DOMAIN cmds' : j < n /\ cmds'[j].is = "cipclose"
      BY <2>1, <3>1, <3>3
    <3> QED
      BY <1>1, <2>1, <3>2, <3>3 DEF Unused
  <2>5. \A i, k \in DOMAIN cmds' : cmds'[i].is = "packet" /\ cmds'[k].is = "cipstart" /\ i < k =>
          \E j \in DOMAIN cmds' : i < j /\ j < k /\ cmds'[j].is = "cipclose"
    <3> SUFFICES ASSUME NEW i \in DOMAIN cmds', NEW k \in DOMAIN cmds',
                        cmds'[i].is = "packet", cmds'[k].is = "cipstart", i < k
                 PROVE  \E j \in DOMAIN cmds' : i < j /\ j < k /\ cmds'[j].is = "cipclose"
      OBVIOUS
    <3>1. i \in DOMAIN cmds
      BY <2>1
    <3>2. CASE k \in DOMAIN cmds
      <4>1. PICK j \in DOMAIN cmds : i < j /\ j < k /\ cmds[j].is = "cipclose"
        BY <2>1, <3>1, <3>2 DEF Modems, Closings
      <4> QED
        BY <2>1, <4>1
    <3>3. CASE k = n
      <4>1. Closing
        BY <1>4, <2>1, <3>3
      <4>2. PICK j \in DOMAIN cmds : i < j /\ cmds[j].is = "cipclose"
        BY <2>1, <3>1, <4>1 DEF Modems, Closings
      <4> QED
        BY <2>1, <3>3, <4>2
    <3> QED
      BY <2>1, <3>2, <3>3
  <2>6. ASSUME Closing'
        PROVE  /\ \A i \in DOMAIN cmds' : cmds'[i].is = "packet" =>
                    \E j \in DOMAIN cmds' : i < j /\ cmds'[j].is = "cipclose"
               /\ Unused' \/ Queued("cipclose")'
    <3>1. c.is \in {"cipstart", "cipclose"}
      BY <1>4, <2>6 DEF Commands
    <3>2. CASE c.is = "cipclose"
      BY <2>1, <3>2 DEF Queued
    <3>3. CASE c.is = "cipstart"
      <4>1. /\ \A i \in DOMAIN cmds : cmds[i].is = "packet" =>
                 \E j \in DOMAIN cmds : i < j /\ cmds[j].is = "cipclose"
            /\ Unused \/ \E j \in DOMAIN cmds : cmds[j].is = "cipclose"
        BY <1>4, <3>3 DEF Modems, Closings, Queued
      <4>2. Unused' = Unused
        BY <1>1 DEF Unused
      <4> QED
        BY <2>1, <3>3, <4>1, <4>2 DEF Queued
    <3> QED
      BY <3>1, <3>2, <3>3
  <2> QED
    BY <1>2, <2>3, <2>4, <2>5, <2>6 DEF Modems, Closings
<1>5. /\ Command("cipsend") \in Commands /\ Command("cipsend").is = "cipsend"
      /\ Command("cipstart") \in Commands /\ Command("cipstart").is = "cipstart"
      /\ Command("cipclose") \in Commands /\ Command("cipclose").is = "cipclose"
      /\ Packet(packet) \in Commands /\ Packet(packet).is = "packet"
  BY <1>1, SymbolTypes
<1>6. InSession' => ~Closing'
  BY DEF Closing
<1> QED
  BY <1>3, <1>4, <1>5, <1>6, WritersFacts

(* What the modem reads and says.                                          *)
LEMMA TailCmds ==
  ASSUME Types, cmds # <<>>, cmds' = Tail(cmds)
  PROVE  /\ 1 \in DOMAIN cmds /\ Head(cmds) = cmds[1]
         /\ DOMAIN cmds \subseteq Nat /\ DOMAIN cmds' \subseteq Nat
         /\ \A i \in DOMAIN cmds' : i + 1 \in DOMAIN cmds /\ cmds'[i] = cmds[i + 1] /\ i + 1 > 1
         /\ \A i \in DOMAIN cmds : i # 1 => i > 1 /\ i - 1 \in DOMAIN cmds' /\ cmds'[i - 1] = cmds[i]
<1>1. cmds \in Seq(Commands)
  BY DEF Types, ModemTypes
<1> QED
  BY <1>1

LEMMA SaidFacts ==
  ASSUME Types, UNCHANGED <<buf, head, tail, byte, pop, saved>>,
         NEW S \in SUBSET Symbols, NEW said \in Seq(S), wire' = wire \o said
  PROVE  /\ Coming' = Coming \o said
         /\ \A i \in DOMAIN Coming : i \in DOMAIN Coming' /\ Coming'[i] = Coming[i]
         /\ \A i \in DOMAIN Coming' :
              i \in DOMAIN Coming \/ (/\ i > Len(Coming) /\ i - Len(Coming) \in DOMAIN said
                                      /\ Coming'[i] = said[i - Len(Coming)] /\ Coming'[i] \in S)
         /\ DOMAIN Coming = 1 .. Len(Coming) /\ Len(Coming) \in Nat /\ DOMAIN Coming' \subseteq Nat
<1>1. Coming \in Seq(Symbols) /\ said \in Seq(Symbols)
  BY ComingType
<1>2. Coming' = Coming \o said
  BY <1>1, SaidComing
<1>3. \A i \in DOMAIN said : said[i] \in S
  OBVIOUS
<1> QED
  BY <1>1, <1>2, <1>3, ConcatFacts

Answers(K) == {Answer(k) : k \in K}
Plain == {"nothing", "prompt", "ok", "sendok", "connect", "already", "wifi", "error", "closed"}

LEMMA AnswerFacts ==
  ASSUME NEW K \in SUBSET Plain
  PROVE  /\ Answers(K) \subseteq Symbols
         /\ \A s \in Answers(K) : s.is \in K /\ s.conn = 0 /\ ~IsFrame(s)
         /\ \A k \in K : <<Answer(k)>> \in Seq(Answers(K))
         /\ \A k, l \in K : <<Answer(k), Answer(l)>> \in Seq(Answers(K))
<1>1. \A k \in K : Answer(k) \in Symbols /\ Answer(k).is = k /\ Answer(k).conn = 0
  BY DEF Answer, Symbol, Symbols, Kinds, Plain
<1>2. \A s \in Answers(K) : s.is \in K /\ s.conn = 0 /\ s \in Symbols
  BY <1>1 DEF Answers
<1>3. \A s \in Answers(K) : ~IsFrame(s)
  BY <1>2 DEF IsFrame, Plain
<1>4. \A k \in K : Answer(k) \in Answers(K)
  BY DEF Answers
<1> QED
  BY <1>2, <1>3, <1>4

LEMMA ModemFacts ==
  ASSUME Modem
  PROVE  /\ UNCHANGED <<buf, head, tail, byte, pop, saved, pc, op, phase, received, earlier,
                        mistaken, fooled>>
         /\ (Closing' <=> Closing) /\ (InSession' <=> InSession)
         /\ misled => misled'
<1>1. UNCHANGED <<buf, head, tail, byte, pop, saved, pc, op, phase>>
  BY DEF Modem, TakePayload, CipSend, CipStart, CipClose, Segment, LinkLost, driver, ring, loop,
         popVars
<1>2. UNCHANGED <<received, earlier, mistaken, fooled>> /\ (misled => misled')
  <2>1. CASE TakePayload
    <3>1. UNCHANGED <<stream, fooled>> /\ misled' = (misled \/ ~raw \/ Head(cmds).is # "packet")
      BY <2>1, Zenon DEF TakePayload
    <3> QED
      BY <3>1, Zenon DEF stream
  <2>2. CASE CipSend \/ CipStart \/ CipClose \/ Segment \/ LinkLost
    <3>1. UNCHANGED hist
      BY <2>2 DEF CipSend, CipStart, CipClose, Segment, LinkLost
    <3> QED
      BY <3>1 DEF hist, stream
  <2> QED
    BY <2>1, <2>2 DEF Modem
<1> QED
  BY <1>1, <1>2 DEF Closing, InSession

LEMMA TakePayloadModems ==
  ASSUME Types, TakePayload, Modems, ~misled' PROVE Modems'
<1>1. /\ cmds # <<>> /\ cmds' = Tail(cmds) /\ raw = TRUE /\ Head(cmds).is = "packet"
      /\ UNCHANGED <<open, conn, pc>>
  BY DEF TakePayload, driver, loop, Types, FlagTypes
<1>2. PICK k \in {"sendok", "error"} : wire' = wire \o <<Answer(k)>> /\ out \subseteq out'
  BY DEF TakePayload, Says
<1> DEFINE S == Answers({"sendok", "error"})
<1>3. /\ S \in SUBSET Symbols /\ <<Answer(k)>> \in Seq(S)
      /\ \A s \in S : s.is \in {"sendok", "error"} /\ s.conn = 0 /\ ~IsFrame(s)
  BY AnswerFacts DEF Plain
<1> HIDE DEF S
<1>4. /\ UNCHANGED <<buf, head, tail, byte, pop, saved, pc>> /\ (Closing' <=> Closing)
  BY ModemFacts DEF Modem
<1>5. \A i \in DOMAIN Coming' : (i \in DOMAIN Coming /\ Coming'[i] = Coming[i]) \/ Coming'[i] \in S
  BY <1>2, <1>3, <1>4, SaidFacts
<1>6. /\ 1 \in DOMAIN cmds /\ cmds[1].is = "packet"
      /\ DOMAIN cmds \subseteq Nat /\ DOMAIN cmds' \subseteq Nat
      /\ \A i \in DOMAIN cmds' : i + 1 \in DOMAIN cmds /\ cmds'[i] = cmds[i + 1] /\ i + 1 > 1
      /\ \A i \in DOMAIN cmds : i > 1 => i - 1 \in DOMAIN cmds' /\ cmds'[i - 1] = cmds[i]
  BY <1>1, TailCmds
<1>7. /\ pc # "payload" /\ ~Queued("packet")'
      /\ \A i \in DOMAIN Coming : Coming[i].is \notin Heralds \cup {"prompt"}
  BY <1>6 DEF Modems, Prompts, Queued
<1>8. \A i \in DOMAIN Coming' : Coming'[i].is \notin Heralds \cup {"prompt"}
  BY <1>3, <1>5, <1>7 DEF Heralds
<1>9. Prompts'
  BY <1>4, <1>7, <1>8 DEF Prompts, Queued
<1>10. Openings'
  BY <1>8 DEF Openings
<1>11. Closings'
  <2>1. ASSUME NEW i \in DOMAIN cmds', cmds'[i].is = "cipstart"
        PROVE  \E j \in DOMAIN cmds' : j < i /\ cmds'[j].is = "cipclose"
    <3>1. PICK j \in DOMAIN cmds : 1 < j /\ j < i + 1 /\ cmds[j].is = "cipclose"
      BY <1>6, <2>1 DEF Modems, Closings
    <3>2. j - 1 \in DOMAIN cmds' /\ cmds'[j - 1].is = "cipclose" /\ j - 1 < i
      BY <1>6, <3>1
    <3> QED
      BY <3>2
  <2>2. ASSUME Closing' PROVE Queued("cipclose")'
    <3>1. PICK j \in DOMAIN cmds : 1 < j /\ cmds[j].is = "cipclose"
      BY <1>4, <1>6, <2>2 DEF Modems, Closings
    <3> QED
      BY <1>6, <3>1 DEF Queued
  <2> QED
    BY <1>7, <2>1, <2>2 DEF Closings, Queued
<1>12. Connections'
  <2>1. conn \in Nat
    BY DEF Types, ModemTypes
  <2> QED
    BY <1>1, <1>2, <1>3, <1>5, <2>1 DEF Modems, Connections, Known
<1> QED
  BY <1>9, <1>10, <1>11, <1>12 DEF Modems

(* While the modem takes commands no prompt is on its way and no packet.   *)
LEMMA NotRaw ==
  ASSUME Modems, raw # TRUE
  PROVE  /\ \A i \in DOMAIN Coming : Coming[i].is # "prompt"
         /\ pc # "payload" /\ ~Queued("packet")
BY DEF Modems, Prompts

LEMMA CipSendModems ==
  ASSUME Types, CipSend, Modems PROVE Modems'
<1>1. /\ cmds # <<>> /\ cmds' = Tail(cmds) /\ raw # TRUE /\ Head(cmds).is = "cipsend"
      /\ UNCHANGED <<open, conn, pc, out>> /\ raw' = open
  BY DEF CipSend, driver, loop, Types, FlagTypes, Reads
<1>2. PICK k \in {"prompt", "error"} : wire' = wire \o <<Answer(k)>> /\ (k = "prompt" => open = TRUE)
  BY DEF CipSend, Says, Types, FlagTypes
<1> DEFINE S == Answers({k})
<1>3. /\ S \in SUBSET Symbols /\ <<Answer(k)>> \in Seq(S) /\ Len(<<Answer(k)>>) = 1
      /\ \A s \in S : s.is = k /\ s.conn = 0 /\ ~IsFrame(s)
  BY AnswerFacts DEF Plain
<1> HIDE DEF S
<1>4. /\ UNCHANGED <<buf, head, tail, byte, pop, saved, pc>> /\ (Closing' <=> Closing)
  BY ModemFacts DEF Modem
<1>5. /\ \A i \in DOMAIN Coming' : \/ i \in DOMAIN Coming /\ Coming'[i] = Coming[i]
                                   \/ i = Len(Coming) + 1 /\ Coming'[i] \in S
      /\ DOMAIN Coming = 1 .. Len(Coming) /\ Len(Coming) \in Nat /\ DOMAIN Coming' \subseteq Nat
  <2>1. /\ \A i \in DOMAIN Coming' :
               i \in DOMAIN Coming \/ (/\ i > Len(Coming) /\ i - Len(Coming) \in DOMAIN <<Answer(k)>>
                                       /\ Coming'[i] \in S)
        /\ \A i \in DOMAIN Coming : Coming'[i] = Coming[i]
        /\ DOMAIN Coming = 1 .. Len(Coming) /\ Len(Coming) \in Nat /\ DOMAIN Coming' \subseteq Nat
    BY <1>2, <1>3, <1>4, SaidFacts
  <2>2. DOMAIN <<Answer(k)>> = {1}
    BY <1>3
  <2>3. \A i \in Nat : i - Len(Coming) = 1 => i = Len(Coming) + 1
    BY <2>1
  <2> QED
    BY <2>1, <2>2, <2>3
<1>6. /\ 1 \in DOMAIN cmds /\ cmds[1].is = "cipsend"
      /\ DOMAIN cmds \subseteq Nat /\ DOMAIN cmds' \subseteq Nat
      /\ \A i \in DOMAIN cmds' : i + 1 \in DOMAIN cmds /\ cmds'[i] = cmds[i + 1] /\ i + 1 > 1
      /\ \A i \in DOMAIN cmds : i # 1 => i - 1 \in DOMAIN cmds' /\ cmds'[i - 1] = cmds[i]
  BY <1>1, TailCmds
<1>7. /\ \A i \in DOMAIN Coming : Coming[i].is # "prompt"
      /\ pc' # "payload" /\ ~Queued("packet")'
  BY <1>1, <1>6, NotRaw DEF Queued
<1>8. Prompts'
  <2>1. \A i \in DOMAIN Coming' : Coming'[i].is = "prompt" =>
          i = Len(Coming) + 1 /\ raw' = TRUE
    BY <1>1, <1>2, <1>3, <1>5, <1>7
  <2>2. \A i, j \in DOMAIN Coming' : Coming'[i].is = "prompt" => ~(i < j)
    BY <1>5, <2>1
  <2> QED
    BY <1>7, <2>1, <2>2 DEF Prompts, Queued
<1>9. Openings'
  <2>1. \A i, j \in DOMAIN Coming' : Coming'[i].is \in Heralds =>
           /\ i \in DOMAIN Coming /\ Coming'[i] = Coming[i]
           /\ IsFrame(Coming'[j]) => j \in DOMAIN Coming /\ Coming'[j] = Coming[j]
    BY <1>3, <1>5 DEF Heralds
  <2> QED
    BY <1>1, <2>1 DEF Modems, Openings
<1>10. Closings'
  <2>1. ASSUME NEW i \in DOMAIN cmds', cmds'[i].is = "cipstart"
        PROVE  Unused' \/ \E j \in DOMAIN cmds' : j < i /\ cmds'[j].is = "cipclose"
    <3>1. CASE Unused
      BY <1>1, <3>1 DEF Unused
    <3>2. CASE ~Unused
      <4>1. PICK j \in DOMAIN cmds : j < i + 1 /\ cmds[j].is = "cipclose"
        BY <1>6, <2>1, <3>2 DEF Modems, Closings
      <4>2. j - 1 \in DOMAIN cmds' /\ cmds'[j - 1].is = "cipclose" /\ j - 1 < i
        BY <1>6, <4>1
      <4> QED
        BY <4>2
    <3> QED
      BY <3>1, <3>2
  <2>2. ASSUME Closing' PROVE Unused' \/ Queued("cipclose")'
    <3>1. Unused \/ \E j \in DOMAIN cmds : cmds[j].is = "cipclose"
      BY <1>4, <2>2 DEF Modems, Closings, Queued
    <3> QED
      BY <1>1, <1>6, <3>1 DEF Queued, Unused
  <2> QED
    BY <1>7, <2>1, <2>2 DEF Closings, Queued
<1>11. Connections'
  <2>1. conn \in Nat
    BY DEF Types, ModemTypes
  <2> QED
    BY <1>1, <1>3, <1>5, <2>1 DEF Modems, Connections, Known
<1> QED
  BY <1>8, <1>9, <1>10, <1>11 DEF Modems

(* AT+CIPSTART, AT+CIPCLOSE and a lost link leave no connection that has   *)
(* been used.                                                              *)
LEMMA FreshModems ==
  ASSUME Types, CipStart \/ CipClose \/ LinkLost, Modems PROVE Modems'
<1> DEFINE K == {"already", "error", "connect", "ok", "closed", "wifi"}
           S == Answers(K)
<1>1. /\ S \in SUBSET Symbols
      /\ \A s \in S : s.is \in K /\ s.conn = 0 /\ ~IsFrame(s)
      /\ \A k \in K : <<Answer(k)>> \in Seq(S)
      /\ \A k, l \in K : <<Answer(k), Answer(l)>> \in Seq(S)
  BY AnswerFacts DEF Plain
<1>2. /\ UNCHANGED <<buf, head, tail, byte, pop, saved, pc>> /\ (Closing' <=> Closing)
  BY ModemFacts DEF Modem
<1>3. /\ raw' = raw
      /\ \/ LinkLost /\ cmds' = cmds
         \/ raw # TRUE /\ cmds # <<>> /\ cmds' = Tail(cmds)
  <2>1. CASE CipStart
    BY <2>1 DEF CipStart, Reads
  <2>2. CASE CipClose
    BY <2>2 DEF CipClose, Reads
  <2>3. CASE LinkLost
    BY <2>3 DEF LinkLost
  <2> QED
    BY <2>1, <2>2, <2>3
<1>4. /\ open \in BOOLEAN /\ conn \in Nat
  BY DEF Types, FlagTypes, ModemTypes
<1>5. /\ Unused'
      /\ \/ UNCHANGED <<conn, out>> /\ (open' = TRUE => open = TRUE)
         \/ conn' = conn + 1 /\ out' = {}
      /\ \E said \in Seq(S) :
           /\ wire' = wire \o said
           /\ out' = {} \/ \A i \in DOMAIN said : said[i].is \notin Heralds
  <2> HIDE DEF S
  <2>1. CASE CipStart /\ open = TRUE
    <3>1. /\ cmds # <<>> /\ cmds' = Tail(cmds) /\ Head(cmds).is = "cipstart"
          /\ UNCHANGED <<open, conn, out>> /\ wire' = wire \o <<Answer("already"), Answer("error")>>
      BY <2>1 DEF CipStart, Reads, Says
    <3>2. cmds[1].is = "cipstart" /\ 1 \in DOMAIN cmds /\ \A j \in DOMAIN cmds : ~(j < 1)
      BY <3>1, TailCmds DEF Types, ModemTypes
    <3>3. out = {}
      BY <2>1, <3>2 DEF Modems, Closings, Unused
    <3> QED
      BY <1>1, <3>1, <3>3 DEF Unused
  <2>2. CASE CipStart /\ open = FALSE
    <3>1. CASE /\ conn' = conn + 1 /\ out' = {} /\ wire' = wire \o <<Answer("connect"), Answer("ok")>>
      BY <1>1, <3>1 DEF Unused
    <3>2. CASE UNCHANGED <<open, conn, out>> /\ wire' = wire \o <<Answer("error")>>
      <4>1. <<Answer("error")>> \in Seq(S) /\ \A i \in DOMAIN <<Answer("error")>> :
              <<Answer("error")>>[i].is \notin Heralds
        BY <1>1, SymbolTypes DEF Heralds, Kinds
      <4> QED
        BY <2>2, <3>2, <4>1 DEF Unused
    <3> QED
      BY <2>2, <3>1, <3>2 DEF CipStart, Says
  <2>3. CASE CipClose \/ LinkLost
    <3>1. open' = FALSE /\ UNCHANGED <<conn, out>>
      BY <2>3 DEF CipClose, LinkLost
    <3>2. \/ wire' = wire \o <<Answer("closed"), Answer("ok")>>
          \/ \E k \in {"error", "closed", "wifi"} : wire' = wire \o <<Answer(k)>>
      <4>1. CASE CipClose /\ open
        BY <4>1 DEF CipClose, Says
      <4>2. CASE CipClose /\ ~open
        BY <4>2 DEF CipClose, Says
      <4>3. CASE LinkLost
        BY <4>3 DEF LinkLost, Says
      <4> QED
        BY <2>3, <4>1, <4>2, <4>3
    <3>3. /\ \A k \in K \ Heralds : Answer(k).is \notin Heralds
          /\ \A k \in {"error", "closed", "wifi", "ok"} : k \in K \ Heralds
      BY SymbolTypes DEF Kinds, Heralds
    <3>4. /\ \A i \in DOMAIN <<Answer("closed"), Answer("ok")>> :
               <<Answer("closed"), Answer("ok")>>[i].is \notin Heralds
          /\ \A k \in {"error", "closed", "wifi"} : \A i \in DOMAIN <<Answer(k)>> :
               <<Answer(k)>>[i].is \notin Heralds
      BY <3>3
    <3> QED
      BY <1>1, <3>1, <3>2, <3>4 DEF Unused
  <2> QED
    BY <1>4, <2>1, <2>2, <2>3
<1> HIDE DEF S
<1>6. PICK said \in Seq(S) :
        /\ wire' = wire \o said
        /\ out' = {} \/ \A i \in DOMAIN said : said[i].is \notin Heralds
  BY <1>5
<1>7. /\ \A i \in DOMAIN Coming' : \/ i \in DOMAIN Coming /\ Coming'[i] = Coming[i]
                                   \/ /\ i > Len(Coming) /\ Coming'[i] \in S
                                      /\ i - Len(Coming) \in DOMAIN said
                                      /\ Coming'[i] = said[i - Len(Coming)]
      /\ DOMAIN Coming = 1 .. Len(Coming) /\ Len(Coming) \in Nat /\ DOMAIN Coming' \subseteq Nat
  <2>1. /\ \A i \in DOMAIN Coming : i \in DOMAIN Coming' /\ Coming'[i] = Coming[i]
        /\ \A i \in DOMAIN Coming' :
             i \in DOMAIN Coming \/ (/\ i > Len(Coming) /\ i - Len(Coming) \in DOMAIN said
                                     /\ Coming'[i] = said[i - Len(Coming)] /\ Coming'[i] \in S)
        /\ DOMAIN Coming = 1 .. Len(Coming) /\ Len(Coming) \in Nat /\ DOMAIN Coming' \subseteq Nat
    BY <1>1, <1>2, <1>6, SaidFacts
  <2> QED
    BY <2>1
<1>8. \A i \in DOMAIN Coming' : Coming'[i].is \in Heralds => i \in DOMAIN Coming \/ out' = {}
  BY <1>6, <1>7
<1>9. CASE LinkLost /\ cmds' = cmds
  <2>1. Prompts'
    <3>1. \A k : Queued(k)' = Queued(k)
      BY <1>9 DEF Queued
    <3>2. \A i \in DOMAIN Coming' :
            \/ i \in DOMAIN Coming /\ Coming'[i] = Coming[i]
            \/ Coming'[i].is \notin Heralds \cup {"prompt"}
      <4>1. wire' = wire \o <<Answer("closed")>> \/ wire' = wire \o <<Answer("wifi")>>
        BY <1>9 DEF LinkLost, Says
      <4> DEFINE R == Answers({"closed", "wifi"})
      <4>2. /\ R \in SUBSET Symbols /\ \A s \in R : s.is \in {"closed", "wifi"}
            /\ <<Answer("closed")>> \in Seq(R) /\ <<Answer("wifi")>> \in Seq(R)
        BY AnswerFacts DEF Plain
      <4> HIDE DEF R
      <4>3. \A i \in DOMAIN Coming' : (i \in DOMAIN Coming /\ Coming'[i] = Coming[i]) \/ Coming'[i] \in R
        BY <1>2, <4>1, <4>2, SaidFacts
      <4> QED
        BY <4>2, <4>3 DEF Heralds
    <3> QED
      BY <1>2, <1>3, <1>9, <3>1, <3>2 DEF Modems, Prompts
  <2>2. Openings'
    <3>1. out' = out /\ ~IsFrame(Answer("closed"))
      BY <1>9 DEF LinkLost, IsFrame, Answer, Symbol
    <3> QED
      BY <1>1, <1>7, <1>8, <3>1 DEF Modems, Openings
  <2>3. Closings'
    BY <1>2, <1>5, <1>9 DEF Modems, Closings
  <2>4. Connections'
    <3>1. open' = FALSE /\ UNCHANGED <<conn, out>>
      BY <1>9 DEF LinkLost
    <3>2. \A i \in DOMAIN Coming' : Coming'[i].conn = 0 \/ (i \in DOMAIN Coming /\ Coming'[i] = Coming[i])
      BY <1>1, <1>7
    <3> QED
      BY <1>4, <3>1, <3>2 DEF Modems, Connections, Known
  <2> QED
    BY <2>1, <2>2, <2>3, <2>4 DEF Modems
<1>10. CASE raw # TRUE /\ cmds # <<>> /\ cmds' = Tail(cmds)
  <2>1. /\ \A i \in DOMAIN Coming : Coming[i].is # "prompt"
        /\ pc' # "payload" /\ ~Queued("packet")'
    <3>1. \A i \in DOMAIN cmds' : i + 1 \in DOMAIN cmds /\ cmds'[i] = cmds[i + 1]
      BY <1>10, TailCmds
    <3> QED
      BY <1>2, <1>10, <3>1, NotRaw DEF Queued
  <2>2. Prompts'
    <3>1. \A i \in DOMAIN Coming' : Coming'[i].is # "prompt"
      BY <1>1, <1>7, <2>1
    <3> QED
      BY <2>1, <3>1 DEF Prompts, Queued
  <2>3. Openings'
    <3>1. out = {} => out' = {}
      BY <1>5
    <3> QED
      BY <1>1, <1>7, <1>8, <3>1 DEF Modems, Openings
  <2>4. Closings'
    BY <1>5, <2>1 DEF Closings, Queued
  <2>5. Connections'
    <3>1. \A i \in DOMAIN Coming' : Coming'[i].conn = 0 \/ (i \in DOMAIN Coming /\ Coming'[i] = Coming[i])
      BY <1>1, <1>7
    <3>3. CASE UNCHANGED <<conn, out>> /\ (open' = TRUE => open = TRUE)
      BY <1>4, <3>1, <3>3 DEF Modems, Connections, Known
    <3>4. CASE conn' = conn + 1 /\ out' = {}
      <4>1. \A i \in DOMAIN Coming : Coming[i].conn \in Nat /\ Coming[i].conn <= conn
        BY ComingType DEF Modems, Connections, Known, Symbols
      <4> QED
        BY <1>4, <3>1, <3>4, <4>1 DEF Connections, Known
    <3> QED
      BY <1>5, <3>3, <3>4
  <2> QED
    BY <2>2, <2>3, <2>4, <2>5 DEF Modems
<1> QED
  BY <1>3, <1>9, <1>10

LEMMA SegmentSays ==
  ASSUME Types, Segment
  PROVE  \E n \in Nat \ {0}, said \in Seq(Symbols) :
           /\ wire' = wire \o said /\ sent' = sent + n
           /\ Len(said) = n + 2 /\ DOMAIN said = 1 .. n + 2
           /\ said[1] = Symbol("plus", conn, 0) /\ said[2] = Symbol("length", conn, n)
           /\ \A i \in 1 .. n : said[i + 2] = Data(conn, sent + i)
<1>1. PICK n \in Segments :
        /\ sent' = sent + n
        /\ wire' = wire \o (<<Symbol("plus", conn, 0), Symbol("length", conn, n)>>
                             \o [i \in 1 .. n |-> Data(conn, sent + i)])
  BY DEF Segment, Says
<1>2. n \in Nat \ {0} /\ conn \in Nat /\ sent \in Nat
  BY SegmentsAssumption DEF Types, ModemTypes
<1> DEFINE a == <<Symbol("plus", conn, 0), Symbol("length", conn, n)>>
           b == [i \in 1 .. n |-> Data(conn, sent + i)]
<1>3. a \in Seq(Symbols) /\ Len(a) = 2 /\ a[1] = Symbol("plus", conn, 0)
        /\ a[2] = Symbol("length", conn, n)
  <2>1. Symbol("plus", conn, 0) \in Symbols /\ Symbol("length", conn, n) \in Symbols
    BY <1>2, SymbolTypes
  <2> QED
    BY <2>1
<1>4. b \in Seq(Symbols) /\ Len(b) = n /\ \A i \in 1 .. n : b[i] = Data(conn, sent + i)
  <2>1. \A i \in 1 .. n : Data(conn, sent + i) \in Symbols
    BY <1>2, SymbolTypes
  <2> QED
    BY <1>2, <2>1
<1>5. wire' = wire \o (a \o b)
  BY <1>1
<1> HIDE DEF a, b
<1>6. /\ a \o b \in Seq(Symbols) /\ Len(a \o b) = n + 2 /\ DOMAIN (a \o b) = 1 .. n + 2
      /\ (a \o b)[1] = a[1] /\ (a \o b)[2] = a[2]
      /\ \A i \in 1 .. n : (a \o b)[i + 2] = b[i]
  <2>1. /\ a \o b \in Seq(Symbols) /\ Len(a \o b) = 2 + n /\ DOMAIN (a \o b) = 1 .. 2 + n
        /\ \A i \in 1 .. 2 + n : (a \o b)[i] = IF i <= 2 THEN a[i] ELSE b[i - 2]
    <3>1. a \in Seq(Symbols) /\ b \in Seq(Symbols) /\ Len(a) = 2 /\ Len(b) = n
      BY <1>3, <1>4
    <3>2. /\ a \o b \in Seq(Symbols) /\ Len(a \o b) = Len(a) + Len(b)
          /\ \A i \in 1 .. Len(a) + Len(b) : (a \o b)[i] = IF i <= Len(a) THEN a[i] ELSE b[i - Len(a)]
      BY <3>1, ConcatProperties
    <3> QED
      BY <1>2, <3>1, <3>2
  <2>2. \A i \in 1 .. n : i + 2 \in 1 .. 2 + n /\ ~(i + 2 <= 2) /\ (i + 2) - 2 = i
    BY <1>2
  <2>3. 1 \in 1 .. 2 + n /\ 2 \in 1 .. 2 + n /\ 2 + n = n + 2
    BY <1>2
  <2> QED
    BY <2>1, <2>2, <2>3
<1> DEFINE said == a \o b
<1>7. /\ said \in Seq(Symbols) /\ wire' = wire \o said /\ sent' = sent + n
      /\ Len(said) = n + 2 /\ DOMAIN said = 1 .. n + 2
      /\ said[1] = Symbol("plus", conn, 0) /\ said[2] = Symbol("length", conn, n)
      /\ \A i \in 1 .. n : said[i + 2] = Data(conn, sent + i)
  BY <1>1, <1>3, <1>4, <1>5, <1>6
<1> HIDE DEF said
<1> QED
  BY <1>2, <1>7

LEMMA SegmentModems ==
  ASSUME Types, Segment, Modems PROVE Modems'
<1>1. /\ open = TRUE /\ out # {} /\ UNCHANGED <<cmds, open, raw, conn, out>>
  BY DEF Segment, Types, FlagTypes
<1>2. PICK n \in Nat \ {0}, said \in Seq(Symbols) :
        /\ wire' = wire \o said /\ sent' = sent + n
        /\ Len(said) = n + 2 /\ DOMAIN said = 1 .. n + 2
        /\ said[1] = Symbol("plus", conn, 0) /\ said[2] = Symbol("length", conn, n)
        /\ \A i \in 1 .. n : said[i + 2] = Data(conn, sent + i)
  BY SegmentSays
<1>3. conn \in Nat
  BY DEF Types, ModemTypes
<1>4. \A i \in DOMAIN said : IsFrame(said[i]) /\ said[i].conn = conn
  <2>1. \A i \in DOMAIN said : i = 1 \/ i = 2 \/ (i - 2 \in 1 .. n /\ i = (i - 2) + 2)
    BY <1>2
  <2>2. \A i \in DOMAIN said : \/ said[i] = Symbol("plus", conn, 0) \/ said[i] = Symbol("length", conn, n)
                               \/ \E m : said[i] = Data(conn, m)
    BY <1>2, <2>1
  <2> QED
    BY <2>2 DEF IsFrame, Data, Symbol
<1>5. /\ UNCHANGED <<buf, head, tail, byte, pop, saved, pc>> /\ (Closing' <=> Closing)
  BY ModemFacts DEF Modem
<1>6. \A i \in DOMAIN Coming' : \/ i \in DOMAIN Coming /\ Coming'[i] = Coming[i]
                                \/ IsFrame(Coming'[i]) /\ Coming'[i].conn = conn
  <2>1. \A i \in DOMAIN Coming' :
          i \in DOMAIN Coming \/ (/\ i > Len(Coming) /\ i - Len(Coming) \in DOMAIN said
                                  /\ Coming'[i] = said[i - Len(Coming)] /\ Coming'[i] \in Symbols)
    BY <1>2, <1>5, SaidFacts
  <2>2. \A i \in DOMAIN Coming : Coming'[i] = Coming[i]
    BY <1>2, <1>5, SaidFacts
  <2> QED
    BY <1>4, <2>1, <2>2
<1>7. \A i \in DOMAIN Coming' : Coming'[i].is \notin Heralds
  BY <1>1, <1>6 DEF Modems, Openings, IsFrame, Heralds
<1>8. Prompts'
  <2>1. \A k : Queued(k)' = Queued(k)
    BY <1>1 DEF Queued
  <2>2. \A i \in DOMAIN Coming' : Coming'[i].is = "prompt" => i \in DOMAIN Coming /\ Coming'[i] = Coming[i]
    BY <1>6 DEF IsFrame
  <2>3. \A i, j \in DOMAIN Coming' : Coming'[i].is = "prompt" /\ i < j => Coming'[j].is # "prompt"
    BY <2>2 DEF Modems, Prompts
  <2> QED
    BY <1>1, <1>5, <1>7, <2>1, <2>2, <2>3 DEF Modems, Prompts
<1>9. Openings' /\ Closings'
  BY <1>1, <1>5, <1>7 DEF Modems, Openings, Closings, Unused, Queued
<1>10. Connections'
  BY <1>1, <1>3, <1>6 DEF Modems, Connections, Known
<1> QED
  BY <1>8, <1>9, <1>10 DEF Modems

LEMMA ModemModems == ASSUME Types, Modem, Modems, ~misled' PROVE Modems'
BY TakePayloadModems, CipSendModems, FreshModems, SegmentModems DEF Modem

-----------------------------------------------------------------------------
(* What arrives in a session.                                              *)

(* What esp01_recv has returned, and the connections of before.            *)
History ==
  /\ received \in Seq(Symbols) /\ earlier \subseteq Nat
  /\ \A i \in DOMAIN received : Known(received[i].conn)
  /\ \A c \in earlier : Known(c)
  /\ ~InSession => received = <<>>

(* Of a session that was rightly opened, all data comes from the current   *)
(* connection, in order; once the broker can speak on it no AT+CIPSTART    *)
(* may replace it before AT+CIPCLOSE is written.                           *)
Arrived == received \o Coming
IsData(s) == s.is = "data"
Session ==
  /\ \A i \in DOMAIN Arrived : IsData(Arrived[i]) =>
       Arrived[i].conn = conn /\ Arrived[i].n <= sent /\ conn \notin earlier
  /\ \A i, j \in DOMAIN Arrived : IsData(Arrived[i]) /\ IsData(Arrived[j]) /\ i < j =>
       Arrived[i].n < Arrived[j].n
  /\ (\E i \in DOMAIN Arrived : IsData(Arrived[i])) \/ (open = TRUE /\ out # {}) =>
       ~Queued("cipstart")
  /\ \A i, j \in DOMAIN cmds : cmds[i].is = "packet" /\ i < j =>
       cmds[j].is \notin {"cipstart", "cipclose"}
  /\ conn \in earlier => open = FALSE

Orderly == Modems /\ History /\ (InSession /\ ~mistaken => Session)
OrderInv == LinkInv /\ FlowOK /\ (~misled /\ ~fooled => Orderly)

LEMMA MistakenStays ==
  ASSUME Types, Readers \/ Movers \/ UNCHANGED vars
  PROVE  mistaken => mistaken'
<1>1. mistaken \in BOOLEAN
  BY DEF Types, FlagTypes
<1>2. CASE Compare
  BY <1>1, <1>2 DEF Compare, Mistaken
<1>3. CASE ~Compare
  <2>1. mistaken' = mistaken
    BY <1>3 DEF Readers, Movers, Interrupt, PopIndex, PopByte, PopTail, Drop, Parse, Connect, WaitTimesOut,
                QuietEnds, Opened, RecvStart, RecvEmpty, TransmitFails, Flush, vars, hist, stream
  <2> QED
    BY <1>3, <2>1
<1> QED
  BY <1>2, <1>3

LEMMA StoreSplits ==
  ASSUME Types, PopStore, wire' = wire
  PROVE  /\ Coming = <<byte>> \o Coming' /\ Coming' \in Seq(Symbols) /\ byte \in Symbols
         /\ 1 \in DOMAIN Coming /\ Coming[1] = byte
         /\ DOMAIN Coming' \subseteq Nat
         /\ \A i \in DOMAIN Coming' : 1 + i \in DOMAIN Coming /\ Coming[1 + i] = Coming'[i] /\ 1 < 1 + i
         /\ \A i \in DOMAIN Coming : i # 1 => i - 1 \in DOMAIN Coming' /\ Coming'[i - 1] = Coming[i]
<1>1. Coming = <<byte>> \o Coming' /\ Coming' \in Seq(Symbols) /\ byte \in Symbols
  BY PopStoreComing
<1>2. <<byte>> \in Seq(Symbols) /\ Len(<<byte>>) = 1 /\ <<byte>>[1] = byte /\ DOMAIN <<byte>> = {1}
  BY <1>1
<1>3. DOMAIN Coming' \subseteq Nat /\ \A i \in DOMAIN Coming' : i > 0
  BY <1>1
<1>4. /\ \A i \in DOMAIN Coming' : 1 + i \in DOMAIN Coming /\ Coming[1 + i] = Coming'[i]
      /\ \A i \in DOMAIN <<byte>> : i \in DOMAIN Coming /\ Coming[i] = <<byte>>[i]
      /\ \A i \in DOMAIN Coming :
           i \in DOMAIN <<byte>> \/ (i > 1 /\ i - 1 \in DOMAIN Coming' /\ Coming[i] = Coming'[i - 1])
  BY <1>1, <1>2, ConcatFacts
<1> QED
  BY <1>1, <1>2, <1>3, <1>4

LEMMA ParseArrived ==
  ASSUME Types, Parse, received \in Seq(Symbols)
  PROVE  /\ Within(Arrived', Arrived)
         /\ received' = received \/ received' = Append(received, byte)
<1>1. Coming = <<byte>> \o Coming' /\ Coming' \in Seq(Symbols) /\ byte \in Symbols
  BY StoreSplits DEF Parse, modem
<1>2. <<byte>> \in Seq(Symbols)
  BY <1>1
<1>3. CASE received' = received
  <2>1. Within(Coming', Coming)
    BY <1>1, <1>2, WithinRight
  <2>2. Coming \in Seq(Symbols)
    BY ComingType
  <2> QED
    BY <1>1, <1>3, <2>1, <2>2, WithinBehind DEF Arrived
<1>4. CASE received' = Append(received, byte)
  <2>1. received' = received \o <<byte>>
    BY <1>1, <1>4, AppendIsConcat
  <2>2. Arrived' = Arrived
    BY <1>1, <1>2, <2>1, Regroup DEF Arrived
  <2> QED
    BY <1>4, <2>2, WithinSame
<1> QED
  BY <1>3, <1>4 DEF Parse, Idle, Header, Payload

LEMMA ComingTypeNext == Types' => (Coming \in Seq(Symbols))'
<1>1. Types => Coming \in Seq(Symbols)
  BY ComingType
<1> QED
  BY <1>1, PTL

LEMMA ReadingHistory ==
  ASSUME Types, PopOK, FlowOK, Reading, Orderly, Readers \/ Movers \/ Disconnect \/ UNCHANGED vars
  PROVE  /\ History'
         /\ Disconnect \/ (earlier' = earlier /\ Within(Arrived', Arrived))
<1>1. \A c : Known(c)' = Known(c)
  BY DEF Reading, Known
<1>2. /\ received \in Seq(Symbols) /\ earlier \subseteq Nat
      /\ \A i \in DOMAIN received : Known(received[i].conn)
      /\ \A c \in earlier : Known(c)
      /\ ~InSession => received = <<>>
  BY DEF Orderly, History
<1>3. InSession => InSession' \/ Disconnect
  BY FlowSteps
<1>4. CASE Disconnect
  <2>1. /\ received' = <<>> /\ earlier' = earlier \cup {received[i].conn : i \in DOMAIN received}
    BY <1>4 DEF Disconnect
  <2>2. \A i \in DOMAIN received : received[i].conn \in Nat
    BY <1>2 DEF Symbols
  <2>3. received' \in Seq(Symbols) /\ DOMAIN received' = {}
    BY <2>1
  <2>4. earlier' \subseteq Nat /\ \A c \in earlier' : Known(c)
    BY <1>2, <2>1, <2>2
  <2>5. \A c \in earlier' : Known(c)'
    BY <1>1, <2>4
  <2> QED
    BY <1>4, <2>1, <2>3, <2>4, <2>5 DEF History
<1>5. CASE Parse
  <2>1. /\ Within(Arrived', Arrived)
        /\ received' = received \/ received' = Append(received, byte)
        /\ byte \in Symbols /\ \E i \in DOMAIN Coming : Coming[i] = byte
        /\ earlier' = earlier
    BY <1>2, <1>5, ParseArrived, StoreSplits DEF Parse, modem
  <2>2. Known(byte.conn)
    BY <2>1 DEF Orderly, Modems, Connections
  <2>3. InSession
    BY <1>5 DEF Parse, FlowOK, InSession
  <2>4. received' \in Seq(Symbols) /\ \A i \in DOMAIN received' : Known(received'[i].conn)
    <3>1. CASE received' = received
      BY <1>2, <3>1
    <3>2. CASE received' = Append(received, byte)
      <4>1. received' \in Seq(Symbols)
        BY <1>2, <2>1, <3>2
      <4>2. \A i \in DOMAIN received' : \/ i \in DOMAIN received /\ received'[i] = received[i]
                                        \/ received'[i] = byte
        BY <1>2, <2>1, <3>2, AppendCmds
      <4> QED
        BY <1>2, <2>2, <4>1, <4>2
    <3> QED
      BY <2>1, <3>1, <3>2
  <2>5. ~Disconnect
    BY <1>5 DEF Parse, Disconnect
  <2> QED
    BY <1>1, <1>2, <1>3, <2>1, <2>3, <2>4, <2>5 DEF History
<1>6. CASE ~Parse /\ ~Disconnect
  <2>1. UNCHANGED <<received, earlier>>
    BY <1>6 DEF Readers, Movers, Interrupt, PopIndex, PopByte, PopTail, Drop, Compare, Connect, WaitTimesOut,
                QuietEnds, Opened, RecvStart, RecvEmpty, TransmitFails, Flush, vars, hist, stream
  <2>2. Coming \in Seq(Symbols) /\ Coming' \in Seq(Symbols)
    <3>1. Types'
      BY NextTypes, NextGroups
    <3> QED
      BY <3>1, ComingType, ComingTypeNext
  <2>3. Within(Arrived', Arrived)
    BY <1>2, <2>1, <2>2, WithinBehind DEF Arrived, Reading
  <2>4. History'
    BY <1>1, <1>2, <1>3, <1>6, <2>1 DEF History
  <2> QED
    BY <2>1, <2>3, <2>4
<1> QED
  BY <1>4, <1>5, <1>6

LEMMA ReadingSession ==
  ASSUME Types, PopOK, FlowOK, Orderly, Readers \/ Movers \/ Disconnect \/ UNCHANGED vars,
         InSession', ~mistaken', ~fooled'
  PROVE  Session'
<1>1. Reading /\ ~Disconnect
  BY ReadingSteps, DisconnectEnds
<1>2. /\ UNCHANGED <<cmds, open, conn, sent, out, earlier>>
      /\ \A i \in DOMAIN Arrived' : \E k \in DOMAIN Arrived : Arrived'[i] = Arrived[k]
      /\ \A i, j \in DOMAIN Arrived' : i < j =>
           \E k, l \in DOMAIN Arrived : k < l /\ Arrived'[i] = Arrived[k] /\ Arrived'[j] = Arrived[l]
  BY <1>1, ReadingHistory DEF Reading, Within
<1>3. Queued("cipstart")' = Queued("cipstart")
  BY <1>2 DEF Queued
<1>4. CASE InSession
  <2>1. Session
    BY <1>1, <1>4, MistakenStays DEF Orderly
  <2> QED
    BY <1>2, <1>3, <2>1 DEF Session
<1>5. CASE ~InSession
  <2>1. Compare /\ op = "start" /\ byte.is \in Heralds
    BY <1>1, <1>5, FlowSteps DEF Heralds
  <2>2. /\ 1 \in DOMAIN Coming /\ Coming[1] = byte /\ Coming' \in Seq(Symbols)
        /\ \A i \in DOMAIN Coming' : 1 + i \in DOMAIN Coming /\ Coming[1 + i] = Coming'[i] /\ 1 < 1 + i
    BY <2>1, StoreSplits DEF Compare, modem
  <2>3. received' = <<>> /\ received = <<>>
    BY <1>5, <2>1 DEF Orderly, History, Compare
  <2>4. Arrived' = Coming'
    BY <2>2, <2>3, ConcatEmptySeq DEF Arrived
  <2>5. out = {} /\ \A i \in DOMAIN Coming' : ~IsFrame(Coming'[i])
    BY <2>1, <2>2 DEF Orderly, Modems, Openings
  <2>6. \A i \in DOMAIN Arrived' : ~IsData(Arrived'[i])
    BY <2>4, <2>5 DEF IsFrame, IsData
  <2>7. ~Queued("packet")
    BY <2>1, <2>2 DEF Orderly, Modems, Prompts
  <2>8. conn \in earlier => open = FALSE
    <3>1. /\ conn \in earlier => Known(conn)
          /\ open = TRUE => conn > 0
          /\ open \in BOOLEAN
      BY DEF Orderly, History, Modems, Connections, Types, FlagTypes
    <3> QED
      BY <2>5, <3>1 DEF Known
  <2> QED
    BY <1>2, <2>5, <2>6, <2>7, <2>8 DEF Session, Queued
<1> QED
  BY <1>4, <1>5

LEMMA ModemHistory ==
  ASSUME Types, Modem, History PROVE History'
<1>1. UNCHANGED <<received, earlier>> /\ (InSession' <=> InSession)
  BY ModemFacts
<1>2. conn \in Nat /\ conn' \in Nat /\ \/ conn' = conn /\ (out # {} => out' # {})
                                       \/ conn' = conn + 1
  <2>1. conn \in Nat
    BY DEF Types, ModemTypes
  <2>2. CASE TakePayload
    <3>1. conn' = conn /\ out \subseteq out'
      BY <2>2 DEF TakePayload
    <3> QED
      BY <2>1, <3>1
  <2>3. CASE CipSend \/ CipClose \/ Segment \/ LinkLost
    BY <2>1, <2>3 DEF CipSend, CipClose, Segment, LinkLost
  <2>4. CASE CipStart
    BY <2>1, <2>4 DEF CipStart
  <2> QED
    BY <2>2, <2>3, <2>4 DEF Modem
<1>3. ASSUME NEW c \in Nat, Known(c) PROVE Known(c)'
  BY <1>2, <1>3 DEF Known
<1>4. \A i \in DOMAIN received : received[i].conn \in Nat
  BY DEF History, Symbols
<1>5. \A i \in DOMAIN received' : received'[i].conn \in Nat /\ Known(received'[i].conn)
  BY <1>1, <1>4 DEF History
<1> QED
  BY <1>1, <1>3, <1>4 DEF History

LEMMA WritersHistory == ASSUME Types, FlowOK, Writers, History PROVE History'
BY WritersFacts DEF History, Known

LEMMA WritersSession ==
  ASSUME Types, FlowOK, Writers, Session, InSession PROVE Session'
<1>1. /\ UNCHANGED <<open, conn, sent, out, received, earlier>> /\ Coming' = Coming
      /\ cmds \in Seq(Commands) /\ packet \in Nat
  BY WritersFacts DEF Types, ModemTypes, FlowTypes
<1>2. Arrived' = Arrived
  BY <1>1 DEF Arrived
<1>3. /\ Command("cipsend") \in Commands /\ Command("cipsend").is = "cipsend"
      /\ Packet(packet) \in Commands /\ Packet(packet).is = "packet"
  BY <1>1, SymbolTypes
<1>4. \/ cmds' = cmds
      \/ \E c \in Commands : c.is \in {"cipsend", "packet"} /\ cmds' = Append(cmds, c)
  BY <1>3, WritersFacts DEF Closing
<1>5. /\ Queued("cipstart")' => Queued("cipstart")
      /\ \A i, j \in DOMAIN cmds' : cmds'[i].is = "packet" /\ i < j =>
           cmds'[j].is \notin {"cipstart", "cipclose"}
  <2>1. CASE cmds' = cmds
    BY <2>1 DEF Queued, Session
  <2>2. ASSUME NEW c \in Commands, c.is \in {"cipsend", "packet"}, cmds' = Append(cmds, c)
        PROVE  /\ Queued("cipstart")' => Queued("cipstart")
               /\ \A i, j \in DOMAIN cmds' : cmds'[i].is = "packet" /\ i < j =>
                    cmds'[j].is \notin {"cipstart", "cipclose"}
    <3> DEFINE n == Len(cmds) + 1
    <3>1. /\ DOMAIN cmds' \subseteq Nat /\ n \in Nat
          /\ \A i \in DOMAIN cmds : cmds'[i] = cmds[i] /\ i < n
          /\ cmds'[n] = c
          /\ \A i \in DOMAIN cmds' : i \in DOMAIN cmds \/ i = n
      BY <1>1, <2>2, AppendCmds
    <3> HIDE DEF n
    <3>2. \A i, j \in DOMAIN cmds' : j \in DOMAIN cmds /\ i < j => i \in DOMAIN cmds
      BY <3>1
    <3> QED
      BY <2>2, <3>1, <3>2 DEF Queued, Session
  <2> QED
    BY <1>4, <2>1, <2>2
<1> QED
  BY <1>1, <1>2, <1>5 DEF Session

(* What the modem says comes behind all that has arrived.                  *)
LEMMA ArrivedSaid ==
  ASSUME Types, received \in Seq(Symbols), received' = received,
         UNCHANGED <<buf, head, tail, byte, pop, saved>>,
         NEW said \in Seq(Symbols), wire' = wire \o said
  PROVE  /\ \A i \in DOMAIN Arrived : i \in DOMAIN Arrived' /\ Arrived'[i] = Arrived[i]
         /\ \A i \in DOMAIN Arrived' :
              \/ i \in DOMAIN Arrived /\ i <= Len(Arrived)
              \/ (/\ i > Len(Arrived) /\ i - Len(Arrived) \in DOMAIN said
                  /\ Arrived'[i] = said[i - Len(Arrived)])
         /\ Len(Arrived) \in Nat /\ DOMAIN Arrived' \subseteq Nat
<1>1. Coming \in Seq(Symbols) /\ Coming' = Coming \o said
  BY ComingType, SaidComing
<1>2. Arrived' = Arrived \o said /\ Arrived \in Seq(Symbols)
  <2>1. Arrived' = received \o (Coming \o said)
    BY <1>1 DEF Arrived
  <2>2. received \o (Coming \o said) = (received \o Coming) \o said
    BY <1>1, Regroup
  <2>3. received \o Coming \in Seq(Symbols)
    BY <1>1
  <2> QED
    BY <2>1, <2>2, <2>3 DEF Arrived
<1>3. /\ \A i \in DOMAIN Arrived : i \in DOMAIN Arrived' /\ Arrived'[i] = Arrived[i]
      /\ \A i \in DOMAIN Arrived' :
           i \in DOMAIN Arrived \/ (/\ i > Len(Arrived) /\ i - Len(Arrived) \in DOMAIN said
                                   /\ Arrived'[i] = said[i - Len(Arrived)])
      /\ DOMAIN Arrived = 1 .. Len(Arrived) /\ Len(Arrived) \in Nat /\ DOMAIN Arrived' \subseteq Nat
  BY <1>2, ConcatFacts
<1>4. \A i \in DOMAIN Arrived : i <= Len(Arrived)
  BY <1>3
<1> QED
  BY <1>3, <1>4

LEMMA ModemAnswers ==
  ASSUME TakePayload \/ CipSend \/ CipStart \/ CipClose \/ LinkLost
  PROVE  \E said \in Seq(Symbols) :
           wire' = wire \o said /\ \A i \in DOMAIN said : ~IsFrame(said[i])
<1> DEFINE K == {"prompt", "sendok", "already", "error", "connect", "ok", "closed", "wifi"}
           S == Answers(K)
<1>1. /\ S \in SUBSET Symbols /\ \A s \in S : ~IsFrame(s)
      /\ \A k \in K : <<Answer(k)>> \in Seq(S)
      /\ \A k, l \in K : <<Answer(k), Answer(l)>> \in Seq(S)
  BY AnswerFacts DEF Plain
<1>2. \/ \E k \in K : wire' = wire \o <<Answer(k)>>
      \/ \E k, l \in K : wire' = wire \o <<Answer(k), Answer(l)>>
  <2> HIDE DEF S
  <2>1. CASE TakePayload \/ CipSend
    BY <2>1, SaysReply
  <2>2. CASE CipStart
    BY <2>2 DEF CipStart, Says
  <2>3. CASE CipClose
    BY <2>3 DEF CipClose, Says
  <2>4. CASE LinkLost
    BY <2>4 DEF LinkLost, Says
  <2> QED
    BY <2>1, <2>2, <2>3, <2>4
<1> HIDE DEF S
<1>3. PICK said \in Seq(S) : wire' = wire \o said
  BY <1>1, <1>2
<1> QED
  BY <1>1, <1>3

LEMMA ModemSession ==
  ASSUME Types, Modem, Modems, History, Session, ~misled' PROVE Session'
<1>1. /\ UNCHANGED <<buf, head, tail, byte, pop, saved, received, earlier>>
      /\ received \in Seq(Symbols) /\ earlier \subseteq Nat
      /\ conn \in Nat /\ sent \in Nat /\ open \in BOOLEAN /\ raw \in BOOLEAN
      /\ \A c \in earlier : c <= conn
  BY ModemFacts DEF History, Known, Types, ModemTypes, FlagTypes
<1>2. CASE Segment
  <2>1. /\ open = TRUE /\ out # {} /\ UNCHANGED <<cmds, open, conn, out>>
    BY <1>2 DEF Segment, Types, FlagTypes
  <2>2. PICK n \in Nat \ {0}, said \in Seq(Symbols) :
          /\ wire' = wire \o said /\ sent' = sent + n
          /\ Len(said) = n + 2 /\ DOMAIN said = 1 .. n + 2
          /\ said[1] = Symbol("plus", conn, 0) /\ said[2] = Symbol("length", conn, n)
          /\ \A i \in 1 .. n : said[i + 2] = Data(conn, sent + i)
    BY <1>2, SegmentSays
  <2>3. \A i \in DOMAIN said : IsData(said[i]) =>
          /\ i - 2 \in 1 .. n /\ said[i].conn = conn /\ said[i].n = sent + (i - 2)
    <3>1. \A i \in DOMAIN said : i = 1 \/ i = 2 \/ (i - 2 \in 1 .. n /\ (i - 2) + 2 = i)
      BY <2>2
    <3>2. ~IsData(said[1]) /\ ~IsData(said[2])
      BY <2>2 DEF IsData, Symbol
    <3>3. \A i \in 1 .. n : said[i + 2].conn = conn /\ said[i + 2].n = sent + i
      <4>1. \A k : Data(conn, k).conn = conn /\ Data(conn, k).n = k
        BY DEF Data, Symbol
      <4>2. \A i \in 1 .. n : said[i + 2] = Data(conn, sent + i)
        BY <2>2
      <4> QED
        BY <4>1, <4>2, Zenon
    <3>4. ASSUME NEW i \in DOMAIN said, IsData(said[i])
          PROVE  /\ i - 2 \in 1 .. n /\ said[i].conn = conn /\ said[i].n = sent + (i - 2)
      <4>1. i - 2 \in 1 .. n /\ (i - 2) + 2 = i
        BY <3>1, <3>2, <3>4
      <4>2. said[(i - 2) + 2].conn = conn /\ said[(i - 2) + 2].n = sent + (i - 2)
        BY <3>3, <4>1
      <4> QED
        BY <4>1, <4>2
    <3> QED
      BY <3>4
  <2> DEFINE m == Len(Arrived)
  <2>4. /\ \A i \in DOMAIN Arrived : i \in DOMAIN Arrived' /\ Arrived'[i] = Arrived[i]
        /\ \A i \in DOMAIN Arrived' :
             \/ i \in DOMAIN Arrived /\ i <= m
             \/ i > m /\ i - m \in DOMAIN said /\ Arrived'[i] = said[i - m]
        /\ m \in Nat /\ DOMAIN Arrived' \subseteq Nat
    BY <1>1, <2>2, ArrivedSaid
  <2> HIDE DEF m
  <2>5. conn \notin earlier /\ ~Queued("cipstart")
    BY <2>1 DEF Session
  <2>6. \A i \in DOMAIN Arrived' : IsData(Arrived'[i]) =>
          \/ i \in DOMAIN Arrived /\ i <= m /\ Arrived'[i] = Arrived[i] /\ Arrived[i].n <= sent
             /\ Arrived[i].conn = conn
          \/ /\ i > m /\ (i - m) - 2 \in 1 .. n /\ Arrived'[i].conn = conn
             /\ Arrived'[i].n = sent + ((i - m) - 2)
    BY <2>3, <2>4 DEF Session
  <2>7. \A i \in DOMAIN Arrived' : IsData(Arrived'[i]) =>
          Arrived'[i].conn = conn /\ Arrived'[i].n <= sent + n
    <3>1. \A i \in DOMAIN Arrived : Arrived[i].n \in Nat
      <4>1. Arrived \in Seq(Symbols)
        BY <1>1, ComingType, ConcatProperties DEF Arrived
      <4> QED
        BY <4>1 DEF Symbols
    <3> QED
      BY <1>1, <2>2, <2>6, <3>1
  <2>8. ASSUME NEW i \in DOMAIN Arrived', NEW j \in DOMAIN Arrived',
               IsData(Arrived'[i]), IsData(Arrived'[j]), i < j
        PROVE  Arrived'[i].n < Arrived'[j].n
    <3>1. Arrived \in Seq(Symbols)
      BY <1>1, ComingType, ConcatProperties DEF Arrived
    <3>2. \A k \in DOMAIN Arrived : Arrived[k].n \in Nat
      BY <3>1 DEF Symbols
    <3>3. CASE j <= m
      <4>1. i \in DOMAIN Arrived /\ j \in DOMAIN Arrived
        BY <2>4, <2>8, <3>3
      <4> QED
        BY <2>4, <2>8, <4>1 DEF Session
    <3>4. CASE j > m /\ i <= m
      <4>1. i \in DOMAIN Arrived /\ Arrived'[i] = Arrived[i] /\ Arrived[i].n <= sent
        BY <2>4, <2>6, <2>8, <3>4
      <4>2. (j - m) - 2 \in 1 .. n /\ Arrived'[j].n = sent + ((j - m) - 2)
        BY <2>4, <2>6, <2>8, <3>4
      <4> QED
        BY <1>1, <2>2, <3>2, <4>1, <4>2
    <3>5. CASE j > m /\ i > m
      <4>1. (i - m) - 2 \in 1 .. n /\ Arrived'[i].n = sent + ((i - m) - 2)
        BY <2>4, <2>6, <2>8, <3>5
      <4>2. (j - m) - 2 \in 1 .. n /\ Arrived'[j].n = sent + ((j - m) - 2)
        BY <2>4, <2>6, <2>8, <3>5
      <4>3. i \in Nat /\ j \in Nat /\ m \in Nat
        BY <2>4
      <4> DEFINE a == (i - m) - 2
                 b == (j - m) - 2
      <4>4. a \in Nat /\ b \in Nat /\ a < b
        BY <2>2, <2>8, <4>1, <4>2, <4>3
      <4>5. Arrived'[i].n = sent + a /\ Arrived'[j].n = sent + b
        BY <4>1, <4>2
      <4> HIDE DEF a, b
      <4>6. sent + a < sent + b
        BY <1>1, <4>4
      <4> QED
        BY <4>5, <4>6
    <3> QED
      BY <2>4, <3>3, <3>4, <3>5
  <2> QED
    BY <1>1, <2>1, <2>2, <2>5, <2>7, <2>8 DEF Session, Queued
<1>3. CASE TakePayload \/ CipSend \/ CipStart \/ CipClose \/ LinkLost
  <2>1. PICK said \in Seq(Symbols) :
          wire' = wire \o said /\ \A i \in DOMAIN said : ~IsFrame(said[i])
    BY <1>3, ModemAnswers
  <2>2. \A i \in DOMAIN Arrived' : IsData(Arrived'[i]) => i \in DOMAIN Arrived /\ Arrived'[i] = Arrived[i]
    BY <1>1, <2>1, ArrivedSaid DEF IsFrame, IsData
  <2>3. (\E i \in DOMAIN Arrived' : IsData(Arrived'[i])) => \E i \in DOMAIN Arrived : IsData(Arrived[i])
    BY <2>2
  <2>4. \A i, j \in DOMAIN Arrived' : IsData(Arrived'[i]) /\ IsData(Arrived'[j]) /\ i < j =>
          Arrived'[i].n < Arrived'[j].n
    BY <2>2 DEF Session
  <2>5. CASE LinkLost
    <3>1. UNCHANGED <<cmds, conn, sent, out>> /\ open' = FALSE
      BY <2>5 DEF LinkLost
    <3> QED
      BY <1>1, <2>2, <2>3, <2>4, <3>1 DEF Session, Queued
  <2>6. CASE ~LinkLost
    <3>1. cmds # <<>> /\ cmds' = Tail(cmds)
      BY <1>3, <2>6 DEF TakePayload, CipSend, CipStart, CipClose, Reads
    <3>2. /\ 1 \in DOMAIN cmds /\ Head(cmds) = cmds[1]
          /\ DOMAIN cmds \subseteq Nat /\ DOMAIN cmds' \subseteq Nat
          /\ \A i \in DOMAIN cmds' : i + 1 \in DOMAIN cmds /\ cmds'[i] = cmds[i + 1] /\ i + 1 > 1
      BY <3>1, TailCmds
    <3>3. Queued("cipstart")' => Queued("cipstart")
      BY <3>2 DEF Queued
    <3>4. \A i, j \in DOMAIN cmds' : cmds'[i].is = "packet" /\ i < j =>
            cmds'[j].is \notin {"cipstart", "cipclose"}
      <4>1. \A i, j \in DOMAIN cmds' : i < j => i + 1 < j + 1
        BY <3>2
      <4> QED
        BY <3>2, <4>1 DEF Session
    <3>5. CASE TakePayload
      <4>1. UNCHANGED <<open, conn, sent>> /\ cmds[1].is = "packet"
        BY <3>2, <3>5 DEF TakePayload
      <4>2. ~Queued("cipstart")'
        BY <3>2, <4>1 DEF Queued, Session
      <4> QED
        BY <1>1, <2>2, <2>4, <3>4, <4>1, <4>2 DEF Session
    <3>6. CASE CipSend
      <4>1. UNCHANGED <<open, conn, sent, out>>
        BY <3>6 DEF CipSend
      <4> QED
        BY <1>1, <2>2, <2>3, <2>4, <3>3, <3>4, <4>1 DEF Session
    <3>7. CASE CipClose
      <4>1. UNCHANGED <<conn, sent, out>> /\ open' = FALSE
        BY <3>7 DEF CipClose
      <4> QED
        BY <1>1, <2>2, <2>3, <2>4, <3>3, <3>4, <4>1 DEF Session
    <3>8. CASE CipStart
      <4>1. Queued("cipstart")
        BY <3>2, <3>8 DEF CipStart, Reads, Queued
      <4>2. ~(open = TRUE /\ out # {}) /\ \A i \in DOMAIN Arrived : ~IsData(Arrived[i])
        BY <4>1 DEF Session
      <4>3. \/ conn' = conn + 1 /\ out' = {}
            \/ UNCHANGED <<open, conn, out>>
        BY <3>8 DEF CipStart
      <4>4. ~(open' = TRUE /\ out' # {}) /\ (conn' \in earlier => open' = FALSE)
        <5>1. conn + 1 \notin earlier
          BY <1>1
        <5> QED
          BY <4>2, <4>3, <5>1 DEF Session
      <4> QED
        BY <1>1, <2>2, <3>4, <4>2, <4>4 DEF Session
    <3> QED
      BY <1>3, <2>6, <3>5, <3>6, <3>7, <3>8
  <2> QED
    BY <2>5, <2>6
<1> QED
  BY <1>2, <1>3 DEF Modem

-----------------------------------------------------------------------------
(* Nothing twice and nothing out of order.                                 *)
LEMMA InitOrder == Init => OrderInv
<1> SUFFICES ASSUME Init PROVE OrderInv
  OBVIOUS
<1>1. LinkInv /\ Types
  BY InitInv DEF LinkInv
<1>2. /\ pc = "rest" /\ op = "none" /\ phase = "offline" /\ pop = "no" /\ cmds = <<>> /\ wire = <<>>
      /\ open = FALSE /\ out = {} /\ received = <<>> /\ earlier = {} /\ head = 0 /\ tail = 0
  BY DEF Init
<1>3. DOMAIN cmds = {} /\ DOMAIN received = {} /\ received \in Seq(Symbols)
  BY <1>2
<1>4. DOMAIN Coming = {}
  <2>1. Kept(buf, 0, 0) = <<>>
    <3>1. Gap(0, 0) = 0
      BY DEF Gap
    <3> QED
      BY <3>1 DEF Kept
  <2>2. Coming = <<>> \o <<>>
    BY <1>2, <2>1 DEF Coming, Unread, From
  <2> QED
    BY <2>2
<1>5. FlowOK
  BY <1>2 DEF FlowOK
<1>6. ~InSession
  BY <1>2 DEF InSession
<1>7. Modems
  BY <1>2, <1>3, <1>4 DEF Modems, Prompts, Openings, Closings, Connections, Unused, Queued
<1>8. History
  BY <1>2, <1>3 DEF History
<1> QED
  BY <1>1, <1>5, <1>6, <1>7, <1>8 DEF OrderInv, Orderly

LEMMA NextOrder == ASSUME OrderInv, [Next]_vars PROVE OrderInv'
<1>1. Types /\ PopOK /\ FlowOK /\ LinkInv' /\ FlowOK'
  BY NextInv, FlowNext DEF OrderInv, LinkInv
<1>2. CASE Readers \/ Movers \/ Disconnect \/ UNCHANGED vars
  <2> SUFFICES ASSUME ~misled', ~fooled' PROVE Orderly'
    BY <1>1 DEF OrderInv
  <2>1. Reading
    BY <1>1, <1>2, ReadingSteps
  <2>2. Orderly
    BY <2>1 DEF OrderInv, Reading
  <2>3. Modems'
    <3>1. /\ pc' = "payload" => pc = "payload" \/ (Compare /\ byte.is = "prompt")
          /\ Closing' => Closing \/ misled'
      BY <1>1, <1>2, FlowSteps
    <3> QED
      BY <1>1, <2>1, <2>2, <3>1, ReadingModems DEF Orderly
  <2>4. History'
    BY <1>1, <1>2, <2>1, <2>2, ReadingHistory
  <2>5. InSession' /\ ~mistaken' => Session'
    BY <1>1, <1>2, <2>2, ReadingSession
  <2> QED
    BY <2>3, <2>4, <2>5 DEF Orderly
<1>3. CASE Writers
  <2> SUFFICES ASSUME ~misled', ~fooled' PROVE Orderly'
    BY <1>1 DEF OrderInv
  <2>1. UNCHANGED <<misled, mistaken>> /\ (InSession' <=> InSession) /\ ~fooled
    BY <1>1, <1>3, WritersFacts
  <2>2. Modems /\ History /\ (InSession /\ ~mistaken => Session)
    BY <2>1 DEF OrderInv, Orderly
  <2>3. Modems' /\ History'
    BY <1>1, <1>3, <2>2, WritersModems, WritersHistory
  <2>4. InSession' /\ ~mistaken' => Session'
    BY <1>1, <1>3, <2>1, <2>2, WritersSession
  <2> QED
    BY <2>3, <2>4 DEF Orderly
<1>4. CASE Modem
  <2> SUFFICES ASSUME ~misled', ~fooled' PROVE Orderly'
    BY <1>1 DEF OrderInv
  <2>1. mistaken' = mistaken /\ (InSession' <=> InSession) /\ ~misled /\ ~fooled
    BY <1>4, ModemFacts
  <2>2. Modems /\ History /\ (InSession /\ ~mistaken => Session)
    BY <2>1 DEF OrderInv, Orderly
  <2>3. Modems' /\ History'
    BY <1>1, <1>4, <2>2, ModemModems, ModemHistory
  <2>4. InSession' /\ ~mistaken' => Session'
    BY <1>1, <1>4, <2>1, <2>2, ModemSession
  <2> QED
    BY <2>3, <2>4 DEF Orderly
<1> QED
  BY <1>2, <1>3, <1>4, NextGroups

LEMMA OrderInvariance == Spec => []OrderInv
BY InitOrder, NextOrder, PTL DEF Spec

(* What has been returned came before what is to come. *)
LEMMA ReceivedArrived ==
  ASSUME Types, History
  PROVE  \A i \in DOMAIN received : i \in DOMAIN Arrived /\ Arrived[i] = received[i]
<1>1. Coming \in Seq(Symbols) /\ received \in Seq(Symbols)
  BY ComingType DEF History
<1> QED
  BY <1>1, ConcatFacts DEF Arrived

(* Whatever is lost, esp01_recv returns nothing twice, nothing out of      *)
(* order and nothing of an earlier connection (l.1182-1251), unless two    *)
(* overruns came between the two accesses of ring_pop to the oldest byte   *)
(* (l.141).                                                                *)
THEOREM NothingTwice == Spec => []InOrderOnce
<1>1. OrderInv => InOrderOnce
  <2> SUFFICES ASSUME OrderInv, ~misled, ~mistaken, ~fooled PROVE InOrderOnce
    BY DEF InOrderOnce
  <2>1. Types /\ History /\ (InSession => Session)
    BY DEF OrderInv, LinkInv, Orderly
  <2>2. CASE received = <<>>
    BY <2>2 DEF InOrderOnce
  <2>3. CASE received # <<>>
    <3>1. Session
      BY <2>1, <2>3 DEF History
    <3>2. \A i \in DOMAIN received : i \in DOMAIN Arrived /\ Arrived[i] = received[i]
      BY <2>1, ReceivedArrived
    <3> QED
      BY <3>1, <3>2 DEF Session, IsData, InOrderOnce
  <2> QED
    BY <2>2, <2>3
<1> QED
  BY <1>1, OrderInvariance, PTL

-----------------------------------------------------------------------------
(* How the state machine of esp01_recv reads a sequence of symbols: where  *)
(* it is, what remains of the payload and how much it has returned.        *)
Marks == [at : {"idle", "header", "payload"}, left : Nat, got : Nat]
Mark(a, l, g) == [at |-> a, left |-> l, got |-> g]
Takes(c, m, s, next) ==
  \/ /\ m.at = "idle" /\ s.is \notin {"length", "data"}
     /\ next = Mark(IF s.is = "plus" THEN "header" ELSE "idle", 0, m.got)
  \/ /\ m.at = "header" /\ s.is = "length"
     /\ next = Mark("payload", s.n, m.got)
  \/ /\ m.at = "payload" /\ s = Data(c, m.got + 1)
     /\ next = Mark(IF m.left = 1 THEN "idle" ELSE "payload", m.left - 1, m.got + 1)

(* q takes it from a to b, byte by byte of what connection c has sent.     *)
Marked(q, c, a, b, p) ==
  /\ p[1] = a /\ p[Len(q) + 1] = b
  /\ \A i \in 1 .. Len(q) : Takes(c, p[i], q[i], p[i + 1])
  /\ \A i \in 1 .. Len(q) + 1 : p[i].got <= b.got
Takeable(q, c, a, b) == \E p \in [1 .. Len(q) + 1 -> Marks] : Marked(q, c, a, b, p)

(* The first symbol and the rest of them. *)
LEMMA TakeFirst ==
  ASSUME NEW q \in Seq(Symbols), NEW s \in Symbols, NEW c, NEW a, NEW b,
         Takeable(<<s>> \o q, c, a, b)
  PROVE  \E m \in Marks : Takes(c, a, s, m) /\ Takeable(q, c, m, b)
                          /\ a \in Marks /\ b \in Marks /\ m.got <= b.got
<1> DEFINE r == <<s>> \o q
           n == Len(q)
<1>1. n \in Nat /\ r \in Seq(Symbols) /\ Len(r) = n + 1 /\ r[1] = s /\ \A i \in 1 .. n : r[i + 1] = q[i]
  OBVIOUS
<1> HIDE DEF r
<1>2. PICK p \in [1 .. Len(r) + 1 -> Marks] : Marked(r, c, a, b, p)
  BY DEF Takeable, r
<1> DEFINE o == [i \in 1 .. n + 1 |-> p[i + 1]]
<1>3. o \in [1 .. n + 1 -> Marks]
  BY <1>1
<1>4. /\ p[1] = a /\ p[n + 2] = b /\ p[1] \in Marks /\ p[2] \in Marks /\ p[n + 2] \in Marks
      /\ \A i \in 1 .. n + 1 : Takes(c, p[i], r[i], p[i + 1])
      /\ \A i \in 1 .. n + 2 : p[i].got <= b.got
  <2>1. Len(r) = n + 1 /\ Len(r) + 1 = n + 2
    BY <1>1
  <2>2. p \in [1 .. n + 2 -> Marks] /\ 1 \in 1 .. n + 2 /\ 2 \in 1 .. n + 2 /\ n + 2 \in 1 .. n + 2
    BY <1>1, <2>1
  <2> QED
    BY <1>2, <2>1, <2>2 DEF Marked
<1>5. o[1] = p[2] /\ o[n + 1] = b /\ \A i \in 1 .. n + 1 : o[i] = p[i + 1] /\ i + 1 \in 1 .. n + 2
  BY <1>1, <1>4
<1>6. \A i \in 1 .. n : Takes(c, o[i], q[i], o[i + 1])
  <2> SUFFICES ASSUME NEW i \in 1 .. n PROVE Takes(c, o[i], q[i], o[i + 1])
    OBVIOUS
  <2>1. i \in 1 .. n + 1 /\ i + 1 \in 1 .. n + 1 /\ o[i] = p[i + 1] /\ o[i + 1] = p[(i + 1) + 1]
    BY <1>1, <1>5
  <2> QED
    BY <1>1, <1>4, <2>1
<1>7. Marked(q, c, p[2], b, o)
  BY <1>4, <1>5, <1>6 DEF Marked
<1>8. Takes(c, a, s, p[2]) /\ p[2].got <= b.got
  <2>1. 1 \in 1 .. n + 1 /\ 2 \in 1 .. n + 2 /\ 1 + 1 = 2
    BY <1>1
  <2> QED
    BY <1>1, <1>4, <2>1
<1> HIDE DEF o
<1>9. Takeable(q, c, p[2], b)
  BY <1>3, <1>7 DEF Takeable
<1> QED
  BY <1>4, <1>8, <1>9

(* One sequence and another one behind it. *)
LEMMA TakeOn ==
  ASSUME NEW q \in Seq(Symbols), NEW r \in Seq(Symbols), NEW c, NEW a, NEW m, NEW b,
         Takeable(q, c, a, m), Takeable(r, c, m, b)
  PROVE  Takeable(q \o r, c, a, b)
<1> DEFINE t == q \o r
           k == Len(q)
           n == Len(r)
<1>1. /\ k \in Nat /\ n \in Nat /\ Len(t) = k + n
      /\ \A i \in 1 .. k : t[i] = q[i]
      /\ \A i \in 1 .. n : t[k + i] = r[i]
  OBVIOUS
<1> HIDE DEF t, k, n
<1>2. PICK p \in [1 .. k + 1 -> Marks] : Marked(q, c, a, m, p)
  BY DEF Takeable, k
<1>3. PICK o \in [1 .. n + 1 -> Marks] : Marked(r, c, m, b, o)
  BY DEF Takeable, n
<1> DEFINE w == [i \in 1 .. k + n + 1 |-> IF i <= k THEN p[i] ELSE o[i - k]]
<1>4. w \in [1 .. k + n + 1 -> Marks]
  <2>1. \A i \in 1 .. k + n + 1 : IF i <= k THEN i \in 1 .. k + 1 ELSE i - k \in 1 .. n + 1
    BY <1>1
  <2> QED
    BY <2>1
<1>5. /\ p[1] = a /\ p[k + 1] = m /\ \A i \in 1 .. k : Takes(c, p[i], q[i], p[i + 1])
      /\ \A i \in 1 .. k + 1 : p[i].got <= m.got
      /\ o[1] = m /\ o[n + 1] = b /\ \A i \in 1 .. n : Takes(c, o[i], r[i], o[i + 1])
      /\ \A i \in 1 .. n + 1 : o[i].got <= b.got
  BY <1>2, <1>3 DEF Marked, k, n
<1>6. /\ \A i \in 1 .. k : w[i] = p[i]
      /\ w[k + 1] = p[k + 1]
      /\ \A i \in 1 .. n + 1 : w[k + i] = o[i]
  <2>1. \A i \in 1 .. k : w[i] = p[i]
    BY <1>1
  <2>2. \A i \in 1 .. n + 1 : w[k + i] = o[i]
    <3> SUFFICES ASSUME NEW i \in 1 .. n + 1 PROVE w[k + i] = o[i]
      OBVIOUS
    <3>1. k + i \in 1 .. k + n + 1 /\ ~(k + i <= k) /\ (k + i) - k = i
      BY <1>1
    <3> QED
      BY <3>1
  <2>3. 1 \in 1 .. n + 1
    BY <1>1
  <2> QED
    BY <1>5, <2>1, <2>2, <2>3
<1> HIDE DEF w
<1>7. w[1] = a /\ w[(k + n) + 1] = b
  <2>1. w[(k + n) + 1] = b
    <3>1. n + 1 \in 1 .. n + 1 /\ k + (n + 1) = (k + n) + 1
      BY <1>1
    <3> QED
      BY <1>5, <1>6, <3>1
  <2>2. w[1] = a
    <3>1. CASE k = 0
      BY <1>5, <1>6, <3>1
    <3>2. CASE k # 0
      <4>1. 1 \in 1 .. k
        BY <1>1, <3>2
      <4> QED
        BY <1>5, <1>6, <4>1
    <3> QED
      BY <3>1, <3>2
  <2> QED
    BY <2>1, <2>2
<1>8. ASSUME NEW i \in 1 .. k + n PROVE Takes(c, w[i], t[i], w[i + 1])
  <2>1. CASE i <= k
    <3>1. i \in 1 .. k /\ (i + 1 \in 1 .. k \/ i + 1 = k + 1)
      BY <1>1, <2>1
    <3>2. w[i] = p[i] /\ w[i + 1] = p[i + 1] /\ t[i] = q[i]
      BY <1>1, <1>6, <3>1
    <3> QED
      BY <1>5, <3>1, <3>2
  <2>2. CASE ~(i <= k)
    <3> DEFINE j == i - k
    <3>1. j \in 1 .. n /\ j \in 1 .. n + 1 /\ j + 1 \in 1 .. n + 1 /\ k + j = i /\ k + (j + 1) = i + 1
      BY <1>1, <2>2
    <3> HIDE DEF j
    <3>2. w[i] = o[j] /\ w[i + 1] = o[j + 1] /\ t[i] = r[j]
      <4>1. w[k + j] = o[j] /\ w[k + (j + 1)] = o[j + 1] /\ t[k + j] = r[j]
        BY <1>1, <1>6, <3>1
      <4> QED
        BY <3>1, <4>1
    <3> QED
      BY <1>5, <3>1, <3>2
  <2> QED
    BY <2>1, <2>2
<1>9. ASSUME NEW i \in 1 .. k + n + 1 PROVE w[i].got <= b.got
  <2>1. m.got <= b.got /\ m \in Marks /\ b \in Marks
    <3>1. 1 \in 1 .. n + 1 /\ n + 1 \in 1 .. n + 1
      BY <1>1
    <3> QED
      BY <1>3, <1>5, <3>1
  <2>2. CASE i <= k
    <3>1. i \in 1 .. k /\ i \in 1 .. k + 1
      BY <1>1, <2>2
    <3>2. w[i] = p[i] /\ p[i] \in Marks /\ p[i].got <= m.got
      BY <1>2, <1>5, <1>6, <3>1
    <3> QED
      BY <2>1, <3>2 DEF Marks
  <2>3. CASE ~(i <= k)
    <3>1. i - k \in 1 .. n + 1 /\ k + (i - k) = i
      BY <1>1, <2>3
    <3> QED
      BY <1>5, <1>6, <3>1
  <2> QED
    BY <2>2, <2>3
<1>10. Marked(t, c, a, b, w)
  BY <1>1, <1>7, <1>8, <1>9 DEF Marked
<1>11. Takeable(t, c, a, b)
  BY <1>1, <1>4, <1>10 DEF Takeable
<1> QED
  BY <1>11 DEF t

(* Answers are passed over.                                                *)
LEMMA TakeAnswers ==
  ASSUME NEW q \in Seq(Symbols), NEW c, NEW g \in Nat, \A i \in DOMAIN q : ~IsFrame(q[i])
  PROVE  Takeable(q, c, Mark("idle", 0, g), Mark("idle", 0, g))
<1> DEFINE a == Mark("idle", 0, g)
           p == [i \in 1 .. Len(q) + 1 |-> a]
<1>1. a \in Marks /\ a.at = "idle" /\ a.left = 0 /\ a.got = g
  BY DEF Marks, Mark
<1>2. Len(q) \in Nat /\ DOMAIN q = 1 .. Len(q)
  OBVIOUS
<1>3. \A i \in 1 .. Len(q) : i \in 1 .. Len(q) + 1 /\ i + 1 \in 1 .. Len(q) + 1
  BY <1>2
<1>4. \A i \in 1 .. Len(q) : Takes(c, a, q[i], a)
  BY <1>1, <1>2 DEF Takes, IsFrame
<1>5. p \in [1 .. Len(q) + 1 -> Marks] /\ 1 \in 1 .. Len(q) + 1 /\ Len(q) + 1 \in 1 .. Len(q) + 1
  BY <1>1, <1>2
<1> HIDE DEF a
<1>6. Marked(q, c, a, a, p)
  BY <1>1, <1>3, <1>4, <1>5 DEF Marked
<1>7. Takeable(q, c, a, a)
  BY <1>5, <1>6 DEF Takeable
<1> QED
  BY <1>7 DEF a

(* A segment goes from where one ended to its own end.                     *)
LEMMA TakeSegment ==
  ASSUME NEW c, NEW g \in Nat, NEW n \in Nat \ {0}, NEW q \in Seq(Symbols), Len(q) = n + 2,
         q[1].is = "plus", q[2].is = "length", q[2].n = n,
         \A i \in 1 .. n : q[i + 2] = Data(c, g + i)
  PROVE  Takeable(q, c, Mark("idle", 0, g), Mark("idle", 0, g + n))
<1> DEFINE p == [i \in 1 .. n + 3 |-> IF i = 1 THEN Mark("idle", 0, g)
                                      ELSE IF i = 2 THEN Mark("header", 0, g)
                                      ELSE IF i = n + 3 THEN Mark("idle", 0, g + n)
                                      ELSE Mark("payload", n + 3 - i, g + (i - 3))]
<1>1. /\ p[1] = Mark("idle", 0, g) /\ p[2] = Mark("header", 0, g) /\ p[3] = Mark("payload", n, g)
      /\ p[n + 3] = Mark("idle", 0, g + n)
  OBVIOUS
<1>2. \A i \in 1 .. n : p[i + 2] = Mark("payload", n - i + 1, g + (i - 1))
  <2> SUFFICES ASSUME NEW i \in 1 .. n PROVE p[i + 2] = Mark("payload", n - i + 1, g + (i - 1))
    OBVIOUS
  <2>1. /\ i + 2 \in 1 .. n + 3 /\ i + 2 # 1 /\ i + 2 # 2 /\ i + 2 # n + 3
        /\ n + 3 - (i + 2) = n - i + 1 /\ (i + 2) - 3 = i - 1
    OBVIOUS
  <2> QED
    BY <2>1
<1> HIDE DEF p
<1>3. \A i \in 1 .. n + 3 : i = 1 \/ i = 2 \/ i = n + 3 \/ (i - 2 \in 1 .. n /\ (i - 2) + 2 = i)
  OBVIOUS
<1>4. ASSUME NEW i \in 1 .. n + 3 PROVE p[i] \in Marks /\ p[i].got <= g + n
  <2>1. CASE i \in {1, 2, n + 3}
    BY <1>1, <2>1 DEF Mark, Marks
  <2>2. CASE i - 2 \in 1 .. n /\ (i - 2) + 2 = i
    <3> DEFINE j == i - 2
    <3>1. j \in 1 .. n /\ p[i] = Mark("payload", n - j + 1, g + (j - 1))
      BY <1>2, <2>2
    <3> HIDE DEF j
    <3>2. n - j + 1 \in Nat /\ g + (j - 1) \in Nat /\ g + (j - 1) <= g + n
      BY <3>1
    <3> QED
      BY <3>1, <3>2 DEF Mark, Marks
  <2> QED
    BY <1>3, <2>1, <2>2
<1>5. ASSUME NEW i \in 1 .. n + 2 PROVE Takes(c, p[i], q[i], p[i + 1])
  <2>1. i = 1 \/ i = 2 \/ (i - 2 \in 1 .. n /\ (i - 2) + 2 = i)
    OBVIOUS
  <2>2. CASE i = 1
    BY <1>1, <2>2 DEF Takes, Mark
  <2>3. CASE i = 2
    BY <1>1, <2>3 DEF Takes, Mark
  <2>4. CASE i - 2 \in 1 .. n /\ (i - 2) + 2 = i
    <3> DEFINE j == i - 2
    <3>1. j \in 1 .. n /\ i = j + 2 /\ i + 1 = j + 3
      BY <2>4
    <3> HIDE DEF j
    <3>2. p[i] = Mark("payload", n - j + 1, g + (j - 1)) /\ q[i] = Data(c, g + j)
      BY <1>2, <3>1
    <3>3. p[i + 1] = Mark(IF n - j + 1 = 1 THEN "idle" ELSE "payload", (n - j + 1) - 1, (g + (j - 1)) + 1)
      <4>1. CASE j = n
        <5>1. i + 1 = n + 3 /\ n - j + 1 = 1 /\ (n - j + 1) - 1 = 0 /\ (g + (j - 1)) + 1 = g + n
          BY <3>1, <4>1
        <5> QED
          BY <1>1, <5>1
      <4>2. CASE j # n
        <5>1. /\ j + 1 \in 1 .. n /\ i + 1 = (j + 1) + 2 /\ n - j + 1 # 1
              /\ n - (j + 1) + 1 = (n - j + 1) - 1 /\ g + ((j + 1) - 1) = (g + (j - 1)) + 1
          BY <3>1, <4>2
        <5>2. p[(j + 1) + 2] = Mark("payload", n - (j + 1) + 1, g + ((j + 1) - 1))
          BY <1>2, <5>1
        <5> QED
          BY <5>1, <5>2
      <4> QED
        BY <4>1, <4>2
    <3>4. (g + (j - 1)) + 1 = g + j
      BY <3>1
    <3> DEFINE l == n - j + 1
               h == g + (j - 1)
    <3>5. /\ p[i].at = "payload" /\ p[i].left = l /\ p[i].got = h
          /\ q[i] = Data(c, h + 1)
          /\ p[i + 1] = Mark(IF l = 1 THEN "idle" ELSE "payload", l - 1, h + 1)
      BY <3>2, <3>3, <3>4 DEF Mark
    <3> HIDE DEF l, h
    <3> QED
      BY <3>5 DEF Takes
  <2> QED
    BY <2>1, <2>2, <2>3, <2>4
<1>6. p \in [1 .. n + 3 -> Marks]
  <2>1. p = [i \in 1 .. n + 3 |-> p[i]]
    BY DEF p
  <2> QED
    BY <1>4, <2>1
<1>7. Len(q) + 1 = n + 3 /\ Mark("idle", 0, g + n).got = g + n
  BY DEF Mark
<1>8. Marked(q, c, Mark("idle", 0, g), Mark("idle", 0, g + n), p)
  BY <1>1, <1>4, <1>5, <1>7 DEF Marked
<1> QED
  BY <1>6, <1>7, <1>8 DEF Takeable

(* Where there is no data the connection does not matter.                  *)
LEMMA TakeOther ==
  ASSUME NEW q \in Seq(Symbols), NEW c, NEW d, NEW a, NEW b, Takeable(q, c, a, b),
         \A i \in DOMAIN q : ~IsData(q[i])
  PROVE  Takeable(q, d, a, b)
<1>1. PICK p \in [1 .. Len(q) + 1 -> Marks] : Marked(q, c, a, b, p)
  BY DEF Takeable
<1>2. \A i \in 1 .. Len(q) : i \in DOMAIN q
  OBVIOUS
<1>3. \A k : IsData(Data(c, k))
  BY DEF Data, Symbol, IsData
<1>4. \A i \in 1 .. Len(q) : Takes(d, p[i], q[i], p[i + 1])
  BY <1>1, <1>2, <1>3 DEF Marked, Takes
<1>5. Marked(q, d, a, b, p)
  BY <1>1, <1>4 DEF Marked
<1> QED
  BY <1>5 DEF Takeable

-----------------------------------------------------------------------------
(* What esp01_recv will return, as long as nothing is lost.                *)
Receiving == phase = "online" /\ op # "close"
Opening   == InSession /\ phase = "offline"

(* The state machine as it will find itself.                               *)
Where == Mark(IF resetReq THEN "idle" ELSE state, IF resetReq THEN 0 ELSE remain, Len(received))
End   == Mark("idle", 0, sent)
Expected ==
  /\ Takeable(Coming, conn, Where, End)
  /\ sent > 0 /\ received = <<>> => \E i \in DOMAIN Coming : IsData(Coming[i])
Clean == Len(received) <= sent /\ received = [i \in DOMAIN received |-> Data(conn, i)]
Fresh ==
  /\ out = {} /\ received = <<>> /\ ~Queued("packet")
  /\ \A i \in DOMAIN Coming : ~IsFrame(Coming[i])
Intact ==
  /\ Opening => Fresh
  /\ InSession /\ ~lost => Clean
  /\ Receiving /\ ~lost => Expected
Requests ==
  /\ out = {} => sent = 0
  /\ pc = "recv" => resetReq = FALSE
  /\ pc = "opened" => resetReq = TRUE
StreamInv == OrderInv /\ Requests /\ (~misled /\ ~mistaken /\ ~fooled => Intact)

LEMMA RequestsNext == ASSUME Types, Requests, [Next]_vars PROVE Requests'
<1>1. out' = {} => sent' = 0
  <2>1. CASE UNCHANGED <<out, sent>>
    BY <2>1 DEF Requests
  <2>2. CASE TakePayload
    BY <2>2 DEF TakePayload, Requests
  <2>3. CASE CipStart
    BY <2>3 DEF CipStart, Requests
  <2>4. CASE Segment
    BY <2>4 DEF Segment
  <2>5. CASE [Next]_vars /\ ~TakePayload /\ ~CipStart /\ ~Segment
    <3>1. UNCHANGED <<out, sent>>
      BY <2>5 DEF Next, Interrupt, PopIndex, PopByte, PopTail, Drop, Parse, Compare, Connect, Disconnect,
         DrainEnds, SendStart, SendPayload, TransmitFails, Flush, Opened, WaitTimesOut, QuietEnds,
         RecvStart, RecvEmpty, CipSend, CipClose, LinkLost, modem, modemButCmds, vars
    <3> QED
      BY <2>1, <3>1
  <2> QED
    BY <2>2, <2>3, <2>4, <2>5
<1>2. (pc' = "recv" => resetReq' = FALSE) /\ (pc' = "opened" => resetReq' = TRUE)
  <2>1. CASE RecvStart
    <3>1. pc = "rest" /\ (pc' = pc \/ (resetReq' = FALSE /\ pc' \in {"rest", "recv"}))
      BY <2>1 DEF RecvStart
    <3> QED
      BY <3>1
  <2>2. CASE Flush
    BY <2>2 DEF Flush, RequestReset
  <2>3. CASE [Next]_vars /\ ~RecvStart /\ ~Flush
    <3>1. resetReq' = resetReq
      BY <2>3 DEF Next, Interrupt, PopIndex, PopByte, PopTail, Drop, Parse, Compare, Connect, Disconnect,
         DrainEnds, SendStart, SendPayload, TransmitFails, Opened, WaitTimesOut, QuietEnds,
         RecvEmpty, TakePayload, CipSend, CipStart, CipClose, Segment, LinkLost, driver, vars
    <3>2. pc' \in {"recv", "opened"} => pc' = pc
      <4>1. CASE Compare
        <5>1. /\ op \in {"none", "start", "startOk", "close", "prompt", "sendok"}
              /\ pc = "await" => op # "none"
          BY DEF Types, FlowTypes
        <5> QED
          BY <4>1, <5>1 DEF Compare, Succeeded, Await, Rest, loop
      <4>2. CASE WaitTimesOut
        BY <4>2 DEF WaitTimesOut, Rest
      <4>3. CASE Interrupt \/ PopIndex \/ PopByte \/ PopTail \/ Drop \/ Modem \/ UNCHANGED vars
        BY <4>3 DEF Interrupt, PopIndex, PopByte, PopTail, Drop, Modem, TakePayload, CipSend, CipStart, CipClose,
           Segment, LinkLost, driver, loop, vars
      <4>4. CASE Parse
        BY <4>4 DEF Parse, Idle, Header, Payload
      <4>5. CASE Connect \/ Disconnect \/ DrainEnds \/ SendPayload
        BY <4>5 DEF Connect, Disconnect, DrainEnds, SendPayload, Await
      <4>6. CASE SendStart
        BY <4>6 DEF SendStart, Await, loop
      <4>7. CASE TransmitFails \/ Opened \/ QuietEnds \/ RecvEmpty
        BY <4>7 DEF TransmitFails, Opened, QuietEnds, RecvEmpty, Rest
      <4> QED
        BY <2>3, <4>1, <4>2, <4>3, <4>4, <4>5, <4>6, <4>7 DEF Next, Modem
    <3> QED
      BY <3>1, <3>2 DEF Requests
  <2> QED
    BY <2>1, <2>2, <2>3
<1> QED
  BY <1>1, <1>2 DEF Requests

(* The phases of a session. *)
LEMMA SessionSteps ==
  ASSUME Types, FlowOK, Readers \/ Movers \/ UNCHANGED vars
  PROVE  /\ Opening' => \/ Opening /\ received' = received
                        \/ mistaken'
                        \/ Compare /\ op = "start" /\ byte.is \in Heralds
         /\ lost /\ ~lost' => Opened
         /\ Receiving' => Opened \/ Receiving
         /\ ~Parse => received' = received
<1>1. /\ pc \in Loops \cup {"rest", "payload", "flush", "opened"}
      /\ op \in {"none", "start", "startOk", "close", "prompt", "sendok"}
      /\ phase \in {"offline", "online", "broken"}
      /\ pc = "await" => op # "none"
      /\ pc = "drain" => op \in {"start", "close"}
      /\ lost \in BOOLEAN
  BY DEF Types, FlowTypes, FlagTypes
<1>2. /\ ~Parse => received' = received
      /\ lost /\ ~lost' => Opened
  BY <1>1 DEF Readers, Movers, Interrupt, PopIndex, PopByte, PopTail, Drop, Compare, Discarded, Parse, Connect,
     WaitTimesOut, QuietEnds, Opened, RecvStart, RecvEmpty, TransmitFails, Flush, vars, hist, stream
<1>3. Receiving' => Opened \/ Receiving
  <2>1. CASE Interrupt \/ PopIndex \/ PopByte \/ PopTail \/ Drop \/ Parse \/ RecvEmpty \/ UNCHANGED vars
    <3>1. UNCHANGED <<op, phase>>
      BY <2>1 DEF Interrupt, PopIndex, PopByte, PopTail, Drop, Parse, RecvEmpty, vars, loop
    <3> QED
      BY <3>1 DEF Receiving
  <2>2. CASE Compare
    <3>1. phase' = "online" => phase = "online" /\ (op' # "close" => op # "close")
      BY <1>1, <2>2 DEF Compare, Succeeded, Await, Rest, loop
    <3> QED
      BY <3>1 DEF Receiving
  <2>3. CASE WaitTimesOut
    <3>1. phase' = "online" => phase = "online" /\ op # "close"
      BY <1>1, <2>3 DEF WaitTimesOut, NotConfirmed
    <3> QED
      BY <3>1 DEF Receiving
  <2>4. CASE QuietEnds \/ TransmitFails \/ Connect \/ Flush \/ RecvStart
    <3>1. phase' = "online" => phase = "online" /\ op = "none"
      BY <2>4 DEF QuietEnds, TransmitFails, Connect, Flush, RecvStart, FlowOK
    <3> QED
      BY <3>1 DEF Receiving
  <2> QED
    BY <2>1, <2>2, <2>3, <2>4 DEF Readers, Movers
<1>4. ASSUME Opening'
      PROVE  \/ Opening /\ received' = received
             \/ mistaken'
             \/ Compare /\ op = "start" /\ byte.is \in Heralds
  <2>1. InSession' /\ phase' = "offline"
    BY <1>4 DEF Opening
  <2>2. InSession \/ mistaken' \/ (Compare /\ op = "start" /\ byte.is \in Heralds)
    BY <2>1, FlowSteps DEF Heralds
  <2>3. phase = "offline"
    <3>1. pc' # "rest"
      BY <2>1, FlowNext, NextGroups DEF InSession, FlowOK
    <3>2. CASE Compare
      BY <1>1, <2>1, <3>1, <3>2 DEF Compare, Succeeded, Await, Rest, loop
    <3>3. CASE ~Compare
      BY <1>1, <2>1, <3>1, <3>3 DEF Readers, Movers, Interrupt, PopIndex, PopByte, PopTail, Drop, Parse, Connect,
         WaitTimesOut, NotConfirmed, QuietEnds, Opened, RecvStart, RecvEmpty, TransmitFails, Flush,
         vars, Rest
    <3> QED
      BY <3>2, <3>3
  <2>4. received' = received
    BY <1>2, <2>3 DEF Parse, FlowOK
  <2> QED
    BY <2>1, <2>2, <2>3, <2>4 DEF Opening
<1> QED
  BY <1>2, <1>3, <1>4

LEMMA ReadingFresh ==
  ASSUME Types, PopOK, FlowOK, Orderly, Readers \/ Movers \/ UNCHANGED vars,
         ~mistaken', ~fooled', Opening', Opening => Fresh
  PROVE  Fresh'
<1>1. /\ UNCHANGED <<cmds, out>>
      /\ \A i \in DOMAIN Coming' : \E k \in DOMAIN Coming : Coming'[i] = Coming[k]
  BY ReadingSteps DEF Reading, Within
<1>2. Queued("packet")' = Queued("packet")
  BY <1>1 DEF Queued
<1>3. CASE Opening /\ received' = received
  BY <1>1, <1>2, <1>3 DEF Fresh
<1>4. CASE Compare /\ op = "start" /\ byte.is \in Heralds
  <2>1. byte.is \in Heralds
    BY <1>4
  <2>2. /\ 1 \in DOMAIN Coming /\ Coming[1] = byte
        /\ \A i \in DOMAIN Coming' : 1 + i \in DOMAIN Coming /\ Coming[1 + i] = Coming'[i] /\ 1 < 1 + i
    BY <1>4, StoreSplits DEF Compare, modem
  <2>3. received' = <<>>
    BY <1>4 DEF Orderly, History, Compare, InSession, FlowOK
  <2>4. out = {} /\ \A i \in DOMAIN Coming' : ~IsFrame(Coming'[i])
    BY <2>1, <2>2 DEF Orderly, Modems, Openings
  <2>5. ~Queued("packet")
    BY <2>1, <2>2 DEF Orderly, Modems, Prompts
  <2> QED
    BY <1>1, <1>2, <2>3, <2>4, <2>5 DEF Fresh
<1> QED
  BY <1>3, <1>4, SessionSteps

LEMMA WritersIntact ==
  ASSUME Types, FlowOK, Writers, Intact PROVE Intact'
<1>1. /\ UNCHANGED <<conn, sent, received>> /\ Coming' = Coming
      /\ (InSession' <=> InSession)
  BY WritersFacts
<1>2. UNCHANGED <<state, remain, resetReq, lost>>
  BY DEF Writers, DrainEnds, SendStart, SendPayload, recvVars, hist, stream
<1>3. ~Opening' /\ (Receiving' => Receiving)
  <2>1. CASE DrainEnds
    <3>1. /\ op \in {"start", "close"} /\ op' = op /\ phase' = phase /\ pc' = "await"
      BY <2>1 DEF DrainEnds, Await, Types, FlowTypes
    <3> QED
      BY <3>1 DEF FlowOK, Opening, InSession, Receiving
  <2>2. CASE SendStart \/ SendPayload
    <3>1. phase = "online" /\ op = "none" /\ phase' # "offline"
      BY <2>2 DEF SendStart, SendPayload, FlowOK
    <3> QED
      BY <3>1 DEF Opening, Receiving
  <2> QED
    BY <2>1, <2>2 DEF Writers
<1>4. InSession /\ ~lost => Clean'
  BY <1>1 DEF Intact, Clean
<1>5. Receiving /\ ~lost => Expected'
  BY <1>1, <1>2 DEF Intact, Expected, Where, End
<1> QED
  BY <1>1, <1>2, <1>3, <1>4, <1>5 DEF Intact

(* The ring is read. *)
LEMMA ReadingClean ==
  ASSUME Types, FlowOK, History, Intact, Readers \/ Movers \/ UNCHANGED vars, ~Parse,
         InSession', ~lost', UNCHANGED <<conn, sent>>
  PROVE  Clean'
<1>1. received' = received
  BY SessionSteps
<1>2. CASE InSession /\ ~lost
  BY <1>1, <1>2 DEF Intact, Clean
<1>3. CASE received = <<>>
  BY <1>1, <1>3 DEF Clean, Types, ModemTypes
<1>4. CASE InSession /\ lost
  <2>1. Opened
    BY <1>4, SessionSteps
  <2>2. Opening
    BY <1>4, <2>1 DEF Opened, Opening, FlowOK
  <2> QED
    BY <1>3, <2>2 DEF Intact, Fresh
<1> QED
  BY <1>2, <1>3, <1>4 DEF History

LEMMA OpenedExpected ==
  ASSUME Types, FlowOK, Requests, Intact, Opened PROVE Expected'
<1>1. /\ UNCHANGED <<conn, sent, received, resetReq>> /\ Coming' = Coming /\ pc = "opened"
      /\ pc = "opened" => Opening
  BY SameComing DEF Opened, ring, popVars, modem, Opening, InSession, FlowOK
<1>2. /\ received = <<>> /\ sent = 0 /\ resetReq = TRUE
      /\ \A i \in DOMAIN Coming : ~IsFrame(Coming[i])
  BY <1>1 DEF Intact, Fresh, Requests
<1>3. Takeable(Coming, conn, Mark("idle", 0, 0), Mark("idle", 0, 0))
  BY <1>2, ComingType, TakeAnswers
<1>4. Where' = Mark("idle", 0, 0) /\ End' = Mark("idle", 0, 0)
  BY <1>1, <1>2 DEF Where, End
<1> QED
  BY <1>1, <1>2, <1>3, <1>4 DEF Expected

LEMMA SkipExpected ==
  ASSUME Types, Drop \/ Compare, Receiving, ~lost', Expected PROVE Expected'
<1>1. /\ UNCHANGED <<conn, sent, received, resetReq, state, remain>>
      /\ Coming = <<byte>> \o Coming' /\ Coming' \in Seq(Symbols) /\ byte \in Symbols
      /\ \A i \in DOMAIN Coming : i # 1 => i - 1 \in DOMAIN Coming' /\ Coming'[i - 1] = Coming[i]
      /\ Coming[1] = byte
  BY StoreSplits DEF Drop, Compare, modem, recvVars
<1>2. ~IsFrame(byte)
  BY DEF Drop, Compare, Discarded, Receiving
<1>3. PICK m \in Marks : Takes(conn, Where, byte, m) /\ Takeable(Coming', conn, m, End)
  BY <1>1, TakeFirst DEF Expected
<1>4. m = Where
  <2>1. Where.at = "idle" /\ m = Mark("idle", 0, Where.got)
    BY <1>2, <1>3 DEF Takes, IsFrame, Data, Symbol
  <2>2. Where = Mark("idle", 0, Where.got)
    BY <2>1 DEF Where, Mark, Types, RecvTypes
  <2> QED
    BY <2>1, <2>2
<1>5. sent > 0 /\ received = <<>> => \E i \in DOMAIN Coming' : IsData(Coming'[i])
  BY <1>1, <1>2 DEF Expected, IsData, IsFrame
<1>6. Where' = Where /\ End' = End
  BY <1>1 DEF Where, End
<1> QED
  BY <1>1, <1>3, <1>4, <1>5, <1>6 DEF Expected

LEMMA ParseIntact ==
  ASSUME Types, FlowOK, Requests, Parse, ~lost, received \in Seq(Symbols), Clean, Expected
  PROVE  Clean' /\ Expected'
<1>1. /\ UNCHANGED <<conn, sent, resetReq>> /\ resetReq = FALSE
      /\ Coming = <<byte>> \o Coming' /\ Coming' \in Seq(Symbols) /\ byte \in Symbols
      /\ \A i \in DOMAIN Coming : i # 1 => i - 1 \in DOMAIN Coming' /\ Coming'[i - 1] = Coming[i]
      /\ Coming[1] = byte
  BY StoreSplits DEF Parse, modem, Requests
<1>2. PICK m \in Marks : /\ Takes(conn, Where, byte, m) /\ Takeable(Coming', conn, m, End)
                         /\ m.got <= End.got
  BY <1>1, TakeFirst DEF Expected
<1>3. /\ Where = Mark(state, remain, Len(received)) /\ Where' = Mark(state', remain', Len(received'))
      /\ End' = End
  BY <1>1 DEF Where, End
<1>4. /\ Where.at = state /\ Where.left = remain /\ Where.got = Len(received) /\ End.got = sent
  BY <1>3 DEF Mark, End
<1>5. CASE Idle
  <2>1. state = "idle" /\ remain = 0 /\ UNCHANGED <<remain, received>>
        /\ state' = IF byte.is = "plus" THEN "header" ELSE "idle"
    BY <1>5 DEF Idle, Types, RecvTypes
  <2>2. m = Where' /\ byte.is # "data"
    BY <1>2, <1>3, <1>4, <2>1 DEF Takes
  <2> QED
    BY <1>1, <1>2, <1>3, <2>1, <2>2 DEF Expected, Clean, IsData
<1>6. CASE Header
  <2>1. state = "header" /\ received' = received
    BY <1>6 DEF Header
  <2>2. byte.is = "length" /\ m = Mark("payload", byte.n, Len(received))
    BY <1>2, <1>4, <2>1 DEF Takes
  <2>3. m = Where'
    BY <1>3, <1>6, <2>1, <2>2 DEF Header
  <2> QED
    BY <1>1, <1>2, <1>3, <2>1, <2>2, <2>3 DEF Expected, Clean, IsData
<1>7. CASE Payload
  <2>1. /\ state = "payload" /\ received' = Append(received, byte) /\ remain' = remain - 1
        /\ state' = IF remain = 1 THEN "idle" ELSE "payload"
    BY <1>7 DEF Payload, PayloadEnds
  <2>2. /\ byte = Data(conn, Len(received) + 1)
        /\ m = Mark(IF remain = 1 THEN "idle" ELSE "payload", remain - 1, Len(received) + 1)
    BY <1>2, <1>4, <2>1 DEF Takes
  <2>3. /\ Len(received') = Len(received) + 1 /\ Len(received) \in Nat /\ received' \in Seq(Symbols)
        /\ DOMAIN received' = 1 .. Len(received) + 1
        /\ \A i \in 1 .. Len(received) : received'[i] = received[i]
        /\ received'[Len(received) + 1] = byte /\ received' # <<>>
    BY <1>1, <2>1
  <2>4. m = Where'
    BY <1>3, <2>1, <2>2, <2>3
  <2>5. Len(received') <= sent
    BY <1>2, <1>4, <2>2, <2>3 DEF Mark
  <2>6. \A i \in DOMAIN received' : received'[i] = Data(conn, i)
    <3>1. \A i \in 1 .. Len(received) : received[i] = Data(conn, i)
      BY DEF Clean
    <3>2. \A i \in DOMAIN received' : i \in 1 .. Len(received) \/ i = Len(received) + 1
      BY <2>3
    <3> QED
      BY <2>2, <2>3, <3>1, <3>2
  <2>7. received' = [i \in DOMAIN received' |-> Data(conn, i)]
    <3>1. received' = [i \in DOMAIN received' |-> received'[i]]
      BY <2>3
    <3> QED
      BY <2>6, <3>1
  <2> QED
    BY <1>1, <1>2, <1>3, <2>3, <2>4, <2>5, <2>7 DEF Expected, Clean
<1> QED
  BY <1>5, <1>6, <1>7 DEF Parse

LEMMA ReadingExpected ==
  ASSUME Types, PopOK, FlowOK, Requests, Intact, Readers \/ Movers \/ UNCHANGED vars, ~Parse,
         Receiving', ~lost', ~fooled'
  PROVE  Expected'
<1>1. CASE Opened
  BY <1>1, OpenedExpected
<1>2. CASE ~Opened
  <2>1. Receiving /\ ~lost /\ Expected
    BY <1>2, SessionSteps DEF Intact
  <2>2. CASE Drop \/ Compare
    BY <2>1, <2>2, SkipExpected
  <2>3. CASE Interrupt
    <3>1. After(head) # tail
      BY <2>3 DEF Interrupt
    <3>2. Coming' = Coming /\ UNCHANGED <<conn, sent, received, resetReq, state, remain>>
      BY <2>3, <3>1, InterruptComing DEF Interrupt, recvVars
    <3> QED
      BY <2>1, <3>2 DEF Expected, Where, End
  <2>4. CASE PopIndex \/ PopByte \/ PopTail
    <3>1. Coming' = Coming /\ UNCHANGED <<conn, sent, received, resetReq, state, remain>>
      BY <2>4, PopIndexComing, PopOnComing DEF PopIndex, PopByte, PopTail, recvVars, modem, hist, stream
    <3> QED
      BY <2>1, <3>1 DEF Expected, Where, End
  <2>5. CASE RecvStart
    <3>1. Coming' = Coming /\ UNCHANGED <<conn, sent, received>>
      BY <2>5, SameComing DEF RecvStart, ring, popVars, modem, hist, stream
    <3>2. Where' = Where
      BY <2>5, <3>1 DEF RecvStart, Where, Types, FlagTypes
    <3> QED
      BY <2>1, <3>1, <3>2 DEF Expected, End
  <2>6. CASE WaitTimesOut \/ QuietEnds \/ TransmitFails \/ RecvEmpty \/ UNCHANGED vars
    <3>1. Coming' = Coming /\ UNCHANGED <<conn, sent, received, resetReq, state, remain>>
      BY <2>6, SameComing DEF WaitTimesOut, QuietEnds, TransmitFails, RecvEmpty, vars, ring, popVars,
         recvVars, modem, hist, stream
    <3> QED
      BY <2>1, <3>1 DEF Expected, Where, End
  <2>7. ~Connect /\ ~Flush
    BY <2>1 DEF Receiving, Connect, Flush, FlowOK
  <2> QED
    BY <1>2, <2>2, <2>3, <2>4, <2>5, <2>6, <2>7 DEF Readers, Movers
<1> QED
  BY <1>1, <1>2

LEMMA ReadingIntact ==
  ASSUME Types, PopOK, FlowOK, Orderly, Requests, Intact, Readers \/ Movers \/ UNCHANGED vars,
         ~mistaken', ~fooled'
  PROVE  Intact'
<1>1. Opening' => Fresh'
  BY ReadingFresh DEF Intact
<1>2. UNCHANGED <<conn, sent>>
  BY ReadingSteps DEF Reading
<1>3. CASE Parse
  <2>1. /\ Receiving /\ InSession /\ lost' = lost
    BY <1>3 DEF Parse, FlowOK, Receiving, InSession
  <2>2. ~lost => Clean' /\ Expected'
    BY <1>3, <2>1, ParseIntact DEF Intact, Orderly, History
  <2> QED
    BY <1>1, <2>1, <2>2 DEF Intact
<1>4. CASE ~Parse
  <2>1. InSession' /\ ~lost' => Clean'
    BY <1>2, <1>4, ReadingClean DEF Orderly
  <2>2. Receiving' /\ ~lost' => Expected'
    BY <1>4, ReadingExpected
  <2> QED
    BY <1>1, <2>1, <2>2 DEF Intact
<1> QED
  BY <1>3, <1>4

(* The modem. *)
LEMMA CommandsTaken ==
  ASSUME Types, Modem
  PROVE  /\ ~Segment /\ ~LinkLost => cmds # <<>> /\ cmds' = Tail(cmds)
         /\ Segment \/ LinkLost => cmds' = cmds
         /\ CipStart => Queued("cipstart")
         /\ TakePayload => misled' \/ Queued("packet")
         /\ \A k : Queued(k)' => Queued(k)
<1>1. /\ ~Segment /\ ~LinkLost => cmds # <<>> /\ cmds' = Tail(cmds)
      /\ Segment \/ LinkLost => cmds' = cmds
      /\ CipStart => cmds # <<>> /\ Head(cmds).is = "cipstart"
      /\ TakePayload => cmds # <<>> /\ (misled' \/ Head(cmds).is = "packet")
  BY DEF Modem, TakePayload, CipSend, CipStart, CipClose, Segment, LinkLost, Reads
<1>2. cmds # <<>> => \E i \in DOMAIN cmds : cmds[i] = Head(cmds)
  <2> SUFFICES ASSUME cmds # <<>> PROVE 1 \in DOMAIN cmds /\ cmds[1] = Head(cmds)
    OBVIOUS
  <2> QED
    BY DEF Types, ModemTypes
<1>3. ASSUME NEW k, Queued(k)' PROVE Queued(k)
  <2>1. CASE cmds' = cmds
    BY <1>3, <2>1 DEF Queued
  <2>2. CASE cmds # <<>> /\ cmds' = Tail(cmds)
    BY <1>3, <2>2, TailCmds DEF Queued
  <2> QED
    BY <1>1, <2>1, <2>2
<1> QED
  BY <1>1, <1>2, <1>3 DEF Queued

LEMMA ModemFresh ==
  ASSUME Types, Modem, ~misled', Fresh PROVE Fresh'
<1>1. ~Segment /\ ~TakePayload
  BY CommandsTaken DEF Fresh, Segment
<1>2. TakePayload \/ CipSend \/ CipStart \/ CipClose \/ LinkLost
  BY <1>1 DEF Modem
<1>3. PICK said \in Seq(Symbols) : wire' = wire \o said /\ \A i \in DOMAIN said : ~IsFrame(said[i])
  BY <1>2, ModemAnswers
<1>4. /\ UNCHANGED <<buf, head, tail, byte, pop, saved, received>>
  BY ModemFacts
<1>5. \A i \in DOMAIN Coming' : ~IsFrame(Coming'[i])
  <2>1. /\ \A i \in DOMAIN Coming : i \in DOMAIN Coming' /\ Coming'[i] = Coming[i]
        /\ \A i \in DOMAIN Coming' :
             i \in DOMAIN Coming \/ (/\ i > Len(Coming) /\ i - Len(Coming) \in DOMAIN said
                                     /\ Coming'[i] = said[i - Len(Coming)] /\ Coming'[i] \in Symbols)
    BY <1>3, <1>4, SaidFacts
  <2> QED
    BY <1>3, <2>1 DEF Fresh
<1>6. out' = {}
  BY <1>1, <1>2 DEF CipSend, CipStart, CipClose, LinkLost, Fresh
<1>7. ~Queued("packet")'
  BY CommandsTaken DEF Fresh
<1> QED
  BY <1>4, <1>5, <1>6, <1>7 DEF Fresh

LEMMA ModemIntact ==
  ASSUME Types, Modem, ~misled', History, InSession => Session, Intact PROVE Intact'
<1>1. /\ UNCHANGED <<buf, head, tail, byte, pop, saved, pc, op, phase, received>>
      /\ (InSession' <=> InSession)
  BY ModemFacts
<1>2. UNCHANGED <<lost, resetReq, state, remain>>
  BY DEF Modem, TakePayload, CipSend, CipStart, CipClose, Segment, LinkLost, driver, recvVars,
     hist, stream
<1>3. /\ (Opening' => Opening) /\ (Receiving' => Receiving) /\ (Receiving => InSession)
      /\ Where' = Where
  BY <1>1, <1>2 DEF Opening, Receiving, InSession, Where
<1>4. Opening' => Fresh'
  BY <1>3, ModemFresh DEF Intact
<1>5. /\ received \in Seq(Symbols) /\ conn \in Nat /\ sent \in Nat /\ Coming \in Seq(Symbols)
  BY ComingType DEF History, Types, ModemTypes
<1>6. ASSUME CipStart, InSession, ~lost, Clean
      PROVE  received = <<>> /\ \A i \in DOMAIN Coming : ~IsData(Coming[i])
  <2>1. \A i \in DOMAIN Arrived : ~IsData(Arrived[i])
    BY <1>6, CommandsTaken DEF Session
  <2>2. /\ \A i \in DOMAIN received : i \in DOMAIN Arrived /\ Arrived[i] = received[i]
        /\ \A i \in DOMAIN Coming : Len(received) + i \in DOMAIN Arrived
                                    /\ Arrived[Len(received) + i] = Coming[i]
    BY <1>5, ConcatFacts DEF Arrived
  <2>3. \A i \in DOMAIN received : IsData(received[i])
    BY <1>6 DEF Clean, IsData, Data, Symbol
  <2>4. DOMAIN received = {}
    BY <2>1, <2>2, <2>3
  <2> QED
    BY <1>5, <2>1, <2>2, <2>4
<1>7. InSession /\ ~lost => Clean'
  <2> SUFFICES ASSUME InSession, ~lost, Clean PROVE Clean'
    BY DEF Intact
  <2>1. CASE CipStart
    <3>1. received' = <<>>
      BY <1>1, <1>6, <2>1
    <3>2. sent' = sent \/ sent' = 0
      BY <2>1 DEF CipStart
    <3>3. sent' \in Nat
      BY <1>5, <3>2
    <3> QED
      BY <3>1, <3>3 DEF Clean
  <2>2. CASE Segment
    <3>1. conn' = conn /\ \E n \in Nat : sent' = sent + n
      BY <2>2, SegmentSays DEF Segment
    <3>2. Len(received) \in Nat
      BY <1>5
    <3> QED
      BY <1>1, <1>5, <3>1, <3>2 DEF Clean
  <2>3. CASE ~CipStart /\ ~Segment
    <3>1. UNCHANGED <<conn, sent>>
      BY <2>3 DEF Modem, TakePayload, CipSend, CipClose, LinkLost
    <3> QED
      BY <1>1, <3>1 DEF Clean
  <2> QED
    BY <2>1, <2>2, <2>3
<1>8. Receiving /\ ~lost => Expected'
  <2> SUFFICES ASSUME Receiving, ~lost, Expected, Clean PROVE Expected'
    BY <1>3 DEF Intact
  <2>1. CASE Segment
    <3>1. PICK n \in Nat \ {0}, said \in Seq(Symbols) :
           /\ wire' = wire \o said /\ sent' = sent + n
           /\ Len(said) = n + 2 /\ DOMAIN said = 1 .. n + 2
           /\ said[1] = Symbol("plus", conn, 0) /\ said[2] = Symbol("length", conn, n)
           /\ \A i \in 1 .. n : said[i + 2] = Data(conn, sent + i)
      BY <2>1, SegmentSays
    <3>2. conn' = conn
      BY <2>1 DEF Segment
    <3>3. said[1].is = "plus" /\ said[2].is = "length" /\ said[2].n = n
      BY <3>1 DEF Symbol
    <3>4. Takeable(said, conn, Mark("idle", 0, sent), Mark("idle", 0, sent + n))
      BY <1>5, <3>1, <3>3, TakeSegment
    <3>5. Coming' = Coming \o said
      BY <1>1, <3>1, SaidComing
    <3>6. Takeable(Coming', conn, Where, Mark("idle", 0, sent + n))
      BY <1>5, <3>1, <3>4, <3>5, TakeOn DEF Expected, End
    <3>7. \E i \in DOMAIN Coming' : IsData(Coming'[i])
      <4>1. 1 + 2 \in DOMAIN said /\ IsData(said[1 + 2])
        <5>1. 1 \in 1 .. n /\ 1 + 2 \in 1 .. n + 2
          OBVIOUS
        <5>2. said[1 + 2] = Data(conn, sent + 1)
          BY <3>1, <5>1
        <5> QED
          BY <3>1, <5>1, <5>2 DEF Data, Symbol, IsData
      <4>2. \A i \in DOMAIN said : Len(Coming) + i \in DOMAIN (Coming \o said)
                                   /\ (Coming \o said)[Len(Coming) + i] = said[i]
        BY ComingType, ConcatFacts
      <4> QED
        BY <3>5, <4>1, <4>2
    <3> QED
      BY <1>3, <3>1, <3>2, <3>6, <3>7 DEF Expected, End
  <2>2. CASE ~Segment
    <3>1. PICK said \in Seq(Symbols) : wire' = wire \o said /\ \A i \in DOMAIN said : ~IsFrame(said[i])
      BY <2>2, ModemAnswers DEF Modem
    <3>2. /\ Takeable(Coming, conn', Where, End) /\ sent' = sent
      <4>1. CASE CipStart
        <5>1. received = <<>> /\ \A i \in DOMAIN Coming : ~IsData(Coming[i])
          BY <1>3, <1>6, <4>1
        <5>2. sent = 0
          BY <1>5, <5>1 DEF Expected
        <5>3. sent' = 0
          BY <4>1, <5>2 DEF CipStart
        <5>4. Takeable(Coming, conn', Where, End)
          BY <1>5, <5>1, TakeOther DEF Expected
        <5> QED
          BY <5>2, <5>3, <5>4
      <4>2. CASE ~CipStart
        <5>1. UNCHANGED <<conn, sent>>
          BY <2>2, <4>2 DEF Modem, TakePayload, CipSend, CipClose, LinkLost
        <5> QED
          BY <5>1 DEF Expected
      <4> QED
        BY <4>1, <4>2
    <3>3. Coming' = Coming \o said
      BY <1>1, <3>1, SaidComing
    <3>4. Takeable(said, conn', Mark("idle", 0, sent), Mark("idle", 0, sent))
      BY <1>5, <3>1, TakeAnswers
    <3>5. Takeable(Coming', conn', Where, End)
      BY <1>5, <3>1, <3>2, <3>3, <3>4, TakeOn DEF End
    <3>6. \A i \in DOMAIN Coming : i \in DOMAIN Coming' /\ Coming'[i] = Coming[i]
      BY <1>5, <3>1, <3>3, ConcatFacts
    <3>7. sent' > 0 /\ received' = <<>> => \E i \in DOMAIN Coming' : IsData(Coming'[i])
      BY <1>1, <3>2, <3>6 DEF Expected
    <3>8. End' = End
      BY <3>2 DEF End
    <3> QED
      BY <1>3, <3>5, <3>7, <3>8 DEF Expected
  <2> QED
    BY <2>1, <2>2
<1> QED
  BY <1>1, <1>2, <1>3, <1>4, <1>7, <1>8 DEF Intact

LEMMA InitStream == Init => StreamInv
<1> SUFFICES ASSUME Init PROVE StreamInv
  OBVIOUS
<1>1. OrderInv
  BY InitOrder
<1>2. Requests /\ ~InSession /\ ~Opening /\ ~Receiving
  BY DEF Init, Requests, InSession, Opening, Receiving
<1> QED
  BY <1>1, <1>2 DEF StreamInv, Intact

LEMMA NextStream == ASSUME StreamInv, [Next]_vars PROVE StreamInv'
<1>1. OrderInv /\ OrderInv' /\ Types /\ PopOK /\ FlowOK /\ Requests /\ Requests'
  BY NextOrder, RequestsNext DEF StreamInv, OrderInv, LinkInv
<1> SUFFICES ASSUME ~misled', ~mistaken', ~fooled' PROVE Intact'
  BY <1>1 DEF StreamInv
<1>2. CASE Disconnect
  <2>1. ~InSession' /\ phase' # "offline" /\ op' = "close"
    BY <1>2, DisconnectEnds DEF Disconnect
  <2> QED
    BY <2>1 DEF Intact, Opening, Receiving
<1>3. CASE Readers \/ Movers \/ UNCHANGED vars
  <2>1. ~misled /\ ~mistaken /\ ~fooled
    BY <1>1, <1>3, ReadingSteps, MistakenStays DEF Reading
  <2>2. Orderly /\ Intact
    BY <1>1, <2>1 DEF StreamInv, OrderInv
  <2> QED
    BY <1>1, <1>3, <2>2, ReadingIntact
<1>4. CASE Writers
  <2>1. ~misled /\ ~mistaken /\ ~fooled
    BY <1>1, <1>4, WritersFacts
  <2> QED
    BY <1>1, <1>4, <2>1, WritersIntact DEF StreamInv
<1>5. CASE Modem
  <2>1. ~misled /\ ~mistaken /\ ~fooled
    BY <1>5, ModemFacts
  <2>2. History /\ (InSession => Session) /\ Intact
    BY <1>1, <2>1 DEF StreamInv, OrderInv, Orderly
  <2> QED
    BY <1>1, <1>5, <2>2, ModemIntact
<1> QED
  BY <1>2, <1>3, <1>4, <1>5, NextGroups

(* And as long as nothing is lost and no wait took payload for its answer, *)
(* it returns exactly the bytes that the broker sent on this connection,   *)
(* from the first one on (l.1233-1251).                                    *)
THEOREM NoGap == Spec => []CleanStream
<1>1. StreamInv => CleanStream
  <2> SUFFICES ASSUME StreamInv, ~lost, ~misled, ~mistaken, ~fooled
               PROVE  /\ Len(received) <= sent
                      /\ received = [i \in DOMAIN received |-> Data(conn, i)]
    BY DEF CleanStream
  <2>1. History /\ Intact /\ sent \in Nat
    BY DEF StreamInv, OrderInv, Orderly, LinkInv, Types, ModemTypes
  <2>2. CASE InSession
    BY <2>1, <2>2 DEF Intact, Clean
  <2>3. CASE ~InSession
    <3>1. received = <<>>
      BY <2>1, <2>3 DEF History
    <3> QED
      BY <2>1, <3>1
  <2> QED
    BY <2>2, <2>3
<1> QED
  BY <1>1, InitStream, NextStream, PTL DEF Spec
=============================================================================
