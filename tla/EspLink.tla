------------------------------- MODULE EspLink -------------------------------
(***************************************************************************)
(* The ESP-01 driver (STM32CubeIDE/.../netif/esp01_transport.c): the       *)
(* receive ring that the UART interrupt fills, the parser of +IPD frames,  *)
(* and the AT conversations of ESP01_Connect, ESP01_Disconnect and         *)
(* esp01_send, which read the same ring.                                   *)
(*                                                                         *)
(* The driver's functions run one at a time: ESP01_Connect and             *)
(* ESP01_Disconnect in mqtt_task, esp01_send and esp01_recv in the agent   *)
(* between the two.  The interrupt may come between any two memory         *)
(* accesses of ring_pop.  The modem answers when it likes, so that every   *)
(* wait may time out before its answer comes, and a byte of payload may    *)
(* end a wait as well: the tokens are looked for in all that is read.      *)
(*                                                                         *)
(* What the modem writes is a sequence of symbols: an answer ("OK"), the   *)
(* '+' that starts a frame, the rest of its header with the length, or a   *)
(* byte of payload.  A symbol takes one place in the ring.                 *)
(***************************************************************************)
EXTENDS Naturals, Sequences

CONSTANTS
  RingSize,   (* ESP01_RX_RING_SIZE                                        *)
  RecvLen,    (* the room in coreMQTT's buffer when it calls esp01_recv    *)
  Segments,   (* the lengths of the TCP segments the broker sends          *)
  MaxBytes,   (* bound on the bytes the broker sends on a connection       *)
  MaxConns,   (* bound on the connections made                             *)
  MaxPackets, (* bound on the packets sent                                 *)
  MaxCmds,    (* bound on the commands the modem has not read yet          *)
  MaxWire     (* bound on what the modem has written and is not in the ring*)

ASSUME RingSizeAssumption == RingSize \in Nat \ {0, 1}
ASSUME RecvLenAssumption == RecvLen \in Nat \ {0}
ASSUME SegmentsAssumption == Segments \subseteq Nat \ {0}

VARIABLES
  (* The driver: *)
  buf, head, tail, (* esp01RxRing                                          *)
  pc,         (* the loop that reads the ring                              *)
  op,         (* the answer waited for, or to be waited for                *)
  pop,        (* where in ring_pop it is                                   *)
  byte,       (* the symbol read                                           *)
  saved,      (* the tail read, to take the byte or to be advanced         *)
  state,      (* esp01_recv's static state                                 *)
  remain,     (* its payloadRemain                                         *)
  copied,     (* its copied                                                *)
  resetReq,   (* esp01RecvResetReq                                         *)
  connected, linkClosed,
  phase,      (* what the callers do: "offline", "online", or "broken"     *)
              (* when the session is over and not yet disconnected         *)
  packet,     (* the packet to be sent next                                *)
  (* The modem and the broker: *)
  cmds,       (* written to the modem and not read yet                     *)
  wire,       (* written by the modem and not received yet                 *)
  open,       (* it has a TCP connection                                   *)
  raw,        (* it takes what comes next for payload                      *)
  conn,       (* the number of that connection                             *)
  sent,       (* the bytes the broker has sent on it                       *)
  out,        (* the packets the broker has got on it                      *)
  (* History: *)
  received,   (* what esp01_recv has returned since ESP01_Connect          *)
  earlier,    (* the connections of earlier calls of ESP01_Connect         *)
  lost,       (* the ring overran, or a wait discarded a part of a frame   *)
  mistaken,   (* the session was opened on an answer that the modem did    *)
              (* not give to this AT+CIPSTART                              *)
  doubt,      (* a wait for the prompt timed out or a transmission failed  *)
  misled,     (* the modem took a command for payload or vice versa, or    *)
              (* was not told to close                                     *)
  fooled      (* a place was written anew when ring_pop was about to read  *)
              (* it, or esp01_send took payload for the modem's answer     *)

ring  == <<buf, head, tail>>
loop  == <<pc, op>>
popVars   == <<pop, byte, saved>>
recvVars  == <<state, remain, copied>>
link  == <<connected, linkClosed>>
modem == <<cmds, wire, open, raw, conn, sent, out>>
stream == <<received, earlier, lost, mistaken>>
hist   == <<stream, doubt, misled, fooled>>
vars  == <<ring, loop, popVars, recvVars, resetReq, link, phase, packet, modem, hist>>

Symbol(kind, c, n) == [is |-> kind, conn |-> c, n |-> n]
Answer(kind)  == Symbol(kind, 0, 0)
Data(c, i)    == Symbol("data", c, i)
IsFrame(s)    == s.is \in {"plus", "length", "data"}
Command(kind) == Symbol(kind, 0, 0)
Packet(n)     == Symbol("packet", 0, n)
Nothing       == Answer("nothing")

After(i) == (i + 1) % RingSize

Init ==
  /\ buf = [i \in 0 .. RingSize - 1 |-> Nothing] /\ head = 0 /\ tail = 0
  /\ pc = "rest" /\ op = "none"
  /\ pop = "no" /\ byte = Nothing /\ saved = 0
  /\ state = "idle" /\ remain = 0 /\ copied = 0
  /\ resetReq = FALSE
  /\ connected = FALSE /\ linkClosed = FALSE
  /\ phase = "offline"
  /\ packet = 1
  /\ cmds = <<>> /\ wire = <<>> /\ open = FALSE /\ raw = FALSE
  /\ conn = 0 /\ sent = 0 /\ out = {}
  /\ received = <<>> /\ earlier = {}
  /\ lost = FALSE /\ mistaken = FALSE /\ doubt = FALSE /\ misled = FALSE /\ fooled = FALSE

-----------------------------------------------------------------------------
(* The receive interrupt, one symbol of its burst: ring_push drops the     *)
(* oldest symbol when the ring is full.  CLOSED is noticed only when it is *)
(* the last thing in the burst.                                            *)
DropOldest == tail' = IF After(head) = tail THEN After(tail) ELSE tail
Interrupt ==
  /\ wire # <<>>
  /\ buf' = [buf EXCEPT ![head] = Head(wire)]
  /\ head' = After(head)
  /\ DropOldest
  /\ wire' = Tail(wire)
  /\ \/ linkClosed' = TRUE /\ connected /\ Head(wire).is = "closed"
     \/ UNCHANGED linkClosed
  /\ lost' = (lost \/ After(head) = tail)
  /\ fooled' = (fooled \/ (pop = "index" /\ head = saved))
  /\ UNCHANGED <<loop, popVars, recvVars, resetReq, connected, phase, packet, cmds, open, raw,
                 conn, sent, out, received, earlier, mistaken, doubt, misled>>

(* ring_pop: the tail is read, then the byte at it, then the tail again,   *)
(* then the tail is written.                                               *)
Loops == {"drain", "await", "quiet", "recv"}
PopIndex ==
  /\ pc \in Loops
  /\ pop = "no"
  /\ tail # head
  /\ saved' = tail
  /\ pop' = "index"
  /\ UNCHANGED <<ring, loop, byte, recvVars, resetReq, link, phase, packet, modem, hist>>

PopByte ==
  /\ pop = "index"
  /\ byte' = buf[saved]
  /\ pop' = "byte"
  /\ UNCHANGED <<ring, loop, saved, recvVars, resetReq, link, phase, packet, modem, hist>>

PopTail ==
  /\ pop = "byte"
  /\ saved' = tail
  /\ pop' = "tail"
  /\ UNCHANGED <<ring, loop, byte, recvVars, resetReq, link, phase, packet, modem, hist>>

TailForgotten == tail' = saved
TailStored == tail' = After(saved)
PopStore ==
  /\ pop = "tail"
  /\ TailStored
  /\ pop' = "no" /\ byte' = Nothing /\ saved' = 0
  /\ UNCHANGED <<buf, head>>

-----------------------------------------------------------------------------
(* AT commands.                                                            *)

(* The tokens that end a wait.  strstr finds "OK" in "SEND OK", "CONNECT"  *)
(* in "ALREADY CONNECTED" and in "WIFI DISCONNECT".                        *)
PromptOrOk == {"prompt", "ok", "sendok"}
Prompt     == {"prompt"}
EndsInOk   == {"ok", "sendok"}
Success(o) ==
  CASE o = "start"   -> {"connect", "already", "wifi"} \cup EndsInOk
    [] o = "startOk" -> EndsInOk
    [] o = "close"   -> EndsInOk
    [] o = "prompt"  -> Prompt
    [] o = "sendok"  -> {"sendok"}
Failure(o) ==
  CASE o = "start" -> {"error", "closed"}
    [] o = "close" -> {"error"}
    [] OTHER       -> {}

(* HAL_UART_Transmit *)
Write(c) == Len(cmds) < MaxCmds /\ cmds' = Append(cmds, c)
NoWrite  == UNCHANGED cmds
modemButCmds == <<wire, open, raw, conn, sent, out>>

(* The ring is read for the answer o. *)
Await(o) == pc' = "await" /\ op' = o
Rest == pc' = "rest" /\ op' = "none"

(* ESP01_Connect until its command is due *)
Connect ==
  /\ pc = "rest"
  /\ phase = "offline"
  /\ pc' = "drain" /\ op' = "start"
  /\ UNCHANGED <<ring, popVars, recvVars, resetReq, link, phase, packet, modem, hist>>

(* ESP01_Disconnect until its command is due *)
Disconnect ==
  /\ pc = "rest"
  /\ phase \in {"online", "broken"}
  /\ connected' = FALSE
  /\ pc' = "drain" /\ op' = "close"
  /\ earlier' = earlier \cup {received[i].conn : i \in DOMAIN received}
  /\ received' = <<>>
  /\ lost' = FALSE /\ mistaken' = FALSE
  /\ UNCHANGED <<ring, popVars, recvVars, resetReq, linkClosed, phase, packet, modem, doubt,
                 misled, fooled>>

(* at_drain_rx_until_quiet ends, at_send_cmd *)
Send(o) == IF o = "start" THEN Command("cipstart") ELSE Command("cipclose")
DrainEnds ==
  /\ pc = "drain" /\ pop = "no"
  /\ Write(Send(op))
  /\ Await(op)
  /\ UNCHANGED <<ring, popVars, recvVars, resetReq, link, phase, packet, modemButCmds, hist>>

(* esp01_send: the command, the prompt, the payload, the confirmation      *)
SendStart ==
  /\ pc = "rest" /\ phase = "online" /\ packet <= MaxPackets
  /\ IF connected /\ ~linkClosed
     THEN Write(Command("cipsend")) /\ Await("prompt") /\ UNCHANGED phase
     ELSE phase' = "broken" /\ NoWrite /\ UNCHANGED loop
  /\ UNCHANGED <<ring, popVars, recvVars, resetReq, link, packet, modemButCmds, hist>>

SendPayload ==
  /\ pc = "payload"
  /\ Write(Packet(packet))
  /\ Await("sendok")
  /\ UNCHANGED <<ring, popVars, recvVars, resetReq, link, phase, packet, modemButCmds, hist>>

(* HAL_UART_Transmit fails; of a command, nothing that the modem           *)
(* understands has been written.                                           *)
TransmitFails ==
  /\ \/ /\ pc = "drain" /\ pop = "no"
        /\ phase' = "offline"
        /\ doubt' = (doubt \/ op = "close") /\ misled' = (misled \/ op = "close")
     \/ /\ pc = "rest" /\ phase = "online" /\ connected /\ ~linkClosed
        /\ packet <= MaxPackets
        /\ phase' = "broken" /\ UNCHANGED <<doubt, misled>>
     \/ pc = "payload" /\ phase' = "broken" /\ doubt' = TRUE /\ UNCHANGED misled
  /\ Rest
  /\ UNCHANGED <<ring, popVars, recvVars, resetReq, link, packet, modem, stream, fooled>>

(* esp01_rx_flush, then the end of ESP01_Connect *)
RequestForgotten == UNCHANGED resetReq
RequestReset == resetReq' = TRUE
EmptyRing == head' = 0 /\ tail' = 0
Flush ==
  /\ pc = "flush"
  /\ EmptyRing
  /\ RequestReset
  /\ pc' = "opened"
  /\ UNCHANGED <<buf, op, popVars, recvVars, link, phase, packet, modem, hist>>

Opened ==
  /\ pc = "opened"
  /\ connected' = TRUE /\ linkClosed' = FALSE
  /\ phase' = "online"
  /\ Rest
  /\ lost' = FALSE
  /\ UNCHANGED <<ring, popVars, recvVars, resetReq, packet, modem, received, earlier,
                 mistaken, doubt, misled, fooled>>

(* Where a wait leads. *)
Succeeded ==
  CASE op = "start"   -> Await("startOk") /\ UNCHANGED <<phase, packet>>
    [] op = "startOk" -> pc' = "flush" /\ op' = "none" /\ UNCHANGED <<phase, packet>>
    [] op = "close"   -> Rest /\ phase' = "offline" /\ UNCHANGED packet
    [] op = "prompt"  -> pc' = "payload" /\ op' = "none" /\ UNCHANGED <<phase, packet>>
    [] op = "sendok"  -> Rest /\ packet' = packet + 1 /\ UNCHANGED phase

SentAnyway   == UNCHANGED phase /\ packet' = packet + 1
NotConfirmed == phase' = "broken" /\ UNCHANGED packet
WaitTimesOut ==
  /\ pc = "await" /\ pop = "no"
  /\ CASE op = "startOk" -> pc' = "flush" /\ op' = "none" /\ UNCHANGED <<phase, packet, doubt>>
       [] op = "sendok"  -> Rest /\ NotConfirmed /\ UNCHANGED doubt
       [] op = "prompt"  -> Rest /\ doubt' = TRUE /\ UNCHANGED <<phase, packet>>
       [] OTHER          -> Rest /\ phase' = "offline" /\ UNCHANGED <<packet, doubt>>
  /\ UNCHANGED <<ring, popVars, recvVars, resetReq, link, modem, stream, misled, fooled>>

(* A symbol discarded by a wait. *)
Discarded(s) == lost' = (lost \/ (phase = "online" /\ IsFrame(s)))

(* The tokens that strstr may find when s has been read: payload is any    *)
(* bytes, '>' and "SEND OK" among them.                                    *)
Matches(s) == IF s.is = "data" THEN {"data"} \cup Success(op) \cup Failure(op) ELSE {s.is}

(* AT+CIPSTART is answered with CONNECT, ALREADY CONNECTED or ERROR first. *)
Mistaken(s, token) ==
  mistaken' = (mistaken \/ ( /\ op = "start" /\ token \in Success(op)
                             /\ s.is \notin {"connect", "already"}))
Fooled(s, token) ==
  fooled' = (fooled \/ ( /\ op \in {"prompt", "sendok"} /\ token \in Success(op)
                         /\ s.is = "data"))

(* A round of at_wait_result *)
Compare ==
  /\ pc = "await"
  /\ PopStore
  /\ Discarded(byte)
  /\ \E token \in Matches(byte) :
       /\ Mistaken(byte, token) /\ Fooled(byte, token)
       /\ IF token \in Failure(op)
          THEN pc' = "quiet" /\ UNCHANGED <<op, phase, packet>>
          ELSE IF token \in Success(op)
               THEN Succeeded
               ELSE UNCHANGED <<loop, phase, packet>>
  /\ UNCHANGED <<recvVars, resetReq, link, modem, received, earlier, doubt, misled>>

(* A round of at_drain_rx_until_quiet *)
Drop ==
  /\ pc \in {"drain", "quiet"}
  /\ PopStore
  /\ Discarded(byte)
  /\ UNCHANGED <<loop, recvVars, resetReq, link, phase, packet, modem, received, earlier,
                 mistaken, doubt, misled, fooled>>

(* The end of a command that met a failure token *)
QuietEnds ==
  /\ pc = "quiet" /\ pop = "no"
  /\ Rest
  /\ phase' = "offline"
  /\ UNCHANGED <<ring, popVars, recvVars, resetReq, link, packet, modem, hist>>

-----------------------------------------------------------------------------
(* esp01_recv, until its loop *)
RecvStart ==
  /\ pc = "rest" /\ phase = "online"
  /\ IF ~connected \/ linkClosed
     THEN /\ connected' = FALSE
          /\ phase' = "broken"
          /\ UNCHANGED <<pc, state, remain, resetReq>>
     ELSE /\ IF resetReq
             THEN state' = "idle" /\ remain' = 0
             ELSE UNCHANGED <<state, remain>>
          /\ resetReq' = FALSE
          /\ pc' = IF head = tail THEN "rest" ELSE "recv"
          /\ UNCHANGED <<connected, phase>>
  /\ copied' = 0
  /\ UNCHANGED <<ring, op, popVars, linkClosed, packet, modem, hist>>

(* Its state machine.  A header that is not one ("+" of a frame cut by an  *)
(* overrun) ends at the next length or after some symbols.                 *)
Idle ==
  /\ state = "idle"
  /\ state' = IF byte.is = "plus" THEN "header" ELSE "idle"
  /\ UNCHANGED <<remain, copied, received, pc>>
Header ==
  /\ state = "header"
  /\ IF byte.is = "length"
     THEN state' = "payload" /\ remain' = byte.n
     ELSE state' \in {"header", "idle"} /\ UNCHANGED remain
  /\ UNCHANGED <<copied, received, pc>>
PayloadEndsNever == FALSE
PayloadEnds == remain = 1
Payload ==
  /\ state = "payload"
  /\ received' = Append(received, byte)
  /\ remain' = remain - 1
  /\ state' = IF PayloadEnds THEN "idle" ELSE "payload"
  /\ IF PayloadEnds \/ copied + 1 = RecvLen
     THEN pc' = "rest" /\ copied' = 0
     ELSE copied' = copied + 1 /\ UNCHANGED pc
Parse ==
  /\ pc = "recv"
  /\ PopStore
  /\ Idle \/ Header \/ Payload
  /\ UNCHANGED <<op, resetReq, link, phase, packet, modem, earlier, lost, mistaken, doubt, misled,
                 fooled>>

(* ring_pop finds the ring empty, or takes it for empty: it reads the tail *)
(* of a full ring, an overrun moves the head there, and it reads the head. *)
RecvEmpty ==
  /\ pc = "recv" /\ pop = "no"
  /\ head = tail \/ After(head) = tail
  /\ pc' = "rest" /\ copied' = 0
  /\ UNCHANGED <<ring, op, popVars, state, remain, resetReq, link, phase, packet, modem, hist>>

-----------------------------------------------------------------------------
(* The modem.                                                              *)
driver == <<ring, loop, popVars, recvVars, resetReq, link, phase, packet>>

Says(answers) == wire' = wire \o answers /\ Len(wire') <= MaxWire
Reads(c) == cmds # <<>> /\ Head(cmds).is = c /\ cmds' = Tail(cmds)

(* In raw mode everything is payload, otherwise payload is an error.       *)
TakePayload ==
  /\ cmds # <<>> /\ cmds' = Tail(cmds)
  /\ raw \/ Head(cmds).is = "packet"
  /\ raw' = FALSE
  /\ misled' = (misled \/ ~raw \/ Head(cmds).is # "packet")
  /\ IF raw /\ open
     THEN /\ Says(<<Answer("sendok")>>)
          /\ out' = IF Head(cmds).is = "packet" THEN out \cup {Head(cmds).n} ELSE out
     ELSE Says(<<Answer("error")>>) /\ UNCHANGED out
  /\ UNCHANGED <<driver, open, conn, sent, stream, doubt, fooled>>

CipSend ==
  /\ ~raw /\ Reads("cipsend")
  /\ raw' = open
  /\ Says(<<Answer(IF open THEN "prompt" ELSE "error")>>)
  /\ UNCHANGED <<driver, open, conn, sent, out, hist>>

CipStart ==
  /\ ~raw /\ Reads("cipstart")
  /\ \/ open /\ Says(<<Answer("already"), Answer("error")>>) /\ UNCHANGED <<open, conn, sent, out>>
     \/ /\ ~open /\ conn < MaxConns
        /\ open' = TRUE /\ conn' = conn + 1 /\ sent' = 0 /\ out' = {}
        /\ Says(<<Answer("connect"), Answer("ok")>>)
     \/ ~open /\ Says(<<Answer("error")>>) /\ UNCHANGED <<open, conn, sent, out>>
  /\ UNCHANGED <<driver, raw, hist>>

CipClose ==
  /\ ~raw /\ Reads("cipclose")
  /\ open' = FALSE
  /\ Says(IF open THEN <<Answer("closed"), Answer("ok")>> ELSE <<Answer("error")>>)
  /\ UNCHANGED <<driver, raw, conn, sent, out, hist>>

(* A segment arrives; the broker says nothing before it got a packet. *)
Segment ==
  /\ open /\ out # {}
  /\ \E n \in Segments :
       /\ sent + n <= MaxBytes
       /\ sent' = sent + n
       /\ Says(<<Symbol("plus", conn, 0), Symbol("length", conn, n)>>
                 \o [i \in 1 .. n |-> Data(conn, sent + i)])
  /\ UNCHANGED <<driver, cmds, open, raw, conn, out, hist>>

(* The connection or the Wi-Fi is lost. *)
LinkLost ==
  /\ open
  /\ open' = FALSE
  /\ \E urc \in {"closed", "wifi"} : Says(<<Answer(urc)>>)
  /\ UNCHANGED <<driver, cmds, raw, conn, sent, out, hist>>

Next ==
  \/ Interrupt
  \/ PopIndex \/ PopByte \/ PopTail \/ Compare \/ Drop \/ Parse
  \/ Connect \/ Disconnect \/ DrainEnds \/ WaitTimesOut \/ QuietEnds
  \/ SendStart \/ SendPayload \/ TransmitFails \/ Flush \/ Opened
  \/ RecvStart \/ RecvEmpty
  \/ TakePayload \/ CipSend \/ CipStart \/ CipClose
  \/ Segment \/ LinkLost

Spec == Init /\ [][Next]_vars

-----------------------------------------------------------------------------
Position == 0 .. RingSize - 1

(* Type invariant. *)
LinkTypeOK ==
  /\ DOMAIN buf = Position /\ head \in Position /\ tail \in Position /\ saved \in Position
  /\ pc \in Loops \cup {"rest", "payload", "flush", "opened"}
  /\ op \in {"none", "start", "startOk", "close", "prompt", "sendok"}
  /\ pop \in {"no", "index", "byte", "tail"}
  /\ state \in {"idle", "header", "payload"}
  /\ remain \in Nat /\ (remain > 0 <=> state = "payload")
  /\ copied \in 0 .. RecvLen - 1
  /\ {resetReq, connected, linkClosed, open, raw, lost, mistaken, doubt, misled, fooled}
       \subseteq BOOLEAN
  /\ phase \in {"offline", "online", "broken"}

(* coreMQTT reads what the broker sent on this connection from its first   *)
(* byte on, without gap, header or answer, across partial reads, frames    *)
(* cut by an empty ring, and reconnections in the middle of a frame        *)
(* (esp01_transport.c l.1233), unless the ring overran, a wait for an      *)
(* answer discarded payload or took it for the answer, the modem was       *)
(* misled, or AT+CIPSTART took the late answer to another command for its  *)
(* own.                                                                    *)
CleanStream ==
  ~lost /\ ~misled /\ ~mistaken /\ ~fooled =>
    /\ Len(received) <= sent
    /\ received = [i \in DOMAIN received |-> Data(conn, i)]

(* Whatever the ring and the waits lose, nothing is delivered twice or out *)
(* of order, although the interrupt moves the tail while ring_pop advances *)
(* it, and nothing of an earlier connection in a later one (l.1182).  It   *)
(* takes two overruns between the two accesses of l.141 to read the newest *)
(* byte in the place of the oldest (fooled): that the code does not        *)
(* prevent, and the byte is delivered again in its turn.                   *)
InOrderOnce ==
  ~misled /\ ~mistaken /\ ~fooled =>
    \A i, j \in DOMAIN received : received[i].is = "data" /\ received[j].is = "data" =>
      /\ i < j => received[i].conn = received[j].conn /\ received[i].n < received[j].n
      /\ received[i].conn \notin earlier

(* As long as every prompt came in time and no payload read while it was   *)
(* awaited held a '>', the modem takes commands for commands and payload   *)
(* for payload, whichever answers are late or belong to an earlier command.*)
Understood == misled => doubt \/ fooled

(* Then too, and if no payload held the words "SEND OK", esp01_send        *)
(* reports success only for a packet that the modem has passed on.         *)
SentIsSent == [][packet' > packet /\ ~doubt /\ ~fooled' => packet \in out]_vars
=============================================================================
