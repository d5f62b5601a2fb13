----------------------------- MODULE MC_EspLink -----------------------------
(* The instance of EspLink that TLC checks.                                *)
EXTENDS EspLink

(* The positions matter only relative to the tail, and what the ring holds *)
(* only up to the head: a place that has been read is written before it is *)
(* read again.  Nor does it matter what a drain discards, what esp01_recv  *)
(* will reset, or, on a connection that is no longer in use, whether       *)
(* CLOSED was seen and what was lost and sent.  The place that ring_pop is *)
(* about to read may be out of the ring already.                           *)
Offset(i) == (i + RingSize - tail) % RingSize
Live == [k \in 1 .. Offset(head) |-> buf[(tail + k - 1) % RingSize]]
InUse == IF connected THEN <<linkClosed, lost>> ELSE <<>>
Pop == CASE pop = "index" -> <<Offset(saved), buf[saved]>>
         [] pop = "tail"  -> <<Offset(saved), byte>>
         [] OTHER         -> <<0, byte>>
View == <<Live, loop, pop,
          IF pc \in {"drain", "quiet"} THEN <<Pop[1]>> ELSE Pop,
          IF resetReq THEN copied ELSE recvVars, resetReq, connected, InUse, phase, packet,
          cmds, wire, open, raw, conn, IF connected \/ open THEN sent ELSE 0, out,
          received, earlier, mistaken, doubt, misled, fooled>>

(* Between the memory accesses of ring_pop only an overrun needs to be     *)
(* tried: nothing else that the interrupt or the modem does reads or       *)
(* writes what they do, so that it may as well come before or after them.  *)
OnlyOverrunsWithinPop ==
  pop # "no" => \/ <<cmds', wire'>> = <<cmds, wire>> /\ open' = open
                \/ head' # head /\ After(head) = tail

(* What follows when the modem has been misled, or the driver fooled, is   *)
(* not pursued.                                                            *)
NotMisled == ~misled /\ ~fooled
=============================================================================
