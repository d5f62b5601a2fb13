---------------------------- MODULE BoundedFifo ----------------------------
(***************************************************************************)
(* What a bounded message queue promises its caller: messages leave in the *)
(* order they were accepted, each exactly once, a full queue accepts       *)
(* nothing, and Clear empties it.  This is the contract documented in      *)
(* persistent_inspection_queue.h; PersistentQueue implements it.           *)
(*                                                                         *)
(* A queue on a faulty medium promises less: a call that is cut short or   *)
(* reports an error may have happened or not, the queue may be found       *)
(* empty, and messages may have been damaged, each in its place.  Whatever *)
(* happens, nothing is reordered, repeated or brought back.                *)
(***************************************************************************)
EXTENDS Naturals, Sequences

CONSTANTS
  Messages,   (* the messages a caller may store                           *)
  Capacity,   (* how many messages the queue holds at most                 *)
  Damaged(_), (* what may become of a message that stays          *)
  Nothing,    (* the value of out before the first Get                     *)
  Faulty      (* whether calls may fail                                    *)

VARIABLES
  q,          (* accepted and not yet delivered, oldest first              *)
  clearing,   (* a Clear has begun and not ended                           *)
  out         (* the message the last successful Get delivered             *)

vars == <<q, clearing, out>>

Init ==
  /\ q = <<>>
  /\ clearing = FALSE
  /\ out = Nothing

Put(m) ==
  /\ ~clearing
  /\ Len(q) < Capacity
  /\ q' = Append(q, m)
  /\ UNCHANGED <<clearing, out>>

Get ==
  /\ ~clearing
  /\ q # <<>>
  /\ out' = Head(q)
  /\ q' = Tail(q)
  /\ UNCHANGED clearing

(* Clear takes its time; what it has not reached yet is still there. *)
BeginClear ==
  /\ ~clearing
  /\ clearing' = TRUE
  /\ UNCHANGED <<q, out>>

(* Every message is in its place still, some of them damaged. *)
Damage ==
  /\ DOMAIN q' = DOMAIN q
  /\ \A i \in DOMAIN q : q'[i] \in Damaged(q[i])

ClearSome ==
  /\ clearing
  /\ Damage
  /\ UNCHANGED <<clearing, out>>

EndClear ==
  /\ clearing
  /\ q' = <<>>
  /\ clearing' = FALSE
  /\ UNCHANGED out

(* A failed call: it took effect or not, nobody was told, and messages or  *)
(* the whole queue may be lost.                                            *)
Fault ==
  /\ Faulty
  /\ \/ q' = <<>>
     \/ Damage
     \/ ~clearing /\ Len(q) < Capacity /\ \E m \in Messages : q' = Append(q, m)
     \/ ~clearing /\ q # <<>> /\ q' = Tail(q)
  /\ clearing' = FALSE
  /\ UNCHANGED out

Call ==
  \/ \E m \in Messages : Put(m)
  \/ Get
  \/ BeginClear
  \/ ClearSome
  \/ EndClear

Next == Call \/ Fault

Spec == Init /\ [][Next]_vars
=============================================================================
