-------------------------- MODULE TimeSource_proofs --------------------------
(***************************************************************************)
(* Theorems about the clock, for every length of the tick count, every     *)
(* power-up time and every delay of the SNTP answer.                       *)
(*                                                                         *)
(* The invariant says which variables a task may rely on: while the clock  *)
(* is being set it is not valid, so that nobody reads it, and from then on *)
(* it is not set again.                                                    *)
(***************************************************************************)
EXTENDS TimeSource, TLAPS

(* The parameter of time_source_set_utc is in the past, and not 0. *)
EpochOK ==
  setter # "idle" => ~valid /\ epoch > 0 /\ epoch <= Start + now

(* What has been assigned so far. *)
AssignedOK ==
  /\ setter \in {"tick", "valid"} => baseEpoch = epoch
  /\ setter = "valid" \/ valid =>
       /\ baseTick = setAt % TickSpan
       /\ baseEpoch = Start + setAt - lag

(* What time_source_now_utc has read so far. *)
ReadOK ==
  /\ setAt <= now /\ readAt <= now
  /\ reader # "idle" => valid
  /\ reader = "epoch" => /\ readAt >= setAt
                         /\ readAt - setAt < TickSpan => elapsed = readAt - setAt

(* The stamp before is not ahead of the last reading. *)
StampOK ==
  \/ stamp = 0
  \/ /\ valid /\ readAt >= setAt
     /\ readAt - setAt < TickSpan => stamp <= Start + readAt - lag

IInv == TimeTypeOK /\ EpochOK /\ AssignedOK /\ ReadOK /\ StampOK

(* A division with remainder, by a variable divisor. *)
LEMMA Division ==
  ASSUME NEW a \in Nat, NEW t \in Nat \ {0}
  PROVE  /\ a % t \in 0 .. t - 1
         /\ a \div t \in Nat
         /\ a = t * (a \div t) + (a % t)
BY SMT

(* The difference of two tick counts, taken modulo their span, is the time *)
(* between them if that is shorter than the span (time_source.c).          *)
LEMMA TickDifference ==
  ASSUME NEW t \in Nat \ {0}, NEW a \in Nat, NEW b \in Nat, b <= a, a - b < t
  PROVE  ((a % t) - (b % t)) % t = a - b
<1> DEFINE d == (a % t) - (b % t)
           p == a \div t - b \div t
<1>1. d \in Int /\ p \in Int /\ -t < d /\ d < t  BY Division
<1>2. a - b = t * p + d  BY Division
<1> HIDE DEF d, p
<1>3. t * p > -t /\ t * p < t + t  BY <1>1, <1>2
<1>4. p = 0 \/ p = 1
  <2>1. p <= -1 => t * p <= -t  BY <1>1, SMT
  <2>2. p >= 2 => t * p >= t + t  BY <1>1, SMT
  <2> QED  BY <1>1, <1>3, <2>1, <2>2
<1>5. CASE p = 0
  <2>1. d = a - b  BY <1>1, <1>2, <1>5
  <2>2. d % t = d  BY <2>1, <1>1, SMT
  <2> QED  BY <2>1, <2>2 DEF d
<1>6. CASE p = 1
  <2>1. d = (a - b) - t  BY <1>1, <1>2, <1>6
  <2>2. d % t = d + t  BY <2>1, <1>1, SMT
  <2> QED  BY <2>1, <2>2, <1>1 DEF d
<1> QED  BY <1>4, <1>5, <1>6

USE TickSpanAssumption, StartAssumption, MaxTimeAssumption DEF IInv

LEMMA InitInv == Init => IInv
<1> SUFFICES ASSUME Init PROVE IInv  OBVIOUS
<1>1. ~valid /\ valid \in BOOLEAN  BY DEF Init
<1> QED  BY <1>1, SMT DEF Init, TimeTypeOK, EpochOK, AssignedOK, ReadOK, StampOK

(* The two steps that read the tick count store a number below its span.   *)
LEMMA TickInRange ==
  ASSUME NEW n \in Int
  PROVE  n % TickSpan \in 0 .. TickSpan - 1
BY SMT

(* No step of the two tasks disturbs what the other relies on.             *)
LEMMA NextInv == IInv /\ [Next]_vars => IInv'
<1> SUFFICES ASSUME IInv, [Next]_vars PROVE IInv'  OBVIOUS
<1> USE DEF TimeTypeOK, EpochOK, AssignedOK, ReadOK, StampOK
<1>1. CASE Pass  BY <1>1, SMT DEF Pass
<1>2. CASE SyncTime
  <2>1. PICK late \in 0 .. MaxLag : epoch' = Start + now - late  BY <1>2 DEF SyncTime
  <2>2. epoch' \in Nat /\ epoch' > 0 /\ epoch' <= Start + now  BY <2>1, SMT
  <2> QED  BY <1>2, <2>2, SMT DEF SyncTime, SyncDue
<1>3. CASE SetEpoch  BY <1>3, SMT DEF SetEpoch
<1>4. CASE SetTick
  <2>1. Tick \in 0 .. TickSpan - 1  BY TickInRange DEF Tick
  <2>2. stamp = 0 /\ reader = "idle"  BY <1>4 DEF SetTick
  <2> QED  BY <1>4, <2>1, <2>2, SMT DEF SetTick, Tick
<1>5. CASE SetValid  BY <1>5, SMT DEF SetValid
<1>6. CASE ReadValid  BY <1>6, SMT DEF ReadValid
<1>7. CASE ReadElapsed
  <2>1. valid /\ baseTick = setAt % TickSpan  BY <1>7 DEF ReadElapsed
  <2>2. SinceBase \in 0 .. TickSpan - 1
    <3>1. Tick - baseTick \in Int  BY TickInRange DEF Tick
    <3> QED  BY <3>1, TickInRange DEF SinceBase
  <2>3. now - setAt < TickSpan => SinceBase = now - setAt
    <3>1. now \in Nat /\ setAt \in Nat /\ setAt <= now  BY SMT
    <3>2. now - setAt < TickSpan =>
            ((now % TickSpan) - (setAt % TickSpan)) % TickSpan = now - setAt
      BY <3>1, TickDifference
    <3> QED  BY <2>1, <3>2 DEF SinceBase, Tick
  <2> HIDE DEF SinceBase
  <2> QED  BY <1>7, <2>1, <2>2, <2>3, SMT DEF ReadElapsed
<1>8. CASE ReadEpoch
  BY <1>8, SMT DEF ReadEpoch
<1>9. CASE UNCHANGED vars  BY <1>9, SMT DEF vars
<1> QED  BY <1>1, <1>2, <1>3, <1>4, <1>5, <1>6, <1>7, <1>8, <1>9 DEF Next

-----------------------------------------------------------------------------
(* The clock's variables have their types; a tick never leaves the span of *)
(* the tick count and an epoch is never negative.                          *)
THEOREM TimeTypes == Spec => []TimeTypeOK
<1>1. IInv => TimeTypeOK  BY DEF IInv
<1> QED  BY <1>1, InitInv, NextInv, PTL DEF Spec

(* What every step does to the stamp, under the invariant. *)
LEMMA StampStep ==
  IInv /\ [Next]_vars =>
    /\ reader = "epoch" /\ reader' = "idle" /\ readAt - setAt < TickSpan
         => stamp' = Start + readAt - lag
    /\ readAt' - setAt' < TickSpan => stamp' >= stamp
<1> SUFFICES ASSUME IInv, [Next]_vars
             PROVE  /\ reader = "epoch" /\ reader' = "idle" /\ readAt - setAt < TickSpan
                         => stamp' = Start + readAt - lag
                    /\ readAt' - setAt' < TickSpan => stamp' >= stamp
  OBVIOUS
<1> USE DEF TimeTypeOK, EpochOK, AssignedOK, ReadOK, StampOK
<1>1. CASE ReadEpoch  BY <1>1, SMT DEF ReadEpoch
<1>2. CASE ReadValid  BY <1>2, SMT DEF ReadValid
<1>3. CASE UNCHANGED <<reader, stamp>>  BY <1>3, SMT
<1>4. CASE ReadElapsed  BY <1>4, SMT DEF ReadElapsed
<1> QED  BY <1>1, <1>2, <1>3, <1>4
         DEF Next, vars, Pass, SyncTime, SetEpoch, SetTick, SetValid

(* A stamp is the true time, as late as the clock was when it was set:     *)
(* time_source_set_utc and time_source_now_utc need no lock, because the   *)
(* clock is set once and declared valid last.                              *)
THEOREM StampsTrue == Spec => StampIsTrue
<1>1. IInv /\ [Next]_vars =>
        [reader = "epoch" /\ reader' = "idle" /\ readAt - setAt < TickSpan
           => stamp' = Start + readAt - lag]_vars
  BY StampStep
<1> QED  BY <1>1, InitInv, NextInv, PTL DEF Spec, StampIsTrue

(* Stamps never go back.                                                   *)
THEOREM StampsMonotonic == Spec => StampsInOrder
<1>1. IInv /\ [Next]_vars => [readAt' - setAt' < TickSpan => stamp' >= stamp]_vars
  BY StampStep
<1> QED  BY <1>1, InitInv, NextInv, PTL DEF Spec, StampsInOrder
=============================================================================
