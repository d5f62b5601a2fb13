----------------------------- MODULE TimeSource -----------------------------
(***************************************************************************)
(* The wall clock (time/time_source.c): UTC kept as an epoch captured at a *)
(* tick of the RTOS and extrapolated from it.                              *)
(*                                                                         *)
(* The MQTT task sets the clock (mqtt_task_sync_time) and the GUI task     *)
(* reads it when it publishes a part (Model.cpp l.242).  Both have         *)
(* osPriorityNormal and are time-sliced, nothing locks the variables of    *)
(* the clock, so every access to one of them is a step.  A tick is one     *)
(* unit of UTC; the conversion of milliseconds to seconds is left out.     *)
(***************************************************************************)
EXTENDS Integers

CONSTANTS
  TickSpan, (* the RTOS tick counts modulo this, 2^32 in the code          *)
  Start,    (* the UTC time at power-up                                    *)
  MaxLag,   (* how old an SNTP answer may be when it arrives               *)
  MaxTime   (* bound on the time since power-up                            *)

ASSUME TickSpanAssumption == TickSpan \in Nat \ {0}
ASSUME StartAssumption == MaxLag \in Nat /\ Start \in Nat /\ Start > MaxLag
ASSUME MaxTimeAssumption == MaxTime \in Nat

VARIABLES
  now,       (* the true time since power-up                               *)
  valid,     (* s_valid                                                    *)
  baseEpoch, (* s_baseEpoch                                                *)
  baseTick,  (* s_baseTick                                                 *)
  setter,    (* where the MQTT task is in time_source_set_utc              *)
  epoch,     (* its parameter epoch_utc                                    *)
  reader,    (* where the GUI task is in time_source_now_utc               *)
  elapsed,   (* its elapsed_ms                                             *)
  stamp,     (* what it returned last                                      *)
  (* What is true, for the properties: *)
  setAt,     (* when the clock was set                                     *)
  lag,       (* how much it was late then                                  *)
  readAt     (* when the GUI task read the tick                            *)

vars == <<now, valid, baseEpoch, baseTick, setter, epoch, reader, elapsed, stamp, setAt, lag, readAt>>

(* osKernelGetTickCount *)
Tick == now % TickSpan

Init ==
  /\ now = 0
  /\ valid = FALSE /\ baseEpoch = 0 /\ baseTick = 0
  /\ setter = "idle" /\ epoch = 0
  /\ reader = "idle" /\ elapsed = 0 /\ stamp = 0
  /\ setAt = 0 /\ lag = 0 /\ readAt = 0

Pass ==
  /\ now < MaxTime
  /\ now' = now + 1
  /\ UNCHANGED <<valid, baseEpoch, baseTick, setter, epoch, reader, elapsed, stamp, setAt, lag, readAt>>

(* mqtt_task_sync_time: before every connect, unless the clock is valid *)
SyncAlways == TRUE
SyncDue == ~valid
SyncTime ==
  /\ setter = "idle"
  /\ SyncDue
  /\ \E late \in 0 .. MaxLag : epoch' = Start + now - late
  /\ setter' = "epoch"
  /\ UNCHANGED <<now, valid, baseEpoch, baseTick, reader, elapsed, stamp, setAt, lag, readAt>>

(* time_source_set_utc, in the order of its assignments *)
SetEpochAndValid ==
  /\ setter = "epoch"
  /\ baseEpoch' = epoch
  /\ valid' = (epoch > 0)
  /\ setter' = "tick"
  /\ UNCHANGED <<now, baseTick, epoch, reader, elapsed, stamp, setAt, lag, readAt>>
SetEpoch ==
  /\ setter = "epoch"
  /\ baseEpoch' = epoch
  /\ setter' = "tick"
  /\ UNCHANGED <<now, valid, baseTick, epoch, reader, elapsed, stamp, setAt, lag, readAt>>
SetTick ==
  /\ setter = "tick"
  /\ baseTick' = Tick
  /\ setAt' = now
  /\ lag' = Start + now - epoch
  /\ setter' = "valid"
  /\ UNCHANGED <<now, valid, baseEpoch, epoch, reader, elapsed, stamp, readAt>>
SetValid ==
  /\ setter = "valid"
  /\ valid' = (epoch > 0)
  /\ epoch' = 0
  /\ setter' = "idle"
  /\ UNCHANGED <<now, baseEpoch, baseTick, reader, elapsed, stamp, setAt, lag, readAt>>

(* time_source_now_utc, called by publishInspection *)
ReadValid ==
  /\ reader = "idle"
  /\ IF valid
     THEN reader' = "elapsed" /\ UNCHANGED stamp
     ELSE stamp' = 0 /\ UNCHANGED reader
  /\ UNCHANGED <<now, valid, baseEpoch, baseTick, setter, epoch, elapsed, setAt, lag, readAt>>
SinceBaseUnwrapped == Tick - baseTick
SinceBase == (Tick - baseTick) % TickSpan
ReadElapsed ==
  /\ reader = "elapsed"
  /\ elapsed' = SinceBase
  /\ readAt' = now
  /\ reader' = "epoch"
  /\ UNCHANGED <<now, valid, baseEpoch, baseTick, setter, epoch, stamp, setAt, lag>>
ReadEpoch ==
  /\ reader = "epoch"
  /\ stamp' = baseEpoch + elapsed
  /\ elapsed' = 0
  /\ reader' = "idle"
  /\ UNCHANGED <<now, valid, baseEpoch, baseTick, setter, epoch, setAt, lag, readAt>>

Next ==
  \/ Pass
  \/ SyncTime \/ SetEpoch \/ SetTick \/ SetValid
  \/ ReadValid \/ ReadElapsed \/ ReadEpoch

Spec == Init /\ [][Next]_vars

-----------------------------------------------------------------------------
(* Type invariant. *)
TimeTypeOK ==
  /\ now \in 0 .. MaxTime /\ setAt \in 0 .. MaxTime /\ readAt \in 0 .. MaxTime
  /\ valid \in BOOLEAN
  /\ baseTick \in 0 .. TickSpan - 1 /\ elapsed \in 0 .. TickSpan - 1
  /\ setter \in {"idle", "epoch", "tick", "valid"}
  /\ reader \in {"idle", "elapsed", "epoch"}
  /\ baseEpoch \in Nat /\ epoch \in Nat /\ stamp \in Nat /\ lag \in Nat

(* A part is stamped 0 or with the true time at which the GUI task read    *)
(* the tick, late by no more than the clock was when it was set, however   *)
(* the two tasks interleave and wherever the tick count wraps around; but  *)
(* only until the tick count has gone round once since the clock was set.  *)
StampIsTrue ==
  [][reader = "epoch" /\ reader' = "idle" /\ readAt - setAt < TickSpan
       => stamp' = Start + readAt - lag]_vars

(* Parts are stamped in the order they are published ("Monotonic wall      *)
(* clock", time_source.h l.13), and once one is stamped all are; again     *)
(* only until the tick count has gone round.                               *)
StampsInOrder == [][readAt' - setAt' < TickSpan => stamp' >= stamp]_vars
=============================================================================
