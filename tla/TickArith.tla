------------------------------ MODULE TickArith ------------------------------
(* The millisecond tick and the interval arithmetic on it                  *)
(* (app_skyiot_server.c:310-331).  The tick is an unsigned 32-bit counter; *)
(* TickMod is 2^32 in the firmware and small in the models.                *)
EXTENDS Integers

CONSTANT TickMod

ASSUME TickModAssumption == TickMod \in Nat /\ TickMod > 1

Ticks == 0 .. TickMod - 1

(* os_sys_time_get one millisecond later.                                  *)
NextTick(t) == IF t = TickMod - 1 THEN 0 ELSE t + 1

(* HAL_CalculateTickDiff.  Across a wrap the code adds the new tick to     *)
(* (0xFFFFFFFF - old), one less than the time that has passed.             *)
TickDiff(old, new) ==
  IF new >= old THEN new - old ELSE (TickMod - 1 - old) + new

(* What an interval over the wrapping counter really is.                   *)
Elapsed(old, new) == IF new >= old THEN new - old ELSE TickMod - old + new
=============================================================================
