------------------------------- MODULE Ticks -------------------------------
(***************************************************************************)
(* The kernel tick of the FreeRTOS boards and the unsigned arithmetic the  *)
(* gateway does on it.  osKernelGetTickCount() is a uint32_t that counts   *)
(* milliseconds and wraps, so every sum and difference is taken modulo     *)
(* TICK_MOD (2^32 in the code, small in TLC).  Written with comparisons    *)
(* instead of %, which the provers handle better.                          *)
(***************************************************************************)
EXTENDS Integers

CONSTANT TICK_MOD

ASSUME TickModAssumption == TICK_MOD \in Nat \ {0}

Tick == 0 .. TICK_MOD - 1

\* now - before in uint32_t: a moment `before' that lies after `now' is
\* almost a whole wrap away, not negative.
tick_elapsed(now, before) ==
    IF now >= before THEN now - before ELSE (now - before) + TICK_MOD

\* tick + d in uint32_t, for a period d shorter than the wrap.
TickPlus(t, d) == IF t + d < TICK_MOD THEN t + d ELSE (t + d) - TICK_MOD

\* tick_elapsed(now, deadline) < 0x80000000: the wrap-safe "deadline reached".
Due(now, deadline) == 2 * tick_elapsed(now, deadline) < TICK_MOD

=============================================================================
