------------------------------ MODULE TickClock ------------------------------
(***************************************************************************)
(* The millisecond clock of the firmware and the arithmetic its timers do  *)
(* on it.  ups_tick_ms() returns a uint32_t that wraps after 49.7 days, so *)
(* every deadline in the code is compared through a subtraction: unsigned  *)
(* for an elapsed time, reinterpreted as int32_t for "not before".         *)
(* ClockMod is 2^32 in the firmware; the model keeps the wrap and makes it *)
(* small enough to be crossed.                                             *)
(***************************************************************************)
EXTENDS Integers

CONSTANT ClockMod    \* number of values of a uint32_t timestamp

ASSUME ClockModAssumption == ClockMod \in Nat /\ ClockMod >= 4 /\ ClockMod % 2 = 0

Time == 0 .. ClockMod - 1

\* Half of the range: where a difference turns negative as an int32_t.
Half == ClockMod \div 2

\* uint32_t addition:  t + d
Add(t, d) == (t + d) % ClockMod

\* uint32_t subtraction:  a - b
Elapsed(a, b) == (a - b) % ClockMod

\* (int32_t)(a - b) < 0
Before(a, b) == Elapsed(a, b) >= Half

\* (int32_t)(a - b) > 0
After(a, b) == Elapsed(a, b) \in 1 .. Half - 1

==============================================================================
