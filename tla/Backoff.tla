------------------------------ MODULE Backoff -------------------------------
(***************************************************************************)
(* The delay arithmetic of the consumer: the doubling interval between     *)
(* failed fetches, its cap, and the jitter drawn from it.  Durations are   *)
(* signed integers of Go's time.Duration; MaxInt is their largest value    *)
(* (2^63 - 1 nanoseconds in the program, a small number when checked).     *)
(***************************************************************************)
EXTENDS Integers

CONSTANT MaxInt

ASSUME MaxIntAssumption == MaxInt \in Nat \ {0}

\* Two's complement: a result past MaxInt wraps around to the negatives.
Wrap(x) == IF x > MaxInt THEN x - 2 * (MaxInt + 1) ELSE x

minDuration(a, b) == IF a < b THEN a ELSE b

\* The interval that follows current, capped by retryMax.
nextBackoff(current, retryMax) ==
    LET doubled == Wrap(2 * current)
    IN  IF doubled > retryMax THEN retryMax ELSE doubled

\* Mutant: the draw is added to d instead of to half of it.
withJitterEqual_OnTop(d) ==
    IF d <= 0 THEN {0} ELSE d .. (d + d \div 2)

\* The delays withJitterEqual can return for d: half of d is fixed, the rest
\* is drawn.
withJitterEqual(d) ==
    IF d <= 0 THEN {0} ELSE (d \div 2) .. d
=============================================================================
