---------------------------- MODULE BackoffLoop -----------------------------
(***************************************************************************)
(* The delays of Consumer.Run, apart from what it fetches: the interval    *)
(* over any sequence of failed and successful fetches, and the delay slept *)
(* after each failure.  The configured intervals are any that cannot be    *)
(* doubled past the largest duration.                                      *)
(***************************************************************************)
EXTENDS Backoff

CONSTANTS PauseMax,   \* the largest pause after a failed message (500 ms)
          MaxFails    \* bound: failures in a row

ASSUME PauseAssumption == PauseMax \in Nat

VARIABLES retryInitial, retryMax,
          retry,   \* Run's interval
          fails,   \* history: failed fetches since the last success
          slept    \* the delay drawn last

bvars == <<retryInitial, retryMax, retry, fails, slept>>

Init == /\ retryInitial \in {d \in 1 .. MaxInt : 2 * d <= MaxInt}
        /\ retryMax \in {d \in 1 .. MaxInt : 2 * d <= MaxInt}
        /\ retry = retryInitial
        /\ fails = 0
        /\ slept = 0

\* FetchMessage fails: the delay is drawn from the interval, which then grows.
FetchFails == /\ fails < MaxFails
              /\ fails' = fails + 1
              /\ slept' \in withJitterEqual(retry)
              /\ retry' = nextBackoff(retry, retryMax)
              /\ UNCHANGED <<retryInitial, retryMax>>

\* Mutant: the interval is not reset.
FetchSucceeds_NoReset == /\ fails' = 0
                         /\ UNCHANGED <<retryInitial, retryMax, retry, slept>>

\* FetchMessage succeeds.
FetchSucceeds == /\ fails' = 0
                 /\ retry' = retryInitial
                 /\ UNCHANGED <<retryInitial, retryMax, slept>>

\* The message fails: a short pause.
Pauses == /\ fails = 0
          /\ slept' \in withJitterEqual(minDuration(retryInitial, PauseMax))
          /\ UNCHANGED <<retryInitial, retryMax, retry, fails>>

Next == FetchFails \/ FetchSucceeds \/ Pauses

Spec == Init /\ [][Next]_bvars

\* 2 ^ n, as a function that the proofs can unfold.
twoTo[n \in Nat] == IF n = 0 THEN 1 ELSE 2 * twoTo[n - 1]

\* The interval that n failures in a row leave: doubled with each, up to the
\* maximum, even one that is below the first interval.
Interval(n) == IF n = 0 THEN retryInitial
               ELSE minDuration(retryInitial * twoTo[n], retryMax)

\* The interval depends on nothing but the failures since the last success.
IntervalFollowsFailures == retry = Interval(fails)

\* The delay after a failed fetch depends on nothing but the failures since the
\* last success, however long ago that was: it is at least half the interval
\* that they leave and never more.  The pause after a failed message is at most
\* PauseMax.
DelaysFollowFailures ==
    [][/\ FetchFails => /\ IntervalFollowsFailures
                        /\ Interval(fails) \div 2 <= slept'
                        /\ slept' <= Interval(fails)
       /\ Pauses => slept' <= PauseMax]_bvars
=============================================================================
