--------------------------- MODULE BackoffProofs ----------------------------
(***************************************************************************)
(* Proofs about the delays of Run, for any width of a duration, configured *)
(* intervals, pause and number of failures.                                *)
(***************************************************************************)
EXTENDS BackoffLoop, NaturalsInduction, WellFoundedInduction, TLAPS

\* The configured intervals can be doubled in the width of a duration.
Configured == /\ retryInitial \in 1 .. MaxInt /\ 2 * retryInitial <= MaxInt
              /\ retryMax \in 1 .. MaxInt /\ 2 * retryMax <= MaxInt

BInv == Configured /\ fails \in Nat /\ IntervalFollowsFailures
-----------------------------------------------------------------------------
\* A set of numbers has a least one.
LEMMA LeastExists ==
    ASSUME NEW T \in SUBSET Nat, T # {}
    PROVE  \E n \in T : \A m \in T : n <= m
<1> DEFINE R == {ss \in Nat \X Nat : ss[1] < ss[2]}
<1>1. IsWellFoundedOn(R, Nat)
  BY NatLessThanWellFounded DEF OpToRel
<1>2. PICK n \in T : \A m \in T : <<m, n>> \notin R
  <2> HIDE DEF R
  <2> QED
    BY <1>1, WFMin
<1>3. ASSUME NEW m \in T
      PROVE  n <= m
  <2>1. ~(m < n)
    BY <1>2
  <2> QED
    BY <2>1
<1> QED
  BY <1>3

\* f holds the powers of two up to n.
Powers(f, n) == /\ f \in [0 .. n -> Nat] /\ f[0] = 1
                /\ \A i \in 1 .. n : f[i] = 2 * f[i - 1]

LEMMA PowersExist == \A n \in Nat : \E f : Powers(f, n)
<1> DEFINE T == {n \in Nat : ~\E f : Powers(f, n)}
<1> SUFFICES ASSUME T # {}
             PROVE  FALSE
  OBVIOUS
<1>1. PICK n \in T : \A m \in T : n <= m
  <2>1. T \in SUBSET Nat
    OBVIOUS
  <2> HIDE DEF T
  <2> QED
    BY <2>1, LeastExists
<1>2. CASE n = 0
  <2>1. Powers([i \in 0 .. 0 |-> 1], 0)
    BY DEF Powers
  <2> QED
    BY <1>1, <1>2, <2>1
<1>3. CASE n # 0
  <2>1. n \in Nat /\ n - 1 \in Nat /\ n - 1 \notin T
    BY <1>1, <1>3
  <2>2. PICK f : Powers(f, n - 1)
    BY <2>1
  <2> DEFINE e(i) == IF i = n THEN 2 * f[n - 1] ELSE f[i]
             g == [i \in 0 .. n |-> e(i)]
  <2>3. \A i \in 0 .. n - 1 : f[i] \in Nat /\ g[i] = f[i] /\ i \in 0 .. n
    BY <2>1, <2>2 DEF Powers
  <2>4. g[n] = 2 * f[n - 1] /\ n - 1 \in 0 .. n - 1
    BY <2>1
  <2>5. g \in [0 .. n -> Nat]
    <3>1. \A i \in 0 .. n : i = n \/ i \in 0 .. n - 1
      BY <2>1
    <3>2. g[n] \in Nat
      <4>1. f[n - 1] \in Nat
        BY <2>3, <2>4
      <4> HIDE DEF g
      <4> QED
        BY <2>4, <4>1
    <3>3. \A i \in 0 .. n : g[i] \in Nat
      <4> HIDE DEF g
      <4> QED
        BY <2>3, <3>1, <3>2
    <3>4. \A i \in 0 .. n : e(i) = g[i]
      <4> HIDE DEF e
      <4> QED
        OBVIOUS
    <3> HIDE DEF e
    <3> QED
      BY <3>3, <3>4
  <2>6. \A i \in 1 .. n : g[i] = 2 * g[i - 1]
    <3> TAKE i \in 1 .. n
    <3>1. CASE i = n
      BY <2>3, <2>4, <3>1
    <3>2. CASE i # n
      <4>1. i \in 1 .. n - 1 /\ i \in 0 .. n - 1 /\ i - 1 \in 0 .. n - 1
        BY <2>1, <3>2
      <4>2. f[i] = 2 * f[i - 1]
        BY <2>2, <4>1 DEF Powers
      <4> HIDE DEF g
      <4> QED
        BY <2>3, <4>1, <4>2
    <3> QED
      BY <3>1, <3>2
  <2>7. g[0] = 1
    BY <2>1, <2>2, <2>3 DEF Powers
  <2>8. Powers(g, n)
    <3> HIDE DEF g
    <3> QED
      BY <2>5, <2>6, <2>7 DEF Powers
  <2> QED
    BY <1>1, <2>8
<1> QED
  BY <1>2, <1>3

LEMMA PowersAgree ==
    ASSUME NEW n \in Nat, NEW m \in Nat, NEW f, NEW g,
           Powers(f, n), Powers(g, m), n <= m
    PROVE  \A i \in 0 .. n : f[i] = g[i]
<1> DEFINE T == {i \in 0 .. n : f[i] # g[i]}
<1> SUFFICES ASSUME T # {}
             PROVE  FALSE
  OBVIOUS
<1>1. PICK i \in T : \A j \in T : i <= j
  <2>1. T \in SUBSET Nat
    OBVIOUS
  <2> HIDE DEF T
  <2> QED
    BY <2>1, LeastExists
<1>2. i \in 0 .. n /\ f[i] # g[i]
  BY <1>1
<1>3. i # 0
  BY <1>2 DEF Powers
<1>4. i \in 1 .. n /\ i \in 1 .. m /\ i - 1 \in 0 .. n /\ ~(i <= i - 1)
  BY <1>2, <1>3
<1>5. f[i - 1] = g[i - 1]
  BY <1>1, <1>4
<1>6. f[i] = 2 * f[i - 1] /\ g[i] = 2 * g[i - 1]
  BY <1>4 DEF Powers
<1> QED
  BY <1>2, <1>5, <1>6

\* The function is what its definition says.
LEMMA TwoTo == twoTo = [n \in Nat |-> IF n = 0 THEN 1 ELSE 2 * twoTo[n - 1]]
<1> DEFINE p(n) == CHOOSE f : Powers(f, n)
           h == [n \in Nat |-> p(n)[n]]
<1>1. \A n \in Nat : Powers(p(n), n)
  BY PowersExist
<1> HIDE DEF p
<1>2. h[0] = 1
  BY <1>1 DEF Powers
<1>3. ASSUME NEW n \in Nat, n # 0
      PROVE  h[n] = 2 * h[n - 1]
  <2>1. n - 1 \in Nat /\ n - 1 <= n /\ n - 1 \in 0 .. n - 1 /\ n \in 1 .. n
    BY <1>3
  <2>2. Powers(p(n), n) /\ Powers(p(n - 1), n - 1)
    BY <1>1, <2>1
  <2>3. p(n - 1)[n - 1] = p(n)[n - 1]
    BY <2>1, <2>2, PowersAgree
  <2>4. p(n)[n] = 2 * p(n)[n - 1]
    BY <2>1, <2>2 DEF Powers
  <2> QED
    BY <2>1, <2>3, <2>4
<1>4. h = [n \in Nat |-> IF n = 0 THEN 1 ELSE 2 * h[n - 1]]
  BY <1>2, <1>3
<1> HIDE DEF h
<1> QED
  BY <1>4 DEF twoTo

LEMMA TwoToDoubles ==
    /\ twoTo[0] = 1
    /\ \A n \in Nat : /\ twoTo[n] \in Nat \ {0}
                      /\ twoTo[n + 1] = 2 * twoTo[n]
<1>1. twoTo[0] = 1
  BY TwoTo
<1>2. \A n \in Nat : twoTo[n + 1] = 2 * twoTo[n]
  <2> TAKE n \in Nat
  <2>1. n + 1 \in Nat /\ n + 1 # 0 /\ (n + 1) - 1 = n
    OBVIOUS
  <2>2. twoTo[n + 1] = 2 * twoTo[(n + 1) - 1]
    BY <2>1, TwoTo
  <2> QED
    BY <2>1, <2>2
<1> DEFINE T == {n \in Nat : twoTo[n] \notin Nat \ {0}}
<1>3. T = {}
  <2> SUFFICES ASSUME T # {}
               PROVE  FALSE
    OBVIOUS
  <2>1. PICK n \in T : \A m \in T : n <= m
    <3>1. T \in SUBSET Nat
      OBVIOUS
    <3> HIDE DEF T
    <3> QED
      BY <3>1, LeastExists
  <2>2. n \in Nat /\ twoTo[n] \notin Nat \ {0}
    BY <2>1
  <2>3. n # 0
    BY <1>1, <2>2
  <2>4. n - 1 \in Nat /\ ~(n <= n - 1) /\ (n - 1) + 1 = n
    BY <2>2, <2>3
  <2>5. twoTo[n - 1] \in Nat \ {0}
    BY <2>1, <2>4
  <2>6. twoTo[n] = 2 * twoTo[n - 1]
    BY <1>2, <2>4
  <2> QED
    BY <2>2, <2>5, <2>6
<1> QED
  BY <1>1, <1>2, <1>3
-----------------------------------------------------------------------------
\* With configured intervals an interval is positive and can be doubled.
LEMMA IntervalInRange ==
    ASSUME BInv
    PROVE  retry \in Nat \ {0} /\ 2 * retry <= MaxInt
<1>1. twoTo[fails] \in Nat \ {0}
  BY TwoToDoubles DEF BInv
<1>2. PICK p \in Nat \ {0} : p = twoTo[fails]
  BY <1>1
<1>3. retryInitial * p \in Nat \ {0}
  BY DEF BInv, Configured
<1>4. PICK d \in Nat \ {0} : d = retryInitial * twoTo[fails]
  BY <1>2, <1>3
<1>5. retry = IF fails = 0 THEN retryInitial
              ELSE IF d < retryMax THEN d ELSE retryMax
  BY <1>4 DEF BInv, IntervalFollowsFailures, Interval, minDuration
<1> QED
  BY <1>5, MaxIntAssumption DEF BInv, Configured

\* A failed fetch doubles the interval within the cap, and no doubling wraps.
LEMMA IntervalDoubles ==
    ASSUME BInv, retry' = nextBackoff(retry, retryMax), fails' = fails + 1,
           UNCHANGED <<retryInitial, retryMax>>
    PROVE  IntervalFollowsFailures'
<1>1. retry \in Nat \ {0} /\ 2 * retry <= MaxInt
  BY IntervalInRange
<1>2. retry' = minDuration(2 * retry, retryMax)
  BY <1>1, MaxIntAssumption DEF nextBackoff, Wrap, minDuration, BInv, Configured
<1>3. PICK p \in Nat \ {0} : p = twoTo[fails] /\ twoTo[fails + 1] = 2 * p
  BY TwoToDoubles DEF BInv
<1>4. PICK d \in Nat \ {0} : d = retryInitial * p
  BY DEF BInv, Configured
<1>5. retryInitial * (2 * p) = 2 * d
  BY <1>4 DEF BInv, Configured
<1>6. fails' # 0 /\ retryInitial' * twoTo[fails'] = 2 * d
  BY <1>3, <1>5 DEF BInv
<1>7. fails = 0 => d = retryInitial
  BY <1>3, <1>4, TwoToDoubles DEF BInv, Configured
<1>8. retry = IF fails = 0 THEN retryInitial ELSE minDuration(d, retryMax)
  BY <1>3, <1>4 DEF BInv, IntervalFollowsFailures, Interval
<1>9. retry' = minDuration(2 * d, retryMax)
  BY <1>2, <1>7, <1>8 DEF minDuration, BInv, Configured
<1> QED
  BY <1>6, <1>9 DEF IntervalFollowsFailures, Interval

LEMMA BInvInit == Init => BInv
BY TwoToDoubles, MaxIntAssumption
   DEF Init, BInv, Configured, IntervalFollowsFailures, Interval

LEMMA BInvNext == BInv /\ [Next]_bvars => BInv'
<1> SUFFICES ASSUME BInv, [Next]_bvars
             PROVE  BInv'
  OBVIOUS
<1>1. CASE FetchFails
  <2>1. IntervalFollowsFailures'
    BY <1>1, IntervalDoubles DEF FetchFails
  <2> QED
    BY <1>1, <2>1 DEF FetchFails, BInv, Configured
<1>2. CASE FetchSucceeds
  BY <1>2 DEF FetchSucceeds, BInv, Configured, IntervalFollowsFailures, Interval
<1>3. CASE Pauses
  BY <1>3 DEF Pauses, BInv, Configured, IntervalFollowsFailures, Interval
<1>4. CASE UNCHANGED bvars
  BY <1>4 DEF bvars, BInv, Configured, IntervalFollowsFailures, Interval
<1> QED
  BY <1>1, <1>2, <1>3, <1>4 DEF Next

\* The interval is a function of the failures since the last success, and the
\* configured intervals are never lost.
THEOREM IntervalInv == Spec => []BInv
BY BInvInit, BInvNext, PTL DEF Spec

\* The delays after failed fetches double with every failure in a row, up to the
\* maximum, and start again after a success; each is drawn from the upper half
\* of its interval.  The pause after a failed message is at most PauseMax.
THEOREM DelaysFollow == Spec => DelaysFollowFailures
<1> DEFINE Delays == /\ FetchFails => /\ IntervalFollowsFailures
                                      /\ Interval(fails) \div 2 <= slept'
                                      /\ slept' <= Interval(fails)
                     /\ Pauses => slept' <= PauseMax
<1>1. BInv /\ [Next]_bvars => [Delays]_bvars
  <2> SUFFICES ASSUME BInv
               PROVE  Delays
    OBVIOUS
  <2>1. IntervalFollowsFailures /\ retry \in Nat \ {0}
    BY IntervalInRange DEF BInv
  <2>2. ASSUME FetchFails
        PROVE  Interval(fails) \div 2 <= slept' /\ slept' <= Interval(fails)
    <3>1. slept' \in (retry \div 2) .. retry
      BY <2>1, <2>2 DEF FetchFails, withJitterEqual
    <3>2. retry \div 2 <= slept' /\ slept' <= retry
      BY <2>1, <3>1
    <3> QED
      BY <2>1, <3>2 DEF IntervalFollowsFailures
  <2>3. ASSUME Pauses
        PROVE  slept' <= PauseMax
    <3>1. PICK d \in Nat : d = minDuration(retryInitial, PauseMax) /\ d <= PauseMax
      BY PauseAssumption DEF BInv, Configured, minDuration
    <3>2. slept' \in withJitterEqual(d)
      BY <2>3, <3>1 DEF Pauses
    <3>3. slept' = 0 \/ slept' \in (d \div 2) .. d
      BY <3>2 DEF withJitterEqual
    <3> QED
      BY <3>1, <3>3, PauseAssumption
  <2> QED
    BY <2>1, <2>2, <2>3
<1> QED
  BY <1>1, IntervalInv, PTL DEF Spec, DelaysFollowFailures
=============================================================================
