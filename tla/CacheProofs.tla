---------------------------- MODULE CacheProofs ----------------------------
(***************************************************************************)
(* Proofs about the order cache, for any threads, keys, contents, capacity *)
(* and time to live; then about its warm-up, for any stored orders, dates  *)
(* and configured number.                                                  *)
(***************************************************************************)
EXTENDS WarmUp, SequenceTheorems, FunctionTheorems, FiniteSetTheorems, TLAPS

\* A list holds each key once.
Distinct(s) == \A i, j \in DOMAIN s : s[i].id = s[j].id => i = j

\* The list and the index hold the same keys within the capacity.
Listed == Distinct(ll) /\ cache = Ids(ll) /\ Len(ll) <= Capacity

\* A thread in a call has read the clock before.
CallsPast == \A t \in Threads : call[t] # Idle => call[t].now <= clock

\* An entry expires within the TTL of the last use of its key.
Stamped == \A i \in DOMAIN ll :
              /\ touched[ll[i].id] # Never
              /\ TTL > 0 => ll[i].expiresAt <= touched[ll[i].id] + TTL

\* The keys in front of an entry were used since its own last use.
FrontIsSince ==
    \A i \in DOMAIN ll : \A j \in 1 .. i - 1 : ll[j].id \in since[ll[i].id]

\* The list is in the order of the last uses, none of which is to come.
UsedInOrder ==
    \A i \in DOMAIN ll :
        /\ touched[ll[i].id] <= clock
        /\ \A j \in 1 .. i - 1 : touched[ll[i].id] <= touched[ll[j].id]

\* A key that was used and left unexpired was replaced by others.
Replaced == \A k \in Keys :
               /\ IsFiniteSet(since[k])
               /\ touched[k] # Never /\ k \notin cache
                      => Capacity <= Cardinality(since[k])

CacheInv == /\ ll \in Seq(Entry) /\ cache \subseteq Keys
            /\ touched \in [Keys -> Never .. MaxTime]
            /\ since \in [Keys -> SUBSET Keys]
            /\ Listed /\ Stamped /\ FrontIsSince /\ UsedInOrder /\ Replaced

CallInv == /\ clock \in 0 .. MaxTime
           /\ call \in [Threads -> Call]
           /\ ret \in [Threads -> Values \cup {Miss, Ok, ErrInvalidOrder}]
           /\ CallsPast

\* The inductive invariant.
IInv == CacheInv /\ CallInv
-----------------------------------------------------------------------------
(* The list.                                                               *)

LEMMA CapacityType == Capacity \in Nat /\ Capacity >= 1
  BY CacheAssumption DEF Capacity

\* The entries of a list, and the keys they have.
LEMMA EntryProperties ==
    ASSUME NEW s \in Seq(Entry)
    PROVE  /\ Len(s) \in Nat /\ DOMAIN s = 1 .. Len(s)
           /\ \A i \in 1 .. Len(s) : /\ s[i] \in Entry /\ s[i].id \in Keys
                                     /\ s[i].order \in Values
                                     /\ s[i].expiresAt \in Nat
           /\ Ids(s) \subseteq Keys
<1>1. Len(s) \in Nat /\ DOMAIN s = 1 .. Len(s)
  BY LenProperties
<1>2. \A i \in 1 .. Len(s) : s[i] \in Entry
  BY ElementOfSeq
<1> QED
  BY <1>1, <1>2 DEF Entry, Ids

LEMMA IdsProperties ==
    ASSUME NEW s \in Seq(Entry), NEW k
    PROVE  k \in Ids(s) <=> \E i \in 1 .. Len(s) : s[i].id = k
  BY EntryProperties DEF Ids

\* The index leads to the one entry of a key.
LEMMA PlaceProperties ==
    ASSUME NEW s, Distinct(s)
    PROVE  /\ \A id \in Ids(s) : Place(s, id) \in DOMAIN s /\ s[Place(s, id)].id = id
           /\ \A i \in DOMAIN s : Place(s, s[i].id) = i
<1>1. ASSUME NEW id \in Ids(s)
      PROVE  Place(s, id) \in DOMAIN s /\ s[Place(s, id)].id = id
  <2>1. \E i \in DOMAIN s : s[i].id = id
    BY DEF Ids
  <2> QED
    BY <2>1 DEF Place
<1>2. ASSUME NEW i \in DOMAIN s
      PROVE  Place(s, s[i].id) = i
  <2>1. s[i].id \in Ids(s)
    BY DEF Ids
  <2> QED
    BY <1>1, <2>1 DEF Distinct
<1> QED
  BY <1>1, <1>2

\* The list without one of its entries.
LEMMA WithoutProperties ==
    ASSUME NEW s \in Seq(Entry), NEW i \in 1 .. Len(s)
    PROVE  /\ Without(s, i) \in Seq(Entry)
           /\ Len(Without(s, i)) = Len(s) - 1
           /\ \A j \in 1 .. Len(s) - 1 :
                 Without(s, i)[j] = IF j < i THEN s[j] ELSE s[j + 1]
<1> DEFINE a == SubSeq(s, 1, i - 1)
           b == SubSeq(s, i + 1, Len(s))
<1>0. Len(s) \in Nat /\ \A j \in 1 .. Len(s) : s[j] \in Entry
  BY EntryProperties
<1>1. /\ a \in Seq(Entry) /\ Len(a) = i - 1
      /\ \A j \in 1 .. i - 1 : a[j] = s[j]
  <2>1. i - 1 \in Int /\ \A j \in 1 .. i - 1 : s[j] \in Entry
    BY <1>0
  <2>2. /\ SubSeq(s, 1, i - 1) \in Seq(Entry)
        /\ Len(SubSeq(s, 1, i - 1)) = IF 1 <= i - 1 THEN (i - 1) - 1 + 1 ELSE 0
        /\ \A j \in 1 .. (i - 1) - 1 + 1 : SubSeq(s, 1, i - 1)[j] = s[1 + j - 1]
    BY <2>1, SubSeqProperties, Z3
  <2> QED
    BY <1>0, <2>2
<1>2. /\ b \in Seq(Entry) /\ Len(b) = Len(s) - i
      /\ \A j \in 1 .. Len(s) - i : b[j] = s[i + j]
  <2>1. i + 1 \in Int /\ \A j \in i + 1 .. Len(s) : s[j] \in Entry
    BY <1>0
  <2>2. /\ SubSeq(s, i + 1, Len(s)) \in Seq(Entry)
        /\ Len(SubSeq(s, i + 1, Len(s))) =
              IF i + 1 <= Len(s) THEN Len(s) - (i + 1) + 1 ELSE 0
        /\ \A j \in 1 .. Len(s) - (i + 1) + 1 :
              SubSeq(s, i + 1, Len(s))[j] = s[(i + 1) + j - 1]
    BY <1>0, <2>1, SubSeqProperties, Z3
  <2> QED
    BY <1>0, <2>2
<1> HIDE DEF a, b
<1>3. /\ a \o b \in Seq(Entry) /\ Len(a \o b) = Len(a) + Len(b)
      /\ \A j \in 1 .. Len(a) + Len(b) :
            (a \o b)[j] = IF j <= Len(a) THEN a[j] ELSE b[j - Len(a)]
  BY <1>1, <1>2, ConcatProperties, Z3
<1>4. Without(s, i) = a \o b
  BY DEF Without, a, b
<1>5. ASSUME NEW j \in 1 .. Len(s) - 1
      PROVE  (a \o b)[j] = IF j < i THEN s[j] ELSE s[j + 1]
  <2>1. CASE j < i
    BY <1>0, <1>1, <1>2, <1>3, <2>1
  <2>2. CASE ~(j < i)
    <3>1. j - (i - 1) \in 1 .. Len(s) - i /\ i + (j - (i - 1)) = j + 1
      BY <1>0, <2>2
    <3>2. (a \o b)[j] = b[j - (i - 1)]
      BY <1>0, <1>1, <1>2, <1>3, <2>2
    <3> QED
      BY <1>0, <1>2, <2>2, <3>1, <3>2
  <2> QED
    BY <2>1, <2>2
<1> QED
  BY <1>0, <1>1, <1>2, <1>3, <1>4, <1>5

\* The first entries of a list.
LEMMA PrefixProperties ==
    ASSUME NEW s \in Seq(Entry), NEW n \in 0 .. Len(s)
    PROVE  /\ SubSeq(s, 1, n) \in Seq(Entry)
           /\ Len(SubSeq(s, 1, n)) = n
           /\ \A j \in 1 .. n : SubSeq(s, 1, n)[j] = s[j]
<1>0. Len(s) \in Nat /\ \A j \in 1 .. Len(s) : s[j] \in Entry
  BY EntryProperties
<1>1. n \in Int /\ \A j \in 1 .. n : s[j] \in Entry
  BY <1>0
<1>2. /\ SubSeq(s, 1, n) \in Seq(Entry)
      /\ Len(SubSeq(s, 1, n)) = IF 1 <= n THEN n - 1 + 1 ELSE 0
      /\ \A j \in 1 .. n - 1 + 1 : SubSeq(s, 1, n)[j] = s[1 + j - 1]
  BY <1>1, SubSeqProperties, Z3
<1> QED
  BY <1>0, <1>2

\* A list with a new entry at the front.
LEMMA FrontProperties ==
    ASSUME NEW s \in Seq(Entry), NEW e \in Entry
    PROVE  /\ <<e>> \o s \in Seq(Entry)
           /\ Len(<<e>> \o s) = Len(s) + 1
           /\ (<<e>> \o s)[1] = e
           /\ \A j \in 2 .. Len(s) + 1 : (<<e>> \o s)[j] = s[j - 1]
<1>1. <<e>> \in Seq(Entry) /\ Len(<<e>>) = 1 /\ <<e>>[1] = e
  OBVIOUS
<1>2. Len(s) \in Nat
  BY EntryProperties
<1> DEFINE f == <<e>>
<1> HIDE DEF f
<1>3. /\ f \o s \in Seq(Entry) /\ Len(f \o s) = Len(f) + Len(s)
      /\ \A j \in 1 .. Len(f) + Len(s) :
            (f \o s)[j] = IF j <= Len(f) THEN f[j] ELSE s[j - Len(f)]
  BY <1>1, ConcatProperties, Z3 DEF f
<1>4. f \in Seq(Entry) /\ Len(f) = 1 /\ f[1] = e
  BY <1>1 DEF f
<1>5. /\ f \o s \in Seq(Entry) /\ Len(f \o s) = Len(s) + 1 /\ (f \o s)[1] = e
      /\ \A j \in 2 .. Len(s) + 1 : (f \o s)[j] = s[j - 1]
  BY <1>2, <1>3, <1>4
<1> QED
  BY <1>5 DEF f

\* A list that holds each key once is as long as it has keys.
LEMMA LenIsCardinality ==
    ASSUME NEW s \in Seq(Entry), Distinct(s)
    PROVE  IsFiniteSet(Ids(s)) /\ Cardinality(Ids(s)) = Len(s)
<1> DEFINE f == [i \in 1 .. Len(s) |-> s[i].id]
<1>0. Len(s) \in Nat /\ DOMAIN s = 1 .. Len(s)
  BY EntryProperties
<1>1. f \in [1 .. Len(s) -> Ids(s)]
  BY <1>0 DEF Ids
<1>2. \A a, b \in 1 .. Len(s) : f[a] = f[b] => a = b
  BY <1>0 DEF Distinct
<1>3. \A k \in Ids(s) : \E i \in 1 .. Len(s) : f[i] = k
  BY <1>0 DEF Ids
<1> HIDE DEF f
<1>4. f \in Bijection(1 .. Len(s), Ids(s))
  BY <1>1, <1>2, <1>3, Fun_IsBij
<1>5. ExistsBijection(1 .. Len(s), Ids(s))
  BY <1>4 DEF ExistsBijection
<1> QED
  BY <1>0, <1>5, FS_NatBijection, FS_CountingElements
-----------------------------------------------------------------------------
(* The threads and the history.                                            *)

\* What a thread in Get or Set has read.
LEMMA CallProperties ==
    ASSUME CallInv, NEW t \in Threads
    PROVE  /\ clock \in Nat /\ clock <= MaxTime
           /\ Getting(t) => /\ call[t] # Idle /\ call[t].uid \in Keys
                            /\ call[t].now \in Nat /\ call[t].now <= clock
           /\ Setting(t) => /\ call[t] # Idle /\ call[t].uid \in Keys
                            /\ call[t].val \in Values
                            /\ call[t].now \in Nat /\ call[t].now <= clock
<1>1. call[t] \in Call
  BY DEF CallInv
<1>2. CASE call[t].op = "get"
  <2>1. call[t] \in [op : {"get"}, uid : Keys, now : 0 .. MaxTime] /\ call[t] # Idle
    BY <1>1, <1>2 DEF Call, Idle
  <2> QED
    BY <1>2, <2>1, CacheAssumption DEF CallInv, CallsPast, Getting, Setting
<1>3. CASE call[t].op = "set"
  <2>1. /\ call[t] \in [op : {"set"}, uid : Keys, val : Values, now : 0 .. MaxTime]
        /\ call[t] # Idle
    BY <1>1, <1>3 DEF Call, Idle
  <2> QED
    BY <1>3, <2>1, CacheAssumption DEF CallInv, CallsPast, Getting, Setting
<1> QED
  BY <1>2, <1>3, CacheAssumption DEF Getting, Setting, CallInv

LEMMA EntryTyped ==
    ASSUME CallInv, NEW t \in Threads, Setting(t)
    PROVE  /\ NewEntry(t) \in Entry /\ NewEntry(t).id = call[t].uid
           /\ NewEntry(t).order = call[t].val
           /\ TTL > 0 => NewEntry(t).expiresAt <= clock + TTL
<1>1. /\ call[t].uid \in Keys /\ call[t].val \in Values
      /\ call[t].now \in Nat /\ call[t].now <= clock /\ clock \in Nat
  BY CallProperties
<1>2. /\ expiryFrom(call[t].now) \in Nat
      /\ TTL > 0 => expiryFrom(call[t].now) <= clock + TTL
  BY <1>1, CacheAssumption DEF expiryFrom
<1> QED
  BY <1>1, <1>2 DEF NewEntry, Entry

LEMMA ReturnKeepsCalls ==
    ASSUME CallInv, NEW t \in Threads,
           NEW r \in Values \cup {Miss, Ok, ErrInvalidOrder},
           Return(t, r), clock' = clock
    PROVE  CallInv'
<1>1. call' \in [Threads -> Call] /\ \A u \in Threads : call'[u] \in {call[u], Idle}
  BY DEF CallInv, Return, Call
<1>2. ret' \in [Threads -> Values \cup {Miss, Ok, ErrInvalidOrder}]
  BY DEF CallInv, Return
<1>3. CallsPast'
  BY <1>1 DEF CallInv, CallsPast
<1> QED
  BY <1>1, <1>2, <1>3 DEF CallInv

LEMMA EnterKeepsCalls ==
    ASSUME CallInv, NEW t \in Threads, NEW c \in Call, c.now = clock,
           Enter(t, c), ret' = ret, clock' = clock
    PROVE  CallInv'
<1>1. /\ call' \in [Threads -> Call]
      /\ \A u \in Threads : call'[u] = call[u] \/ call'[u] = c
  BY DEF CallInv, Enter
<1>2. clock <= clock
  BY CacheAssumption DEF CallInv
<1>3. CallsPast'
  BY <1>1, <1>2 DEF CallInv, CallsPast
<1> QED
  BY <1>1, <1>3 DEF CallInv

\* A use of a key only adds to what was used since the last use of the others.
LEMMA TouchProperties ==
    ASSUME IInv, NEW k \in Keys, NEW lost \in SUBSET Keys, Touch(k, lost)
    PROVE  /\ touched' \in [Keys -> Never .. MaxTime]
           /\ since' \in [Keys -> SUBSET Keys]
           /\ touched'[k] = clock /\ touched'[k] # Never
           /\ \A j \in Keys : IsFiniteSet(since'[j])
           /\ \A j \in Keys \ {k} : touched'[j] # Never =>
                 /\ j \notin lost /\ touched[j] # Never
                 /\ touched'[j] = touched[j] /\ since'[j] = since[j] \cup {k}
                 /\ Cardinality(since[j]) <= Cardinality(since'[j])
           /\ \A j \in Keys \ (lost \cup {k}) : touched'[j] = touched[j]
<1>1. clock \in 0 .. MaxTime /\ MaxTime \in Nat
  BY CacheAssumption DEF IInv, CallInv
<1>2. touched' \in [Keys -> Never .. MaxTime] /\ touched'[k] = clock
  BY <1>1 DEF IInv, CacheInv, Touch, Never
<1>3. since' \in [Keys -> SUBSET Keys]
  BY DEF IInv, CacheInv, Touch
<1>4. ASSUME NEW j \in Keys
      PROVE  IsFiniteSet(since'[j])
  <2>1. since'[j] \in {{}, since[j] \cup {k}}
    BY DEF Touch
  <2>2. IsFiniteSet(since[j] \cup {k}) /\ IsFiniteSet({})
    BY FS_AddElement, FS_EmptySet DEF IInv, CacheInv, Replaced
  <2> QED
    BY <2>1, <2>2
<1>5. ASSUME NEW j \in Keys \ {k}, touched'[j] # Never
      PROVE  /\ j \notin lost /\ touched[j] # Never
             /\ touched'[j] = touched[j] /\ since'[j] = since[j] \cup {k}
             /\ Cardinality(since[j]) <= Cardinality(since'[j])
  <2>1. /\ j \notin lost /\ touched[j] # Never
        /\ touched'[j] = touched[j] /\ since'[j] = since[j] \cup {k}
    BY <1>5 DEF Touch
  <2>2. since[j] \in SUBSET since'[j]
    BY <2>1
  <2>3. Cardinality(since[j]) <= Cardinality(since'[j])
    BY <1>4, <2>2, FS_Subset
  <2> QED
    BY <2>1, <2>3
<1>6. \A j \in Keys \ (lost \cup {k}) : touched'[j] = touched[j]
  BY DEF Touch
<1> QED
  BY <1>1, <1>2, <1>3, <1>4, <1>5, <1>6 DEF Never

\* The entries behind the first are those p leads to, in the order they had.
Keeps(p, k, lost) ==
    /\ p \in [2 .. Len(ll') -> 1 .. Len(ll)]
    /\ \A i, j \in 2 .. Len(ll') : i < j => p[i] < p[j]
    /\ \A j \in 2 .. Len(ll') : /\ ll'[j] = ll[p[j]] /\ ll[p[j]].id # k
                               /\ ll[p[j]].id \notin lost

\* An entry of a key put at the front of entries that keep their order.
LEMMA PushKeepsOrder ==
    ASSUME IInv, NEW k \in Keys, NEW lost \in SUBSET Keys, Touch(k, lost),
           ll' \in Seq(Entry), Len(ll') >= 1, ll'[1].id = k,
           TTL > 0 => ll'[1].expiresAt <= clock + TTL,
           clock' = clock, NEW p, Keeps(p, k, lost)
    PROVE  Distinct(ll') /\ Stamped' /\ FrontIsSince' /\ UsedInOrder'
<1>1. /\ Len(ll) \in Nat /\ DOMAIN ll = 1 .. Len(ll)
      /\ \A i \in 1 .. Len(ll) : ll[i].id \in Keys
  BY EntryProperties DEF IInv, CacheInv
<1>2. /\ Len(ll') \in Nat /\ DOMAIN ll' = 1 .. Len(ll')
      /\ \A i \in 1 .. Len(ll') : ll'[i].id \in Keys
  BY EntryProperties
<1>3. /\ \A i \in 2 .. Len(ll') : p[i] \in 1 .. Len(ll)
      /\ \A i, j \in 2 .. Len(ll') : i < j => p[i] < p[j]
      /\ \A j \in 2 .. Len(ll') : /\ ll'[j] = ll[p[j]] /\ ll[p[j]].id # k
                                 /\ ll[p[j]].id \notin lost
  BY DEF Keeps
<1>4. \A i \in 2 .. Len(ll') : /\ touched[ll[p[i]].id] # Never
                               /\ touched'[ll'[i].id] = touched[ll[p[i]].id]
                               /\ since'[ll'[i].id] = since[ll[p[i]].id] \cup {k}
  <2> SUFFICES ASSUME NEW i \in 2 .. Len(ll')
               PROVE  /\ touched[ll[p[i]].id] # Never
                      /\ touched'[ll'[i].id] = touched[ll[p[i]].id]
                      /\ since'[ll'[i].id] = since[ll[p[i]].id] \cup {k}
    OBVIOUS
  <2>1. touched[ll[p[i]].id] # Never
    BY <1>1, <1>3 DEF IInv, CacheInv, Stamped
  <2>2. ll[p[i]].id \in Keys \ (lost \cup {k}) /\ ll'[i] = ll[p[i]]
    BY <1>1, <1>3
  <2>3. touched'[ll[p[i]].id] = touched[ll[p[i]].id]
    BY <2>2, TouchProperties
  <2>4. since'[ll[p[i]].id] = since[ll[p[i]].id] \cup {k}
    BY <2>1, <2>2, <2>3, TouchProperties
  <2> QED
    BY <2>1, <2>2, <2>3, <2>4
<1>5. touched'[k] = clock /\ touched'[k] # Never
  BY TouchProperties
<1>6. Distinct(ll')
  <2> SUFFICES ASSUME NEW i \in 1 .. Len(ll'), NEW j \in 1 .. Len(ll'),
                      ll'[i].id = ll'[j].id
               PROVE  i = j
    BY <1>2 DEF Distinct
  <2>1. CASE i = 1 \/ j = 1
    BY <1>2, <1>3, <2>1
  <2>2. CASE i \in 2 .. Len(ll') /\ j \in 2 .. Len(ll')
    <3>1. ll[p[i]].id = ll[p[j]].id
      BY <1>3, <2>2
    <3>2. p[i] = p[j]
      BY <1>1, <1>3, <2>2, <3>1 DEF IInv, CacheInv, Listed, Distinct
    <3> QED
      BY <1>2, <1>3, <2>2, <3>2
  <2> QED
    BY <1>2, <2>1, <2>2
<1>7. Stamped'
  <2> SUFFICES ASSUME NEW i \in 1 .. Len(ll')
               PROVE  /\ touched'[ll'[i].id] # Never
                      /\ TTL > 0 => ll'[i].expiresAt <= touched'[ll'[i].id] + TTL
    BY <1>2 DEF Stamped
  <2>1. CASE i = 1
    BY <1>5, <2>1
  <2>2. CASE i \in 2 .. Len(ll')
    <3>1. ll'[i] = ll[p[i]] /\ p[i] \in 1 .. Len(ll)
      BY <1>3, <2>2
    <3>2. TTL > 0 => ll[p[i]].expiresAt <= touched[ll[p[i]].id] + TTL
      BY <1>1, <3>1 DEF IInv, CacheInv, Stamped
    <3> QED
      BY <1>4, <2>2, <3>1, <3>2
  <2> QED
    BY <1>2, <2>1, <2>2
<1>8. FrontIsSince'
  <2> SUFFICES ASSUME NEW i \in 1 .. Len(ll'), NEW j \in 1 .. i - 1
               PROVE  ll'[j].id \in since'[ll'[i].id]
    BY <1>2 DEF FrontIsSince
  <2>1. i \in 2 .. Len(ll')
    BY <1>2
  <2>2. CASE j = 1
    BY <1>4, <2>1, <2>2
  <2>3. CASE j \in 2 .. Len(ll')
    <3>1. p[j] \in 1 .. p[i] - 1 /\ p[i] \in 1 .. Len(ll) /\ ll'[j] = ll[p[j]]
      BY <1>1, <1>2, <1>3, <2>1, <2>3
    <3>2. ll[p[j]].id \in since[ll[p[i]].id]
      BY <1>1, <3>1 DEF IInv, CacheInv, FrontIsSince
    <3> QED
      BY <1>4, <2>1, <3>1, <3>2
  <2> QED
    BY <1>2, <2>1, <2>2, <2>3
<1>9. UsedInOrder'
  <2>0. clock \in Nat /\ \A i \in 1 .. Len(ll) : touched[ll[i].id] \in Int
    BY <1>1, CacheAssumption DEF IInv, CacheInv, CallInv, Never
  <2>1. \A i \in 2 .. Len(ll') : touched'[ll'[i].id] <= clock
    BY <1>1, <1>3, <1>4 DEF IInv, CacheInv, UsedInOrder
  <2>2. ASSUME NEW i \in 1 .. Len(ll'), NEW j \in 1 .. i - 1
        PROVE  touched'[ll'[i].id] <= touched'[ll'[j].id]
    <3>1. i \in 2 .. Len(ll')
      BY <1>2
    <3>2. CASE j = 1
      BY <1>5, <2>1, <3>1, <3>2
    <3>3. CASE j \in 2 .. Len(ll')
      <4>1. p[j] \in 1 .. p[i] - 1 /\ p[i] \in 1 .. Len(ll)
        BY <1>1, <1>2, <1>3, <3>1, <3>3
      <4>2. touched[ll[p[i]].id] <= touched[ll[p[j]].id]
        BY <1>1, <4>1 DEF IInv, CacheInv, UsedInOrder
      <4> QED
        BY <1>4, <3>1, <3>3, <4>2
    <3> QED
      BY <1>2, <3>2, <3>3
  <2>3. touched'[ll'[1].id] <= clock
    BY <1>5, <2>0
  <2>4. \A i \in 1 .. Len(ll') : touched'[ll'[i].id] <= clock
    BY <1>2, <2>1, <2>3
  <2> QED
    BY <1>2, <2>2, <2>4 DEF UsedInOrder
<1> QED
  BY <1>6, <1>7, <1>8, <1>9
-----------------------------------------------------------------------------
(* What Get and Set do under the mutex.                                    *)

\* An entry moves to the front.
LEMMA MoveProperties ==
    ASSUME NEW s \in Seq(Entry), NEW i \in 1 .. Len(s), NEW e \in Entry,
           e.id = s[i].id
    PROVE  LET w == <<e>> \o Without(s, i)
           IN  /\ w \in Seq(Entry) /\ Len(w) = Len(s) /\ w[1] = e
               /\ \A j \in 2 .. Len(s) : w[j] = IF j <= i THEN s[j - 1] ELSE s[j]
               /\ Ids(w) = Ids(s)
<1> DEFINE w == <<e>> \o Without(s, i)
<1>0. Len(s) \in Nat /\ DOMAIN s = 1 .. Len(s)
  BY EntryProperties
<1>1. /\ Without(s, i) \in Seq(Entry) /\ Len(Without(s, i)) = Len(s) - 1
      /\ \A j \in 1 .. Len(s) - 1 :
            Without(s, i)[j] = IF j < i THEN s[j] ELSE s[j + 1]
  BY WithoutProperties
<1>2. /\ w \in Seq(Entry) /\ Len(w) = Len(s) /\ w[1] = e
      /\ \A j \in 2 .. Len(s) : w[j] = Without(s, i)[j - 1]
  <2>1. /\ w \in Seq(Entry) /\ Len(w) = Len(Without(s, i)) + 1 /\ w[1] = e
        /\ \A j \in 2 .. Len(Without(s, i)) + 1 : w[j] = Without(s, i)[j - 1]
    BY <1>1, FrontProperties
  <2> HIDE DEF w
  <2> QED
    BY <1>0, <1>1, <2>1
<1> HIDE DEF w
<1>3. ASSUME NEW j \in 2 .. Len(s)
      PROVE  w[j] = IF j <= i THEN s[j - 1] ELSE s[j]
  <2>1. j - 1 \in 1 .. Len(s) - 1 /\ (j - 1 < i <=> j <= i) /\ (j - 1) + 1 = j
    BY <1>0
  <2>2. w[j] = IF j - 1 < i THEN s[j - 1] ELSE s[(j - 1) + 1]
    BY <1>1, <1>2, <2>1
  <2> QED
    BY <2>1, <2>2
<1>4. \A j \in 1 .. Len(s) : \E m \in 1 .. Len(s) : w[j].id = s[m].id
  BY <1>0, <1>2, <1>3
<1>5. \A m \in 1 .. Len(s) : \E j \in 1 .. Len(s) : w[j].id = s[m].id
  <2> SUFFICES ASSUME NEW m \in 1 .. Len(s)
               PROVE  \E j \in 1 .. Len(s) : w[j].id = s[m].id
    OBVIOUS
  <2>1. CASE m = i
    BY <1>0, <1>2, <2>1
  <2>2. CASE m < i
    <3>1. m + 1 \in 2 .. Len(s) /\ m + 1 <= i /\ (m + 1) - 1 = m
      BY <1>0, <2>2
    <3>2. w[m + 1] = s[m]
      BY <1>3, <3>1
    <3> QED
      BY <1>0, <3>1, <3>2
  <2>3. CASE m > i
    BY <1>0, <1>3, <2>3
  <2> QED
    BY <1>0, <2>1, <2>2, <2>3
<1>6. Ids(w) = Ids(s)
  <2>1. ASSUME NEW k \in Ids(w)
        PROVE  k \in Ids(s)
    <3>1. PICK j \in 1 .. Len(s) : w[j].id = k
      BY <1>2, <2>1, IdsProperties
    <3>2. PICK m \in 1 .. Len(s) : s[m].id = k
      BY <1>4, <3>1
    <3> QED
      BY <3>2, IdsProperties
  <2>2. ASSUME NEW k \in Ids(s)
        PROVE  k \in Ids(w)
    <3>1. PICK m \in 1 .. Len(s) : s[m].id = k
      BY <2>2, IdsProperties
    <3>2. PICK j \in 1 .. Len(s) : w[j].id = k
      BY <1>5, <3>1
    <3> QED
      BY <1>2, <3>2, IdsProperties
  <2> QED
    BY <2>1, <2>2
<1> QED
  BY <1>2, <1>3, <1>6 DEF w

\* GetHit and SetUpdate: the key keeps its one entry, now at the front.
LEMMA MoveKeepsCache ==
    ASSUME IInv, NEW k \in cache, NEW e \in Entry, e.id = k,
           TTL > 0 => e.expiresAt <= clock + TTL,
           ll' = <<e>> \o Without(ll, Place(ll, k)), Touch(k, {}), cache' = cache,
           clock' = clock
    PROVE  CacheInv'
<1> DEFINE i == Place(ll, k)
<1>0. /\ ll \in Seq(Entry) /\ Distinct(ll) /\ cache = Ids(ll)
      /\ cache \subseteq Keys /\ Len(ll) <= Capacity
  BY DEF IInv, CacheInv, Listed
<1>1. /\ Len(ll) \in Nat /\ DOMAIN ll = 1 .. Len(ll)
  BY <1>0, EntryProperties
<1>2. i \in 1 .. Len(ll) /\ ll[i].id = k
  BY <1>0, <1>1, PlaceProperties
<1> HIDE DEF i
<1>3. /\ ll' \in Seq(Entry) /\ Len(ll') = Len(ll) /\ ll'[1] = e
      /\ \A j \in 2 .. Len(ll) : ll'[j] = IF j <= i THEN ll[j - 1] ELSE ll[j]
      /\ Ids(ll') = Ids(ll)
  BY <1>0, <1>2, MoveProperties DEF i
<1> DEFINE p == [j \in 2 .. Len(ll') |-> IF j <= i THEN j - 1 ELSE j]
<1>4. p \in [2 .. Len(ll') -> 1 .. Len(ll)]
  BY <1>1, <1>2, <1>3
<1>5. \A a, b \in 2 .. Len(ll') : a < b => p[a] < p[b]
  BY <1>1, <1>2, <1>3
<1>6. ASSUME NEW j \in 2 .. Len(ll')
      PROVE  ll'[j] = ll[p[j]] /\ ll[p[j]].id # k /\ ll[p[j]].id \notin {}
  <2>1. p[j] = (IF j <= i THEN j - 1 ELSE j) /\ p[j] # i /\ p[j] \in 1 .. Len(ll)
    BY <1>1, <1>2, <1>3
  <2>2. ll'[j] = ll[p[j]]
    BY <1>3, <2>1
  <2>3. ll[p[j]].id # k
    BY <1>0, <1>1, <1>2, <2>1 DEF Distinct
  <2> QED
    BY <2>2, <2>3
<1> HIDE DEF p
<1>7. k \in Keys /\ {} \in SUBSET Keys /\ Len(ll') >= 1
  BY <1>0, <1>1, <1>2, <1>3
<1>8. Distinct(ll') /\ Stamped' /\ FrontIsSince' /\ UsedInOrder'
  <2>1. Keeps(p, k, {})
    BY <1>4, <1>5, <1>6 DEF Keeps
  <2> QED
    BY <1>3, <1>7, <2>1, PushKeepsOrder
<1>9. Listed'
  BY <1>0, <1>3, <1>8 DEF Listed
<1>10. Replaced'
  <2>1. ASSUME NEW j \in Keys
        PROVE  /\ IsFiniteSet(since'[j])
               /\ touched'[j] # Never /\ j \notin cache'
                    => Capacity <= Cardinality(since'[j])
    <3>1. IsFiniteSet(since'[j]) /\ IsFiniteSet(since[j])
      BY <1>7, TouchProperties DEF IInv, CacheInv, Replaced
    <3>2. Cardinality(since'[j]) \in Nat /\ Cardinality(since[j]) \in Nat
      BY <3>1, FS_CardinalityType
    <3>3. CASE touched'[j] # Never /\ j \notin cache
      <4>1. touched[j] # Never /\ Cardinality(since[j]) <= Cardinality(since'[j])
        BY <1>7, <3>3, TouchProperties
      <4>2. Capacity <= Cardinality(since[j])
        BY <3>3, <4>1 DEF IInv, CacheInv, Replaced
      <4> QED
        BY <3>1, <3>2, <4>1, <4>2, CapacityType
    <3> QED
      BY <3>1, <3>3
  <2> QED
    BY <2>1 DEF Replaced
<1>11. touched' \in [Keys -> Never .. MaxTime] /\ since' \in [Keys -> SUBSET Keys]
  BY <1>7, TouchProperties
<1> QED
  BY <1>0, <1>3, <1>8, <1>9, <1>10, <1>11 DEF CacheInv

\* A set of positions that is not empty has a last one.
LEMMA LastExists ==
    ASSUME NEW n \in Nat, NEW A \in SUBSET (1 .. n), A # {}
    PROVE  \E i \in A : \A j \in A : j <= i
<1> DEFINE R == {ss \in Nat \X Nat : ss[1] < ss[2]}
           T == {n - i : i \in A}
<1>1. IsWellFoundedOn(R, Nat)
  BY NatLessThanWellFounded DEF OpToRel
<1>2. T \subseteq Nat /\ T # {}
  <2>1. \A i \in A : n - i \in Nat
    OBVIOUS
  <2>2. PICK i \in A : TRUE
    OBVIOUS
  <2>3. n - i \in T
    BY <2>2
  <2> QED
    BY <2>1, <2>3
<1>3. PICK x \in T : \A y \in T : <<y, x>> \notin R
  <2> HIDE DEF R, T
  <2> QED
    BY <1>1, <1>2, WFMin
<1>4. PICK i \in A : x = n - i
  <2>1. x \in T
    BY <1>3
  <2> QED
    BY <2>1
<1>5. ASSUME NEW j \in A
      PROVE  j <= i
  <2>1. n - j \in T /\ n - j \in Nat /\ n - i \in Nat
    BY <1>2
  <2>2. <<n - j, n - i>> \notin R
    BY <1>3, <1>4, <2>1
  <2>3. ASSUME n - j < n - i
        PROVE  <<n - j, n - i>> \in R
    BY <2>1, <2>3
  <2> HIDE DEF R, T
  <2>4. ~(n - j < n - i)
    BY <2>2, <2>3
  <2> QED
    BY <2>4
<1> QED
  BY <1>5

\* Where the entries that are dropped from the back begin.
LEMMA PruneProperties ==
    ASSUME NEW s \in Seq(Entry), NEW now
    PROVE  \E n \in 0 .. Len(s) :
              /\ pruneExpiredFromBack(s, now) = SubSeq(s, 1, n)
              /\ n = 0 \/ ~isExpired(s[n], now)
              /\ \A j \in n + 1 .. Len(s) : isExpired(s[j], now)
<1> DEFINE live == {i \in DOMAIN s : ~isExpired(s[i], now)}
           last == IF live = {} THEN 0
                   ELSE CHOOSE i \in live : \A j \in live : j <= i
<1>1. Len(s) \in Nat /\ DOMAIN s = 1 .. Len(s)
  BY EntryProperties
<1>2. live \in SUBSET (1 .. Len(s))
  BY <1>1
<1>3. pruneExpiredFromBack(s, now) = SubSeq(s, 1, last)
  BY DEF pruneExpiredFromBack
<1>4. CASE live = {}
  <2>1. last = 0 /\ \A j \in 1 .. Len(s) : isExpired(s[j], now)
    BY <1>1, <1>4
  <2> QED
    BY <1>1, <1>3, <2>1
<1>5. CASE live # {}
  <2>1. \E i \in live : \A j \in live : j <= i
    <3> HIDE DEF live
    <3> QED
      BY <1>1, <1>2, <1>5, LastExists
  <2>2. last \in live /\ \A j \in live : j <= last
    <3> HIDE DEF live
    <3> QED
      BY <1>5, <2>1
  <2> HIDE DEF last
  <2>3. last \in 0 .. Len(s) /\ ~isExpired(s[last], now)
    BY <1>1, <2>2
  <2>4. ASSUME NEW j \in last + 1 .. Len(s) PROVE isExpired(s[j], now)
    BY <1>1, <2>2, <2>3
  <2> QED
    BY <1>3, <2>3, <2>4
<1> QED
  BY <1>4, <1>5

\* A new entry at the front of the first n of a list within the capacity,
\* without the last one when it would be too many.
LEMMA InsertProperties ==
    ASSUME NEW s \in Seq(Entry), Len(s) <= Capacity, NEW n \in 0 .. Len(s),
           NEW e \in Entry
    PROVE  LET w == evictLRU(<<e>> \o SubSeq(s, 1, n))
           IN  /\ w \in Seq(Entry) /\ w[1] = e /\ Len(w) >= 1
               /\ Len(w) = IF n = Capacity THEN n ELSE n + 1
               /\ \A j \in 2 .. Len(w) : w[j] = s[j - 1]
<1> DEFINE f == <<e>> \o SubSeq(s, 1, n)
<1>0. Len(s) \in Nat /\ Capacity \in Nat /\ Capacity >= 1
  BY EntryProperties, CapacityType
<1>1. /\ SubSeq(s, 1, n) \in Seq(Entry) /\ Len(SubSeq(s, 1, n)) = n
      /\ \A j \in 1 .. n : SubSeq(s, 1, n)[j] = s[j]
  BY PrefixProperties
<1>2. /\ f \in Seq(Entry) /\ Len(f) = n + 1 /\ f[1] = e
      /\ \A j \in 2 .. n + 1 : f[j] = s[j - 1]
  <2>1. /\ f \in Seq(Entry) /\ Len(f) = Len(SubSeq(s, 1, n)) + 1 /\ f[1] = e
        /\ \A j \in 2 .. Len(SubSeq(s, 1, n)) + 1 : f[j] = SubSeq(s, 1, n)[j - 1]
    BY <1>1, FrontProperties
  <2> HIDE DEF f
  <2> QED
    BY <1>0, <1>1, <2>1
<1> HIDE DEF f
<1> DEFINE w == evictLRU(f)
<1>3. /\ w \in Seq(Entry) /\ w[1] = e /\ Len(w) >= 1
      /\ Len(w) = IF n = Capacity THEN n ELSE n + 1
      /\ \A j \in 2 .. Len(w) : w[j] = s[j - 1]
  <2>1. CASE n = Capacity
    <3>1. w = SubSeq(f, 1, n)
      BY <1>0, <1>2, <2>1 DEF evictLRU
    <3>2. /\ SubSeq(f, 1, n) \in Seq(Entry) /\ Len(SubSeq(f, 1, n)) = n
          /\ \A j \in 1 .. n : SubSeq(f, 1, n)[j] = f[j]
      BY <1>0, <1>2, PrefixProperties
    <3> HIDE DEF w
    <3> QED
      BY <1>0, <1>2, <2>1, <3>1, <3>2
  <2>2. CASE n # Capacity
    <3>1. w = f
      BY <1>0, <1>2, <2>2 DEF evictLRU
    <3> HIDE DEF w
    <3> QED
      BY <1>0, <1>2, <2>2, <3>1
  <2> QED
    BY <2>1, <2>2
<1> QED
  BY <1>3 DEF f

\* The keys that leave the list at its back.
LEMMA LostProperties ==
    ASSUME NEW s \in Seq(Entry), Distinct(s), NEW n \in 0 .. Len(s),
           NEW j \in 1 .. Len(s)
    PROVE  s[j].id \in Ids(s) \ Ids(SubSeq(s, 1, n)) <=> j > n
<1> DEFINE t == SubSeq(s, 1, n)
<1>0. Len(s) \in Nat /\ DOMAIN s = 1 .. Len(s)
  BY EntryProperties
<1>1. t \in Seq(Entry) /\ Len(t) = n /\ \A i \in 1 .. n : t[i] = s[i]
  BY PrefixProperties
<1> HIDE DEF t
<1>2. s[j].id \in Ids(s)
  BY IdsProperties
<1>3. CASE j > n
  <2>1. ASSUME s[j].id \in Ids(t)
        PROVE  FALSE
    <3>1. PICK i \in 1 .. n : t[i].id = s[j].id
      BY <1>1, <2>1, IdsProperties
    <3>2. i = j
      BY <1>0, <1>1, <3>1 DEF Distinct
    <3> QED
      BY <1>0, <1>3, <3>2
  <2> QED
    BY <1>2, <1>3, <2>1 DEF t
<1>4. CASE j <= n
  <2>1. j \in 1 .. Len(t) /\ t[j].id = s[j].id
    BY <1>0, <1>1, <1>4
  <2>2. s[j].id \in Ids(t)
    BY <1>1, <2>1, IdsProperties
  <2> QED
    BY <1>0, <1>4, <2>2 DEF t
<1> QED
  BY <1>0, <1>3, <1>4

\* SetInsert: the new entry, in front of the n that were not dropped.
LEMMA InsertKeepsCache ==
    ASSUME IInv, NEW k \in Keys \ cache, NEW n \in 0 .. Len(ll),
           NEW lost \in SUBSET Keys,
           \A j \in 1 .. Len(ll) : ll[j].id \in lost <=> j > n,
           ll' \in Seq(Entry), Len(ll') >= 1, ll'[1].id = k,
           TTL > 0 => ll'[1].expiresAt <= clock + TTL,
           Len(ll') = IF n = Capacity THEN n ELSE n + 1,
           \A j \in 2 .. Len(ll') : ll'[j] = ll[j - 1],
           cache' = removeElements(ll, ll') \cup {k},
           Touch(k, lost), clock' = clock
    PROVE  CacheInv'
<1>0. /\ ll \in Seq(Entry) /\ Distinct(ll) /\ cache = Ids(ll)
      /\ cache \subseteq Keys /\ Len(ll) <= Capacity
  BY DEF IInv, CacheInv, Listed
<1>1. /\ Len(ll) \in Nat /\ DOMAIN ll = 1 .. Len(ll)
      /\ Capacity \in Nat /\ Capacity >= 1
  BY <1>0, EntryProperties, CapacityType
<1>2. Len(ll') \in Nat /\ DOMAIN ll' = 1 .. Len(ll')
  BY EntryProperties
<1>3. Len(ll') <= n + 1 /\ n <= Len(ll) /\ k \in Keys /\ lost \in SUBSET Keys
  BY <1>1
<1>4. ASSUME NEW j \in 1 .. Len(ll)
      PROVE  ll[j].id \in Keys /\ ll[j].id # k
  BY <1>0, EntryProperties, IdsProperties
<1>5. ASSUME NEW m \in Keys, m \notin lost, m # k
      PROVE  m \in cache => \E j \in 1 .. n : m = ll[j].id
  BY <1>0, <1>1, <1>5, IdsProperties
<1> DEFINE p == [j \in 2 .. Len(ll') |-> j - 1]
<1>6. p \in [2 .. Len(ll') -> 1 .. Len(ll)]
  BY <1>1, <1>2, <1>3
<1>7. \A a, b \in 2 .. Len(ll') : a < b => p[a] < p[b]
  BY <1>1, <1>2
<1>8. ASSUME NEW j \in 2 .. Len(ll')
      PROVE  ll'[j] = ll[p[j]] /\ ll[p[j]].id # k /\ ll[p[j]].id \notin lost
  <2>1. p[j] = j - 1 /\ j - 1 \in 1 .. Len(ll) /\ j - 1 <= n
    BY <1>1, <1>2, <1>3
  <2> QED
    BY <1>1, <1>2, <1>4, <2>1
<1> HIDE DEF p
<1>9. Distinct(ll') /\ Stamped' /\ FrontIsSince' /\ UsedInOrder'
  <2>1. Keeps(p, k, lost)
    BY <1>6, <1>7, <1>8 DEF Keeps
  <2> QED
    BY <1>3, <2>1, PushKeepsOrder
<1>10. Ids(ll') = {k} \cup (cache \cap Ids(ll'))
  <2>1. ASSUME NEW m \in Ids(ll'), m # k
        PROVE  m \in cache
    <3>1. PICK j \in 1 .. Len(ll') : ll'[j].id = m
      BY <1>2, IdsProperties
    <3>2. j - 1 \in 1 .. Len(ll) /\ ll'[j] = ll[j - 1]
      BY <1>1, <1>2, <1>3, <2>1, <3>1
    <3> QED
      BY <1>0, <3>1, <3>2, IdsProperties
  <2>2. k \in Ids(ll')
    BY <1>2, IdsProperties
  <2> QED
    BY <2>1, <2>2
<1>11. cache' = Ids(ll')
  BY <1>0, <1>10 DEF removeElements
<1>12. Listed'
  BY <1>0, <1>1, <1>2, <1>3, <1>9, <1>11 DEF Listed
<1>13. cache' \subseteq Keys
  BY <1>0, <1>10, <1>11
<1>14. touched' \in [Keys -> Never .. MaxTime] /\ since' \in [Keys -> SUBSET Keys]
  BY TouchProperties
<1>15. ASSUME NEW m \in Keys, touched'[m] # Never, m \notin cache'
       PROVE  Capacity <= Cardinality(since'[m])
  <2>1. m # k
    BY <1>10, <1>11, <1>15
  <2>2. /\ m \notin lost /\ touched[m] # Never
        /\ since'[m] = since[m] \cup {k} /\ IsFiniteSet(since'[m])
        /\ Cardinality(since[m]) <= Cardinality(since'[m])
    BY <1>15, <2>1, TouchProperties
  <2>3. IsFiniteSet(since[m]) /\ Cardinality(since[m]) \in Nat
        /\ Cardinality(since'[m]) \in Nat
    BY <2>2, FS_CardinalityType DEF IInv, CacheInv, Replaced
  <2>4. CASE m \notin cache
    <3>1. Capacity <= Cardinality(since[m])
      BY <2>2, <2>4 DEF IInv, CacheInv, Replaced
    <3> QED
      BY <1>1, <2>2, <2>3, <3>1
  <2>5. CASE m \in cache
    <3>1. PICK j \in 1 .. n : m = ll[j].id
      BY <1>5, <2>1, <2>2, <2>5
    <3>2. n = Capacity /\ j = n
      <4>1. CASE j + 1 \in 2 .. Len(ll')
        <5>1. (j + 1) - 1 = j
          BY <1>1
        <5>2. ll'[j + 1] = ll[j]
          BY <4>1, <5>1
        <5>3. \E a \in 1 .. Len(ll') : ll'[a].id = m
          <6>1. j + 1 \in 1 .. Len(ll')
            BY <1>2, <4>1
          <6>2. ll'[j + 1].id = m
            BY <3>1, <5>2
          <6> QED
            BY <6>1, <6>2
        <5>4. m \in Ids(ll')
          BY <5>3, IdsProperties
        <5> QED
          BY <1>11, <1>15, <5>4
      <4> QED
        BY <1>1, <1>2, <4>1
    <3> DEFINE front == SubSeq(ll', 1, n)
    <3>3. /\ front \in Seq(Entry) /\ Len(front) = n
          /\ \A i \in 1 .. n : front[i] = ll'[i]
      BY <1>1, <1>2, <3>2, PrefixProperties
    <3> HIDE DEF front
    <3>4. Distinct(front)
      <4>1. DOMAIN front = 1 .. n /\ n <= Len(ll')
        BY <1>1, <1>2, <3>2, <3>3, EntryProperties
      <4> QED
        BY <1>1, <1>2, <1>9, <3>3, <4>1 DEF Distinct
    <3>5. Cardinality(Ids(front)) = n
      BY <3>3, <3>4, LenIsCardinality
    <3>6. ASSUME NEW i \in 1 .. n
          PROVE  front[i].id \in since'[m]
      <4>1. CASE i = 1
        BY <1>2, <2>2, <3>3, <4>1
      <4>2. CASE i \in 2 .. n
        <5>1. ll'[i] = ll[i - 1] /\ i - 1 \in 1 .. j - 1
          BY <1>1, <1>2, <3>2, <4>2
        <5>2. ll[i - 1].id \in since[ll[j].id]
          BY <1>1, <5>1 DEF IInv, CacheInv, FrontIsSince
        <5> QED
          BY <2>2, <3>1, <3>3, <5>1, <5>2
      <4> QED
        BY <1>1, <4>1, <4>2
    <3>7. ASSUME NEW f \in Ids(front)
          PROVE  f \in since'[m]
      <4>1. PICK i \in 1 .. n : front[i].id = f
        BY <3>3, <3>7, IdsProperties
      <4> QED
        BY <3>6, <4>1
    <3>8. Ids(front) \in SUBSET since'[m]
      BY <3>7
    <3> QED
      BY <2>2, <3>2, <3>5, <3>8, FS_Subset
  <2> QED
    BY <2>4, <2>5
<1>16. Replaced'
  BY <1>15, TouchProperties DEF Replaced
<1> QED
  BY <1>2, <1>9, <1>12, <1>13, <1>14, <1>16 DEF CacheInv

\* GetExpired: the entry of the key leaves the list, the key the index.
LEMMA DropKeepsCache ==
    ASSUME IInv, NEW k \in cache, NEW i \in 1 .. Len(ll), ll[i].id = k,
           ll' \in Seq(Entry), Len(ll') = Len(ll) - 1,
           \A j \in 1 .. Len(ll) - 1 : ll'[j] = IF j < i THEN ll[j] ELSE ll[j + 1],
           cache' = removeElements(ll, ll'),
           Expire(k), clock' = clock
    PROVE  CacheInv' /\ cache' = cache \ {k}
<1>0. /\ ll \in Seq(Entry) /\ Distinct(ll) /\ cache = Ids(ll)
      /\ cache \subseteq Keys /\ Len(ll) <= Capacity /\ k \in Keys
  BY DEF IInv, CacheInv, Listed
<1>1. /\ Len(ll) \in Nat /\ DOMAIN ll = 1 .. Len(ll) /\ Capacity \in Nat
      /\ \A j \in 1 .. Len(ll) : ll[j].id \in Keys
  BY <1>0, EntryProperties, CapacityType
<1>2. Len(ll') \in Nat /\ DOMAIN ll' = 1 .. Len(ll')
  BY EntryProperties
<1> DEFINE p == [j \in 1 .. Len(ll') |-> IF j < i THEN j ELSE j + 1]
<1>3. /\ \A j \in 1 .. Len(ll') : /\ p[j] \in 1 .. Len(ll) /\ p[j] # i
                                  /\ ll'[j] = ll[p[j]]
      /\ \A a, b \in 1 .. Len(ll') : a < b => p[a] < p[b]
  BY <1>1, <1>2
<1>4. \A m \in 1 .. Len(ll) : m # i => \E j \in 1 .. Len(ll') : p[j] = m
  <2> SUFFICES ASSUME NEW m \in 1 .. Len(ll), m # i
               PROVE  \E j \in 1 .. Len(ll') : p[j] = m
    OBVIOUS
  <2>1. CASE m < i
    BY <1>1, <1>2, <2>1
  <2>2. CASE m > i
    <3>1. m - 1 \in 1 .. Len(ll') /\ p[m - 1] = m
      BY <1>1, <1>2, <2>2
    <3> QED
      BY <3>1
  <2> QED
    BY <1>1, <2>1, <2>2
<1> HIDE DEF p
<1>5. \A j \in 1 .. Len(ll') : ll'[j].id # k
  BY <1>0, <1>1, <1>3 DEF Distinct
<1>6. \A m \in Keys \ {k} : touched'[m] = touched[m] /\ since'[m] = since[m]
  BY DEF IInv, CacheInv, Expire
<1>7. touched'[k] = Never /\ since'[k] = {}
  BY <1>0 DEF IInv, CacheInv, Expire
<1>8. touched' \in [Keys -> Never .. MaxTime] /\ since' \in [Keys -> SUBSET Keys]
  BY CacheAssumption DEF IInv, CacheInv, Expire, Never
<1>9. ASSUME NEW m
      PROVE  m \in Ids(ll') <=> m \in cache /\ m # k
  <2>1. ASSUME m \in Ids(ll')
        PROVE  m \in cache /\ m # k
    <3>1. PICK j \in 1 .. Len(ll') : ll'[j].id = m
      BY <2>1, IdsProperties
    <3> QED
      BY <1>0, <1>3, <1>5, <3>1, IdsProperties
  <2>2. ASSUME m \in cache, m # k
        PROVE  m \in Ids(ll')
    <3>1. PICK a \in 1 .. Len(ll) : ll[a].id = m
      BY <1>0, <2>2, IdsProperties
    <3>2. PICK j \in 1 .. Len(ll') : p[j] = a
      BY <1>4, <2>2, <3>1
    <3> QED
      BY <1>3, <3>1, <3>2, IdsProperties
  <2> QED
    BY <2>1, <2>2
<1>10. cache' = Ids(ll') /\ cache' = cache \ {k}
  BY <1>0, <1>9 DEF removeElements
<1>11. Distinct(ll')
  <2> SUFFICES ASSUME NEW a \in 1 .. Len(ll'), NEW b \in 1 .. Len(ll'),
                      ll'[a].id = ll'[b].id
               PROVE  a = b
    BY <1>2 DEF Distinct
  <2>1. p[a] = p[b]
    BY <1>0, <1>1, <1>3 DEF Distinct
  <2> QED
    BY <1>1, <1>2, <1>3, <2>1
<1>12. Listed'
  BY <1>0, <1>1, <1>2, <1>10, <1>11 DEF Listed
<1>13. Stamped'
  <2> SUFFICES ASSUME NEW j \in 1 .. Len(ll')
               PROVE  /\ touched'[ll'[j].id] # Never
                      /\ TTL > 0 => ll'[j].expiresAt <= touched'[ll'[j].id] + TTL
    BY <1>2 DEF Stamped
  <2>1. /\ touched[ll[p[j]].id] # Never
        /\ TTL > 0 => ll[p[j]].expiresAt <= touched[ll[p[j]].id] + TTL
    BY <1>1, <1>3 DEF IInv, CacheInv, Stamped
  <2>2. ll'[j] = ll[p[j]] /\ ll'[j].id \in Keys \ {k}
    BY <1>1, <1>3, <1>5
  <2> QED
    BY <1>6, <2>1, <2>2
<1>14. FrontIsSince'
  <2> SUFFICES ASSUME NEW a \in 1 .. Len(ll'), NEW b \in 1 .. a - 1
               PROVE  ll'[b].id \in since'[ll'[a].id]
    BY <1>2 DEF FrontIsSince
  <2>1. /\ p[a] \in 1 .. Len(ll) /\ p[b] \in 1 .. p[a] - 1
        /\ ll'[a] = ll[p[a]] /\ ll'[b] = ll[p[b]]
    BY <1>1, <1>2, <1>3
  <2>2. ll[p[b]].id \in since[ll[p[a]].id]
    BY <1>1, <2>1 DEF IInv, CacheInv, FrontIsSince
  <2>3. ll'[a].id \in Keys \ {k}
    BY <1>1, <1>5, <2>1
  <2> QED
    BY <1>6, <2>1, <2>2, <2>3
<1>16. UsedInOrder'
  <2>1. ASSUME NEW a \in 1 .. Len(ll') PROVE touched'[ll'[a].id] <= clock
    <3>1. ll'[a] = ll[p[a]] /\ p[a] \in 1 .. Len(ll) /\ ll'[a].id \in Keys \ {k}
      BY <1>1, <1>3, <1>5
    <3> QED
      BY <1>1, <1>6, <3>1 DEF IInv, CacheInv, UsedInOrder
  <2>2. ASSUME NEW a \in 1 .. Len(ll'), NEW b \in 1 .. a - 1
        PROVE  touched'[ll'[a].id] <= touched'[ll'[b].id]
    <3>1. /\ p[a] \in 1 .. Len(ll) /\ p[b] \in 1 .. p[a] - 1
          /\ ll'[a] = ll[p[a]] /\ ll'[b] = ll[p[b]] /\ b \in 1 .. Len(ll')
      BY <1>1, <1>2, <1>3
    <3>2. touched[ll[p[a]].id] <= touched[ll[p[b]].id]
      BY <1>1, <3>1 DEF IInv, CacheInv, UsedInOrder
    <3>3. ll'[a].id \in Keys \ {k} /\ ll'[b].id \in Keys \ {k}
      BY <1>1, <1>3, <1>5, <3>1
    <3> QED
      BY <1>6, <3>1, <3>2, <3>3
  <2> QED
    BY <1>2, <2>1, <2>2 DEF UsedInOrder
<1>15. Replaced'
  <2> SUFFICES ASSUME NEW m \in Keys
               PROVE  /\ IsFiniteSet(since'[m])
                      /\ touched'[m] # Never /\ m \notin cache'
                            => Capacity <= Cardinality(since'[m])
    BY DEF Replaced
  <2>1. CASE m = k
    BY <1>7, <2>1, FS_EmptySet
  <2>2. CASE m # k
    <3>1. touched'[m] = touched[m] /\ since'[m] = since[m]
      BY <1>6, <2>2
    <3>2. m \in cache' <=> m \in cache
      BY <1>10, <2>2
    <3> QED
      BY <3>1, <3>2 DEF IInv, CacheInv, Replaced
  <2> QED
    BY <2>1, <2>2
<1> QED
  BY <1>0, <1>8, <1>10, <1>11, <1>12, <1>13, <1>14, <1>15, <1>16 DEF CacheInv
-----------------------------------------------------------------------------
(* The steps of the threads.                                               *)

\* The place of a key of the index.
LEMMA PlaceInList ==
    ASSUME CacheInv, NEW k \in cache
    PROVE  /\ Place(ll, k) \in 1 .. Len(ll) /\ ll[Place(ll, k)].id = k
           /\ ll[Place(ll, k)] \in Entry
<1>1. /\ ll \in Seq(Entry) /\ Distinct(ll) /\ k \in Ids(ll)
  BY DEF CacheInv, Listed
<1> QED
  BY <1>1, PlaceProperties, EntryProperties

LEMMA GetExpiredKeeps ==
    ASSUME IInv, NEW t \in Threads, GetExpired(t)
    PROVE  IInv' /\ cache' = cache \ {call[t].uid}
<1> DEFINE k == call[t].uid
           i == Place(ll, k)
<1>1. k \in cache /\ ll \in Seq(Entry)
  BY DEF GetExpired, IInv, CacheInv
<1>2. i \in 1 .. Len(ll) /\ ll[i].id = k
  BY <1>1, PlaceInList DEF IInv
<1>3. /\ ll' = Without(ll, i) /\ cache' = removeElements(ll, ll') /\ Expire(k)
      /\ Return(t, Miss) /\ clock' = clock
  BY DEF GetExpired
<1> HIDE DEF i, k
<1>4. /\ ll' \in Seq(Entry) /\ Len(ll') = Len(ll) - 1
      /\ \A j \in 1 .. Len(ll) - 1 : ll'[j] = IF j < i THEN ll[j] ELSE ll[j + 1]
  BY <1>1, <1>2, <1>3, WithoutProperties
<1>5. CacheInv' /\ cache' = cache \ {k}
  BY <1>1, <1>2, <1>3, <1>4, DropKeepsCache
<1>6. CallInv'
  BY <1>3, ReturnKeepsCalls DEF IInv
<1> QED
  BY <1>5, <1>6 DEF IInv, k

\* The entry a hit puts at the front.
LEMMA HitEntry ==
    ASSUME IInv, NEW t \in Threads, GetHit(t)
    PROVE  LET i == Place(ll, call[t].uid)
           IN  \E e \in Entry :
                  /\ e.id = call[t].uid /\ e.order = ll[i].order
                  /\ TTL > 0 => e.expiresAt <= clock + TTL
                  /\ ll' = <<e>> \o Without(ll, i)
                  /\ Return(t, e.order)
<1> DEFINE i == Place(ll, call[t].uid)
           x == IF TTL > 0 THEN expiryFrom(call[t].now) ELSE ll[i].expiresAt
           e == [ll[i] EXCEPT !.expiresAt = x]
<1>1. call[t].uid \in cache /\ Getting(t)
  BY DEF GetHit
<1>2. ll[i] \in Entry /\ ll[i].id = call[t].uid
  BY <1>1, PlaceInList DEF IInv
<1>3. ll' = <<e>> \o Without(ll, i) /\ Return(t, e.order)
  BY DEF GetHit
<1> HIDE DEF i
<1>4. call[t].now \in Nat /\ call[t].now <= clock /\ clock \in Nat
  BY <1>1, CallProperties DEF IInv
<1>5. x \in Nat /\ (TTL > 0 => x <= clock + TTL)
  BY <1>2, <1>4, CacheAssumption DEF expiryFrom, Entry
<1> HIDE DEF x
<1>6. /\ e \in Entry /\ e.id = ll[i].id /\ e.order = ll[i].order
      /\ e.expiresAt = x
  BY <1>2, <1>5 DEF Entry
<1> HIDE DEF e
<1> QED
  BY <1>2, <1>3, <1>5, <1>6 DEF i

LEMMA GetHitKeeps ==
    ASSUME IInv, NEW t \in Threads, GetHit(t)
    PROVE  IInv'
<1>1. /\ call[t].uid \in cache /\ cache' = cache /\ clock' = clock
      /\ Touch(call[t].uid, {})
  BY DEF GetHit
<1>2. PICK e \in Entry :
         /\ e.id = call[t].uid /\ e.order = ll[Place(ll, call[t].uid)].order
         /\ TTL > 0 => e.expiresAt <= clock + TTL
         /\ ll' = <<e>> \o Without(ll, Place(ll, call[t].uid))
         /\ Return(t, e.order)
  BY HitEntry
<1>3. CacheInv'
  BY <1>1, <1>2, MoveKeepsCache
<1>4. e.order \in Values
  BY DEF Entry
<1>5. CallInv'
  BY <1>1, <1>2, <1>4, ReturnKeepsCalls DEF IInv
<1> QED
  BY <1>3, <1>5 DEF IInv

LEMMA SetUpdateKeeps ==
    ASSUME IInv, NEW t \in Threads, SetUpdate(t)
    PROVE  IInv'
<1>1. /\ call[t].uid \in cache /\ cache' = cache /\ clock' = clock /\ Setting(t)
      /\ Touch(call[t].uid, {}) /\ Return(t, Ok)
      /\ ll' = <<NewEntry(t)>> \o Without(ll, Place(ll, call[t].uid))
  BY DEF SetUpdate
<1>2. /\ NewEntry(t) \in Entry /\ NewEntry(t).id = call[t].uid
      /\ TTL > 0 => NewEntry(t).expiresAt <= clock + TTL
  BY <1>1, EntryTyped DEF IInv
<1>3. CacheInv'
  BY <1>1, <1>2, MoveKeepsCache
<1>4. CallInv'
  BY <1>1, ReturnKeepsCalls DEF IInv
<1> QED
  BY <1>3, <1>4 DEF IInv

\* The list an insert leaves.
LEMMA InsertedList ==
    ASSUME IInv, NEW t \in Threads, SetInsert(t)
    PROVE  \E n \in 0 .. Len(ll) :
              /\ n = 0 \/ ~isExpired(ll[n], call[t].now)
              /\ \A j \in 1 .. Len(ll) :
                    ll[j].id \in Ids(ll) \ Ids(SubSeq(ll, 1, n)) <=> j > n
              /\ Touch(call[t].uid, Ids(ll) \ Ids(SubSeq(ll, 1, n)))
              /\ ll' \in Seq(Entry) /\ Len(ll') >= 1 /\ ll'[1] = NewEntry(t)
              /\ Len(ll') = IF n = Capacity THEN n ELSE n + 1
              /\ \A j \in 2 .. Len(ll') : ll'[j] = ll[j - 1]
<1>1. ll \in Seq(Entry) /\ Distinct(ll) /\ Len(ll) <= Capacity
  BY DEF IInv, CacheInv, Listed
<1>2. PICK n \in 0 .. Len(ll) :
         /\ pruneExpiredFromBack(ll, call[t].now) = SubSeq(ll, 1, n)
         /\ n = 0 \/ ~isExpired(ll[n], call[t].now)
  BY <1>1, PruneProperties
<1>3. /\ ll' = evictLRU(<<NewEntry(t)>> \o SubSeq(ll, 1, n))
      /\ Touch(call[t].uid, Ids(ll) \ Ids(SubSeq(ll, 1, n)))
  BY <1>2 DEF SetInsert
<1>4. NewEntry(t) \in Entry
  BY EntryTyped DEF IInv, SetInsert
<1>5. /\ ll' \in Seq(Entry) /\ ll'[1] = NewEntry(t) /\ Len(ll') >= 1
      /\ Len(ll') = IF n = Capacity THEN n ELSE n + 1
      /\ \A j \in 2 .. Len(ll') : ll'[j] = ll[j - 1]
  BY <1>1, <1>3, <1>4, InsertProperties
<1>6. \A j \in 1 .. Len(ll) :
         ll[j].id \in Ids(ll) \ Ids(SubSeq(ll, 1, n)) <=> j > n
  BY <1>1, LostProperties
<1> QED
  BY <1>2, <1>3, <1>5, <1>6

LEMMA SetInsertKeeps ==
    ASSUME IInv, NEW t \in Threads, SetInsert(t)
    PROVE  IInv'
<1>1. /\ call[t].uid \notin cache /\ clock' = clock /\ Setting(t) /\ Return(t, Ok)
      /\ cache' = removeElements(ll, ll') \cup {call[t].uid}
  BY DEF SetInsert
<1>2. PICK n \in 0 .. Len(ll) :
         /\ \A j \in 1 .. Len(ll) :
               ll[j].id \in Ids(ll) \ Ids(SubSeq(ll, 1, n)) <=> j > n
         /\ Touch(call[t].uid, Ids(ll) \ Ids(SubSeq(ll, 1, n)))
         /\ ll' \in Seq(Entry) /\ Len(ll') >= 1 /\ ll'[1] = NewEntry(t)
         /\ Len(ll') = IF n = Capacity THEN n ELSE n + 1
         /\ \A j \in 2 .. Len(ll') : ll'[j] = ll[j - 1]
  BY InsertedList
<1>3. /\ NewEntry(t).id = call[t].uid
      /\ TTL > 0 => NewEntry(t).expiresAt <= clock + TTL
  BY <1>1, EntryTyped DEF IInv
<1>4. call[t].uid \in Keys \ cache
  BY <1>1, CallProperties DEF IInv
<1>5. Ids(ll) \ Ids(SubSeq(ll, 1, n)) \in SUBSET Keys
  BY EntryProperties DEF IInv, CacheInv
<1>6. CacheInv'
  BY <1>1, <1>2, <1>3, <1>4, <1>5, InsertKeepsCache
<1>7. CallInv'
  BY <1>1, ReturnKeepsCalls DEF IInv
<1> QED
  BY <1>6, <1>7 DEF IInv

\* The steps that leave the cache alone.
LEMMA StillKeepsCache ==
    ASSUME CacheInv, CallInv, UNCHANGED <<lru, history>>,
           clock' = clock \/ clock' = clock + 1
    PROVE  CacheInv'
<1>1. ll' = ll /\ cache' = cache /\ touched' = touched /\ since' = since
  BY DEF lru, history
<1>2. Listed' /\ Stamped' /\ FrontIsSince' /\ Replaced'
  BY <1>1 DEF CacheInv, Listed, Stamped, FrontIsSince, Replaced
<1>3. UsedInOrder'
  <2>1. clock \in Nat /\ clock' \in Nat /\ clock <= clock'
    BY CacheAssumption DEF CallInv
  <2>2. \A i \in DOMAIN ll : touched[ll[i].id] \in Int /\ touched[ll[i].id] <= clock
    BY EntryProperties, CacheAssumption DEF CacheInv, UsedInOrder, Never
  <2> QED
    BY <1>1, <2>1, <2>2 DEF CacheInv, UsedInOrder
<1> QED
  BY <1>1, <1>2, <1>3 DEF CacheInv

LEMMA BeginKeeps ==
    ASSUME IInv, NEW t \in Threads, Begin(t)
    PROVE  IInv'
<1>1. UNCHANGED <<lru, history>> /\ clock' = clock
  BY DEF Begin, GetBegin, SetBegin
<1>2. CacheInv'
  BY <1>1, StillKeepsCache DEF IInv
<1>3. clock \in 0 .. MaxTime
  BY DEF IInv, CallInv
<1>4. ASSUME NEW uid \in Keys \cup {NoUID}, GetBegin(t, uid)
      PROVE  CallInv'
  <2>1. CASE uid = NoUID
    BY <1>1, <1>4, <2>1, ReturnKeepsCalls DEF GetBegin, IInv
  <2>2. CASE uid \in Keys
    <3> DEFINE c == [op |-> "get", uid |-> uid, now |-> clock]
    <3>1. c \in Call /\ c.now = clock
      BY <1>3, <2>2 DEF Call
    <3>2. Enter(t, c) /\ ret' = ret
      BY <1>4, <2>2, CacheAssumption DEF GetBegin
    <3> HIDE DEF c
    <3> QED
      BY <1>1, <3>1, <3>2, EnterKeepsCalls DEF IInv
  <2> QED
    BY <2>1, <2>2
<1>5. ASSUME NEW o \in Order, SetBegin(t, o)
      PROVE  CallInv'
  <2>1. CASE o.uid = NoUID
    BY <1>1, <1>5, <2>1, ReturnKeepsCalls DEF SetBegin, IInv
  <2>2. CASE o.uid # NoUID
    <3> DEFINE c == [op |-> "set", uid |-> o.uid, val |-> o.val, now |-> clock]
    <3>1. c \in Call /\ c.now = clock
      BY <1>3, <2>2 DEF Call, Order
    <3>2. Enter(t, c) /\ ret' = ret
      BY <1>5, <2>2 DEF SetBegin
    <3> HIDE DEF c
    <3> QED
      BY <1>1, <3>1, <3>2, EnterKeepsCalls DEF IInv
  <2> QED
    BY <2>1, <2>2
<1> QED
  BY <1>2, <1>4, <1>5 DEF Begin, IInv

LEMMA TickKeeps ==
    ASSUME IInv, Tick
    PROVE  IInv'
<1>1. /\ clock' = clock + 1 /\ clock' \in 0 .. MaxTime /\ clock \in Nat
      /\ call' = call /\ ret' = ret
  BY CacheAssumption DEF Tick, IInv, CallInv, threads
<1>2. ASSUME NEW t \in Threads, call[t] # Idle
      PROVE  call[t].now <= clock'
  <2>1. call[t].now \in Nat
    <3>1. call[t] \in Call
      BY DEF IInv, CallInv
    <3>2. \/ call[t] \in [op : {"get"}, uid : Keys, now : 0 .. MaxTime]
          \/ call[t] \in [op : {"set"}, uid : Keys, val : Values, now : 0 .. MaxTime]
      BY <1>2, <3>1 DEF Call
    <3> QED
      BY <3>2, CacheAssumption
  <2>2. call[t].now <= clock
    BY <1>2 DEF IInv, CallInv, CallsPast
  <2> QED
    BY <1>1, <2>1, <2>2
<1>3. CallsPast'
  BY <1>1, <1>2 DEF CallsPast
<1>4. CallInv'
  BY <1>1, <1>3 DEF IInv, CallInv
<1>5. CacheInv'
  BY <1>1, StillKeepsCache DEF IInv, Tick
<1> QED
  BY <1>4, <1>5 DEF IInv

LEMMA StepKeeps ==
    ASSUME IInv, [Next]_vars
    PROVE  IInv'
<1>1. ASSUME NEW t \in Threads, GetAbsent(t)
      PROVE  IInv'
  <2>1. UNCHANGED <<lru, history>> /\ clock' = clock /\ Return(t, Miss)
    BY <1>1 DEF GetAbsent
  <2> QED
    BY <2>1, StillKeepsCache, ReturnKeepsCalls DEF IInv
<1>2. CASE UNCHANGED vars
  <2>1. UNCHANGED <<lru, history>> /\ call' = call /\ ret' = ret /\ clock' = clock
    BY <1>2 DEF vars, threads
  <2>2. CallInv'
    BY <2>1 DEF IInv, CallInv, CallsPast
  <2> QED
    BY <2>1, <2>2, StillKeepsCache DEF IInv
<1>3. CASE Tick
  BY <1>3, TickKeeps
<1>4. ASSUME NEW t \in Threads, Begin(t) \/ Work(t)
      PROVE  IInv'
  BY <1>1, <1>4, BeginKeeps, GetExpiredKeeps, GetHitKeeps, SetUpdateKeeps,
     SetInsertKeeps DEF Work
<1> QED
  BY <1>2, <1>3, <1>4 DEF Next

LEMMA InitKeeps == Init => IInv
<1> SUFFICES ASSUME Init
             PROVE  IInv
  OBVIOUS
<1>1. ll = << >> /\ ll \in Seq(Entry) /\ Len(ll) = 0 /\ DOMAIN ll = {}
  BY DEF Init
<1>2. Ids(ll) = {} /\ cache = {}
  BY <1>1 DEF Ids, Init
<1>3. Listed
  BY <1>1, <1>2, CapacityType DEF Listed, Distinct
<1>4. Stamped /\ FrontIsSince /\ UsedInOrder
  BY <1>1 DEF Stamped, FrontIsSince, UsedInOrder
<1>5. \A k \in Keys : touched[k] = Never /\ since[k] = {}
  BY DEF Init
<1>6. Replaced
  BY <1>5, FS_EmptySet DEF Replaced
<1>7. touched \in [Keys -> Never .. MaxTime] /\ since \in [Keys -> SUBSET Keys]
  BY CacheAssumption DEF Init, Never
<1>8. CallInv
  BY CacheAssumption DEF Init, CallInv, CallsPast, Call
<1> QED
  BY <1>1, <1>2, <1>3, <1>4, <1>6, <1>7, <1>8 DEF IInv, CacheInv

\* The invariant holds, whatever calls, expiries and evictions come between.
THEOREM Invariance == Spec => []IInv
<1>1. IInv /\ [Next]_vars => IInv'
  BY StepKeeps
<1> QED
  BY <1>1, InitKeeps, PTL DEF Spec
-----------------------------------------------------------------------------
(* What the cache keeps.                                                   *)

\* The types, which the critical sections keep.
THEOREM TypesHold == Spec => []TypeOK
<1>1. IInv => TypeOK
  BY DEF IInv, CacheInv, CallInv, TypeOK
<1> QED
  BY <1>1, Invariance, PTL

\* List and index hold the same keys, each once and within the capacity.
THEOREM IndexAgrees == Spec => []IndexMatchesList
<1>1. IInv => IndexMatchesList
  BY LenIsCardinality DEF IInv, CacheInv, Listed, IndexMatchesList
<1> QED
  BY <1>1, Invariance, PTL

\* A key leaves unexpired only for as many others as the cache holds.
THEOREM LeastRecentlyUsed == Spec => []RecentlyUsedKept
<1>1. IInv => RecentlyUsedKept
  <2> SUFFICES ASSUME IInv, NEW k \in Keys, touched[k] # Never, k \notin cache
               PROVE  ~(Cardinality(since[k]) < Capacity)
    BY DEF RecentlyUsedKept
  <2>1. Capacity <= Cardinality(since[k]) /\ IsFiniteSet(since[k])
    BY DEF IInv, CacheInv, Replaced
  <2>2. Cardinality(since[k]) \in Nat
    BY <2>1, FS_CardinalityType
  <2> QED
    BY <2>1, <2>2, CapacityType
<1> QED
  BY <1>1, Invariance, PTL

\* A hit was used within the TTL before the call began.
THEOREM HitsAreFresh == Spec => NoHitAfterTTL
<1>1. IInv /\ [Next]_vars =>
         [\A t \in Threads : GetHit(t) /\ TTL > 0
             => call[t].now <= touched[call[t].uid] + TTL]_vars
  <2> SUFFICES ASSUME IInv, NEW t \in Threads, GetHit(t), TTL > 0
               PROVE  call[t].now <= touched[call[t].uid] + TTL
    OBVIOUS
  <2> DEFINE i == Place(ll, call[t].uid)
  <2>1. call[t].uid \in cache /\ ~isExpired(ll[i], call[t].now) /\ Getting(t)
    BY DEF GetHit
  <2>2. i \in 1 .. Len(ll) /\ ll[i].id = call[t].uid /\ ll[i] \in Entry
    BY <2>1, PlaceInList DEF IInv
  <2> HIDE DEF i
  <2>3. i \in DOMAIN ll /\ ll[i].expiresAt \in Nat
    BY <2>2, EntryProperties DEF IInv, CacheInv
  <2>4. ll[i].expiresAt <= touched[call[t].uid] + TTL
    BY <2>2, <2>3 DEF IInv, CacheInv, Stamped
  <2>5. call[t].now \in Nat /\ call[t].now <= ll[i].expiresAt
    BY <2>1, <2>3, CallProperties DEF IInv, isExpired
  <2>6. touched[call[t].uid] \in Int
    BY <2>1, CacheAssumption DEF IInv, CacheInv, Never
  <2> QED
    BY <2>3, <2>4, <2>5, <2>6, CacheAssumption
<1> QED
  BY <1>1, Invariance, PTL DEF Spec, NoHitAfterTTL

\* What an insert leaves was used within the TTL before its call began: the
\* last entry that stays is not expired, and those in front were used later.
THEOREM InsertsDropIdle == Spec => InsertDropsIdle
<1>1. IInv /\ [Next]_vars =>
         [\A t \in Threads : SetInsert(t) /\ TTL > 0
             => \A i \in DOMAIN ll' : call[t].now <= touched'[ll'[i].id] + TTL]_vars
  <2> SUFFICES ASSUME IInv, NEW t \in Threads, SetInsert(t), TTL > 0
               PROVE  \A i \in DOMAIN ll' : call[t].now <= touched'[ll'[i].id] + TTL
    OBVIOUS
  <2> DEFINE now == call[t].now
             k == call[t].uid
  <2>1. Setting(t) /\ k \in Keys /\ now \in Nat /\ now <= clock /\ clock \in Nat
    BY CallProperties DEF IInv, SetInsert
  <2>2. PICK n \in 0 .. Len(ll) :
           /\ n = 0 \/ ~isExpired(ll[n], now)
           /\ \A j \in 1 .. Len(ll) :
                 ll[j].id \in Ids(ll) \ Ids(SubSeq(ll, 1, n)) <=> j > n
           /\ Touch(k, Ids(ll) \ Ids(SubSeq(ll, 1, n)))
           /\ ll' \in Seq(Entry) /\ Len(ll') >= 1 /\ ll'[1] = NewEntry(t)
           /\ Len(ll') = IF n = Capacity THEN n ELSE n + 1
           /\ \A j \in 2 .. Len(ll') : ll'[j] = ll[j - 1]
    BY InsertedList
  <2> DEFINE lost == Ids(ll) \ Ids(SubSeq(ll, 1, n))
  <2>3. /\ DOMAIN ll = 1 .. Len(ll) /\ Len(ll) \in Nat /\ lost \in SUBSET Keys
        /\ \A j \in 1 .. Len(ll) : /\ ll[j].id \in Keys /\ ll[j].expiresAt \in Nat
                                    /\ touched[ll[j].id] \in Int
    BY EntryProperties, CacheAssumption DEF IInv, CacheInv, Never
  <2>4. DOMAIN ll' = 1 .. Len(ll') /\ Len(ll') \in Nat
    BY <2>2, EntryProperties
  <2>5. touched'[k] = clock /\ \A j \in Keys \ (lost \cup {k}) : touched'[j] = touched[j]
    BY <2>1, <2>2, <2>3, TouchProperties
  <2>6. \A j \in 1 .. Len(ll) : ll[j].id # k
    BY <2>3 DEF SetInsert, IInv, CacheInv, Listed, Ids
  <2>7. \A j \in 1 .. n : j \in 1 .. Len(ll) /\ ll[j].id \notin lost
    BY <2>2, <2>3
  <2> HIDE DEF lost, now, k
  <2>8. ASSUME NEW j \in 1 .. n PROVE now <= touched[ll[j].id] + TTL
    <3>1. n \in 1 .. Len(ll) /\ ~isExpired(ll[n], now)
      BY <2>2, <2>3
    <3>2. now <= ll[n].expiresAt
      BY <2>1, <2>3, <3>1 DEF isExpired
    <3>3. ll[n].expiresAt <= touched[ll[n].id] + TTL
      BY <2>3, <3>1 DEF IInv, CacheInv, Stamped
    <3>4. touched[ll[n].id] <= touched[ll[j].id]
      <4>1. CASE j = n
        BY <2>3, <3>1, <4>1
      <4>2. CASE j \in 1 .. n - 1
        BY <2>3, <3>1, <4>2 DEF IInv, CacheInv, UsedInOrder
      <4> QED
        BY <3>1, <4>1, <4>2
    <3> QED
      BY <2>1, <2>3, <2>7, <3>1, <3>2, <3>3, <3>4, CacheAssumption
  <2>9. ASSUME NEW i \in 1 .. Len(ll') PROVE now <= touched'[ll'[i].id] + TTL
    <3>1. CASE i = 1
      <4>1. ll'[i].id = k
        BY <2>2, <3>1 DEF NewEntry, k
      <4> QED
        BY <2>1, <2>5, <4>1, CacheAssumption
    <3>2. CASE i # 1
      <4>1. i - 1 \in 1 .. n /\ ll'[i] = ll[i - 1]
        BY <2>2, <2>3, <2>4, <3>2
      <4>2. touched'[ll'[i].id] = touched[ll[i - 1].id]
        BY <2>3, <2>5, <2>6, <2>7, <4>1
      <4> QED
        BY <2>8, <4>1, <4>2
    <3> QED
      BY <3>1, <3>2
  <2> QED
    BY <2>4, <2>9 DEF now
<1> QED
  BY <1>1, Invariance, PTL DEF Spec, InsertDropsIdle
-----------------------------------------------------------------------------
(* The cache implements LossyMap.                                          *)

\* What is held for a key is the contents of its entry.
HeldIn(s, c) == [k \in Keys |-> IF k \in c THEN s[Place(s, k)].order ELSE None]

LEMMA HeldProperties ==
    ASSUME NEW s \in Seq(Entry), Distinct(s)
    PROVE  /\ \A i \in 1 .. Len(s) : HeldIn(s, Ids(s))[s[i].id] = s[i].order
           /\ \A k \in Keys \ Ids(s) : HeldIn(s, Ids(s))[k] = None
<1>1. ASSUME NEW i \in 1 .. Len(s)
      PROVE  HeldIn(s, Ids(s))[s[i].id] = s[i].order
  <2>1. s[i].id \in Keys /\ s[i].id \in Ids(s) /\ i \in DOMAIN s
    BY EntryProperties, IdsProperties
  <2>2. Place(s, s[i].id) = i
    BY <2>1, PlaceProperties
  <2> QED
    BY <2>1, <2>2 DEF HeldIn
<1>2. \A k \in Keys \ Ids(s) : HeldIn(s, Ids(s))[k] = None
  BY DEF HeldIn
<1> QED
  BY <1>1, <1>2

LEMMA HeldNow ==
    ASSUME CacheInv
    PROVE  /\ \A i \in 1 .. Len(ll) : Held[ll[i].id] = ll[i].order
           /\ \A k \in Keys \ cache : Held[k] = None
           /\ Held = [k \in Keys |-> Held[k]]
<1>1. ll \in Seq(Entry) /\ Distinct(ll) /\ cache = Ids(ll)
  BY DEF CacheInv, Listed
<1>2. Held = HeldIn(ll, Ids(ll))
  BY <1>1 DEF Held, HeldIn
<1>3. Held = [k \in Keys |-> Held[k]]
  BY DEF Held
<1> QED
  BY <1>1, <1>2, <1>3, HeldProperties

LEMMA HeldNext ==
    ASSUME CacheInv'
    PROVE  /\ \A i \in 1 .. Len(ll') : Held'[ll'[i].id] = ll'[i].order
           /\ \A k \in Keys \ cache' : Held'[k] = None
           /\ Held' = [k \in Keys |-> Held'[k]]
<1>1. ll' \in Seq(Entry) /\ Distinct(ll') /\ cache' = Ids(ll')
  BY DEF CacheInv, Listed
<1>2. Held' = HeldIn(ll', Ids(ll'))
  BY <1>1 DEF Held, HeldIn
<1>3. Held' = [k \in Keys |-> Held'[k]]
  BY DEF Held
<1> QED
  BY <1>1, <1>2, <1>3, HeldProperties

\* Keys whose entries stay keep what is held for them.
LEMMA OthersStay ==
    ASSUME CacheInv, CacheInv', NEW u,
           \A j \in 1 .. Len(ll') : ll'[j].id # u =>
              \E i \in 1 .. Len(ll) : ll'[j] = ll[i]
    PROVE  \A k \in cache' \ {u} : k \in cache /\ Held'[k] = Held[k]
<1> SUFFICES ASSUME NEW k \in cache' \ {u}
             PROVE  k \in cache /\ Held'[k] = Held[k]
  OBVIOUS
<1>1. /\ ll \in Seq(Entry) /\ cache = Ids(ll)
      /\ ll' \in Seq(Entry) /\ cache' = Ids(ll')
  BY DEF CacheInv, Listed
<1>2. PICK j \in 1 .. Len(ll') : ll'[j].id = k
  BY <1>1, IdsProperties
<1>3. PICK i \in 1 .. Len(ll) : ll'[j] = ll[i]
  BY <1>2
<1>4. ll[i].id = k /\ k \in cache
  BY <1>1, <1>2, <1>3, IdsProperties
<1>5. Held[k] = ll[i].order
  BY <1>4, HeldNow
<1>6. Held'[k] = ll'[j].order
  BY <1>2, HeldNext
<1> QED
  BY <1>3, <1>4, <1>5, <1>6

\* The request a call is.
Request(c) == CASE c.op = "get" -> [op |-> "get", uid |-> c.uid]
                [] c.op = "set" -> [op |-> "set", uid |-> c.uid, val |-> c.val]
                [] OTHER -> None

LEMMA RequestProperties ==
    /\ Request(Idle) = None
    /\ \A c \in Call : c.op = "get" => /\ Request(c) = [op |-> "get", uid |-> c.uid]
                                       /\ Request(c) \in Map!Request
                                       /\ Request(c) # None
    /\ \A c \in Call : c.op = "set" => /\ Request(c) = [op |-> "set", uid |-> c.uid,
                                                        val |-> c.val]
                                       /\ Request(c) \in Map!Request
                                       /\ Request(c) # None
<1>1. Request(Idle) = None
  BY DEF Request, Idle
<1>2. ASSUME NEW c \in Call, c.op = "get"
      PROVE  /\ Request(c) = [op |-> "get", uid |-> c.uid]
             /\ Request(c) \in Map!Request /\ Request(c) # None
  <2>1. c.uid \in Keys
    BY <1>2 DEF Call, Idle
  <2>2. Request(c) = [op |-> "get", uid |-> c.uid]
    BY <1>2 DEF Request
  <2>3. Request(c) \in Map!Request
    BY <2>1, <2>2 DEF Map!Request
  <2> QED
    BY <2>2, <2>3, CacheAssumption DEF Map!Request
<1>3. ASSUME NEW c \in Call, c.op = "set"
      PROVE  /\ Request(c) = [op |-> "set", uid |-> c.uid, val |-> c.val]
             /\ Request(c) \in Map!Request /\ Request(c) # None
  <2>1. c.uid \in Keys /\ c.val \in Values
    BY <1>3 DEF Call, Idle
  <2>2. Request(c) = [op |-> "set", uid |-> c.uid, val |-> c.val]
    BY <1>3 DEF Request
  <2>3. Request(c) \in Map!Request
    BY <2>1, <2>2 DEF Map!Request
  <2> QED
    BY <2>2, <2>3, CacheAssumption DEF Map!Request
<1> QED
  BY <1>1, <1>2, <1>3

LEMMA AskedFollows ==
    ASSUME CallInv, NEW t \in Threads, NEW c, call' = [call EXCEPT ![t] = c]
    PROVE  Asked[t] = Request(call[t]) /\ Asked' = [Asked EXCEPT ![t] = Request(c)]
<1>1. Asked = [u \in Threads |-> Request(call[u])]
  BY DEF Asked, Request
<1>2. Asked' = [u \in Threads |-> Request(call'[u])]
  BY DEF Asked, Request
<1>3. call \in [Threads -> Call]
  BY DEF CallInv
<1> HIDE DEF Request
<1> QED
  BY <1>1, <1>2, <1>3

\* A thread that returns answers its request.
LEMMA ReturnAnswers ==
    ASSUME CallInv, NEW t \in Threads, NEW r, Return(t, r)
    PROVE  /\ Map!Answer(t, r)
           /\ Getting(t) => /\ Map!In(t, "get")
                            /\ Asked[t] = [op |-> "get", uid |-> call[t].uid]
           /\ Setting(t) => /\ Map!In(t, "set")
                            /\ Asked[t] = [op |-> "set", uid |-> call[t].uid,
                                           val |-> call[t].val]
<1>1. /\ call' = [call EXCEPT ![t] = Idle] /\ ret' = [ret EXCEPT ![t] = r]
      /\ call[t] \in Call
  BY DEF Return, CallInv
<1>2. Asked[t] = Request(call[t]) /\ Asked' = [Asked EXCEPT ![t] = None]
  BY <1>1, AskedFollows, RequestProperties
<1>3. Map!Answer(t, r)
  BY <1>1, <1>2 DEF Map!Answer
<1>4. Getting(t) => /\ Map!In(t, "get")
                    /\ Asked[t] = [op |-> "get", uid |-> call[t].uid]
  BY <1>1, <1>2, RequestProperties DEF Getting, Map!In
<1>5. Setting(t) => /\ Map!In(t, "set")
                    /\ Asked[t] = [op |-> "set", uid |-> call[t].uid,
                                   val |-> call[t].val]
  BY <1>1, <1>2, RequestProperties DEF Setting, Map!In
<1> QED
  BY <1>3, <1>4, <1>5

\* A step that leaves list and index alone leaves what is held alone.
LEMMA HeldStays == ASSUME UNCHANGED lru
                   PROVE  Held' = Held
  BY DEF lru, Held

\* A call asks, or is refused for want of an order_uid.
LEMMA BeginIsAsk ==
    ASSUME IInv, NEW t \in Threads, Begin(t)
    PROVE  Map!Ask(t) \/ Map!Refuse(t)
<1>1. /\ Held' = Held /\ Free(t) /\ CallInv /\ clock \in 0 .. MaxTime
      /\ call \in [Threads -> Call]
  BY HeldStays DEF Begin, GetBegin, SetBegin, IInv, CallInv
<1>2. Asked[t] = None
  <2>1. Asked[t] = Request(call[t])
    BY DEF Request, Asked
  <2> QED
    BY <1>1, <2>1, RequestProperties DEF Free
<1>3. ASSUME NEW c \in Call, c.op \in {"get", "set"}, Enter(t, c), ret' = ret
      PROVE  Map!Ask(t)
  <2>1. Asked' = [Asked EXCEPT ![t] = Request(c)]
    BY <1>1, <1>3, AskedFollows DEF Enter
  <2>2. Request(c) \in Map!Request
    BY <1>3, RequestProperties
  <2> QED
    BY <1>1, <1>2, <1>3, <2>1, <2>2 DEF Map!Ask
<1>4. ASSUME NEW r \in {Miss, ErrInvalidOrder}, Return(t, r)
      PROVE  Map!Refuse(t)
  <2>1. Asked' = [Asked EXCEPT ![t] = None] /\ ret' = [ret EXCEPT ![t] = r]
    BY <1>1, <1>4, AskedFollows, RequestProperties DEF Return
  <2>2. Asked' = Asked
    BY <1>2, <2>1 DEF Asked
  <2> QED
    BY <1>1, <1>2, <2>1, <2>2 DEF Map!Refuse
<1>5. ASSUME NEW uid \in Keys \cup {NoUID}, GetBegin(t, uid)
      PROVE  Map!Ask(t) \/ Map!Refuse(t)
  <2>1. CASE uid = NoUID
    BY <1>4, <1>5, <2>1 DEF GetBegin
  <2>2. CASE uid \in Keys /\ uid # NoUID
    <3> DEFINE c == [op |-> "get", uid |-> uid, now |-> clock]
    <3>1. c \in Call /\ c.op = "get"
      BY <1>1, <2>2 DEF Call
    <3>2. Enter(t, c) /\ ret' = ret
      BY <1>5, <2>2 DEF GetBegin
    <3> HIDE DEF c
    <3> QED
      BY <1>3, <3>1, <3>2
  <2> QED
    BY <2>1, <2>2
<1>6. ASSUME NEW o \in Order, SetBegin(t, o)
      PROVE  Map!Ask(t) \/ Map!Refuse(t)
  <2>1. CASE o.uid = NoUID
    BY <1>4, <1>6, <2>1 DEF SetBegin
  <2>2. CASE o.uid # NoUID
    <3> DEFINE c == [op |-> "set", uid |-> o.uid, val |-> o.val, now |-> clock]
    <3>1. c \in Call /\ c.op = "set"
      BY <1>1, <2>2 DEF Call, Order
    <3>2. Enter(t, c) /\ ret' = ret
      BY <1>6, <2>2 DEF SetBegin
    <3> HIDE DEF c
    <3> QED
      BY <1>3, <3>1, <3>2
  <2> QED
    BY <2>1, <2>2
<1> QED
  BY <1>5, <1>6 DEF Begin

\* A miss forgets the key, if it was held.
LEMMA MissIsLose ==
    ASSUME IInv, NEW t \in Threads, GetAbsent(t) \/ GetExpired(t)
    PROVE  Map!Lose(t)
<1> DEFINE k == call[t].uid
<1>1. /\ Getting(t) /\ Return(t, Miss) /\ k \in Keys /\ CallInv /\ CacheInv
  BY CallProperties DEF GetAbsent, GetExpired, IInv
<1>2. Map!Answer(t, Miss) /\ Map!In(t, "get") /\ Asked[t].uid = k
  <2>1. /\ Map!Answer(t, Miss) /\ Map!In(t, "get")
        /\ Asked[t] = [op |-> "get", uid |-> k]
    BY <1>1, ReturnAnswers, Zenon
  <2>2. Asked[t].uid = k
    BY <2>1
  <2> QED
    BY <2>1, <2>2
<1> HIDE DEF k
<1>3. Held' = [Held EXCEPT ![k] = None]
  <2>1. CASE GetAbsent(t)
    <3>1. k \notin cache /\ Held' = Held
      BY <2>1, HeldStays DEF GetAbsent, k
    <3>2. Held[k] = None /\ Held = [m \in Keys |-> Held[m]]
      BY <1>1, <3>1, HeldNow
    <3> QED
      BY <3>1, <3>2
  <2>2. CASE GetExpired(t)
    <3>1. CacheInv' /\ cache' = cache \ {k}
      BY <2>2, GetExpiredKeeps DEF IInv, k
    <3>2. /\ k \in cache /\ ll \in Seq(Entry) /\ ll' = Without(ll, Place(ll, k))
          /\ Place(ll, k) \in 1 .. Len(ll) /\ Len(ll) \in Nat
      BY <1>1, <2>2, PlaceInList, EntryProperties DEF GetExpired, CacheInv, k
    <3> DEFINE i == Place(ll, k)
    <3> HIDE DEF i
    <3>3. /\ Len(ll') = Len(ll) - 1
          /\ \A j \in 1 .. Len(ll) - 1 :
                ll'[j] = IF j < i THEN ll[j] ELSE ll[j + 1]
      BY <3>2, WithoutProperties DEF i
    <3>4. \A j \in 1 .. Len(ll') : \E m \in 1 .. Len(ll) : ll'[j] = ll[m]
      <4> SUFFICES ASSUME NEW j \in 1 .. Len(ll')
                   PROVE  \E m \in 1 .. Len(ll) : ll'[j] = ll[m]
        OBVIOUS
      <4>1. j \in 1 .. Len(ll) /\ j + 1 \in 1 .. Len(ll) /\ j \in 1 .. Len(ll) - 1
        BY <3>2, <3>3
      <4> QED
        BY <3>3, <4>1
    <3>5. \A m \in cache' \ {k} : Held'[m] = Held[m]
      BY <1>1, <3>1, <3>4, OthersStay
    <3>6. \A m \in Keys \ cache : Held[m] = None
      BY <1>1, HeldNow
    <3>7. \A m \in Keys \ cache' : Held'[m] = None
      BY <3>1, HeldNext
    <3>8. ASSUME NEW m \in Keys
          PROVE  Held'[m] = [Held EXCEPT ![k] = None][m]
      <4>1. Held = [n \in Keys |-> Held[n]]
        BY <1>1, HeldNow
      <4>2. [Held EXCEPT ![k] = None][m] = IF m = k THEN None ELSE Held[m]
        BY <4>1
      <4> QED
        BY <3>1, <3>5, <3>6, <3>7, <4>2
    <3>9. /\ Held = [m \in Keys |-> Held[m]] /\ Held' = [m \in Keys |-> Held'[m]]
      BY <1>1, <3>1, HeldNow, HeldNext
    <3> QED
      BY <3>8, <3>9
  <2> QED
    BY <2>1, <2>2
<1> QED
  BY <1>2, <1>3 DEF Map!Lose

\* A hit answers what is held and leaves it.
LEMMA HitIsHit ==
    ASSUME IInv, NEW t \in Threads, GetHit(t)
    PROVE  Map!Hit(t)
<1> DEFINE k == call[t].uid
           i == Place(ll, k)
<1>1. /\ Getting(t) /\ k \in cache /\ cache' = cache /\ CallInv /\ CacheInv
      /\ CacheInv'
  BY GetHitKeeps DEF GetHit, IInv
<1>2. PICK e \in Entry :
         /\ e.id = k /\ e.order = ll[i].order
         /\ ll' = <<e>> \o Without(ll, i) /\ Return(t, e.order)
  BY HitEntry
<1>3. Map!Answer(t, e.order) /\ Map!In(t, "get") /\ Asked[t].uid = k
  <2>1. /\ Map!Answer(t, e.order) /\ Map!In(t, "get")
        /\ Asked[t] = [op |-> "get", uid |-> k]
    BY <1>1, <1>2, ReturnAnswers, Zenon
  <2>2. Asked[t].uid = k
    BY <2>1
  <2> QED
    BY <2>1, <2>2
<1>4. ll \in Seq(Entry) /\ i \in 1 .. Len(ll) /\ ll[i].id = k /\ Len(ll) \in Nat
  BY <1>1, PlaceInList, EntryProperties DEF CacheInv
<1> HIDE DEF i, k
<1>5. /\ Len(ll') = Len(ll) /\ ll'[1] = e
      /\ \A j \in 2 .. Len(ll) : ll'[j] = IF j <= i THEN ll[j - 1] ELSE ll[j]
  BY <1>2, <1>4, MoveProperties
<1>6. Held[k] = e.order /\ Held'[k] = e.order
  <2>1. Held[k] = ll[i].order
    BY <1>1, <1>4, HeldNow
  <2>2. Held'[ll'[1].id] = ll'[1].order
    BY <1>1, <1>4, <1>5, HeldNext
  <2> QED
    BY <1>2, <1>5, <2>1, <2>2
<1>7. ASSUME NEW j \in 1 .. Len(ll'), ll'[j].id # k
      PROVE  \E m \in 1 .. Len(ll) : ll'[j] = ll[m]
  <2>1. j \in 2 .. Len(ll) /\ j - 1 \in 1 .. Len(ll) /\ j \in 1 .. Len(ll)
    BY <1>2, <1>4, <1>5, <1>7
  <2> QED
    BY <1>5, <2>1
<1>8. \A m \in cache \ {k} : Held'[m] = Held[m]
  BY <1>1, <1>7, OthersStay
<1>9. /\ Held = [m \in Keys |-> Held[m]] /\ Held' = [m \in Keys |-> Held'[m]]
      /\ \A m \in Keys \ cache : Held[m] = None /\ Held'[m] = None
  BY <1>1, HeldNow, HeldNext
<1>10. Held' = Held
  BY <1>6, <1>8, <1>9
<1>11. Held[k] # None
  BY <1>6, CacheAssumption DEF Entry
<1> QED
  BY <1>3, <1>6, <1>10, <1>11 DEF Map!Hit

\* A set holds its value for its key and may forget others.
LEMMA SetIsSet ==
    ASSUME IInv, NEW t \in Threads, SetUpdate(t) \/ SetInsert(t)
    PROVE  Map!Set(t)
<1> DEFINE k == call[t].uid
           e == NewEntry(t)
<1>1. /\ Setting(t) /\ Return(t, Ok) /\ CallInv /\ CacheInv /\ CacheInv'
      /\ k \in Keys /\ ll \in Seq(Entry) /\ Len(ll) \in Nat /\ cache \subseteq Keys
  BY CallProperties, SetUpdateKeeps, SetInsertKeeps, EntryProperties
  DEF SetUpdate, SetInsert, IInv, CacheInv
<1>2. /\ Map!Answer(t, Ok) /\ Map!In(t, "set")
      /\ Asked[t].uid = k /\ Asked[t].val = call[t].val
  <2>1. /\ Map!Answer(t, Ok) /\ Map!In(t, "set")
        /\ Asked[t] = [op |-> "set", uid |-> k, val |-> call[t].val]
    BY <1>1, ReturnAnswers, Zenon
  <2>2. Asked[t].uid = k /\ Asked[t].val = call[t].val
    BY <2>1
  <2> QED
    BY <2>1, <2>2
<1>3. e \in Entry /\ e.id = k /\ e.order = call[t].val
  BY <1>1, EntryTyped
<1> HIDE DEF e
<1>4. /\ Len(ll') >= 1 /\ Len(ll') \in Nat /\ ll'[1] = e /\ k \in cache'
      /\ \A j \in 2 .. Len(ll') : \E m \in 1 .. Len(ll) : ll'[j] = ll[m]
  <2>1. CASE SetUpdate(t)
    <3> DEFINE i == Place(ll, k)
    <3>1. /\ ll' = <<e>> \o Without(ll, i) /\ k \in cache /\ cache' = cache
      BY <2>1 DEF SetUpdate, e
    <3>2. i \in 1 .. Len(ll) /\ ll[i].id = k
      BY <1>1, <3>1, PlaceInList
    <3> HIDE DEF i
    <3>3. /\ Len(ll') = Len(ll) /\ ll'[1] = e
          /\ \A j \in 2 .. Len(ll) : ll'[j] = IF j <= i THEN ll[j - 1] ELSE ll[j]
      BY <1>1, <1>3, <3>1, <3>2, MoveProperties
    <3>4. ASSUME NEW j \in 2 .. Len(ll')
          PROVE  \E m \in 1 .. Len(ll) : ll'[j] = ll[m]
      <4>1. j \in 2 .. Len(ll) /\ j - 1 \in 1 .. Len(ll) /\ j \in 1 .. Len(ll)
        BY <1>1, <3>3
      <4> QED
        BY <3>3, <4>1
    <3>5. Len(ll) >= 1
      BY <1>1, <3>2
    <3> QED
      BY <1>1, <3>1, <3>3, <3>4, <3>5
  <2>2. CASE SetInsert(t)
    <3>1. PICK n \in 0 .. Len(ll) :
             /\ ll' \in Seq(Entry) /\ Len(ll') >= 1 /\ ll'[1] = e
             /\ Len(ll') = IF n = Capacity THEN n ELSE n + 1
             /\ \A j \in 2 .. Len(ll') : ll'[j] = ll[j - 1]
      BY <2>2, InsertedList DEF e
    <3>2. ASSUME NEW j \in 2 .. Len(ll')
          PROVE  \E m \in 1 .. Len(ll) : ll'[j] = ll[m]
      <4>1. j - 1 \in 1 .. Len(ll)
        BY <1>1, <3>1, CapacityType
      <4> QED
        BY <3>1, <4>1
    <3>3. Len(ll') \in Nat
      BY <3>1, EntryProperties
    <3>4. k \in cache'
      BY <2>2 DEF SetInsert
    <3> QED
      BY <3>1, <3>2, <3>3, <3>4
  <2> QED
    BY <1>1, <2>1, <2>2
<1> HIDE DEF k
<1>5. ASSUME NEW j \in 1 .. Len(ll'), ll'[j].id # k
      PROVE  \E m \in 1 .. Len(ll) : ll'[j] = ll[m]
  <2>1. j \in 2 .. Len(ll')
    BY <1>3, <1>4, <1>5
  <2> QED
    BY <1>4, <2>1
<1>6. \A m \in cache' \ {k} : m \in cache /\ Held'[m] = Held[m]
  BY <1>1, <1>5, OthersStay
<1>7. Held'[k] = call[t].val
  <2>1. 1 \in 1 .. Len(ll')
    BY <1>4
  <2> QED
    BY <1>1, <1>3, <1>4, <2>1, HeldNext
<1>8. /\ Held' = [m \in Keys |-> Held'[m]]
      /\ \A m \in Keys \ cache : Held[m] = None
      /\ \A m \in Keys \ cache' : Held'[m] = None
  BY <1>1, HeldNow, HeldNext
<1> DEFINE gone == cache \ cache'
<1>9. gone \in SUBSET (Keys \ {Asked[t].uid})
  BY <1>1, <1>2, <1>4
<1>10. ASSUME NEW m \in Keys
       PROVE  Held'[m] = IF m = Asked[t].uid THEN Asked[t].val
                         ELSE IF m \in gone THEN None ELSE Held[m]
  BY <1>2, <1>6, <1>7, <1>8
<1>11. Held' = [m \in Keys |-> IF m = Asked[t].uid THEN Asked[t].val
                               ELSE IF m \in gone THEN None ELSE Held[m]]
  BY <1>8, <1>10
<1> QED
  BY <1>2, <1>9, <1>11 DEF Map!Set

\* Every step of the cache is a step of the map or leaves it alone.
LEMMA StepImplementsMap ==
    ASSUME IInv, [Next]_vars
    PROVE  [Map!Next]_(Map!mvars)
<1>1. CASE Tick \/ UNCHANGED vars
  <2>1. UNCHANGED lru /\ call' = call /\ ret' = ret
    BY <1>1 DEF Tick, vars, threads
  <2>2. Held' = Held
    BY <2>1, HeldStays
  <2>3. Asked' = Asked
    BY <2>1 DEF Asked
  <2> QED
    BY <2>1, <2>2, <2>3 DEF Map!mvars
<1>2. ASSUME NEW t \in Threads, Begin(t) \/ Work(t)
      PROVE  Map!Next
  <2>1. Map!Ask(t) \/ Map!Refuse(t) \/ Map!Set(t) \/ Map!Hit(t) \/ Map!Lose(t)
    BY <1>2, BeginIsAsk, MissIsLose, HitIsHit, SetIsSet DEF Work
  <2> QED
    BY <2>1 DEF Map!Next
<1> QED
  BY <1>1, <1>2 DEF Next

\* Callers see a map that may forget and never makes up a value: every Get and
\* Set takes effect in one step, under the mutex.
THEOREM Implementation == Spec => ImplementsLossyMap
<1>1. Init => Map!Init
  <2> SUFFICES ASSUME Init
               PROVE  Map!Init
    OBVIOUS
  <2>1. Held = [k \in Keys |-> None]
    BY DEF Init, Held
  <2>2. Asked = [t \in Threads |-> None]
    BY DEF Init, Asked, Idle
  <2>3. ret = [t \in Threads |-> Ok]
    BY DEF Init
  <2> QED
    BY <2>1, <2>2, <2>3 DEF Map!Init
<1>2. IInv /\ [Next]_vars => [Map!Next]_(Map!mvars)
  BY StepImplementsMap
<1> QED
  BY <1>1, <1>2, Invariance, PTL DEF Spec, ImplementsLossyMap, Map!Spec
-----------------------------------------------------------------------------
(* What the warm-up has done.                                              *)

Booting == [at : {"start", "select", "rows", "set", "ready"},
            date : [Keys -> Dates \cup {None}], n : -1 .. MaxN,
            uids : Seq(Keys), todo : Seq(Order), done : BOOLEAN]

\* Nothing is in the cache yet, and nobody has called it.
Untouched == ll = << >> /\ ~boot.done

\* LastN has listed s; the orders in todo are read, those in uids are not.
Reading(s) ==
    /\ Len(boot.todo) + Len(boot.uids) = Len(s)
    /\ \A i \in 1 .. Len(boot.todo) : boot.todo[i].uid = s[i]
    /\ \A i \in 1 .. Len(boot.uids) : boot.uids[i] = s[Len(boot.todo) + i]

\* Of the first k orders of s, set one by one, the cache has the last ones; all
\* that fit while none can have expired.
Warmed(s, k) ==
    /\ k \in 0 .. Len(s) /\ Len(ll) <= k
    /\ \A i \in 1 .. Len(ll) : /\ ll[i].id = s[k + 1 - i]
                               /\ TTL > 0 => ll[i].expiresAt >= TTL
    /\ TTL <= 0 \/ clock <= TTL => Len(ll) = k \/ Len(ll) = Capacity

\* The first m orders of s have been set, or the m-th is being set.
Filling(s, m) ==
    /\ m \in 0 .. Len(s) /\ Len(boot.todo) = Len(s) - m
    /\ \A i \in 1 .. Len(boot.todo) : boot.todo[i].uid = s[m + i]
    /\ IF call[Main] = Idle
       THEN Warmed(s, m)
       ELSE Setting(Main) /\ m >= 1 /\ call[Main].uid = s[m] /\ Warmed(s, m - 1)

\* What the warm-up has done at each place of Bootstrap.
Warming ==
    /\ boot \in Booting /\ IsFiniteSet(Stored)
    /\ \A t \in Threads : t # Main \/ boot.at # "set" => call[t] = Idle
    /\ boot.at \in {"start", "select", "rows"} => Untouched
    /\ boot.at \in {"start", "select"} => boot.todo = << >>
    /\ boot.at \in {"select", "rows", "set"} => boot.n > 0 /\ ~boot.done
    /\ boot.at = "rows" => \E s \in Latest : Reading(s)
    /\ boot.at = "set" => \E s \in Latest : \E m \in Nat : Filling(s, m)
    /\ boot.at = "ready" =>
          \/ Untouched
          \/ /\ boot.n > 0
             /\ \E s \in Latest : \E k \in Nat :
                   Warmed(s, k) /\ (boot.done => k = Len(s))

WInv == IInv /\ (boot # Serving => Warming)
-----------------------------------------------------------------------------
(* The warm-up.                                                            *)

\* What LastN may list.
IsListing(s) ==
    /\ s \in Seq(Stored) /\ Len(s) <= boot.n /\ Len(s) <= Cardinality(Stored)
    /\ Len(s) = boot.n \/ Len(s) = Cardinality(Stored)
    /\ \A i, j \in 1 .. Len(s) :
          i < j => s[i] # s[j] /\ boot.date[s[i]] >= boot.date[s[j]]
    /\ \A i \in 1 .. Len(s) : \A k \in Stored :
          boot.date[k] > boot.date[s[i]] => \E j \in 1 .. Len(s) : s[j] = k

LEMMA MinIs ==
    ASSUME NEW a \in Int, NEW b \in Int
    PROVE  Min({a, b}) = IF a <= b THEN a ELSE b
<1>1. \E x \in {a, b} : \A y \in {a, b} : x <= y
  OBVIOUS
<1>2. Min({a, b}) \in {a, b} /\ \A y \in {a, b} : Min({a, b}) <= y
  BY <1>1 DEF Min
<1> QED
  BY <1>2

LEMMA LatestIs ==
    ASSUME IsFiniteSet(Stored), boot.n \in Nat, NEW s \in Latest
    PROVE  IsListing(s) /\ Len(s) \in Nat
<1> DEFINE m == Min({boot.n, Cardinality(Stored)})
<1>1. Cardinality(Stored) \in Nat
  BY FS_CardinalityType
<1>2. m = IF boot.n <= Cardinality(Stored) THEN boot.n ELSE Cardinality(Stored)
  BY <1>1, MinIs
<1>3. m \in Nat
  BY <1>1, <1>2
<1>4. s \in [1 .. m -> Stored]
  BY DEF Latest
<1>5. /\ \A i, j \in DOMAIN s : i < j =>
             s[i] # s[j] /\ boot.date[s[i]] >= boot.date[s[j]]
      /\ \A i \in DOMAIN s : \A k \in Stored :
             boot.date[k] > boot.date[s[i]] => \E j \in DOMAIN s : s[j] = k
  BY DEF Latest
<1> HIDE DEF m
<1>6. s \in Seq(Stored) /\ Len(s) = m /\ DOMAIN s = 1 .. m
  BY <1>3, <1>4
<1> QED
  BY <1>1, <1>2, <1>3, <1>5, <1>6 DEF IsListing

LEMMA CacheStep == ASSUME WInv, [WNext]_wvars PROVE [Next]_vars
<1>1. CASE WarmUpNext
  <2>1. boot.at = "set" /\ boot.todo # << >> /\ SetBegin(Main, Head(boot.todo))
    BY <1>1 DEF WarmUpNext
  <2>2. boot.todo \in Seq(Order)
    BY <2>1 DEF WInv, Warming, Booting, Serving
  <2>3. Head(boot.todo) \in Order
    BY <2>1, <2>2
  <2> QED
    BY <2>1, <2>3, WarmUpAssumption DEF Next, Begin
<1>2. CASE UNCHANGED vars
  BY <1>2
<1>3. CASE Tick \/ \E t \in Threads : Work(t) \/ Begin(t)
  BY <1>3 DEF Next
<1> QED
  BY <1>1, <1>2, <1>3 DEF WNext, wvars, WarmUpCache, LastN, LastNRow, LastNReturns,
     LastNFails, WarmUpReturns, WarmUpCancelled, Serve

LEMMA BootFields ==
    ASSUME boot \in Booting
    PROVE  /\ boot # Serving /\ boot.done \in BOOLEAN /\ boot.n \in Int
           /\ boot.uids \in Seq(Keys) /\ boot.todo \in Seq(Order)
           /\ Len(boot.uids) \in Nat /\ Len(boot.todo) \in Nat
           /\ boot.date \in [Keys -> Dates \cup {None}]
<1>1. /\ boot.at \in {"start", "select", "rows", "set", "ready"}
      /\ boot.done \in BOOLEAN /\ boot.n \in -1 .. MaxN
      /\ boot.uids \in Seq(Keys) /\ boot.todo \in Seq(Order)
      /\ boot.date \in [Keys -> Dates \cup {None}]
  BY DEF Booting
<1>2. boot # Serving
  BY <1>1 DEF Serving
<1>3. boot.n \in Int
  BY <1>1, WarmUpAssumption
<1>4. Len(boot.uids) \in Nat /\ Len(boot.todo) \in Nat
  BY <1>1, LenProperties
<1> QED
  BY <1>1, <1>2, <1>3, <1>4

\* The warm-up leaves the stored orders and the configured number alone.
SameOrders == boot'.date = boot.date /\ boot'.n = boot.n

LEMMA SameLatest ==
    ASSUME SameOrders PROVE Stored' = Stored /\ Latest' = Latest
<1>1. Stored' = Stored
  BY DEF SameOrders, Stored
<1> QED
  BY <1>1 DEF SameOrders, Latest

\* What each step of the warm-up changes.
LEMMA BootTo ==
    ASSUME boot \in Booting, NEW x \in {"start", "select", "rows", "set", "ready"},
           boot' = [boot EXCEPT !.at = x]
    PROVE  /\ boot' \in Booting /\ boot'.at = x /\ boot'.uids = boot.uids
           /\ boot'.todo = boot.todo /\ boot'.done = boot.done /\ SameOrders
BY DEF Booting, SameOrders

LEMMA SameList ==
    ASSUME UNCHANGED vars
    PROVE  ll' = ll /\ call' = call /\ clock' = clock
BY DEF vars, lru, threads

LEMMA WarmUpCacheKeeps ==
    ASSUME Warming, WarmUpCache PROVE Warming'
<1> DEFINE x == IF boot.n > 0 THEN "select" ELSE "ready"
<1>1. /\ boot.at = "start" /\ boot' = [boot EXCEPT !.at = x] /\ UNCHANGED vars
      /\ boot \in Booting /\ boot.todo = << >> /\ Untouched
      /\ IsFiniteSet(Stored) /\ \A t \in Threads : call[t] = Idle
  BY DEF WarmUpCache, Warming
<1>2. x \in {"select", "ready"} /\ (x = "select" => boot.n > 0)
  OBVIOUS
<1> HIDE DEF x
<1>3. /\ boot' \in Booting /\ boot'.at = x /\ boot'.uids = boot.uids
      /\ boot'.todo = boot.todo /\ boot'.done = boot.done /\ SameOrders
  BY <1>1, <1>2, BootTo
<1>4. ll' = ll /\ call' = call /\ clock' = clock /\ Stored' = Stored
  BY <1>1, <1>3, SameLatest, SameList
<1>5. Untouched'
  BY <1>1, <1>3, <1>4 DEF Untouched
<1>6. boot'.at = "select" => boot'.n > 0 /\ ~boot'.done
  BY <1>2, <1>3, <1>5 DEF Untouched, SameOrders
<1>7. \A t \in Threads : call'[t] = Idle
  BY <1>1, <1>4
<1> QED
  BY <1>1, <1>2, <1>3, <1>4, <1>5, <1>6, <1>7 DEF Warming

LEMMA LastNKeeps ==
    ASSUME Warming, LastN PROVE Warming'
<1>1. /\ boot.at = "select" /\ UNCHANGED vars
      /\ boot \in Booting /\ boot.todo = << >> /\ Untouched /\ boot.n > 0
      /\ IsFiniteSet(Stored) /\ \A t \in Threads : call[t] = Idle
  BY DEF LastN, Warming
<1>2. PICK s \in Latest : boot' = [boot EXCEPT !.at = "rows", !.uids = s]
  BY DEF LastN
<1>3. boot.n \in Nat
  BY <1>1, BootFields
<1>4. IsListing(s) /\ Len(s) \in Nat
  BY <1>1, <1>3, LatestIs
<1>5. s \in Seq(Keys)
  BY <1>4 DEF IsListing, Stored
<1>6. /\ boot' \in Booting /\ boot'.at = "rows" /\ boot'.uids = s
      /\ boot'.todo = boot.todo /\ boot'.done = boot.done /\ SameOrders
  BY <1>1, <1>2, <1>5 DEF Booting, SameOrders
<1>7. /\ ll' = ll /\ call' = call /\ clock' = clock
      /\ Stored' = Stored /\ Latest' = Latest
  BY <1>1, <1>6, SameLatest, SameList
<1>8. Untouched'
  BY <1>1, <1>6, <1>7 DEF Untouched
<1>9. Reading(s)'
  <2>1. boot'.todo = << >> /\ Len(boot'.todo) = 0
    BY <1>1, <1>6
  <2> QED
    BY <1>4, <1>6, <2>1 DEF Reading
<1>10. \A t \in Threads : call'[t] = Idle
  BY <1>1, <1>7
<1>11. boot'.n > 0 /\ ~boot'.done
  BY <1>1, <1>6 DEF SameOrders, Untouched
<1> QED
  BY <1>1, <1>6, <1>7, <1>8, <1>9, <1>10, <1>11 DEF Warming

LEMMA LastNRowKeeps ==
    ASSUME Warming, LastNRow PROVE Warming'
<1>1. /\ boot.at = "rows" /\ UNCHANGED vars /\ boot.uids # << >>
      /\ boot \in Booting /\ Untouched /\ boot.n > 0
      /\ IsFiniteSet(Stored) /\ \A t \in Threads : call[t] = Idle
  BY DEF LastNRow, Warming
<1>2. PICK s \in Latest : Reading(s)
  BY <1>1 DEF Warming
<1> DEFINE o(v) == [uid |-> Head(boot.uids), val |-> v]
<1>3. PICK v \in Values : boot' = [boot EXCEPT !.uids = Tail(@), !.todo = Append(@, o(v))]
  BY DEF LastNRow
<1>4. /\ boot.uids \in Seq(Keys) /\ boot.todo \in Seq(Order)
      /\ Len(boot.uids) \in Nat /\ Len(boot.todo) \in Nat
  BY <1>1, BootFields
<1>5. /\ Tail(boot.uids) \in Seq(Keys) /\ Head(boot.uids) \in Keys
      /\ Len(boot.uids) >= 1 /\ Head(boot.uids) = boot.uids[1]
      /\ Len(Tail(boot.uids)) = Len(boot.uids) - 1
      /\ \A i \in 1 .. Len(boot.uids) - 1 : Tail(boot.uids)[i] = boot.uids[i + 1]
  BY <1>1, <1>4, HeadTailProperties
<1>6. o(v) \in Order /\ o(v).uid = boot.uids[1]
  BY <1>5 DEF Order
<1> HIDE DEF o
<1>7. /\ Append(boot.todo, o(v)) \in Seq(Order)
      /\ Len(Append(boot.todo, o(v))) = Len(boot.todo) + 1
      /\ \A i \in 1 .. Len(boot.todo) : Append(boot.todo, o(v))[i] = boot.todo[i]
      /\ Append(boot.todo, o(v))[Len(boot.todo) + 1] = o(v)
  BY <1>4, <1>6, AppendProperties
<1>8. /\ boot' \in Booting /\ boot'.at = "rows" /\ boot'.uids = Tail(boot.uids)
      /\ boot'.todo = Append(boot.todo, o(v)) /\ boot'.done = boot.done /\ SameOrders
  BY <1>1, <1>3, <1>5, <1>7 DEF Booting, SameOrders
<1>9. /\ ll' = ll /\ call' = call /\ clock' = clock
      /\ Stored' = Stored /\ Latest' = Latest
  BY <1>1, <1>8, SameLatest, SameList
<1>10. Untouched'
  BY <1>1, <1>8, <1>9 DEF Untouched
<1>11. Reading(s)'
  <2>1. /\ Len(boot'.todo) = Len(boot.todo) + 1
        /\ Len(boot'.uids) = Len(boot.uids) - 1
    BY <1>5, <1>7, <1>8
  <2>2. ASSUME NEW i \in 1 .. Len(boot.todo) + 1
        PROVE  boot'.todo[i].uid = s[i]
    <3>1. CASE i \in 1 .. Len(boot.todo)
      BY <1>2, <1>7, <1>8, <3>1 DEF Reading
    <3>2. CASE i = Len(boot.todo) + 1
      <4>1. boot'.todo[i] = o(v)
        BY <1>7, <1>8, <3>2
      <4>2. 1 \in 1 .. Len(boot.uids)
        BY <1>4, <1>5
      <4>3. boot.uids[1] = s[Len(boot.todo) + 1]
        BY <1>2, <4>2 DEF Reading
      <4> QED
        BY <1>6, <3>2, <4>1, <4>3
    <3> QED
      BY <1>4, <3>1, <3>2
  <2>3. ASSUME NEW i \in 1 .. Len(boot.uids) - 1
        PROVE  boot'.uids[i] = s[Len(boot.todo) + 1 + i]
    <3>1. boot'.uids[i] = boot.uids[i + 1] /\ i + 1 \in 1 .. Len(boot.uids)
      BY <1>4, <1>5, <1>8
    <3>2. boot.uids[i + 1] = s[Len(boot.todo) + (i + 1)]
      BY <1>2, <3>1 DEF Reading
    <3>3. \A a \in Nat : a + (i + 1) = a + 1 + i
      OBVIOUS
    <3> QED
      BY <1>4, <3>1, <3>2, <3>3
  <2>4. (Len(boot.todo) + 1) + (Len(boot.uids) - 1) = Len(s)
    <3>1. \A a, b \in Nat : (a + 1) + (b - 1) = a + b
      OBVIOUS
    <3> QED
      BY <1>2, <1>4, <3>1 DEF Reading
  <2> QED
    BY <2>1, <2>2, <2>3, <2>4 DEF Reading
<1>12. \A t \in Threads : call'[t] = Idle
  BY <1>1, <1>9
<1>13. boot'.n > 0 /\ ~boot'.done
  BY <1>1, <1>8 DEF SameOrders, Untouched
<1> QED
  BY <1>1, <1>2, <1>8, <1>9, <1>10, <1>11, <1>12, <1>13 DEF Warming

LEMMA LastNReturnsKeeps ==
    ASSUME Warming, LastNReturns PROVE Warming'
<1>1. /\ boot.at = "rows" /\ UNCHANGED vars /\ boot.uids = << >>
      /\ boot' = [boot EXCEPT !.at = "set"]
      /\ boot \in Booting /\ Untouched /\ boot.n > 0
      /\ IsFiniteSet(Stored) /\ \A t \in Threads : call[t] = Idle
  BY DEF LastNReturns, Warming
<1>2. PICK s \in Latest : Reading(s)
  BY <1>1 DEF Warming
<1>3. /\ boot' \in Booting /\ boot'.at = "set" /\ boot'.uids = boot.uids
      /\ boot'.todo = boot.todo /\ boot'.done = boot.done /\ SameOrders
  BY <1>1, BootTo
<1>4. /\ ll' = ll /\ call' = call /\ clock' = clock
      /\ Stored' = Stored /\ Latest' = Latest
  BY <1>1, <1>3, SameLatest, SameList
<1>5. boot.n \in Nat
  BY <1>1, BootFields
<1>6. Len(boot.uids) = 0 /\ Len(boot.todo) \in Nat /\ Len(s) \in Nat
  BY <1>1, <1>5, BootFields, LatestIs
<1>7. Len(boot.todo) = Len(s)
  <2>1. \A a \in Nat : a + 0 = a
    OBVIOUS
  <2> QED
    BY <1>2, <1>6, <2>1 DEF Reading
<1>8. Warmed(s, 0)'
  <2>1. Len(ll') = 0
    BY <1>1, <1>4 DEF Untouched
  <2> QED
    BY <1>6, <2>1 DEF Warmed
<1>9. Filling(s, 0)'
  <2>1. call'[Main] = Idle
    BY <1>1, <1>4, WarmUpAssumption
  <2>2. \A i \in 1 .. Len(boot'.todo) : boot'.todo[i].uid = s[0 + i]
    <3>1. \A i \in 1 .. Len(boot'.todo) : 0 + i = i
      BY <1>3, <1>6
    <3> QED
      BY <1>2, <1>3, <3>1 DEF Reading
  <2>3. Len(boot'.todo) = Len(s) - 0 /\ 0 \in 0 .. Len(s)
    BY <1>3, <1>6, <1>7
  <2> QED
    BY <1>8, <2>1, <2>2, <2>3 DEF Filling
<1>10. \A t \in Threads : call'[t] = Idle
  BY <1>1, <1>4
<1>11. boot'.n > 0 /\ ~boot'.done
  BY <1>1, <1>3 DEF SameOrders, Untouched
<1>12. \E z \in Latest' : \E m \in Nat : Filling(z, m)'
  BY <1>2, <1>4, <1>9
<1> QED
  BY <1>1, <1>3, <1>4, <1>10, <1>11, <1>12 DEF Warming

LEMMA LastNFailsKeeps ==
    ASSUME Warming, LastNFails PROVE Warming'
<1>1. /\ UNCHANGED vars /\ boot' = [boot EXCEPT !.at = "ready"]
      /\ boot \in Booting /\ Untouched
      /\ IsFiniteSet(Stored) /\ \A t \in Threads : call[t] = Idle
  BY DEF LastNFails, Warming
<1>2. /\ boot' \in Booting /\ boot'.at = "ready" /\ boot'.uids = boot.uids
      /\ boot'.todo = boot.todo /\ boot'.done = boot.done /\ SameOrders
  BY <1>1, BootTo
<1>3. ll' = ll /\ call' = call /\ clock' = clock /\ Stored' = Stored
  BY <1>1, <1>2, SameLatest, SameList
<1>4. Untouched'
  BY <1>1, <1>2, <1>3 DEF Untouched
<1>5. \A t \in Threads : call'[t] = Idle
  BY <1>1, <1>3
<1> QED
  BY <1>1, <1>2, <1>3, <1>4, <1>5 DEF Warming

\* What is known between two calls of Set.
LEMMA BetweenSets ==
    ASSUME Warming, boot.at = "set", call[Main] = Idle
    PROVE  /\ boot \in Booting /\ boot.n > 0 /\ ~boot.done /\ IsFiniteSet(Stored)
           /\ \A t \in Threads : call[t] = Idle
           /\ \E s \in Latest : \E m \in Nat :
                 /\ IsListing(s) /\ Len(s) \in Nat /\ m \in 0 .. Len(s)
                 /\ Len(boot.todo) = Len(s) - m /\ Len(boot.todo) \in Nat
                 /\ \A i \in 1 .. Len(boot.todo) : boot.todo[i].uid = s[m + i]
                 /\ Warmed(s, m)
<1>1. /\ boot \in Booting /\ boot.n > 0 /\ ~boot.done /\ IsFiniteSet(Stored)
      /\ \A t \in Threads : t # Main => call[t] = Idle
  BY DEF Warming
<1>2. \A t \in Threads : call[t] = Idle
  BY <1>1
<1>3. PICK s \in Latest : \E m \in Nat : Filling(s, m)
  BY DEF Warming
<1>4. PICK m \in Nat : Filling(s, m)
  BY <1>3
<1>5. boot.n \in Nat /\ Len(boot.todo) \in Nat
  BY <1>1, BootFields
<1>6. IsListing(s) /\ Len(s) \in Nat
  BY <1>1, <1>5, LatestIs
<1>7. /\ m \in 0 .. Len(s)
      /\ Len(boot.todo) = Len(s) - m
      /\ \A i \in 1 .. Len(boot.todo) : boot.todo[i].uid = s[m + i]
      /\ Warmed(s, m)
  BY <1>4 DEF Filling
<1> QED
  BY <1>1, <1>2, <1>5, <1>6, <1>7

\* Bootstrap goes on with what is set so far.
LEMMA SetEndsKeeps ==
    ASSUME Warming, WarmUpCancelled \/ WarmUpReturns PROVE Warming'
<1>1. boot.at = "set" /\ call[Main] = Idle /\ UNCHANGED vars
  BY DEF WarmUpCancelled, WarmUpReturns
<1>2. /\ boot \in Booting /\ boot.n > 0 /\ ~boot.done /\ IsFiniteSet(Stored)
      /\ \A t \in Threads : call[t] = Idle
  BY <1>1, BetweenSets
<1>3. PICK s \in Latest : \E m \in Nat :
         /\ Len(s) \in Nat /\ m \in 0 .. Len(s)
         /\ Len(boot.todo) = Len(s) - m
         /\ Warmed(s, m)
  BY <1>1, BetweenSets
<1>4. PICK m \in Nat : /\ Len(s) \in Nat /\ m \in 0 .. Len(s)
                       /\ Len(boot.todo) = Len(s) - m
                       /\ Warmed(s, m)
  BY <1>3
<1>5. /\ boot' \in Booting /\ boot'.at = "ready" /\ SameOrders
      /\ boot'.done => boot.todo = << >>
  BY <1>2 DEF Booting, SameOrders, WarmUpCancelled, WarmUpReturns
<1>6. boot'.done => m = Len(s)
  BY <1>4, <1>5
<1>7. /\ ll' = ll /\ call' = call /\ clock' = clock
      /\ Stored' = Stored /\ Latest' = Latest
  BY <1>1, <1>5, SameLatest, SameList
<1>8. Warmed(s, m)'
  BY <1>4, <1>7 DEF Warmed
<1>9. boot'.n > 0 /\ \A t \in Threads : call'[t] = Idle
  BY <1>2, <1>5, <1>7 DEF SameOrders
<1>10. \E z \in Latest' : \E k \in Nat :
          Warmed(z, k)' /\ (boot'.done => k = Len(z))
  BY <1>6, <1>7, <1>8
<1> QED
  BY <1>2, <1>5, <1>7, <1>9, <1>10 DEF Warming

\* WarmUp calls Set with its next order.
LEMMA WarmUpNextKeeps ==
    ASSUME CallInv, Warming, WarmUpNext PROVE Warming'
<1>1. /\ boot.at = "set" /\ call[Main] = Idle /\ boot.todo # << >>
      /\ SetBegin(Main, Head(boot.todo))
      /\ boot' = IF Head(boot.todo).uid = NoUID
                 THEN [boot EXCEPT !.at = "ready"]
                 ELSE [boot EXCEPT !.todo = Tail(@)]
  BY DEF WarmUpNext
<1>2. /\ boot \in Booting /\ boot.n > 0 /\ ~boot.done /\ IsFiniteSet(Stored)
      /\ \A t \in Threads : call[t] = Idle
  BY <1>1, BetweenSets
<1>3. PICK s \in Latest : \E m \in Nat :
         /\ IsListing(s) /\ Len(s) \in Nat /\ m \in 0 .. Len(s)
         /\ Len(boot.todo) = Len(s) - m /\ Len(boot.todo) \in Nat
         /\ \A i \in 1 .. Len(boot.todo) : boot.todo[i].uid = s[m + i]
         /\ Warmed(s, m)
  BY <1>1, BetweenSets
<1>4. PICK m \in Nat :
         /\ IsListing(s) /\ Len(s) \in Nat /\ m \in 0 .. Len(s)
         /\ Len(boot.todo) = Len(s) - m /\ Len(boot.todo) \in Nat
         /\ \A i \in 1 .. Len(boot.todo) : boot.todo[i].uid = s[m + i]
         /\ Warmed(s, m)
  BY <1>3
<1>5. boot.todo \in Seq(Order)
  BY <1>2, BootFields
<1>6. /\ Head(boot.todo) = boot.todo[1] /\ Head(boot.todo) \in Order
      /\ Len(boot.todo) >= 1
      /\ Tail(boot.todo) \in Seq(Order) /\ Len(Tail(boot.todo)) = Len(boot.todo) - 1
      /\ \A i \in 1 .. Len(Tail(boot.todo)) : Tail(boot.todo)[i] = boot.todo[i + 1]
  BY <1>1, <1>5, HeadTailProperties
<1>7. m + 1 \in 1 .. Len(s)
  BY <1>4, <1>6
<1>8. Head(boot.todo).uid = s[m + 1]
  <2>1. 1 \in 1 .. Len(boot.todo)
    BY <1>4, <1>6
  <2> QED
    BY <1>4, <1>6, <2>1
<1>9. s[m + 1] \in Keys /\ s[m + 1] # NoUID
  <2>1. s \in Seq(Stored)
    BY <1>4 DEF IsListing
  <2>2. s[m + 1] \in Stored
    BY <1>4, <1>7, <2>1, ElementOfSeq
  <2> QED
    BY <2>2, CacheAssumption DEF Stored
<1>10. boot' = [boot EXCEPT !.todo = Tail(@)]
  BY <1>1, <1>8, <1>9
<1>11. /\ boot' \in Booting /\ boot'.at = "set" /\ boot'.todo = Tail(boot.todo)
       /\ boot'.done = boot.done /\ SameOrders
  BY <1>1, <1>2, <1>6, <1>10 DEF Booting, SameOrders
<1>12. /\ ll' = ll /\ clock' = clock
       /\ Enter(Main, [op |-> "set", uid |-> s[m + 1],
                       val |-> Head(boot.todo).val, now |-> clock])
  BY <1>1, <1>8, <1>9 DEF SetBegin, lru
<1>13. /\ Setting(Main)' /\ call'[Main].uid = s[m + 1] /\ call'[Main] # Idle
       /\ \A t \in Threads : t # Main => call'[t] = Idle
  BY <1>2, <1>12, WarmUpAssumption DEF Enter, Setting, Idle, CallInv
<1>14. Stored' = Stored /\ Latest' = Latest
  BY <1>11, SameLatest
<1>15. Warmed(s, m)'
  BY <1>4, <1>12 DEF Warmed
<1>16. Filling(s, m + 1)'
  <2>1. Len(boot'.todo) = Len(s) - (m + 1) /\ m + 1 \in 0 .. Len(s) /\ m + 1 >= 1
        /\ (m + 1) - 1 = m
    BY <1>4, <1>6, <1>7, <1>11
  <2>2. ASSUME NEW i \in 1 .. Len(boot'.todo)
        PROVE  boot'.todo[i].uid = s[m + 1 + i]
    <3>1. /\ boot'.todo[i] = boot.todo[i + 1] /\ i + 1 \in 1 .. Len(boot.todo)
          /\ m + (i + 1) = m + 1 + i
      BY <1>4, <1>6, <1>11
    <3> QED
      BY <1>4, <3>1
  <2>3. Warmed(s, (m + 1) - 1)'
    BY <1>15, <2>1
  <2> QED
    BY <1>13, <2>1, <2>2, <2>3 DEF Filling
<1>17. boot'.n > 0 /\ ~boot'.done
  BY <1>2, <1>11 DEF SameOrders
<1>18. \E z \in Latest' : \E k \in Nat : Filling(z, k)'
  BY <1>4, <1>14, <1>16
<1> QED
  BY <1>2, <1>11, <1>13, <1>14, <1>17, <1>18 DEF Warming

\* Set of the m-th order puts it in front of those before.
LEMMA SetWarms ==
    ASSUME IInv, SetInsert(Main), NEW s, Len(s) \in Nat,
           NEW m \in 1 .. Len(s), Warmed(s, m - 1), call[Main].uid = s[m]
    PROVE  Warmed(s, m)'
<1> DEFINE now == call[Main].now
           e == NewEntry(Main)
<1>1. /\ ll \in Seq(Entry) /\ Len(ll) <= Capacity /\ Len(ll) \in Nat
      /\ \A j \in 1 .. Len(ll) : ll[j].expiresAt \in Nat
      /\ Capacity \in Nat
  BY EntryProperties, CapacityType DEF IInv, CacheInv, Listed
<1>2. /\ Setting(Main) /\ ll' = evictLRU(<<e>> \o pruneExpiredFromBack(ll, now))
      /\ clock' = clock
  BY DEF SetInsert
<1>3. /\ now \in Nat /\ clock \in Nat /\ now <= clock
  BY <1>2, WarmUpAssumption, CallProperties DEF IInv
<1>4. e \in Entry /\ e.id = s[m] /\ (TTL > 0 => e.expiresAt >= TTL)
  <2>1. e \in Entry /\ e.id = call[Main].uid /\ e.expiresAt = expiryFrom(now)
    BY <1>2, WarmUpAssumption, EntryTyped DEF IInv, NewEntry
  <2>2. TTL > 0 => expiryFrom(now) >= TTL
    BY <1>3, CacheAssumption DEF expiryFrom
  <2> QED
    BY <2>1, <2>2
<1> HIDE DEF now, e
<1>5. PICK n \in 0 .. Len(ll) :
         /\ pruneExpiredFromBack(ll, now) = SubSeq(ll, 1, n)
         /\ \A j \in n + 1 .. Len(ll) : isExpired(ll[j], now)
  BY <1>1, PruneProperties
<1>6. /\ ll' \in Seq(Entry) /\ ll'[1] = e
      /\ Len(ll') = IF n = Capacity THEN n ELSE n + 1
      /\ \A j \in 2 .. Len(ll') : ll'[j] = ll[j - 1]
  <2>1. ll' = evictLRU(<<e>> \o SubSeq(ll, 1, n))
    BY <1>2, <1>5
  <2>2. e \in Entry /\ ll \in Seq(Entry) /\ Len(ll) <= Capacity
    BY <1>1, <1>4
  <2> QED
    BY <2>1, <2>2, InsertProperties
<1>7. Len(ll') \in Nat
  BY <1>6, EntryProperties
<1>8. /\ Len(ll) <= m - 1
      /\ \A i \in 1 .. Len(ll) : /\ ll[i].id = s[(m - 1) + 1 - i]
                                 /\ TTL > 0 => ll[i].expiresAt >= TTL
      /\ TTL <= 0 \/ clock <= TTL => Len(ll) = m - 1 \/ Len(ll) = Capacity
  BY DEF Warmed
<1>9. m \in 0 .. Len(s) /\ Len(ll') <= m
  BY <1>1, <1>6, <1>7, <1>8
<1>10. ASSUME NEW i \in 1 .. Len(ll')
       PROVE  ll'[i].id = s[m + 1 - i] /\ (TTL > 0 => ll'[i].expiresAt >= TTL)
  <2>1. CASE i = 1
    <3>1. m + 1 - i = m
      BY <2>1
    <3> QED
      BY <1>4, <1>6, <2>1, <3>1
  <2>2. CASE i # 1
    <3>1. /\ i \in 2 .. Len(ll') /\ i - 1 \in 1 .. Len(ll)
          /\ (m - 1) + 1 - (i - 1) = m + 1 - i
      BY <1>1, <1>6, <1>7, <2>2
    <3>2. ll'[i] = ll[i - 1]
      BY <1>6, <3>1
    <3> QED
      BY <1>8, <3>1, <3>2
  <2> QED
    BY <2>1, <2>2
<1>11. ASSUME TTL <= 0 \/ clock <= TTL
       PROVE  Len(ll') = m \/ Len(ll') = Capacity
  <2>1. ASSUME NEW j \in 1 .. Len(ll) PROVE ~isExpired(ll[j], now)
    <3>1. TTL > 0 => ll[j].expiresAt >= TTL /\ ll[j].expiresAt \in Nat
      BY <1>1, <1>8
    <3> QED
      BY <1>3, <1>11, <3>1, CacheAssumption DEF isExpired
  <2>2. n = Len(ll)
    <3>1. ~(n < Len(ll))
      <4> SUFFICES ASSUME n < Len(ll) PROVE FALSE
        OBVIOUS
      <4>1. n + 1 \in n + 1 .. Len(ll) /\ n + 1 \in 1 .. Len(ll)
        BY <1>1
      <4> QED
        BY <1>5, <2>1, <4>1
    <3> QED
      BY <1>1, <3>1
  <2>3. Len(ll) = m - 1 \/ Len(ll) = Capacity
    BY <1>8, <1>11
  <2> QED
    BY <1>1, <1>6, <1>9, <2>2, <2>3
<1>12. /\ m \in 0 .. Len(s) /\ Len(ll') <= m
       /\ \A i \in 1 .. Len(ll') : /\ ll'[i].id = s[m + 1 - i]
                                   /\ TTL > 0 => ll'[i].expiresAt >= TTL
       /\ TTL <= 0 \/ clock' <= TTL => Len(ll') = m \/ Len(ll') = Capacity
  BY <1>2, <1>9, <1>10, <1>11
<1> QED
  BY <1>12 DEF Warmed

\* During the warm-up there is no other call than Set of an order that is not
\* in the cache.
LEMMA WorkKeeps ==
    ASSUME IInv, Warming, NEW t \in Threads, Work(t), boot' = boot
    PROVE  Warming'
<1>1. call[t] # Idle
  BY CallProperties DEF IInv, Work, GetAbsent, GetExpired, GetHit, SetUpdate, SetInsert
<1>2. t = Main /\ boot.at = "set"
  BY <1>1 DEF Warming
<1>3. /\ boot \in Booting /\ boot.n > 0 /\ ~boot.done /\ IsFiniteSet(Stored)
      /\ \A u \in Threads : u # Main => call[u] = Idle
  BY <1>2 DEF Warming
<1>4. PICK s \in Latest : \E m \in Nat : Filling(s, m)
  BY <1>2 DEF Warming
<1>5. PICK m \in Nat : Filling(s, m)
  BY <1>4
<1>6. boot.n \in Nat
  BY <1>3, BootFields
<1>7. IsListing(s) /\ Len(s) \in Nat
  BY <1>3, <1>6, LatestIs
<1>8. /\ m \in 1 .. Len(s) /\ Len(boot.todo) = Len(s) - m
      /\ \A i \in 1 .. Len(boot.todo) : boot.todo[i].uid = s[m + i]
      /\ Setting(Main) /\ call[Main].uid = s[m] /\ Warmed(s, m - 1)
  BY <1>1, <1>2, <1>5, <1>7 DEF Filling
<1>9. s[m] \notin cache
  <2> SUFFICES ASSUME s[m] \in cache PROVE FALSE
    OBVIOUS
  <2>1. /\ Place(ll, s[m]) \in 1 .. Len(ll) /\ ll[Place(ll, s[m])].id = s[m]
        /\ Len(ll) \in Nat
    BY PlaceInList, EntryProperties DEF IInv, CacheInv
  <2>2. PICK i \in 1 .. Len(ll) : ll[i].id = s[m]
    BY <2>1
  <2>3. Len(ll) <= m - 1 /\ ll[i].id = s[(m - 1) + 1 - i]
    BY <1>8 DEF Warmed
  <2>4. PICK j \in 1 .. Len(s) : j = (m - 1) + 1 - i /\ j < m
    BY <1>7, <1>8, <2>1, <2>3
  <2>5. s[j] # s[m]
    BY <1>7, <1>8, <2>4 DEF IsListing
  <2> QED
    BY <2>2, <2>3, <2>4, <2>5
<1>10. SetInsert(Main)
  <2>1. ~Getting(Main)
    BY <1>8 DEF Getting, Setting
  <2> QED
    BY <1>2, <1>8, <1>9, <2>1 DEF Work, GetAbsent, GetExpired, GetHit, SetUpdate
<1>11. Warmed(s, m)'
  BY <1>7, <1>8, <1>10, SetWarms
<1>12. \A u \in Threads : call'[u] = Idle
  BY <1>3, <1>10 DEF SetInsert, Return, IInv, CallInv
<1>13. Filling(s, m)'
  <2>1. call'[Main] = Idle /\ m \in 0 .. Len(s)
    BY <1>7, <1>8, <1>12, WarmUpAssumption
  <2> QED
    BY <1>8, <1>11, <2>1 DEF Filling
<1>14. SameOrders
  BY DEF SameOrders
<1>15. Stored' = Stored /\ Latest' = Latest
  BY <1>14, SameLatest
<1>16. \E z \in Latest' : \E k \in Nat : Filling(z, k)'
  BY <1>13, <1>15
<1> QED
  BY <1>2, <1>3, <1>12, <1>15, <1>16 DEF Warming

\* The clock only says that more may have expired.
LEMMA TimeKeeps ==
    ASSUME IInv, Warming, Tick \/ UNCHANGED vars, boot' = boot
    PROVE  Warming'
<1>1. /\ ll' = ll /\ call' = call /\ clock \in Int /\ clock' \in Int
      /\ clock <= clock'
  <2>1. clock \in Int
    BY CacheAssumption DEF IInv, CallInv
  <2> QED
    BY <2>1 DEF Tick, vars, lru, threads
<1>2. ASSUME NEW s, NEW k, Warmed(s, k) PROVE Warmed(s, k)'
  <2>1. TTL <= 0 \/ clock' <= TTL => TTL <= 0 \/ clock <= TTL
    BY <1>1, CacheAssumption
  <2> QED
    BY <1>1, <1>2, <2>1 DEF Warmed
<1>3. ASSUME NEW s, NEW m, Filling(s, m) PROVE Filling(s, m)'
  BY <1>1, <1>2, <1>3 DEF Filling, Setting
<1>4. ASSUME NEW s, Reading(s) PROVE Reading(s)'
  BY <1>4 DEF Reading
<1>5. SameOrders
  BY DEF SameOrders
<1>6. Stored' = Stored /\ Latest' = Latest
  BY <1>5, SameLatest
<1>7. Untouched => Untouched'
  BY <1>1 DEF Untouched
<1>8. /\ boot \in Booting /\ IsFiniteSet(Stored)
      /\ \A t \in Threads : t # Main \/ boot.at # "set" => call[t] = Idle
      /\ boot.at \in {"start", "select", "rows"} => Untouched
      /\ boot.at \in {"start", "select"} => boot.todo = << >>
      /\ boot.at \in {"select", "rows", "set"} => boot.n > 0 /\ ~boot.done
      /\ boot.at = "rows" => \E s \in Latest : Reading(s)
      /\ boot.at = "set" => \E s \in Latest : \E m \in Nat : Filling(s, m)
      /\ boot.at = "ready" =>
            \/ Untouched
            \/ /\ boot.n > 0
               /\ \E s \in Latest : \E k \in Nat :
                     Warmed(s, k) /\ (boot.done => k = Len(s))
  BY DEF Warming
<1>9. boot.at = "rows" => \E s \in Latest' : Reading(s)'
  BY <1>4, <1>6, <1>8
<1>10. boot.at = "set" => \E s \in Latest' : \E m \in Nat : Filling(s, m)'
  BY <1>3, <1>6, <1>8
<1>11. boot.at = "ready" =>
          \/ Untouched'
          \/ /\ boot.n > 0
             /\ \E s \in Latest' : \E k \in Nat :
                   Warmed(s, k)' /\ (boot.done => k = Len(s))
  BY <1>2, <1>6, <1>7, <1>8
<1> QED
  BY <1>1, <1>6, <1>7, <1>8, <1>9, <1>10, <1>11 DEF Warming

\* The warm-up is in a place of Bootstrap with what it has done by then.
LEMMA WarmingStep ==
    ASSUME WInv, [WNext]_wvars, boot' # Serving PROVE Warming'
<1>1. IInv /\ CallInv /\ (boot # Serving => Warming)
  BY DEF WInv, IInv
<1>2. CASE WarmUpCache
  BY <1>1, <1>2, WarmUpCacheKeeps DEF WarmUpCache, Serving
<1>3. CASE LastN
  <2>1. boot # Serving
    BY <1>3 DEF LastN, Serving
  <2> QED
    BY <1>1, <1>3, <2>1, LastNKeeps
<1>4. CASE LastNRow
  BY <1>1, <1>4, LastNRowKeeps DEF LastNRow, Serving
<1>5. CASE LastNReturns
  BY <1>1, <1>5, LastNReturnsKeeps DEF LastNReturns, Serving
<1>6. CASE LastNFails
  BY <1>1, <1>6, LastNFailsKeeps DEF LastNFails, Serving
<1>7. CASE WarmUpNext
  BY <1>1, <1>7, WarmUpNextKeeps DEF WarmUpNext, Serving
<1>8. CASE WarmUpReturns
  BY <1>1, <1>8, SetEndsKeeps DEF WarmUpReturns, Serving
<1>9. CASE WarmUpCancelled
  BY <1>1, <1>9, SetEndsKeeps DEF WarmUpCancelled, Serving
<1>10. CASE Serve
  BY <1>10 DEF Serve
<1>11. CASE (Tick \/ UNCHANGED vars) /\ boot' = boot
  BY <1>1, <1>11, TimeKeeps
<1>12. ASSUME NEW t \in Threads, Work(t), boot' = boot PROVE Warming'
  BY <1>1, <1>12, WorkKeeps
<1> QED
  BY <1>2, <1>3, <1>4, <1>5, <1>6, <1>7, <1>8, <1>9, <1>10, <1>11, <1>12
     DEF WNext, wvars

LEMMA WInvKeeps == ASSUME WInv, [WNext]_wvars PROVE WInv'
<1>1. IInv'
  BY CacheStep, StepKeeps DEF WInv
<1> QED
  BY <1>1, WarmingStep DEF WInv

LEMMA WInvInit == ASSUME WInit PROVE WInv
<1>1. Init /\ IsFiniteSet(Stored)
  BY DEF WInit
<1>2. PICK date \in [Keys -> Dates \cup {None}] : \E n \in -1 .. MaxN :
         boot = [at |-> "start", date |-> date, n |-> n, uids |-> << >>,
                 todo |-> << >>, done |-> FALSE]
  BY DEF WInit
<1>3. PICK n \in -1 .. MaxN :
         boot = [at |-> "start", date |-> date, n |-> n, uids |-> << >>,
                 todo |-> << >>, done |-> FALSE]
  BY <1>2
<1>4. boot \in Booting /\ boot.at = "start" /\ boot.todo = << >> /\ ~boot.done
  BY <1>3 DEF Booting
<1>5. ll = << >> /\ \A t \in Threads : call[t] = Idle
  BY <1>1 DEF Init
<1>6. Warming
  BY <1>1, <1>4, <1>5 DEF Warming, Untouched
<1> QED
  BY <1>1, <1>6, InitKeeps DEF WInv

\* The inductive invariant of the warm-up.
THEOREM WarmInvariance == WSpec => []WInv
<1>1. WInv /\ [WNext]_wvars => WInv'
  BY WInvKeeps
<1>2. WInit => WInv
  BY WInvInit
<1> QED
  BY <1>1, <1>2, PTL DEF WSpec

\* The warm-up calls the cache as any thread does: whatever the cache keeps, it
\* keeps from the warm-up on, and while all goroutines call it afterwards.
THEOREM WarmedIsCache == WSpec => Spec
<1>1. WInit => Init
  BY DEF WInit
<1>2. WInv /\ [WNext]_wvars => [Next]_vars
  BY CacheStep
<1> QED
  BY <1>1, <1>2, WarmInvariance, PTL DEF WSpec, Spec
-----------------------------------------------------------------------------
(* What is warmed.                                                         *)

LEMMA Min3Is ==
    ASSUME NEW a \in Int, NEW b \in Int, NEW c \in Int, NEW x \in {a, b, c},
           x <= a, x <= b, x <= c
    PROVE  Min({a, b, c}) = x
<1>1. \E y \in {a, b, c} : \A z \in {a, b, c} : y <= z
  OBVIOUS
<1>2. Min({a, b, c}) \in {a, b, c} /\ \A z \in {a, b, c} : Min({a, b, c}) <= z
  BY <1>1 DEF Min
<1> QED
  BY <1>2

\* A set that holds distinct elements has as many at least.
LEMMA HoldsDistinct ==
    ASSUME NEW s, Len(s) \in Nat, NEW T, IsFiniteSet(T),
           \A a \in 1 .. Len(s) : s[a] \in T,
           \A a, b \in 1 .. Len(s) : a < b => s[a] # s[b]
    PROVE  Len(s) <= Cardinality(T)
<1> DEFINE f == [a \in 1 .. Len(s) |-> s[a]]
<1>1. f \in [1 .. Len(s) -> T]
  OBVIOUS
<1>2. \A a, b \in 1 .. Len(s) : f[a] = f[b] => a = b
  OBVIOUS
<1> HIDE DEF f
<1>3. f \in Injection(1 .. Len(s), T)
  BY <1>1, <1>2, Fun_IsInj
<1>4. Cardinality(1 .. Len(s)) <= Cardinality(T)
  BY <1>3, FS_Injection
<1>5. \A n \in Nat : Cardinality(1 .. n) = n
  BY FS_Interval
<1> QED
  BY <1>4, <1>5

\* A set whose elements are all among the first n of s has n at most.
LEMMA HeldByFirst ==
    ASSUME NEW s, NEW n \in Nat, NEW T, IsFiniteSet(T),
           \A w \in T : \E a \in 1 .. n : s[a] = w
    PROVE  Cardinality(T) <= n
<1> DEFINE f == [w \in T |-> CHOOSE a \in 1 .. n : s[a] = w]
<1>1. \A w \in T : f[w] \in 1 .. n /\ s[f[w]] = w
  OBVIOUS
<1>2. f \in [T -> 1 .. n]
  BY <1>1
<1> HIDE DEF f
<1>3. \A v, w \in T : f[v] = f[w] => v = w
  BY <1>1
<1>4. f \in Injection(T, 1 .. n)
  BY <1>2, <1>3, Fun_IsInj
<1>5. IsFiniteSet(1 .. n) /\ Cardinality(1 .. n) = n
  BY FS_Interval
<1>6. Cardinality(T) <= Cardinality(1 .. n)
  BY <1>4, <1>5, FS_Injection
<1> QED
  BY <1>5, <1>6

LEMMA DatesAre ==
    ASSUME boot \in Booting
    PROVE  \A k \in Stored : k \in Keys /\ boot.date[k] \in Nat
BY WarmUpAssumption DEF Booting, Stored

\* An order on the list has fewer than its place of later ones.
LEMMA ListedIsLatest ==
    ASSUME boot \in Booting, IsFiniteSet(Stored), NEW s, IsListing(s),
           Len(s) \in Nat, boot.n \in Nat, NEW j \in 1 .. Len(s)
    PROVE  s[j] \in Stored /\ Before(s[j]) < boot.n
<1> DEFINE T == {w \in Stored : boot.date[w] > boot.date[s[j]]}
<1>1. \A a \in 1 .. Len(s) : s[a] \in Stored /\ boot.date[s[a]] \in Nat
  <2>1. \A a \in 1 .. Len(s) : s[a] \in Stored
    BY ElementOfSeq DEF IsListing
  <2> QED
    BY <2>1, DatesAre
<1>2. IsFiniteSet(T) /\ Cardinality(T) \in Nat
  <2>1. T \in SUBSET Stored
    OBVIOUS
  <2> QED
    BY <2>1, FS_Subset, FS_CardinalityType
<1>3. ASSUME NEW w \in T PROVE \E a \in 1 .. j - 1 : s[a] = w
  <2>1. w \in Stored /\ boot.date[w] > boot.date[s[j]]
    OBVIOUS
  <2>2. PICK a \in 1 .. Len(s) : s[a] = w
    BY <2>1 DEF IsListing
  <2>3. ~(j < a)
    <3> SUFFICES ASSUME j < a PROVE FALSE
      OBVIOUS
    <3>1. boot.date[s[j]] >= boot.date[s[a]]
      BY DEF IsListing
    <3> QED
      BY <1>1, <2>1, <2>2, <3>1
  <2>4. j # a
    BY <1>1, <2>1, <2>2
  <2>5. a \in 1 .. j - 1
    BY <2>3, <2>4
  <2> QED
    BY <2>2, <2>5
<1>4. Cardinality(T) <= j - 1
  <2> HIDE DEF T
  <2>1. j - 1 \in Nat
    OBVIOUS
  <2> QED
    BY <1>2, <1>3, <2>1, HeldByFirst
<1>5. Len(s) <= boot.n
  BY DEF IsListing
<1>6. Before(s[j]) = Cardinality(T)
  BY DEF Before
<1> HIDE DEF T
<1> QED
  BY <1>1, <1>2, <1>4, <1>5, <1>6

\* A stored order that has fewer than n as late is on the list.
LEMMA LatestIsListed ==
    ASSUME boot \in Booting, IsFiniteSet(Stored), NEW s, IsListing(s),
           Len(s) \in Nat, boot.n \in Nat, NEW w \in Stored, NotAfter(w) < boot.n
    PROVE  \E a \in 1 .. Len(s) : s[a] = w
<1> SUFFICES ASSUME \A a \in 1 .. Len(s) : s[a] # w PROVE FALSE
  OBVIOUS
<1> DEFINE T == {v \in Stored \ {w} : boot.date[v] >= boot.date[w]}
<1>1. \A a \in 1 .. Len(s) : s[a] \in Stored /\ boot.date[s[a]] \in Nat
  <2>1. \A a \in 1 .. Len(s) : s[a] \in Stored
    BY ElementOfSeq DEF IsListing
  <2> QED
    BY <2>1, DatesAre
<1>2. \A a, b \in 1 .. Len(s) : a < b => s[a] # s[b]
  BY DEF IsListing
<1>3. CASE Len(s) = Cardinality(Stored)
  <2>1. /\ IsFiniteSet(Stored \ {w}) /\ Cardinality(Stored) \in Nat
        /\ Cardinality(Stored \ {w}) = Cardinality(Stored) - 1
    BY FS_RemoveElement, FS_CardinalityType
  <2>2. \A a \in 1 .. Len(s) : s[a] \in Stored \ {w}
    BY <1>1
  <2>3. Len(s) <= Cardinality(Stored \ {w})
    BY <1>2, <2>1, <2>2, HoldsDistinct
  <2> QED
    BY <1>3, <2>1, <2>3
<1>4. CASE Len(s) = boot.n
  <2>1. IsFiniteSet(T) /\ Cardinality(T) \in Nat
    <3>1. T \in SUBSET Stored
      OBVIOUS
    <3> QED
      BY <3>1, FS_Subset, FS_CardinalityType
  <2>2. ASSUME NEW a \in 1 .. Len(s) PROVE s[a] \in T
    <3>1. ~(boot.date[w] > boot.date[s[a]])
      BY DEF IsListing
    <3>2. boot.date[w] \in Nat
      BY DatesAre
    <3> QED
      BY <1>1, <3>1, <3>2
  <2>3. Len(s) <= Cardinality(T)
    <3> HIDE DEF T
    <3> QED
      BY <1>2, <2>1, <2>2, HoldsDistinct
  <2>4. NotAfter(w) = Cardinality(T)
    BY DEF NotAfter
  <2> HIDE DEF T
  <2> QED
    BY <1>4, <2>1, <2>3, <2>4
<1> QED
  BY <1>3, <1>4 DEF IsListing

\* What the list holds are the last of the orders that are set.
LEMMA CacheIsSet ==
    ASSUME IInv, NEW s, Len(s) \in Nat, NEW k, Warmed(s, k)
    PROVE  \A q : q \in cache <=> \E j \in k + 1 - Len(ll) .. k : s[j] = q
<1>1. ll \in Seq(Entry) /\ cache = Ids(ll) /\ Len(ll) \in Nat
  BY EntryProperties DEF IInv, CacheInv, Listed
<1>2. /\ k \in Int /\ Len(ll) <= k
      /\ \A i \in 1 .. Len(ll) : ll[i].id = s[k + 1 - i]
  BY DEF Warmed
<1>3. ASSUME NEW q \in cache PROVE \E j \in k + 1 - Len(ll) .. k : s[j] = q
  <2>1. PICK i \in 1 .. Len(ll) : ll[i].id = q
    BY <1>1, IdsProperties
  <2>2. k + 1 - i \in k + 1 - Len(ll) .. k
    BY <1>1, <1>2
  <2>3. s[k + 1 - i] = q
    BY <1>2, <2>1
  <2> QED
    BY <2>2, <2>3
<1>4. ASSUME NEW j \in k + 1 - Len(ll) .. k PROVE s[j] \in cache
  <2>1. k + 1 - j \in 1 .. Len(ll) /\ k + 1 - (k + 1 - j) = j
    BY <1>1, <1>2
  <2>2. ll[k + 1 - j].id = s[j]
    BY <1>2, <2>1
  <2> QED
    BY <1>1, <2>1, <2>2, IdsProperties
<1> QED
  BY <1>3, <1>4

\* All that fit are there, and the oldest of what is listed at that.
LEMMA AllWarmed ==
    ASSUME WInv, boot \in Booting, IsFiniteSet(Stored), boot.n \in Nat,
           NEW s, IsListing(s), Len(s) \in Nat, Warmed(s, Len(s)),
           TTL <= 0 \/ clock <= TTL
    PROVE  /\ Cardinality(cache) = Min({boot.n, Capacity, Cardinality(Stored)})
           /\ \A q \in cache : \A w \in Stored \ cache :
                 NotAfter(w) < boot.n =>
                     boot.date[w] >= boot.date[q] /\ boot.n > Capacity
<1>1. /\ ll \in Seq(Entry) /\ cache = Ids(ll) /\ Distinct(ll)
      /\ Len(ll) \in Nat /\ Len(ll) <= Capacity /\ Capacity \in Nat
  BY EntryProperties, CapacityType DEF WInv, IInv, CacheInv, Listed
<1>2. Len(ll) <= Len(s) /\ (Len(ll) = Len(s) \/ Len(ll) = Capacity)
  BY DEF Warmed
<1>3. /\ Len(s) <= boot.n /\ Len(s) <= Cardinality(Stored)
      /\ Len(s) = boot.n \/ Len(s) = Cardinality(Stored)
      /\ Cardinality(Stored) \in Nat
  BY FS_CardinalityType DEF IsListing
<1>4. Cardinality(cache) = Len(ll)
  BY <1>1, LenIsCardinality
<1>5. Cardinality(cache) = Min({boot.n, Capacity, Cardinality(Stored)})
  <2>1. /\ Len(ll) \in {boot.n, Capacity, Cardinality(Stored)}
        /\ Len(ll) <= boot.n /\ Len(ll) <= Capacity
        /\ Len(ll) <= Cardinality(Stored)
    BY <1>1, <1>2, <1>3
  <2> QED
    BY <1>1, <1>3, <1>4, <2>1, Min3Is
<1>6. ASSUME NEW q \in cache, NEW w \in Stored \ cache, NotAfter(w) < boot.n
      PROVE  boot.date[w] >= boot.date[q] /\ boot.n > Capacity
  <2> DEFINE first == Len(s) + 1 - Len(ll)
  <2>1. \A v : v \in cache <=> \E j \in first .. Len(s) : s[j] = v
    BY CacheIsSet DEF WInv
  <2>2. first \in 1 .. Len(s) + 1
    BY <1>1, <1>2
  <2>3. PICK j \in first .. Len(s) : s[j] = q
    BY <2>1
  <2>4. PICK a \in 1 .. Len(s) : s[a] = w
    BY <1>6, LatestIsListed
  <2>5. a < first
    BY <2>1, <2>2, <2>4
  <2>6. j \in 1 .. Len(s) /\ a < j
    BY <2>2, <2>5
  <2>7. boot.date[w] >= boot.date[q]
    BY <2>3, <2>4, <2>6 DEF IsListing
  <2>8. Len(ll) < Len(s)
    BY <1>1, <2>5
  <2>9. boot.n > Capacity
    BY <1>1, <1>2, <1>3, <2>8
  <2> QED
    BY <2>7, <2>9
<1> QED
  BY <1>5, <1>6

\* bootstrap.go: the last N orders are warmed: the cache starts with some of
\* the latest n, and with all of them if they fit, are set in time and none of
\* the calls fails.
THEOREM WarmedLatest == WSpec => []WarmedWithLatest
<1>1. ASSUME WInv, boot.at = "ready"
      PROVE  /\ \A k \in cache : k \in Stored /\ Before(k) < boot.n
             /\ \A i, j \in DOMAIN ll :
                   i < j => boot.date[ll[i].id] <= boot.date[ll[j].id]
             /\ boot.done /\ (TTL <= 0 \/ clock <= TTL) =>
                   /\ Cardinality(cache)
                         = Min({boot.n, Capacity, Cardinality(Stored)})
                   /\ \A k \in cache : \A w \in Stored \ cache :
                         NotAfter(w) < boot.n =>
                             boot.date[w] >= boot.date[k] /\ boot.n > Capacity
  <2>1. /\ boot \in Booting /\ IsFiniteSet(Stored)
        /\ \/ Untouched
           \/ /\ boot.n > 0
              /\ \E s \in Latest : \E k \in Nat :
                    Warmed(s, k) /\ (boot.done => k = Len(s))
    BY <1>1 DEF WInv, Warming, Serving
  <2>2. /\ ll \in Seq(Entry) /\ cache = Ids(ll) /\ Len(ll) \in Nat
        /\ DOMAIN ll = 1 .. Len(ll)
    BY <1>1, EntryProperties DEF WInv, IInv, CacheInv, Listed
  <2>3. CASE Untouched
    <3>1. DOMAIN ll = {} /\ ~boot.done
      BY <2>2, <2>3 DEF Untouched
    <3>2. cache = {}
      BY <2>2, <3>1 DEF Ids
    <3> QED
      BY <3>1, <3>2
  <2>4. CASE ~Untouched
    <3>1. boot.n \in Nat
      BY <2>1, <2>4, BootFields
    <3>2. PICK s \in Latest : \E k \in Nat :
             Warmed(s, k) /\ (boot.done => k = Len(s))
      BY <2>1, <2>4
    <3>3. PICK k \in Nat : Warmed(s, k) /\ (boot.done => k = Len(s))
      BY <3>2
    <3>4. IsListing(s) /\ Len(s) \in Nat
      BY <2>1, <3>1, LatestIs
    <3>5. /\ k \in 0 .. Len(s) /\ Len(ll) <= k
          /\ \A i \in 1 .. Len(ll) : ll[i].id = s[k + 1 - i]
      BY <3>3 DEF Warmed
    <3>6. ASSUME NEW q \in cache PROVE q \in Stored /\ Before(q) < boot.n
      <4>1. PICK j \in k + 1 - Len(ll) .. k : s[j] = q
        BY <1>1, <3>3, <3>4, CacheIsSet DEF WInv
      <4>2. j \in 1 .. Len(s)
        BY <2>2, <3>4, <3>5
      <4> QED
        BY <2>1, <3>1, <3>4, <4>1, <4>2, ListedIsLatest
    <3>7. ASSUME NEW i \in DOMAIN ll, NEW j \in DOMAIN ll, i < j
          PROVE  boot.date[ll[i].id] <= boot.date[ll[j].id]
      <4>1. PICK a \in 1 .. Len(s) : a = k + 1 - i
        BY <2>2, <3>4, <3>5
      <4>2. PICK b \in 1 .. Len(s) : b = k + 1 - j
        BY <2>2, <3>4, <3>5
      <4>3. b < a /\ ll[i].id = s[a] /\ ll[j].id = s[b]
        BY <2>2, <3>4, <3>5, <3>7, <4>1, <4>2
      <4>4. boot.date[s[b]] >= boot.date[s[a]]
        BY <3>4, <4>3 DEF IsListing
      <4>5. boot.date[s[a]] \in Nat /\ boot.date[s[b]] \in Nat
        <5>1. s[a] \in Stored /\ s[b] \in Stored
          BY <3>4, ElementOfSeq DEF IsListing
        <5> QED
          BY <2>1, <5>1, DatesAre
      <4> QED
        BY <4>3, <4>4, <4>5
    <3>8. ASSUME boot.done, TTL <= 0 \/ clock <= TTL
          PROVE  /\ Cardinality(cache)
                       = Min({boot.n, Capacity, Cardinality(Stored)})
                 /\ \A q \in cache : \A w \in Stored \ cache :
                       NotAfter(w) < boot.n =>
                           boot.date[w] >= boot.date[q] /\ boot.n > Capacity
      BY <1>1, <2>1, <3>1, <3>3, <3>4, <3>8, AllWarmed
    <3> QED
      BY <3>6, <3>7, <3>8
  <2> QED
    BY <2>3, <2>4
<1>2. WInv => WarmedWithLatest
  BY <1>1 DEF WarmedWithLatest
<1> QED
  BY <1>2, WarmInvariance, PTL
=============================================================================
