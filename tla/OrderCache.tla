----------------------------- MODULE OrderCache -----------------------------
(***************************************************************************)
(* The in-memory LRU cache with TTL (internal/cache/memory), called by     *)
(* several threads.  Each call reads the clock before it takes the mutex,  *)
(* so that calls enter the critical section in an order other than that of *)
(* their clock readings; a critical section is one step.                   *)
(***************************************************************************)
EXTENDS Integers, Sequences, FiniteSets

CONSTANTS
    Threads,    \* goroutines that call the cache
    Keys,       \* order_uids that are not empty
    Values,     \* contents of an order
    NoUID,      \* the empty order_uid
    None, Miss, Ok, ErrInvalidOrder,   \* results, and no value
    capacity,   \* the configured capacity
    TTL,        \* the configured time to live, 0 or less for none
    MaxTime     \* bound: the last instant of the clock

ASSUME CacheAssumption == /\ capacity \in Int /\ TTL \in Int
                          /\ MaxTime \in Nat
                          /\ NoUID \notin Keys
                          /\ {None, Miss, Ok, ErrInvalidOrder} \cap Values = {}
                          /\ None \notin [op : {"get"}, uid : Keys]
                                  \cup [op : {"set"}, uid : Keys, val : Values]

VARIABLES
    ll,      \* the list, most recently used first
    cache,   \* the order_uids the index holds
    clock,   \* the monotonic clock
    call,    \* the call each thread is in
    ret,     \* what the latest call of each thread returned
    touched, \* history: when each key was last set or hit
    since    \* history: the keys set or hit since then

lru     == <<ll, cache>>
threads == <<call, ret>>
history == <<touched, since>>
vars    == <<lru, clock, threads, history>>

\* NewLRUCacheTTL: a capacity that is not positive counts as 1.
Capacity == IF capacity <= 0 THEN 1 ELSE capacity

Order == [uid : Keys \cup {NoUID}, val : Values]
Entry == [id : Keys, order : Values, expiresAt : Nat]

Idle == [op |-> "idle"]
Call == {Idle} \cup [op : {"get"}, uid : Keys, now : 0 .. MaxTime]
               \cup [op : {"set"}, uid : Keys, val : Values, now : 0 .. MaxTime]

Never == -1     \* a key that was never touched, or expired since
-----------------------------------------------------------------------------
(* The list and its helpers.                                               *)

isExpired(ent, now) == TTL > 0 /\ now > ent.expiresAt

\* Without a TTL the stamp is a zero time that nothing reads.
expiryFrom(now) == IF TTL <= 0 THEN 0 ELSE now + TTL

Ids(s)        == {s[i].id : i \in DOMAIN s}
Place(s, id)  == CHOOSE i \in DOMAIN s : s[i].id = id
Without(s, i) == SubSeq(s, 1, i - 1) \o SubSeq(s, i + 1, Len(s))

\* Mutant: expired entries stay.
pruneExpiredFromBack_Nothing(s, now) == s

\* Entries are dropped from the back up to the first one that is not expired.
pruneExpiredFromBack(s, now) ==
    LET live == {i \in DOMAIN s : ~isExpired(s[i], now)}
        last == IF live = {} THEN 0 ELSE CHOOSE i \in live : \A j \in live : j <= i
    IN  SubSeq(s, 1, last)

evictLRU(s) == IF Len(s) > Capacity THEN SubSeq(s, 1, Len(s) - 1) ELSE s

\* Mutant: the index keeps them.
removeElements_ListOnly(s, t) == cache

\* The keys that leave s for t leave the index too: removeElement.
removeElements(s, t) == cache \ (Ids(s) \ Ids(t))

-----------------------------------------------------------------------------
Init == /\ ll = << >>
        /\ cache = {}
        /\ clock = 0
        /\ call = [t \in Threads |-> Idle]
        /\ ret = [t \in Threads |-> Ok]
        /\ touched = [k \in Keys |-> Never]
        /\ since = [k \in Keys |-> {}]

Tick == /\ clock < MaxTime
        /\ clock' = clock + 1
        /\ UNCHANGED <<lru, threads, history>>

Free(t)       == call[t] = Idle
Enter(t, c)   == call' = [call EXCEPT ![t] = c]
Return(t, r)  == /\ call' = [call EXCEPT ![t] = Idle]
                 /\ ret' = [ret EXCEPT ![t] = r]

\* Key k was set or hit; the keys in lost expired.
Touch(k, lost) ==
    /\ touched' = [j \in Keys |-> IF j = k THEN clock
                                  ELSE IF j \in lost THEN Never ELSE touched[j]]
    /\ since' = [j \in Keys |-> IF j \in lost \cup {k} THEN {}
                                ELSE IF touched[j] = Never THEN {}
                                ELSE since[j] \cup {k}]

\* Key k expired.
Expire(k) == /\ touched' = [touched EXCEPT ![k] = Never]
             /\ since' = [since EXCEPT ![k] = {}]

\* THREAD: Get up to the mutex; an empty order_uid misses at once.
GetBegin(t, uid) ==
    /\ Free(t)
    /\ IF uid = NoUID
       THEN Return(t, Miss)
       ELSE /\ Enter(t, [op |-> "get", uid |-> uid, now |-> clock])
            /\ UNCHANGED ret
    /\ UNCHANGED <<lru, clock, history>>

Getting(t) == call[t].op = "get"

\* THREAD: Get under the mutex: the key is not in the index.
GetAbsent(t) ==
    /\ Getting(t) /\ call[t].uid \notin cache
    /\ Return(t, Miss)
    /\ UNCHANGED <<lru, clock, history>>

\* THREAD: Get under the mutex: the entry expired before the clock was read.
GetExpired(t) ==
    /\ Getting(t) /\ call[t].uid \in cache
    /\ LET i == Place(ll, call[t].uid)
       IN  /\ isExpired(ll[i], call[t].now)
           /\ ll' = Without(ll, i)
           /\ cache' = removeElements(ll, ll')
    /\ Expire(call[t].uid)
    /\ Return(t, Miss)
    /\ UNCHANGED clock

\* Mutant: a hit stays where it is.
GetHit_InPlace(t) ==
    /\ Getting(t) /\ call[t].uid \in cache
    /\ LET i == Place(ll, call[t].uid)
           ent == [ll[i] EXCEPT !.expiresAt =
                      IF TTL > 0 THEN expiryFrom(call[t].now) ELSE @]
       IN  /\ ~isExpired(ll[i], call[t].now)
           /\ ll' = [ll EXCEPT ![i] = ent]
           /\ Return(t, ent.order)
    /\ Touch(call[t].uid, {})
    /\ UNCHANGED <<cache, clock>>

\* Mutant: a hit adds the TTL to the stamp instead of to the clock.
GetHit_AddsTTL(t) ==
    /\ Getting(t) /\ call[t].uid \in cache
    /\ LET i == Place(ll, call[t].uid)
           ent == [ll[i] EXCEPT !.expiresAt = @ + TTL]
       IN  /\ ~isExpired(ll[i], call[t].now)
           /\ ll' = <<ent>> \o Without(ll, i)
           /\ Return(t, ent.order)
    /\ Touch(call[t].uid, {})
    /\ UNCHANGED <<cache, clock>>

\* THREAD: Get under the mutex: a hit moves to the front with a new stamp.
GetHit(t) ==
    /\ Getting(t) /\ call[t].uid \in cache
    /\ LET i == Place(ll, call[t].uid)
           ent == [ll[i] EXCEPT !.expiresAt =
                      IF TTL > 0 THEN expiryFrom(call[t].now) ELSE @]
       IN  /\ ~isExpired(ll[i], call[t].now)
           /\ ll' = <<ent>> \o Without(ll, i)
           /\ Return(t, ent.order)
    /\ Touch(call[t].uid, {})
    /\ UNCHANGED <<cache, clock>>

\* Mutant: an order without order_uid is taken.
SetBegin_Unchecked(t, o) ==
    /\ Free(t)
    /\ Enter(t, [op |-> "set", uid |-> o.uid, val |-> o.val, now |-> clock])
    /\ UNCHANGED ret
    /\ UNCHANGED <<lru, clock, history>>

\* THREAD: Set up to the mutex; an order without order_uid is refused.
SetBegin(t, o) ==
    /\ Free(t)
    /\ IF o.uid = NoUID
       THEN Return(t, ErrInvalidOrder)
       ELSE /\ Enter(t, [op |-> "set", uid |-> o.uid, val |-> o.val,
                         now |-> clock])
            /\ UNCHANGED ret
    /\ UNCHANGED <<lru, clock, history>>

Setting(t)  == call[t].op = "set"
NewEntry(t) == [id |-> call[t].uid, order |-> call[t].val,
                expiresAt |-> expiryFrom(call[t].now)]

\* Mutant: the entry gets the new stamp and keeps the old order.
SetUpdate_OldOrder(t) ==
    /\ Setting(t) /\ call[t].uid \in cache
    /\ LET i == Place(ll, call[t].uid)
       IN  ll' = <<[NewEntry(t) EXCEPT !.order = ll[i].order]>> \o Without(ll, i)
    /\ Touch(call[t].uid, {})
    /\ Return(t, Ok)
    /\ UNCHANGED <<cache, clock>>

\* Mutant: the entry is replaced where it is.
SetUpdate_InPlace(t) ==
    /\ Setting(t) /\ call[t].uid \in cache
    /\ ll' = [ll EXCEPT ![Place(ll, call[t].uid)] = NewEntry(t)]
    /\ Touch(call[t].uid, {})
    /\ Return(t, Ok)
    /\ UNCHANGED <<cache, clock>>

\* THREAD: Set under the mutex: the entry is replaced and moves to the front.
SetUpdate(t) ==
    /\ Setting(t) /\ call[t].uid \in cache
    /\ ll' = <<NewEntry(t)>> \o Without(ll, Place(ll, call[t].uid))
    /\ Touch(call[t].uid, {})
    /\ Return(t, Ok)
    /\ UNCHANGED <<cache, clock>>

\* THREAD: Set under the mutex: a new entry, after the expired ones at the
\* back were dropped; then the least recently used entry over the capacity is.
SetInsert(t) ==
    /\ Setting(t) /\ call[t].uid \notin cache
    /\ LET pruned == pruneExpiredFromBack(ll, call[t].now)
           pushed == <<NewEntry(t)>> \o pruned
       IN  /\ ll' = evictLRU(pushed)
           /\ cache' = removeElements(ll, ll') \cup {call[t].uid}
           /\ Touch(call[t].uid, Ids(ll) \ Ids(pruned))
    /\ Return(t, Ok)
    /\ UNCHANGED clock

\* A thread calls Get or Set; what it does under the mutex.
Begin(t) == \/ \E uid \in Keys \cup {NoUID} : GetBegin(t, uid)
            \/ \E o \in Order : SetBegin(t, o)
Work(t)  == \/ GetAbsent(t) \/ GetExpired(t) \/ GetHit(t)
            \/ SetUpdate(t) \/ SetInsert(t)

Next == \/ Tick
        \/ \E t \in Threads : Begin(t) \/ Work(t)

Spec == Init /\ [][Next]_vars
-----------------------------------------------------------------------------
(* Properties.                                                             *)

\* The types; the expiry is never negative, the clock within its bound.
TypeOK == /\ ll \in Seq(Entry)
          /\ cache \subseteq Keys
          /\ clock \in 0 .. MaxTime
          /\ call \in [Threads -> Call]
          /\ ret \in [Threads -> Values \cup {Miss, Ok, ErrInvalidOrder}]
          /\ touched \in [Keys -> Never .. MaxTime]
          /\ since \in [Keys -> SUBSET Keys]

\* The list and the index hold the same keys, each once, within the capacity,
\* whatever calls, evictions and expiries came between.
IndexMatchesList == /\ cache = Ids(ll)
                    /\ Len(ll) = Cardinality(cache)
                    /\ Len(ll) <= Capacity

\* Set and Get of a key that was in use lately find it: a key leaves the cache
\* before it expires only when as many others as the cache holds were used
\* since its own last use.
RecentlyUsedKept ==
    \A k \in Keys :
        touched[k] # Never /\ Cardinality(since[k]) < Capacity => k \in cache

\* A hit was used within the TTL before the call began, even though the clock
\* is read before the mutex is taken.
NoHitAfterTTL ==
    [][\A t \in Threads : GetHit(t) /\ TTL > 0
          => call[t].now <= touched[call[t].uid] + TTL]_vars

\* Set drops from the back of the list up to the first entry that is not
\* expired: whatever an insert leaves was used within the TTL before its call
\* began, in whichever order the callers reached the mutex.
InsertDropsIdle ==
    [][\A t \in Threads : SetInsert(t) /\ TTL > 0
          => \A i \in DOMAIN ll' : call[t].now <= touched'[ll'[i].id] + TTL]_vars

\* order_cache.go:124: expired entries are removed before the insert.  An entry
\* whose caller waited for the mutex while the clock moved expires before the
\* one behind it, which keeps it in the list.
ExpiredRemoved ==
    [][\A t \in Threads : SetInsert(t)
          => \A i \in DOMAIN ll' : ~isExpired(ll'[i], call[t].now)]_vars

\* Every Get and Set takes effect at once between its call and its return:
\* callers see a map that may forget, never makes up or brings back a value,
\* and holds for a key what the latest Set to take the mutex was given.
Held    == [k \in Keys |-> IF k \in cache THEN ll[Place(ll, k)].order ELSE None]
Asked   == [t \in Threads |->
               CASE call[t].op = "get" -> [op |-> "get", uid |-> call[t].uid]
                 [] call[t].op = "set" -> [op |-> "set", uid |-> call[t].uid,
                                           val |-> call[t].val]
                 [] OTHER -> None]
Map     == INSTANCE LossyMap WITH map <- Held, asked <- Asked
ImplementsLossyMap == Map!Spec
=============================================================================
