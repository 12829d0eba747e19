------------------------------ MODULE LossyMap ------------------------------
(***************************************************************************)
(* What the order cache promises its callers: a map shared by threads that *)
(* may forget entries and never makes one up.  A request takes effect in   *)
(* one step between its call and its return: a Set holds the value it was  *)
(* given, a Get answers what is held for its key or a miss, and an entry   *)
(* that was missed or forgotten stays so until it is set again.            *)
(***************************************************************************)
CONSTANTS Threads, Keys, Values, None, Miss, Ok, ErrInvalidOrder

VARIABLES map,    \* the value held for each key, or None
          asked,  \* the request each thread is in, or None
          ret     \* what the latest call of each thread returned

mvars == <<map, asked, ret>>

Request == [op : {"get"}, uid : Keys] \cup [op : {"set"}, uid : Keys, val : Values]

Init == /\ map = [k \in Keys |-> None]
        /\ asked = [t \in Threads |-> None]
        /\ ret = [t \in Threads |-> Ok]

Ask(t) == /\ asked[t] = None
          /\ \E r \in Request : asked' = [asked EXCEPT ![t] = r]
          /\ UNCHANGED <<map, ret>>

\* A call without an order_uid has no effect.
Refuse(t) == /\ asked[t] = None
             /\ \E r \in {Miss, ErrInvalidOrder} : ret' = [ret EXCEPT ![t] = r]
             /\ UNCHANGED <<map, asked>>

In(t, op) == asked[t] # None /\ asked[t].op = op

Answer(t, r) == /\ asked' = [asked EXCEPT ![t] = None]
                /\ ret' = [ret EXCEPT ![t] = r]

\* A Set holds its key from this step on; other entries may be forgotten.
Set(t) == /\ In(t, "set")
          /\ \E gone \in SUBSET (Keys \ {asked[t].uid}) :
                map' = [k \in Keys |-> IF k = asked[t].uid THEN asked[t].val
                                       ELSE IF k \in gone THEN None ELSE map[k]]
          /\ Answer(t, Ok)

Hit(t) == /\ In(t, "get") /\ map[asked[t].uid] # None
          /\ Answer(t, map[asked[t].uid])
          /\ UNCHANGED map

\* A Get may miss at any time, but then the entry is gone.
Lose(t) == /\ In(t, "get")
           /\ map' = [map EXCEPT ![asked[t].uid] = None]
           /\ Answer(t, Miss)

Next == \E t \in Threads : Ask(t) \/ Refuse(t) \/ Set(t) \/ Hit(t) \/ Lose(t)

Spec == Init /\ [][Next]_mvars
=============================================================================
