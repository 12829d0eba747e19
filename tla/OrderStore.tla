----------------------------- MODULE OrderStore -----------------------------
(***************************************************************************)
(* What the repository promises the callers of Save and GetByUID: a store  *)
(* of whole orders.  A Save takes effect in one step between its call and  *)
(* its answer, or not at all; ok means that it did, an error leaves it     *)
(* open.  A get answers every part of an order, each as it was stored at   *)
(* some time during the call, or that there was no order at some such time.*)
(***************************************************************************)
CONSTANTS Threads, UIDs,
          Parts,    \* the parts of an order, one of them its transaction, tran
          Orders,   \* the orders that may be saved: a value for each part
          Absent    \* no order

VARIABLES store,    \* the order stored under each order_uid, or Absent
          req       \* the request each thread is in, or its answer

tvars == <<store, req>>

Quiet == [op |-> "idle"]
Errs  == [op |-> "err"]

In(t, op)    == req[t].op = op
Answer(t, a) == req' = [req EXCEPT ![t] = a]

Init == /\ store = [u \in UIDs |-> Absent]
        /\ req = [t \in Threads |-> Quiet]

Ask(t) == /\ In(t, "idle")
          /\ \E u \in UIDs :
                \/ \E o \in Orders :
                      Answer(t, [op |-> "save", uid |-> u, order |-> o])
                \/ Answer(t, [op |-> "get", uid |-> u, seen |-> {store[u]}])
          /\ UNCHANGED store

\* An order that may not be saved is refused, without effect.
Refuse(t) == In(t, "idle") /\ Answer(t, Errs) /\ UNCHANGED store

\* What u holds once o is saved: an order keeps its first transaction.
Stored(u, o) == IF store[u] = Absent THEN o ELSE [o EXCEPT !.tran = store[u].tran]

\* No other order has this transaction.
Claimable(u, x) == \A w \in UIDs \ {u} : store[w] # Absent => store[w].tran # x

\* A Save takes effect: all of the order from this step on.
Saves(t) ==
    /\ In(t, "save")
    /\ LET u == req[t].uid
           v == Stored(u, req[t].order)
       IN  /\ store[u] = Absent => Claimable(u, v.tran)
           /\ store' = [store EXCEPT ![u] = v]
           /\ \E l \in {"ok", "err"} :
                 req' = [p \in Threads |->
                            IF p = t THEN [op |-> l]
                            ELSE IF In(p, "get") /\ req[p].uid = u
                                 THEN [req[p] EXCEPT !.seen = @ \cup {v}]
                                 ELSE req[p]]

\* A call fails without effect.
Fails(t) == /\ In(t, "save") \/ In(t, "get")
            /\ Answer(t, Errs)
            /\ UNCHANGED store

Finds(t) == /\ In(t, "get")
            /\ \E from \in [Parts -> req[t].seen \ {Absent}] :
                  Answer(t, [op |-> "found",
                             order |-> [part \in Parts |-> from[part][part]]])
            /\ UNCHANGED store

Misses(t) == /\ In(t, "get") /\ Absent \in req[t].seen
             /\ Answer(t, [op |-> "none"])
             /\ UNCHANGED store

Returns(t) == /\ req[t].op \in {"ok", "err", "found", "none"}
              /\ Answer(t, Quiet)
              /\ UNCHANGED store

Next == \E t \in Threads : \/ Ask(t) \/ Refuse(t) \/ Saves(t) \/ Fails(t)
                           \/ Finds(t) \/ Misses(t) \/ Returns(t)

Spec == Init /\ [][Next]_tvars

\* The process of the callers may die: their calls end unanswered, and what was
\* stored stays.
Dies == req' = [t \in Threads |-> Quiet] /\ UNCHANGED store

MortalSpec == Init /\ [][Next \/ Dies]_tvars
=============================================================================
