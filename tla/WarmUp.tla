------------------------------- MODULE WarmUp -------------------------------
(***************************************************************************)
(* The warm-up of the cache at start: Bootstrap calls WarmUpCache (usecase)*)
(* with the configured number, LastN (internal/repo/postgres) lists the    *)
(* latest order_uids and reads each order with GetByUID, and WarmUp        *)
(* (internal/cache/memory) sets them one by one.  Then the process serves, *)
(* and its goroutines call the cache.                                      *)
(*                                                                         *)
(* Nothing saves an order before the consumer's goroutine starts, so that  *)
(* the stored orders stand still during the warm-up; nobody asks for them  *)
(* as they were afterwards.                                                *)
(***************************************************************************)
EXTENDS OrderCache, FiniteSetsExt

CONSTANTS
    Main,       \* the goroutine of main
    Dates,      \* date_created of an order
    MaxN        \* bound: the largest configured number of orders

ASSUME WarmUpAssumption == /\ Main \in Threads
                           /\ Dates \subseteq Nat
                           /\ None \notin Dates
                           /\ MaxN \in Nat

\* How far Bootstrap is and what it holds: the stored orders with their dates;
\* n, the configured number; uids, the rows still to read; todo, the orders
\* read, then those still to set; done, when all are set.
VARIABLE boot

wvars == <<vars, boot>>

\* Nothing of it is held once the process serves.
Serving == [at |-> "serving"]

Stored == {k \in Keys : boot.date[k] # None}

\* A table holds finitely many rows; the orders may have any dates.
WInit == /\ Init
         /\ \E date \in [Keys -> Dates \cup {None}] : \E n \in -1 .. MaxN :
               boot = [at |-> "start", date |-> date, n |-> n, uids |-> << >>,
                       todo |-> << >>, done |-> FALSE]
         /\ IsFiniteSet(Stored)

\* MAIN: Bootstrap calls WarmUpCache if a number is configured.
WarmUpCache ==
    /\ boot.at = "start"
    /\ boot' = [boot EXCEPT !.at = IF boot.n > 0 THEN "select" ELSE "ready"]
    /\ UNCHANGED vars

\* The answers to ORDER BY date_created DESC LIMIT n: orders of one date come
\* in any order.
Latest ==
    {s \in [1 .. Min({boot.n, Cardinality(Stored)}) -> Stored] :
       /\ \A i, j \in DOMAIN s : i < j =>
             s[i] # s[j] /\ boot.date[s[i]] >= boot.date[s[j]]
       /\ \A i \in DOMAIN s : \A k \in Stored :
             boot.date[k] > boot.date[s[i]] => \E j \in DOMAIN s : s[j] = k}

\* Mutant: the oldest orders are listed.
LastN_Ascending ==
    /\ boot.at = "select"
    /\ \E s \in Latest :
          boot' = [boot EXCEPT !.at = "rows",
                      !.uids = [i \in DOMAIN s |-> s[Len(s) + 1 - i]]]
    /\ UNCHANGED vars

\* MAIN: LastN lists the latest order_uids.
LastN ==
    /\ boot.at = "select"
    /\ \E s \in Latest : boot' = [boot EXCEPT !.at = "rows", !.uids = s]
    /\ UNCHANGED vars

\* MAIN: LastN reads the order of the next row; at the last one it returns.
LastNRow ==
    /\ boot.at = "rows" /\ boot.uids # << >>
    /\ \E v \in Values :
          boot' = [boot EXCEPT !.uids = Tail(@),
                      !.todo = Append(@, [uid |-> Head(boot.uids), val |-> v])]
    /\ UNCHANGED vars

LastNReturns ==
    /\ boot.at = "rows" /\ boot.uids = << >>
    /\ boot' = [boot EXCEPT !.at = "set"]
    /\ UNCHANGED vars

\* MAIN: a query fails or the context is cancelled: what was read is dropped
\* and Bootstrap goes on with a warning.
LastNFails ==
    /\ boot.at \in {"select", "rows"}
    /\ boot' = [boot EXCEPT !.at = "ready"]
    /\ UNCHANGED vars

\* MAIN: WarmUp sets its next order, or ends with the error of Set.
WarmUpNext ==
    /\ boot.at = "set" /\ boot.todo # << >> /\ call[Main] = Idle
    /\ SetBegin(Main, Head(boot.todo))
    /\ boot' = IF Head(boot.todo).uid = NoUID
               THEN [boot EXCEPT !.at = "ready"]
               ELSE [boot EXCEPT !.todo = Tail(@)]

\* MAIN: WarmUp has set them all.
WarmUpReturns ==
    /\ boot.at = "set" /\ boot.todo = << >> /\ call[Main] = Idle
    /\ boot' = [boot EXCEPT !.at = "ready", !.done = TRUE]
    /\ UNCHANGED vars

\* MAIN: WarmUp finds its context cancelled before an order.
WarmUpCancelled ==
    /\ boot.at = "set" /\ boot.todo # << >> /\ call[Main] = Idle
    /\ boot' = [boot EXCEPT !.at = "ready"]
    /\ UNCHANGED vars

\* MAIN: Bootstrap returns and Run starts the goroutines.
Serve == /\ boot.at = "ready"
         /\ boot' = Serving
         /\ UNCHANGED vars

WNext == \/ WarmUpCache \/ LastN \/ LastNRow \/ LastNReturns \/ LastNFails
         \/ WarmUpNext \/ WarmUpReturns \/ WarmUpCancelled \/ Serve
         \/ /\ \/ Tick
               \/ \E t \in Threads : Work(t) \/ (boot = Serving /\ Begin(t))
            /\ UNCHANGED boot

WSpec == WInit /\ [][WNext]_wvars
-----------------------------------------------------------------------------
(* Properties.                                                             *)

\* How many stored orders are surely, or possibly, listed in front of k.
Before(k)   == Cardinality({w \in Stored : boot.date[w] > boot.date[k]})
NotAfter(k) == Cardinality({w \in Stored \ {k} : boot.date[w] >= boot.date[k]})

\* bootstrap.go: the last N orders are warmed.  What is in the cache when the
\* service starts is among the latest n orders.  When all were set and none has
\* expired the cache is as full as it can be; but LastN lists the latest first
\* and Set puts each in front of those before: the least recently used order,
\* the next to be evicted, is the latest, and with more than Capacity orders
\* the oldest of them stay.  With no more than Capacity, every one of the
\* latest n is there.
WarmedWithLatest ==
    boot.at = "ready" =>
       /\ \A k \in cache : k \in Stored /\ Before(k) < boot.n
       /\ \A i, j \in DOMAIN ll :
             i < j => boot.date[ll[i].id] <= boot.date[ll[j].id]
       /\ boot.done /\ (TTL <= 0 \/ clock <= TTL) =>
             /\ Cardinality(cache) = Min({boot.n, Capacity, Cardinality(Stored)})
             /\ \A k \in cache : \A w \in Stored \ cache :
                   NotAfter(w) < boot.n =>
                       boot.date[w] >= boot.date[k] /\ boot.n > Capacity
=============================================================================
