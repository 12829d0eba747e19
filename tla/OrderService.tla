---------------------------- MODULE OrderService ----------------------------
(***************************************************************************)
(* The order service (internal/usecase) over the repository and the cache: *)
(* the consumer's goroutine saves messages, HTTP handlers read orders, and *)
(* the process may die and start again with an empty, then warmed, cache.  *)
(*                                                                         *)
(* The cache appears as the map that LossyMap promises: entries may be     *)
(* forgotten at any time, and are otherwise those of the latest Set.       *)
(***************************************************************************)
EXTENDS OrderRepository

CONSTANTS Saver,   \* the consumer's goroutine
          Readers  \* the goroutines of HTTP handlers

ASSUME ServiceAssumption == /\ Threads = {Saver} \cup Readers
                            /\ Saver \notin Readers

VARIABLES
    cache,       \* the order cached for each order_uid, or Absent
    up,          \* the process is past Bootstrap
    overlapped,  \* history: readers during whose call their order was saved
    tainted,     \* history: order_uids whose entry may be out of date
    ever,        \* history: the rows of each order ever committed
    unwritten    \* history: the orders whose Save committed, as they were
                 \* given, all but the transaction written

svars == <<rvars, cache, up, overlapped, tainted, ever, unwritten>>

Cached(u)   == cache[u] # Absent
InRead(t)   == call[t].at \in Selecting \cup {"got"}
-----------------------------------------------------------------------------
SInit == /\ Init
         /\ cache = [u \in UIDs |-> Absent]
         /\ up = FALSE
         /\ overlapped = {}
         /\ tainted = {}
         /\ ever = [u \in UIDs |-> {}]
         /\ unwritten = [u \in UIDs |-> {}]

\* BOOTSTRAP: WarmUpCache reads the latest orders before anything else runs;
\* which and how many there are is the caller's choice, and it may fail.
Start ==
    /\ ~up /\ up' = TRUE
    /\ \E S \in SUBSET UIDs : cache' = [u \in UIDs |-> IF u \in S THEN db[u] ELSE Absent]
    /\ tainted' = {}
    /\ UNCHANGED <<rvars, overlapped, ever, unwritten>>

\* PROCESS: killed; open transactions are rolled back by the server.
Crash ==
    /\ up /\ up' = FALSE
    /\ call' = [t \in Threads |-> Idle]
    /\ cache' = [u \in UIDs |-> Absent]
    /\ overlapped' = {}
    /\ UNCHANGED <<db, custs, tainted, ever, unwritten>>

\* CACHE: an entry expires or is evicted.
Forget(u) ==
    /\ Cached(u)
    /\ cache' = [cache EXCEPT ![u] = Absent]
    /\ UNCHANGED <<rvars, up, overlapped, tainted, ever, unwritten>>

\* SAVER: SaveFromMessage with an order that decodes and is valid.
SaveFromMessage(u, o) ==
    /\ up
    /\ Save(Saver, u, o)
    /\ UNCHANGED <<cache, up, overlapped, tainted, ever, unwritten>>

\* SAVER: a statement of repo.Save, or its failure.
RepoSave ==
    /\ Statement(Saver) \/ SaveFails(Saver)
    /\ UNCHANGED <<cache, up, overlapped, tainted, ever, unwritten>>

\* SAVER: the commit of repo.Save; it overlaps the reads of its order, and one
\* whose answer is lost leaves the cache behind.  An update leaves the order
\* with the transaction it has.
RepoCommit ==
    /\ Commit(Saver)
    /\ LET u == call[Saver].uid
       IN  /\ overlapped' = overlapped \cup
                 {t \in Readers : InRead(t) /\ call[t].uid = u}
           /\ tainted' = IF call'[Saver].at = "saveErr" THEN tainted \cup {u}
                         ELSE tainted
           /\ ever' = [ever EXCEPT ![u] = @ \cup {db'[u]}]
           /\ unwritten' = [unwritten EXCEPT ![u] =
                 @ \cup ({call[Saver].order} \ {db'[u]})]
    /\ UNCHANGED <<cache, up>>

\* Mutant: an entry that is there is kept.
CacheSaved_IfAbsent ==
    /\ At(Saver, "saveOk")
    /\ cache' = [cache EXCEPT ![call[Saver].uid] =
                    IF @ = Absent THEN call[Saver].order ELSE @]
    /\ tainted' = tainted \ {call[Saver].uid}
    /\ Return(Saver)
    /\ UNCHANGED <<up, overlapped, ever, unwritten>>

\* SAVER: repo.Save returned nil; the order as decoded is cached.
CacheSaved ==
    /\ At(Saver, "saveOk")
    /\ cache' = [cache EXCEPT ![call[Saver].uid] = call[Saver].order]
    /\ tainted' = tainted \ {call[Saver].uid}
    /\ Return(Saver)
    /\ UNCHANGED <<up, overlapped, ever, unwritten>>

\* Mutant: the order is cached although repo.Save failed.
SaveReturnsErr_Caches ==
    /\ At(Saver, "saveErr")
    /\ call[Saver].order.base.cust # NoCustomer
    /\ cache' = [cache EXCEPT ![call[Saver].uid] = call[Saver].order]
    /\ Return(Saver)
    /\ UNCHANGED <<up, overlapped, tainted, ever, unwritten>>

\* SAVER: repo.Save failed; the cache is left alone.
SaveReturnsErr ==
    /\ At(Saver, "saveErr")
    /\ Return(Saver)
    /\ UNCHANGED <<cache, up, overlapped, tainted, ever, unwritten>>

\* READER: GetOrder finds the order in the cache.
GetOrderHit(t, u) ==
    /\ up /\ At(t, "idle") /\ Cached(u)
    /\ UNCHANGED svars

\* READER: GetOrder misses and asks the repository.
GetOrderMiss(t, u) ==
    /\ up /\ ~Cached(u)
    /\ GetByUID(t, u)
    /\ overlapped' = overlapped \ {t}
    /\ UNCHANGED <<cache, up, tainted, ever, unwritten>>

\* READER: a step of repo.GetByUID.
RepoGet(t) ==
    /\ GetWork(t) \/ GetFails(t)
    /\ UNCHANGED <<cache, up, overlapped, tainted, ever, unwritten>>

\* Mutant: the error of repo.GetByUID is not looked at.
CacheRead_IgnoresErr(t) ==
    /\ call[t].at \in {"got", "getErr"}
    /\ cache' = [cache EXCEPT ![call[t].uid] = call[t].order]
    /\ tainted' = IF t \in overlapped THEN tainted \cup {call[t].uid}
                  ELSE tainted \ {call[t].uid}
    /\ Return(t)
    /\ UNCHANGED <<up, overlapped, ever, unwritten>>

\* READER: the order read is cached, whatever was saved since, and answered.
CacheRead(t) ==
    /\ At(t, "got")
    /\ cache' = [cache EXCEPT ![call[t].uid] = call[t].order]
    /\ tainted' = IF t \in overlapped THEN tainted \cup {call[t].uid}
                  ELSE tainted \ {call[t].uid}
    /\ Return(t)
    /\ UNCHANGED <<up, overlapped, ever, unwritten>>

\* READER: no such order, or an error; nothing is cached.
GetReturnsNone(t) ==
    /\ call[t].at \in {"gotNone", "getErr"}
    /\ Return(t)
    /\ UNCHANGED <<cache, up, overlapped, tainted, ever, unwritten>>

SNext == \/ Start \/ Crash
         \/ \E u \in UIDs : Forget(u)
         \/ \E u \in UIDs : \E o \in Messages : SaveFromMessage(u, o)
         \/ RepoSave \/ RepoCommit \/ CacheSaved \/ SaveReturnsErr
         \/ \E t \in Readers :
               \/ \E u \in UIDs : GetOrderHit(t, u) \/ GetOrderMiss(t, u)
               \/ RepoGet(t) \/ CacheRead(t) \/ GetReturnsNone(t)

SSpec == SInit /\ [][SNext]_svars
-----------------------------------------------------------------------------
(* Properties.                                                             *)

\* The repository's types; the cache holds whole orders, each with a customer.
STypeOK == /\ TypeOK
           /\ cache \in [UIDs -> Row \cup {Absent}]
           /\ up \in BOOLEAN
           /\ overlapped \subseteq Readers
           /\ tainted \subseteq UIDs
           /\ ever \in [UIDs -> SUBSET Row]
           /\ unwritten \in [UIDs -> SUBSET Row]

\* The parts that every Save writes.
Written == DOMAIN Absent \ {"tran"}

\* Every part of order o of u was committed; its transaction was, or o was saved
\* again with another one.
WasCommitted(u, o) ==
    /\ \A part \in Written : \E v \in ever[u] : o[part] = v[part]
    /\ (\E v \in ever[u] : o.tran = v.tran) \/ o \in unwritten[u]

\* Order o of u is the one in the database, but for such a transaction.
UpToDate(u, o) ==
    /\ \A part \in Written : o[part] = db[u][part]
    /\ o.tran = db[u].tran \/ o \in unwritten[u]

\* Nobody is ever shown a part of an order that was not committed to the
\* database first, the transaction of an order that was saved again apart:
\* failed Saves and crashes leave nothing in the cache.  That transaction is
\* cached as it was sent, beside the other parts of the same Save, although the
\* update did not write it.
CachedWasCommitted == \A u \in UIDs : Cached(u) => WasCommitted(u, cache[u])

\* A cached order is the one in the database unless a Save committed between
\* the reader's first query and its cache.Set, a commit's answer was lost, or
\* the saver has yet to cache what it committed; but the transaction of an
\* order that was saved again with another one is, in the cache, the one sent.
CacheCurrent ==
    \A u \in UIDs :
        Cached(u) /\ u \notin tainted
        /\ ~(At(Saver, "saveOk") /\ call[Saver].uid = u)
           => UpToDate(u, cache[u])

\* Through the service and the deaths of its process the repository stays a
\* store of whole orders: a death takes back no Save that had its effect, and
\* gives none half of it.
SurvivesCrash == Store!MortalSpec
=============================================================================
