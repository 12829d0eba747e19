--------------------------- MODULE ServiceProofs ----------------------------
(***************************************************************************)
(* Proofs about the order service: what its cache may hold, for any        *)
(* readers, orders and values, over the repository's invariant.            *)
(***************************************************************************)
EXTENDS OrderService, RepositoryProofs

\* The consumer's goroutine only saves, and an HTTP handler only reads.
Roles ==
    /\ call[Saver].at \in InTx \cup {"idle", "begin", "saveOk", "saveErr"}
    /\ \A t \in Readers :
          call[t].at \in Selecting \cup {"idle", "got", "gotNone", "getErr"}

\* What is in the database was committed, and is remembered.
History == /\ ever \in [UIDs -> SUBSET Row]
           /\ unwritten \in [UIDs -> SUBSET Row]
           /\ \A u \in UIDs : db[u] \in ever[u] \cup {Absent}

\* The order about to be cached by the saver is the one in the database, the
\* transaction of an order saved again apart.
SavedNow ==
    At(Saver, "saveOk") =>
        /\ call[Saver].uid \in UIDs /\ call[Saver].order \in Row
        /\ db[call[Saver].uid] \in Row
        /\ UpToDate(call[Saver].uid, call[Saver].order)

\* Past its first query a reader has an order that is there, and every part it
\* read was committed; without a Save meanwhile they are those in the database.
Found1 == {"selDelivery", "selPayment", "selItems", "got"}
ReadNow(t) ==
    LET c == call[t]
    IN  /\ c.at \in Found1 => c.uid \in UIDs /\ db[c.uid] \in Row
        /\ \A part \in PartsRead(c.at) :
              /\ \E v \in ever[c.uid] : c.order[part] = v[part]
              /\ t \notin overlapped => c.order[part] = db[c.uid][part]

CacheTyped == /\ cache \in [UIDs -> Row \cup {Absent}]
              /\ up \in BOOLEAN
              /\ overlapped \subseteq Readers
              /\ tainted \subseteq UIDs

SInv == /\ RInv
        /\ Roles
        /\ History
        /\ SavedNow
        /\ \A t \in Readers : ReadNow(t)
        /\ CacheTyped
        /\ CachedWasCommitted
        /\ CacheCurrent
-----------------------------------------------------------------------------
(* What the rest of the invariant needs of each kind of step.              *)

\* A reader whose call is left alone has read what it had; a Save of its order
\* meanwhile is one that it knows it overlaps.
LEMMA ReadKept ==
    ASSUME NEW t \in Readers, ReadNow(t),
           /\ call'[t].at = call[t].at
           /\ call'[t].uid = call[t].uid /\ call'[t].order = call[t].order,
           \A u \in UIDs : ever[u] \subseteq ever'[u],
           t \in overlapped => t \in overlapped',
           call[t].at \in Found1 =>
              \/ db'[call[t].uid] = db[call[t].uid]
              \/ db'[call[t].uid] \in Row /\ t \in overlapped'
    PROVE  ReadNow(t)'
<1>1. ASSUME NEW part \in PartsRead(call[t].at) PROVE call[t].at \in Found1
  BY <1>1 DEF PartsRead, Found1
<1> QED
  BY <1>1 DEF ReadNow

\* What is cached stays as committed and as current while neither the database
\* nor the cache changes and the saver still owes what it owed.
LEMMA CacheKept ==
    ASSUME CachedWasCommitted, CacheCurrent,
           cache' = cache, tainted' = tainted, db' = db, UNCHANGED <<ever, unwritten>>,
           At(Saver, "saveOk") => call'[Saver] = call[Saver]
    PROVE  CachedWasCommitted' /\ CacheCurrent'
BY DEF CachedWasCommitted, CacheCurrent, Cached, At, WasCommitted, UpToDate

\* A cache.Set of committed parts, of an order that is current or is known not
\* to be.
LEMMA CachePut ==
    ASSUME cache \in [UIDs -> Row \cup {Absent}], CachedWasCommitted, CacheCurrent,
           NEW u \in UIDs, NEW o \in Row, cache' = [cache EXCEPT ![u] = o],
           db' = db, UNCHANGED <<ever, unwritten>>,
           WasCommitted(u, o),
           \/ tainted' = tainted \cup {u}
           \/ tainted' = tainted \ {u} /\ UpToDate(u, o),
           At(Saver, "saveOk") => \/ call[Saver].uid = u
                                  \/ call'[Saver] = call[Saver]
    PROVE  /\ cache' \in [UIDs -> Row \cup {Absent}]
           /\ CachedWasCommitted' /\ CacheCurrent'
<1>1. cache' \in [UIDs -> Row \cup {Absent}] /\ cache'[u] = o
      /\ \A w \in UIDs \ {u} : cache'[w] = cache[w]
  OBVIOUS
<1>2. CachedWasCommitted'
  BY <1>1 DEF CachedWasCommitted, Cached, WasCommitted
<1>3. CacheCurrent'
  <2> SUFFICES ASSUME NEW w \in UIDs, cache'[w] # Absent, w \notin tainted',
                      ~(call'[Saver].at = "saveOk" /\ call'[Saver].uid = w)
               PROVE  UpToDate(w, cache'[w])
    BY DEF CacheCurrent, Cached, At, UpToDate
  <2>1. CASE w = u
    BY <1>1, <2>1
  <2>2. CASE w # u
    <3>1. cache[w] # Absent /\ w \notin tainted
          /\ ~(At(Saver, "saveOk") /\ call[Saver].uid = w)
      BY <1>1, <2>2 DEF At
    <3> QED
      BY <1>1, <2>2, <3>1 DEF CacheCurrent, Cached
  <2> QED
    BY <2>1, <2>2
<1> QED
  BY <1>1, <1>2, <1>3

\* A step of one thread that is no commit keeps what the others have.
LEMMA AloneKeeps ==
    ASSUME History, \A t \in Readers : ReadNow(t), NEW p \in Threads, Alone(p),
           UNCHANGED <<ever, unwritten>>,
           \A t \in Readers \ {p} : t \in overlapped => t \in overlapped'
    PROVE  History' /\ \A t \in Readers \ {p} : ReadNow(t)'
<1>1. History'
  BY DEF History, Alone
<1>2. ASSUME NEW t \in Readers \ {p} PROVE ReadNow(t)'
  <2>1. call'[t] = call[t] /\ db' = db
    BY ServiceAssumption DEF Alone
  <2> QED
    BY <2>1, ReadKept
<1> QED
  BY <1>1, <1>2

\* A step of the saver that does not commit.
LEMMA SaverStep ==
    ASSUME Roles, History, \A t \in Readers : ReadNow(t), Alone(Saver),
           call'[Saver].at \in InTx \cup {"idle", "begin", "saveErr"},
           UNCHANGED <<ever, unwritten>>, overlapped' = overlapped
    PROVE  Roles' /\ History' /\ SavedNow' /\ \A t \in Readers : ReadNow(t)'
<1>1. Saver \in Threads /\ Readers \ {Saver} = Readers /\ Readers \subseteq Threads
  BY ServiceAssumption
<1>2. History' /\ \A t \in Readers : ReadNow(t)'
  BY <1>1, AloneKeeps
<1>3. \A t \in Readers : call'[t] = call[t]
  BY <1>1 DEF Alone
<1>4. Roles'
  BY <1>3 DEF Roles
<1>5. SavedNow'
  BY DEF SavedNow, At, InTx
<1> QED
  BY <1>2, <1>4, <1>5

\* A step of a reader.
LEMMA ReaderStep ==
    ASSUME Roles, History, SavedNow, \A p \in Readers : ReadNow(p),
           NEW t \in Readers, Alone(t),
           call'[t].at \in Selecting \cup {"idle", "got", "gotNone", "getErr"},
           ReadNow(t)', UNCHANGED <<ever, unwritten>>,
           \A p \in Readers \ {t} : p \in overlapped => p \in overlapped'
    PROVE  /\ Roles' /\ History' /\ SavedNow' /\ \A p \in Readers : ReadNow(p)'
           /\ call'[Saver] = call[Saver]
<1>1. t \in Threads /\ Saver \in Threads \ {t} /\ Readers \subseteq Threads
  BY ServiceAssumption
<1>2. History' /\ \A p \in Readers : ReadNow(p)'
  BY <1>1, AloneKeeps
<1>3. \A p \in Threads \ {t} : call'[p] = call[p]
  BY DEF Alone
<1>4. Roles'
  BY <1>1, <1>3 DEF Roles
<1>5. SavedNow'
  BY <1>1, <1>3 DEF SavedNow, At, Alone, UpToDate
<1> QED
  BY <1>1, <1>2, <1>3, <1>4, <1>5
-----------------------------------------------------------------------------
(* The invariant is kept, action by action.                                *)

LEMMA InitSInv == SInit => SInv
<1> SUFFICES ASSUME SInit PROVE SInv
  OBVIOUS
<1>1. Init
  BY DEF SInit
<1>2. \A t \in Threads : call[t].at = "idle"
  BY <1>1 DEF Init, Idle
<1>3. Saver \in Threads /\ Readers \subseteq Threads
  BY ServiceAssumption
<1>4. RInv
  BY <1>1, InitRInv
<1>5. Roles /\ SavedNow
  BY <1>2, <1>3 DEF Roles, SavedNow, At
<1>6. History /\ CacheTyped /\ CachedWasCommitted /\ CacheCurrent
  BY <1>1 DEF SInit, Init, History, CacheTyped, CachedWasCommitted, CacheCurrent, Cached
<1>7. \A t \in Readers : PartsRead(call[t].at) = {} /\ call[t].at \notin Found1
  BY <1>2, <1>3 DEF PartsRead, Found1
<1>8. \A t \in Readers : ReadNow(t)
  BY <1>7 DEF ReadNow
<1> QED
  BY <1>4, <1>5, <1>6, <1>8 DEF SInv

\* The steps of the repository keep its invariant in the service.
LEMMA RepositoryStep ==
    ASSUME RInv, NEW t \in Threads,
           \/ \E u \in UIDs, o \in Messages : Save(t, u, o)
           \/ \E u \in UIDs : GetByUID(t, u)
           \/ SaveWork(t) \/ SaveFails(t)
           \/ GetWork(t) \/ GetFails(t) \/ Return(t)
    PROVE  RInv'
<1>1. Next
  BY DEF Next
<1> QED
  BY <1>1, NextRInv

\* A crash rolls every transaction back and loses every call.
LEMMA CrashKeepsRInv ==
    ASSUME RInv, db' = db, custs' = custs, call' = [t \in Threads |-> Idle]
    PROVE  RInv'
<1>1. \A t \in Threads : call'[t] = Idle /\ call'[t].at = "idle"
  BY DEF Idle
<1>2. DbType' /\ CallFn' /\ OrdersWhole' /\ TransUnique'
  BY DEF RInv, WInv, DbType, CallFn, OrdersWhole, TransUnique
<1>3. SavesMessages' /\ OrderLocked' /\ TranReserved'
  BY <1>1 DEF SavesMessages, OrderLocked, TranReserved, InSave, InTx, HasOrder,
              HasPayment, Inserts
<1>4. CallTyped'
  BY <1>1 DEF CallTyped, Call
<1>5. ReadsSeen'
  BY <1>1 DEF ReadsSeen, Reading, Selecting, PartsRead
<1> QED
  BY <1>2, <1>3, <1>4, <1>5 DEF RInv, WInv

LEMMA StartKeeps == SInv /\ Start => SInv'
<1> SUFFICES ASSUME SInv, Start PROVE SInv'
  OBVIOUS
<1>1. PICK S \in SUBSET UIDs :
          cache' = [u \in UIDs |-> IF u \in S THEN db[u] ELSE Absent]
  BY DEF Start
<1>2. /\ db' = db /\ custs' = custs /\ call' = call
      /\ overlapped' = overlapped /\ UNCHANGED <<ever, unwritten>> /\ tainted' = {} /\ up' = TRUE
  BY DEF Start, rvars
<1>3. RInv'
  <2>1. UNCHANGED rvars
    BY <1>2 DEF rvars
  <2> QED
    BY <2>1, NextRInv DEF SInv
<1>4. Roles' /\ SavedNow'
  BY <1>2 DEF SInv, Roles, SavedNow, At, UpToDate
<1>5. History' /\ \A t \in Readers : ReadNow(t)'
  BY <1>2 DEF SInv, History, ReadNow
<1>6. db \in [UIDs -> Row \cup {Absent}]
  BY DEF SInv, RInv, WInv, DbType
<1>7. CacheTyped'
  BY <1>1, <1>2, <1>6 DEF SInv, CacheTyped
<1>8. CachedWasCommitted'
  BY <1>1, <1>2 DEF SInv, History, CachedWasCommitted, Cached, WasCommitted
<1>9. CacheCurrent'
  BY <1>1, <1>2 DEF CacheCurrent, Cached, UpToDate
<1> QED
  BY <1>3, <1>4, <1>5, <1>7, <1>8, <1>9 DEF SInv

LEMMA CrashKeeps == SInv /\ Crash => SInv'
<1> SUFFICES ASSUME SInv, Crash PROVE SInv'
  OBVIOUS
<1>1. /\ db' = db /\ custs' = custs /\ call' = [t \in Threads |-> Idle]
      /\ cache' = [u \in UIDs |-> Absent] /\ overlapped' = {} /\ up' = FALSE
      /\ tainted' = tainted /\ UNCHANGED <<ever, unwritten>>
  BY DEF Crash
<1>2. \A t \in Threads : call'[t].at = "idle"
  BY <1>1 DEF Idle
<1>3. Saver \in Threads /\ Readers \subseteq Threads
  BY ServiceAssumption
<1>4. RInv'
  BY <1>1, CrashKeepsRInv DEF SInv
<1>5. Roles' /\ SavedNow'
  BY <1>2, <1>3 DEF Roles, SavedNow, At
<1>6. History' /\ CacheTyped' /\ CachedWasCommitted' /\ CacheCurrent'
  BY <1>1 DEF SInv, History, CacheTyped, CachedWasCommitted, CacheCurrent, Cached
<1>7. \A t \in Readers : PartsRead(call'[t].at) = {} /\ call'[t].at \notin Found1
  BY <1>2, <1>3 DEF PartsRead, Found1
<1>8. \A t \in Readers : ReadNow(t)'
  BY <1>7 DEF ReadNow
<1> QED
  BY <1>4, <1>5, <1>6, <1>8 DEF SInv

LEMMA ForgetKeeps == ASSUME SInv, NEW u \in UIDs, Forget(u) PROVE SInv'
<1>1. /\ db' = db /\ custs' = custs /\ call' = call
      /\ overlapped' = overlapped /\ UNCHANGED <<ever, unwritten>> /\ tainted' = tainted /\ up' = up
      /\ cache' = [cache EXCEPT ![u] = Absent]
  BY DEF Forget, rvars
<1>2. RInv'
  <2>1. UNCHANGED rvars
    BY <1>1 DEF rvars
  <2> QED
    BY <2>1, NextRInv DEF SInv
<1>3. Roles' /\ SavedNow'
  BY <1>1 DEF SInv, Roles, SavedNow, At, UpToDate
<1>4. History' /\ \A t \in Readers : ReadNow(t)'
  BY <1>1 DEF SInv, History, ReadNow
<1>5. CacheTyped'
  BY <1>1 DEF SInv, CacheTyped
<1>6. \A w \in UIDs : cache'[w] # Absent => cache'[w] = cache[w]
  BY <1>1 DEF SInv, CacheTyped
<1>7. CachedWasCommitted' /\ CacheCurrent'
  BY <1>1, <1>6 DEF SInv, CachedWasCommitted, CacheCurrent, Cached, At,
                    WasCommitted, UpToDate
<1> QED
  BY <1>2, <1>3, <1>4, <1>5, <1>7 DEF SInv

\* The steps of the saver that neither commit nor touch the cache.
LEMMA SaverKeeps ==
    ASSUME SInv,
           \/ \E u \in UIDs, o \in Messages : SaveFromMessage(u, o)
           \/ RepoSave \/ SaveReturnsErr
    PROVE  SInv'
<1>1. Saver \in Threads /\ WInv /\ CallTyped
  BY ServiceAssumption DEF SInv, RInv
<1>2. /\ cache' = cache /\ up' = up /\ overlapped' = overlapped
      /\ tainted' = tainted /\ UNCHANGED <<ever, unwritten>>
  BY DEF SaveFromMessage, RepoSave, SaveReturnsErr
<1>3. /\ RInv' /\ Alone(Saver) /\ ~At(Saver, "saveOk")
      /\ call'[Saver].at \in InTx \cup {"idle", "begin", "saveErr"}
  <2>1. CASE \E u \in UIDs, o \in Messages : SaveFromMessage(u, o)
    <3>1. PICK u \in UIDs, o \in Messages : Save(Saver, u, o)
      BY <2>1 DEF SaveFromMessage
    <3>2. RInv'
      BY <1>1, <3>1, RepositoryStep DEF SInv
    <3> QED
      BY <1>1, <3>1, <3>2 DEF Save, Alone, At, WInv, CallFn
  <2>2. CASE RepoSave
    <3>1. Statement(Saver) \/ SaveFails(Saver)
      BY <2>2 DEF RepoSave
    <3>2. RInv'
      BY <1>1, <3>1, RepositoryStep DEF SInv, SaveWork
    <3>3. Alone(Saver)
      BY <1>1, <3>1, StatementHolds
    <3>4. InSave(Saver) /\ \E l \in InTx \cup {"saveErr"} : Goto(Saver, l)
      BY <3>1 DEF Statement, SaveFails, Begin, InsertCustomer, UpsertOrder,
                  UpsertDelivery, UpsertPayment, DeleteItems, copyItems,
                  PaymentTaken, At, InSave, InTx
    <3>5. call'[Saver].at \in InTx \cup {"saveErr"}
      BY <1>1, <3>4, GotoTyped DEF WInv
    <3> QED
      BY <3>2, <3>3, <3>4, <3>5 DEF InSave, InTx, At
  <2>3. CASE SaveReturnsErr
    <3>1. Return(Saver) /\ At(Saver, "saveErr")
      BY <2>3 DEF SaveReturnsErr
    <3>2. RInv'
      BY <1>1, <3>1, RepositoryStep DEF SInv
    <3>3. Alone(Saver)
      BY <1>1, <3>1, ReadHolds
    <3>4. call'[Saver].at = "idle"
      BY <1>1, <3>1 DEF Return, WInv, CallFn, Idle
    <3> QED
      BY <3>1, <3>2, <3>3, <3>4 DEF At
  <2> QED
    BY <2>1, <2>2, <2>3
<1>4. Roles' /\ History' /\ SavedNow' /\ \A t \in Readers : ReadNow(t)'
  BY <1>2, <1>3, SaverStep DEF SInv
<1>5. CachedWasCommitted' /\ CacheCurrent'
  BY <1>2, <1>3, CacheKept DEF SInv, Alone
<1>6. CacheTyped'
  BY <1>2 DEF SInv, CacheTyped
<1> QED
  BY <1>3, <1>4, <1>5, <1>6 DEF SInv

LEMMA CacheSavedKeeps == SInv /\ CacheSaved => SInv'
<1> SUFFICES ASSUME SInv, CacheSaved PROVE SInv'
  OBVIOUS
<1> DEFINE u == call[Saver].uid
           o == call[Saver].order
<1>1. Saver \in Threads /\ WInv /\ CallTyped
  BY ServiceAssumption DEF SInv, RInv
<1>2. /\ At(Saver, "saveOk") /\ Return(Saver)
      /\ cache' = [cache EXCEPT ![u] = o] /\ tainted' = tainted \ {u}
      /\ up' = up /\ overlapped' = overlapped /\ UNCHANGED <<ever, unwritten>>
  BY DEF CacheSaved
<1>3. RInv'
  BY <1>1, <1>2, RepositoryStep DEF SInv
<1>4. Alone(Saver)
  BY <1>1, <1>2, ReadHolds
<1>5. call'[Saver].at = "idle"
  BY <1>1, <1>2 DEF Return, WInv, CallFn, Idle
<1>6. Roles' /\ History' /\ SavedNow' /\ \A t \in Readers : ReadNow(t)'
  BY <1>2, <1>4, <1>5, SaverStep DEF SInv
<1>7. u \in UIDs /\ o \in Row /\ db[u] \in Row /\ UpToDate(u, o)
  BY <1>2 DEF SInv, SavedNow
<1>8. db[u] \in ever[u]
  BY <1>7, RowNotAbsent DEF SInv, History
<1>9. WasCommitted(u, o)
  BY <1>7, <1>8 DEF UpToDate, WasCommitted
<1>10. db' = db /\ cache \in [UIDs -> Row \cup {Absent}]
       /\ CachedWasCommitted /\ CacheCurrent
  BY <1>4 DEF Alone, SInv, CacheTyped
<1>11. At(Saver, "saveOk") => call[Saver].uid = u
  OBVIOUS
<1> HIDE DEF u, o
<1>12. /\ cache' \in [UIDs -> Row \cup {Absent}]
       /\ CachedWasCommitted' /\ CacheCurrent'
  BY ONLY <1>2, <1>7, <1>9, <1>10, <1>11, CachePut
<1>13. CacheTyped'
  BY <1>2, <1>12 DEF SInv, CacheTyped
<1> QED
  BY <1>3, <1>6, <1>12, <1>13 DEF SInv

LEMMA CommitKeeps == SInv /\ RepoCommit => SInv'
<1> SUFFICES ASSUME SInv, RepoCommit PROVE SInv'
  OBVIOUS
<1> DEFINE u == call[Saver].uid
           o == call[Saver].order
<1>1. Saver \in Threads /\ Saver \notin Readers /\ Readers \subseteq Threads
  BY ServiceAssumption
<1>2. WInv /\ CallTyped /\ Commit(Saver)
  BY DEF SInv, RInv, RepoCommit
<1>3. /\ overlapped' = overlapped \cup {t \in Readers : InRead(t) /\ call[t].uid = u}
      /\ tainted' = IF call'[Saver].at = "saveErr" THEN tainted \cup {u} ELSE tainted
      /\ ever' = [ever EXCEPT ![u] = @ \cup {db'[u]}]
      /\ unwritten' = [unwritten EXCEPT ![u] = @ \cup ({o} \ {db'[u]})]
      /\ cache' = cache /\ up' = up
  BY DEF RepoCommit
<1>4. RInv'
  BY <1>1, <1>2, RepositoryStep DEF SInv, SaveWork
<1>5. /\ u \in UIDs /\ o \in Messages /\ o.base.cust \in Customers
      /\ db' = Applied(db, u, o)
      /\ call'[Saver].at \in {"saveOk", "saveErr"}
      /\ \A p \in Threads \ {Saver} :
            IF Reading(p) /\ call[p].uid = u
            THEN /\ call[p] \in ReadCall
                 /\ call'[p] = [call[p] EXCEPT !.seen = @ \cup {db'[u]}]
            ELSE call'[p] = call[p]
  BY <1>1, <1>2, CommitEffect
<1>6. call'[Saver].uid = u /\ call'[Saver].order = o
  <2>1. call[Saver] \in SavedCall
    BY <1>1, <1>2, CallCases DEF CallTyped, Commit, At, InTx
  <2>2. PICK l \in {"saveOk", "saveErr"} : call' = Committed(Saver, db', l)
    BY <1>2 DEF Commit
  <2>3. call'[Saver] = [call[Saver] EXCEPT !.at = l]
    BY <1>1, <2>2 DEF Committed
  <2> QED
    BY <2>1, <2>3 DEF SavedCall
<1>7. \A t \in Readers : /\ call'[t].at = call[t].at
                         /\ call'[t].uid = call[t].uid
                         /\ call'[t].order = call[t].order
  <2> SUFFICES ASSUME NEW t \in Readers
               PROVE  /\ call'[t].at = call[t].at
                      /\ call'[t].uid = call[t].uid
                      /\ call'[t].order = call[t].order
    OBVIOUS
  <2>1. t \in Threads \ {Saver}
    BY <1>1
  <2>2. CASE Reading(t) /\ call[t].uid = u
    <3>1. call[t] \in ReadCall /\ call'[t] = [call[t] EXCEPT !.seen = @ \cup {db'[u]}]
      BY <1>5, <2>1, <2>2
    <3> QED
      BY <3>1 DEF ReadCall
  <2>3. CASE ~(Reading(t) /\ call[t].uid = u)
    BY <1>5, <2>1, <2>3
  <2> QED
    BY <2>2, <2>3
<1>8. db \in [UIDs -> Row \cup {Absent}]
  BY <1>2 DEF WInv, DbType
<1>9. At(Saver, "commit")
  BY <1>2 DEF Commit
<1> HIDE DEF u, o
<1>10. db'[u] \in Row /\ \A w \in UIDs \ {u} : db'[w] = db[w]
  BY <1>5, <1>8, AppliedWhole
<1>11. o \in Row /\ \A part \in Written : o[part] = db'[u][part]
  <2>1. PICK c \in Customers \cup {NoCustomer}, x \in Trans, r \in Revs :
            o = [base |-> [cust |-> c, rev |-> r], delivery |-> r,
                 tran |-> x, payment |-> r, items |-> r]
    BY <1>5 DEF Messages, Whole
  <2>2. db'[u] = [o EXCEPT !.tran = StoredTran(db, u, o)]
    BY <1>5, <1>8 DEF Applied
  <2>3. o \in Row
    BY <1>5, <2>1 DEF Row
  <2>4. Written = {"base", "delivery", "payment", "items"}
    BY DEF Written, Absent
  <2>5. \A part \in Written : o[part] = db'[u][part]
    BY <2>1, <2>2, <2>4
  <2> QED
    BY <2>3, <2>5
<1>12. Roles'
  BY <1>5, <1>7 DEF SInv, Roles
<1>13. /\ ever \in [UIDs -> SUBSET Row] /\ unwritten \in [UIDs -> SUBSET Row]
       /\ \A w \in UIDs : /\ ever[w] \subseteq ever'[w]
                          /\ unwritten[w] \subseteq unwritten'[w]
       /\ \A w \in UIDs \ {u} : unwritten'[w] = unwritten[w]
  BY <1>3, <1>5 DEF SInv, History
<1>14. History'
  <2>1. ever' \in [UIDs -> SUBSET Row] /\ unwritten' \in [UIDs -> SUBSET Row]
    BY <1>3, <1>10, <1>11, <1>13
  <2>2. db'[u] \in ever'[u]
    BY <1>3, <1>5, <1>13
  <2> QED
    BY <1>10, <1>13, <2>1, <2>2 DEF SInv, History
<1>15. SavedNow'
  <2>1. o.tran = db'[u].tran \/ o \in unwritten'[u]
    BY <1>3, <1>5, <1>13
  <2>2. /\ call'[Saver].uid \in UIDs /\ call'[Saver].order \in Row
        /\ db'[call'[Saver].uid] \in Row
    BY <1>5, <1>6, <1>10, <1>11
  <2>3. UpToDate(call[Saver].uid, call[Saver].order)'
    BY <1>6, <1>11, <2>1 DEF UpToDate
  <2> QED
    BY <2>2, <2>3 DEF SavedNow
<1>16. ASSUME NEW t \in Readers PROVE ReadNow(t)'
  <2>1. ASSUME call[t].at \in Found1
        PROVE  \/ db'[call[t].uid] = db[call[t].uid]
               \/ db'[call[t].uid] \in Row /\ t \in overlapped'
    <3>1. InRead(t) /\ call[t].uid \in UIDs
      BY <2>1 DEF Found1, InRead, Selecting, SInv, ReadNow
    <3> QED
      BY <1>3, <1>10, <3>1
  <2>2. ReadNow(t) /\ (t \in overlapped => t \in overlapped')
    BY <1>3 DEF SInv
  <2> QED
    BY <1>7, <1>13, <2>1, <2>2, ReadKept
<1>17. CacheTyped'
  BY <1>3, <1>5 DEF SInv, CacheTyped
<1>18. CachedWasCommitted'
  BY <1>3, <1>13 DEF SInv, CachedWasCommitted, Cached, WasCommitted
<1>19. CacheCurrent'
  <2> SUFFICES ASSUME NEW w \in UIDs, cache[w] # Absent, w \notin tainted',
                      ~(call'[Saver].at = "saveOk" /\ call'[Saver].uid = w)
               PROVE  UpToDate(w, cache[w])'
    BY <1>3 DEF CacheCurrent, Cached, At, UpToDate
  <2>1. w # u
    BY <1>3, <1>5, <1>6
  <2>2. w \notin tainted /\ ~At(Saver, "saveOk")
    BY <1>3, <1>9 DEF At
  <2> QED
    BY <1>3, <1>10, <1>13, <2>1, <2>2 DEF SInv, CacheCurrent, Cached, UpToDate
<1> QED
  BY <1>4, <1>12, <1>14, <1>15, <1>16, <1>17, <1>18, <1>19 DEF SInv

\* What a reader's SELECT leaves it with: past the first one its order is there.
LEMMA GetReads ==
    ASSUME SInv, NEW t \in Readers, GetWork(t)
    PROVE  /\ call'[t].at \in Selecting \cup {"got", "gotNone"}
           /\ Alone(t)
           /\ UNCHANGED <<ever, unwritten>> /\ overlapped' = overlapped => ReadNow(t)'
<1>1. t \in Threads /\ WInv /\ DbType /\ CallFn /\ CallTyped
  BY ServiceAssumption DEF SInv, RInv, WInv
<1>2. Alone(t)
  BY <1>1, ReadHolds
<1>3. PICK l, o : ReadTo(t, l, o)
  BY <1>1, ReadResult
<1>4. call'[t] = [at |-> l, uid |-> call[t].uid, order |-> o, seen |-> call[t].seen]
  BY <1>1, <1>3 DEF ReadTo, Read, CallFn
<1>5. call[t].uid \in UIDs /\ Found(t) = db[call[t].uid] /\ Filled(t) = call[t].order
  BY <1>1, ReadResult DEF ReadCall, Found, Filled
<1>6. Found(t) \in Row \cup {Absent}
  BY <1>1, <1>5 DEF DbType
<1>7. l \in Found1 => Found(t) \in Row
  <2>1. CASE SelectOrder(t)
    <3>1. call'[t].at = IF Found(t).base = None THEN "gotNone" ELSE "selDelivery"
      BY <1>1, <2>1 DEF SelectOrder, Read, CallFn
    <3>2. l \in Found1 => Found(t).base # None
      BY <1>4, <3>1 DEF Found1
    <3> QED
      BY <1>6, <3>2 DEF Absent
  <2>2. CASE ~SelectOrder(t)
    <3>1. call[t].at \in Found1
      BY <2>2 DEF GetWork, SelectDelivery, SelectPayment, SelectItems, At, Found1
    <3> QED
      BY <1>5, <3>1 DEF SInv, ReadNow
  <2> QED
    BY <2>1, <2>2
<1>8. ASSUME UNCHANGED <<ever, unwritten>>, overlapped' = overlapped PROVE ReadNow(t)'
  <2>1. db' = db
    BY <1>2 DEF Alone
  <2>2. ASSUME NEW part \in PartsRead(l)
        PROVE  /\ \E v \in ever[call[t].uid] : o[part] = v[part]
               /\ t \notin overlapped => o[part] = db[call[t].uid][part]
    <3>1. CASE o[part] = Found(t)[part]
      <4>1. Found(t) \in Row
        BY <1>7, <2>2 DEF PartsRead, Found1
      <4>2. db[call[t].uid] \in ever[call[t].uid]
        BY <1>5, <4>1, RowNotAbsent DEF SInv, History
      <4> QED
        BY <1>5, <3>1, <4>2
    <3>2. CASE o[part] = Filled(t)[part] /\ part \in PartsRead(call[t].at)
      BY <1>5, <3>2 DEF SInv, ReadNow
    <3> QED
      BY <1>3, <2>2, <3>1, <3>2 DEF ReadTo
  <2>3. l \in Found1 => call[t].uid \in UIDs /\ db[call[t].uid] \in Row
    BY <1>5, <1>7
  <2> QED
    BY <1>4, <1>8, <2>1, <2>2, <2>3 DEF ReadNow
<1> QED
  BY <1>2, <1>3, <1>4, <1>8 DEF ReadTo

\* Outside its queries a reader has read nothing.
LEMMA ReadNothing ==
    ASSUME NEW t \in Readers, call'[t].at \notin Found1
    PROVE  ReadNow(t)'
<1>1. PartsRead(call'[t].at) = {}
  BY DEF PartsRead, Found1
<1> QED
  BY <1>1 DEF ReadNow

\* The steps of a reader that leave the cache alone.
LEMMA ReaderKeeps ==
    ASSUME SInv, NEW t \in Readers,
           \/ \E u \in UIDs : GetOrderMiss(t, u)
           \/ RepoGet(t) \/ GetReturnsNone(t)
    PROVE  SInv'
<1>1. t \in Threads /\ WInv /\ CallTyped
  BY ServiceAssumption DEF SInv, RInv
<1>2. /\ cache' = cache /\ up' = up /\ tainted' = tainted /\ UNCHANGED <<ever, unwritten>>
      /\ overlapped' \in {overlapped, overlapped \ {t}}
  BY DEF GetOrderMiss, RepoGet, GetReturnsNone
<1>3. /\ RInv' /\ Alone(t) /\ ReadNow(t)'
      /\ call'[t].at \in Selecting \cup {"idle", "got", "gotNone", "getErr"}
  <2>1. CASE \E u \in UIDs : GetOrderMiss(t, u)
    <3>1. PICK u \in UIDs : GetByUID(t, u)
      BY <2>1 DEF GetOrderMiss
    <3>2. RInv' /\ Alone(t)
      BY <1>1, <3>1, RepositoryStep, ReadHolds DEF SInv
    <3>3. call'[t].at = "selOrder"
      BY <1>1, <3>1 DEF GetByUID, WInv, CallFn
    <3> QED
      BY <3>2, <3>3, ReadNothing DEF Found1, Selecting
  <2>2. CASE GetWork(t) /\ RepoGet(t)
    <3>1. RInv'
      BY <1>1, <2>2, RepositoryStep DEF SInv
    <3>2. overlapped' = overlapped
      BY <2>2 DEF RepoGet
    <3> QED
      BY <1>2, <2>2, <3>1, <3>2, GetReads
  <2>3. CASE GetFails(t)
    <3>1. RInv' /\ Alone(t)
      BY <1>1, <2>3, RepositoryStep, ReadHolds DEF SInv
    <3>2. call[t] \in ReadCall
      BY <1>1, <2>3, CallCases DEF CallTyped, GetFails, Reading, InGet
    <3>3. call'[t].at = "getErr"
      BY <1>1, <2>3, <3>2 DEF GetFails, Goto, WInv, CallFn, ReadCall
    <3> QED
      BY <3>1, <3>3, ReadNothing DEF Found1
  <2>4. CASE GetReturnsNone(t)
    <3>1. RInv' /\ Alone(t) /\ Return(t)
      BY <1>1, <2>4, RepositoryStep, ReadHolds DEF SInv, GetReturnsNone
    <3>2. call'[t].at = "idle"
      BY <1>1, <3>1 DEF Return, WInv, CallFn, Idle
    <3> QED
      BY <3>1, <3>2, ReadNothing DEF Found1
  <2> QED
    BY <2>1, <2>2, <2>3, <2>4 DEF RepoGet
<1>4. /\ Roles' /\ History' /\ SavedNow' /\ \A p \in Readers : ReadNow(p)'
      /\ call'[Saver] = call[Saver]
  BY <1>2, <1>3, ReaderStep DEF SInv
<1>5. CachedWasCommitted' /\ CacheCurrent'
  BY <1>2, <1>3, <1>4, CacheKept DEF SInv, Alone
<1>6. CacheTyped'
  BY <1>2 DEF SInv, CacheTyped
<1> QED
  BY <1>3, <1>4, <1>5, <1>6 DEF SInv

\* A whole read is a row.
LEMMA GotRow ==
    ASSUME SInv, NEW t \in Readers, At(t, "got")
    PROVE  /\ call[t].uid \in UIDs /\ call[t].order \in Row
           /\ WasCommitted(call[t].uid, call[t].order)
           /\ t \notin overlapped => UpToDate(call[t].uid, call[t].order)
<1> DEFINE u == call[t].uid
           o == call[t].order
<1>1. PartsRead(call[t].at) = {"base", "delivery", "tran", "payment", "items"}
  BY DEF At, PartsRead, Absent
<1>2. /\ u \in UIDs
      /\ \A part \in {"base", "delivery", "tran", "payment", "items"} :
            /\ \E v \in ever[u] : o[part] = v[part]
            /\ t \notin overlapped => o[part] = db[u][part]
  BY <1>1 DEF SInv, ReadNow, At, Found1
<1>3. o \in PartRow
  BY ServiceAssumption, CallCases DEF SInv, RInv, CallTyped, At, InGet, ReadCall
<1>4. ever[u] \subseteq Row
  BY <1>2 DEF SInv, History
<1>5. /\ o["base"] \in [cust : Customers, rev : Revs]
      /\ o["delivery"] \in Revs /\ o["tran"] \in Trans
      /\ o["payment"] \in Revs /\ o["items"] \in Revs
  BY <1>2, <1>4 DEF Row
<1>6. o \in Row
  BY <1>3, <1>5 DEF PartRow, Row
<1>7. Written = {"base", "delivery", "payment", "items"}
  BY DEF Written, Absent
<1> QED
  BY <1>2, <1>6, <1>7 DEF WasCommitted, UpToDate

LEMMA CacheReadKeeps == ASSUME SInv, NEW t \in Readers, CacheRead(t) PROVE SInv'
<1> DEFINE u == call[t].uid
           o == call[t].order
<1>1. t \in Threads /\ WInv /\ CallTyped
  BY ServiceAssumption DEF SInv, RInv
<1>2. /\ At(t, "got") /\ Return(t)
      /\ cache' = [cache EXCEPT ![u] = o]
      /\ tainted' = IF t \in overlapped THEN tainted \cup {u} ELSE tainted \ {u}
      /\ up' = up /\ overlapped' = overlapped /\ UNCHANGED <<ever, unwritten>>
  BY DEF CacheRead
<1>3. RInv' /\ Alone(t)
  BY <1>1, <1>2, RepositoryStep, ReadHolds DEF SInv
<1>4. call'[t].at = "idle"
  BY <1>1, <1>2 DEF Return, WInv, CallFn, Idle
<1>5. ReadNow(t)'
  BY <1>4, ReadNothing DEF Found1
<1>6. /\ Roles' /\ History' /\ SavedNow' /\ \A p \in Readers : ReadNow(p)'
      /\ call'[Saver] = call[Saver]
  BY <1>2, <1>3, <1>4, <1>5, ReaderStep DEF SInv
<1>7. /\ u \in UIDs /\ o \in Row
      /\ WasCommitted(u, o)
      /\ t \notin overlapped => UpToDate(u, o)
  BY <1>2, GotRow
<1>8. db' = db /\ cache \in [UIDs -> Row \cup {Absent}]
      /\ CachedWasCommitted /\ CacheCurrent
  BY <1>3 DEF Alone, SInv, CacheTyped
<1> HIDE DEF u, o
<1>9. \/ tainted' = tainted \cup {u}
      \/ tainted' = tainted \ {u} /\ UpToDate(u, o)
  BY <1>2, <1>7
<1>10. At(Saver, "saveOk") => call[Saver].uid = u \/ call'[Saver] = call[Saver]
  BY <1>6
<1>11. /\ cache' \in [UIDs -> Row \cup {Absent}]
       /\ CachedWasCommitted' /\ CacheCurrent'
  BY ONLY <1>2, <1>7, <1>8, <1>9, <1>10, CachePut
<1>12. CacheTyped'
  BY <1>2, <1>7, <1>11 DEF SInv, CacheTyped
<1> QED
  BY <1>3, <1>6, <1>11, <1>12 DEF SInv

LEMMA NextSInv == SInv /\ [SNext]_svars => SInv'
<1> SUFFICES ASSUME SInv, [SNext]_svars PROVE SInv'
  OBVIOUS
<1>1. ASSUME UNCHANGED svars PROVE SInv'
  <2>1. /\ UNCHANGED rvars /\ db' = db /\ custs' = custs /\ call' = call
        /\ cache' = cache /\ up' = up /\ overlapped' = overlapped
        /\ tainted' = tainted /\ UNCHANGED <<ever, unwritten>>
    BY <1>1 DEF svars, rvars
  <2>2. RInv'
    BY <2>1, NextRInv DEF SInv
  <2>3. Roles' /\ History' /\ SavedNow' /\ \A t \in Readers : ReadNow(t)'
    BY <2>1 DEF SInv, Roles, History, SavedNow, ReadNow, At, UpToDate
  <2>4. CacheTyped' /\ CachedWasCommitted' /\ CacheCurrent'
    BY <2>1, CacheKept DEF SInv, CacheTyped
  <2> QED
    BY <2>2, <2>3, <2>4 DEF SInv
<1>2. ASSUME NEW t \in Readers, NEW u \in UIDs, GetOrderHit(t, u) PROVE SInv'
  BY <1>1, <1>2 DEF GetOrderHit
<1>3. ASSUME NEW t \in Readers,
             (\E u \in UIDs : GetOrderMiss(t, u)) \/ RepoGet(t) \/ GetReturnsNone(t)
      PROVE  SInv'
  BY <1>3, ReaderKeeps
<1>4. ASSUME NEW t \in Readers, CacheRead(t) PROVE SInv'
  BY <1>4, CacheReadKeeps
<1>5. CASE \/ \E u \in UIDs, o \in Messages : SaveFromMessage(u, o)
           \/ RepoSave \/ SaveReturnsErr
  BY <1>5, SaverKeeps
<1>6. ASSUME NEW u \in UIDs, Forget(u) PROVE SInv'
  BY <1>6, ForgetKeeps
<1> QED
  BY <1>1, <1>2, <1>3, <1>4, <1>5, <1>6, StartKeeps, CrashKeeps, CommitKeeps,
     CacheSavedKeeps DEF SNext
-----------------------------------------------------------------------------
(* The theorems.                                                           *)

LEMMA ServiceInvariance == SSpec => []SInv
BY InitSInv, NextSInv, PTL DEF SSpec

\* The cache holds whole orders, each with a customer, whatever fails.
THEOREM ServiceTypes == SSpec => []STypeOK
<1>1. SInv => STypeOK
  BY DEF SInv, RInv, WInv, DbType, CallFn, CallTyped, TypeOK, History, CacheTyped, STypeOK
<1> QED
  BY <1>1, ServiceInvariance, PTL

\* Nothing is cached, and so shown, that was not committed to the database, but
\* for the transaction of an order that was saved again with another one: that
\* one is the order some committed Save was given.
THEOREM OnlyCommitted == SSpec => []CachedWasCommitted
<1>1. SInv => CachedWasCommitted
  BY DEF SInv
<1> QED
  BY <1>1, ServiceInvariance, PTL

\* A cached order is out of date only in the ways CacheCurrent names: it raced
\* with a Save or a lost answer, or its transaction is one no update wrote.
THEOREM Current == SSpec => []CacheCurrent
<1>1. SInv => CacheCurrent
  BY DEF SInv
<1> QED
  BY <1>1, ServiceInvariance, PTL

\* A process that dies in the middle of a Save leaves no order in part, no
\* transaction twice and no answer that was not committed.
THEOREM CrashLeavesWhole == SSpec => [](OrdersWhole /\ TransUnique /\ ReadIsCommitted)
<1>1. SInv => OrdersWhole /\ TransUnique /\ ReadIsCommitted
  BY DEF SInv, RInv, WInv, ReadsSeen, ReadIsCommitted, PartsRead, At
<1> QED
  BY <1>1, ServiceInvariance, PTL
-----------------------------------------------------------------------------
(* The service as a caller of the store.                                   *)

\* A step of the service is one of the repository or none of it, or a crash.
LEMMA ServiceCalls ==
    ASSUME SNext
    PROVE  [Next]_rvars \/ Crash
<1>1. Saver \in Threads /\ Readers \subseteq Threads
  BY ServiceAssumption
<1>2. CASE Start \/ \E u \in UIDs : Forget(u)
  BY <1>2 DEF Start, Forget
<1>3. ASSUME NEW u \in UIDs, NEW o \in Messages, SaveFromMessage(u, o)
      PROVE  Next
  BY <1>1, <1>3 DEF SaveFromMessage, Next
<1>4. CASE RepoSave \/ RepoCommit \/ CacheSaved \/ SaveReturnsErr
  BY <1>1, <1>4 DEF RepoSave, RepoCommit, CacheSaved, SaveReturnsErr, SaveWork, Next
<1>5. ASSUME NEW t \in Readers, NEW u \in UIDs,
             GetOrderHit(t, u) \/ GetOrderMiss(t, u)
      PROVE  [Next]_rvars
  BY <1>1, <1>5 DEF GetOrderHit, GetOrderMiss, svars, Next
<1>6. ASSUME NEW t \in Readers, RepoGet(t) \/ CacheRead(t) \/ GetReturnsNone(t)
      PROVE  Next
  BY <1>1, <1>6 DEF RepoGet, CacheRead, GetReturnsNone, Next
<1> QED
  BY <1>2, <1>3, <1>4, <1>5, <1>6 DEF SNext

LEMMA CrashIsDeath ==
    ASSUME Crash
    PROVE  Store!Dies
<1>1. db' = db /\ \A t \in Threads : call'[t].at = "idle"
  BY DEF Crash, Idle
<1>2. \A t \in Threads : Request(t)' = [op |-> "idle"]
  BY <1>1, RequestIsNext DEF At
<1>3. Requests' = [t \in Threads |-> [op |-> "idle"]]
  BY <1>2 DEF Requests
<1> QED
  BY <1>1, <1>3 DEF Store!Dies, Store!Quiet

\* Callers of the service's database see a store of whole orders, wherever in a
\* Save or a read the process dies and however often.
THEOREM CrashSafe == SSpec => SurvivesCrash
<1>1. SInit => Store!Init
  BY InitImplementsStore DEF SInit
<1>2. SInv /\ SInv' /\ [SNext]_svars => [Store!Next \/ Store!Dies]_(Store!tvars)
  <2> SUFFICES ASSUME SInv, SInv', [SNext]_svars
               PROVE  [Store!Next \/ Store!Dies]_(Store!tvars)
    OBVIOUS
  <2>1. RInv /\ RInv'
    BY DEF SInv
  <2>2. CASE [Next]_rvars
    BY <2>1, <2>2, StepImplementsStore
  <2>3. CASE Crash
    BY <2>3, CrashIsDeath
  <2> QED
    BY <2>2, <2>3, ServiceCalls DEF svars
<1> QED
  BY <1>1, <1>2, ServiceInvariance, PTL DEF SSpec, SurvivesCrash, Store!MortalSpec
=============================================================================
