----------------------------- MODULE AppProofs ------------------------------
(***************************************************************************)
(* Proofs about the life of the process, for any requests, any size of the *)
(* pool and any number of rows to warm.                                    *)
(***************************************************************************)
EXTENDS App, FiniteSetTheorems, TLAPS

Reported(c) == IF c = "returned" THEN 1 ELSE 0

\* Each goroutine reports at most once, and none before Run starts them: so
\* the channel has room for both.
ReportsOnce == /\ main \in Booting => errCh = 0 /\ consumer = "off" /\ server = "off"
               /\ errCh <= Reported(consumer) + Reported(server)

\* The connections in use are within the pool.
PoolBound == IsFiniteSet(users) /\ Cardinality(users) <= maxConns

\* The listener is open only while Run waits, the reader is closed from the
\* cleanup on, and the pool closes after that.
ClosesInOrder ==
    /\ accepting => main = "wait"
    /\ main \in {"cleanup", "closePool"} => reader = "closed"
    /\ pool \in {"closing", "closed"} =>
          main \in {"closePool", "exited"} /\ reader = "closed"
    /\ pool = "none" => main \in {"boot", "exited"}

Types == /\ main \in Mains
         /\ ctxDone \in BOOLEAN
         /\ errCh \in Nat
         /\ consumer \in {"off", "idle", "saving", "returned"}
         /\ server \in {"off", "starting", "serving", "returned"}
         /\ accepting \in BOOLEAN
         /\ reader \in {"none", "open", "closed"}
         /\ pool \in {"none", "open", "closing", "closed"}
         /\ request \in [Requests -> {"none", "served", "answered"}]
         /\ users \subseteq Requests \cup {"consumer", "rows", "row"}
         /\ maxConns \in 1 .. MaxConns /\ left \in 0 .. MaxRows

AInv == Types /\ ReportsOnce /\ PoolBound /\ ClosesInOrder
-----------------------------------------------------------------------------
\* A connection is taken only when one is free, and giving one back, or all,
\* leaves the others.
LEMMA Takes ==
    ASSUME PoolBound, maxConns \in 1 .. MaxConns, Free, NEW x
    PROVE  /\ IsFiniteSet(users \cup {x})
           /\ Cardinality(users \cup {x}) <= maxConns
<1>1. Cardinality(users) \in Nat
  BY FS_CardinalityType DEF PoolBound
<1>2. /\ IsFiniteSet(users \cup {x})
      /\ Cardinality(users \cup {x}) =
            IF x \in users THEN Cardinality(users) ELSE Cardinality(users) + 1
  BY FS_AddElement, Zenon DEF PoolBound
<1> QED
  BY <1>1, <1>2 DEF Free

LEMMA GivesBack ==
    ASSUME PoolBound, maxConns \in 1 .. MaxConns, NEW x
    PROVE  /\ IsFiniteSet(users \ {x})
           /\ Cardinality(users \ {x}) <= maxConns
<1>1. Cardinality(users) \in Nat
  BY FS_CardinalityType DEF PoolBound
<1>2. /\ IsFiniteSet(users \ {x})
      /\ Cardinality(users \ {x}) =
            IF x \in users THEN Cardinality(users) - 1 ELSE Cardinality(users)
  BY FS_RemoveElement, Zenon DEF PoolBound
<1> QED
  BY <1>1, <1>2 DEF PoolBound

LEMMA NoneInUse ==
    ASSUME maxConns \in 1 .. MaxConns
    PROVE  IsFiniteSet({}) /\ Cardinality({}) <= maxConns
BY FS_EmptySet
-----------------------------------------------------------------------------
LEMMA InitAInv == Init => AInv
<1> SUFFICES ASSUME Init PROVE AInv
  OBVIOUS
<1>1. Types
  BY DEF Init, Types, Mains, Booting
<1>2. ReportsOnce
  BY DEF Init, ReportsOnce, Reported
<1>3. PoolBound
  BY NoneInUse DEF Init, PoolBound
<1>4. ClosesInOrder
  BY DEF Init, ClosesInOrder
<1> QED
  BY <1>1, <1>2, <1>3, <1>4 DEF AInv

\* The steps of the goroutine of main.
LEMMA MainKeepsAInv ==
    ASSUME AInv, BootFails \/ LastNFails \/ MainStep PROVE AInv'
<1> USE DEF AInv, config
<1>1. CASE BootFails \/ OpenPool
  BY <1>1 DEF BootFails, OpenPool, Types, ReportsOnce, Reported, PoolBound,
              ClosesInOrder, Mains, Booting
<1>2. CASE LastN
  <2>1. PoolBound'
    BY <1>2, Takes DEF LastN, KeepsRest, PoolBound, Types
  <2> QED
    BY <1>2, <2>1 DEF LastN, KeepsRest, Types, ReportsOnce, Reported, ClosesInOrder,
                      Mains, Booting, Free
<1>3. CASE LastNRow
  BY <1>3, AppAssumption DEF LastNRow, KeepsRest, Types, ReportsOnce, Reported,
              PoolBound, ClosesInOrder, Mains, Booting
<1>4. CASE GetByUID
  <2>1. PoolBound'
    BY <1>4, Takes, GivesBack DEF GetByUID, KeepsRest, PoolBound, Types
  <2>2. Types'
    BY <1>4 DEF GetByUID, KeepsRest, Types, Mains, Booting
  <2> QED
    BY <1>4, <2>1, <2>2 DEF GetByUID, KeepsRest, ReportsOnce, Reported,
                      ClosesInOrder, Booting, Types, Mains
<1>5. CASE LastNFails \/ StartBoth
  <2>1. RunStarts /\ main \in Booting /\ main # "boot"
    BY <1>5 DEF LastNFails, StartBoth, Booting
  <2>2. PoolBound'
    BY <2>1, NoneInUse DEF RunStarts, PoolBound, Types
  <2>3. Types' /\ ReportsOnce'
    BY <2>1 DEF RunStarts, Types, ReportsOnce, Reported, Mains, Booting
  <2>4. ClosesInOrder'
    BY <2>1 DEF RunStarts, ClosesInOrder, Booting
  <2> QED
    BY <2>2, <2>3, <2>4
<1>6. CASE StopWaiting
  <2>1. errCh' \in Nat /\ errCh' <= errCh
    BY <1>6 DEF StopWaiting, Types
  <2>2. Types'
    BY <1>6, <2>1 DEF StopWaiting, Types, Mains
  <2>3. ReportsOnce'
    BY <1>6, <2>1 DEF StopWaiting, Types, ReportsOnce, Reported, Booting
  <2>4. PoolBound' /\ ClosesInOrder'
    BY <1>6 DEF StopWaiting, PoolBound, ClosesInOrder
  <2> QED
    BY <2>2, <2>3, <2>4
<1>7. CASE ShutdownEnds \/ CloseConsumer
  BY <1>7 DEF ShutdownEnds, CloseConsumer, Types, ReportsOnce, Reported,
              PoolBound, ClosesInOrder, Mains, Booting
<1>8. CASE Cleanup \/ ExitMain
  BY <1>8 DEF Cleanup, ExitMain, Types, ReportsOnce, Reported, PoolBound,
              ClosesInOrder, Mains, Booting
<1> QED
  BY <1>1, <1>2, <1>3, <1>4, <1>5, <1>6, <1>7, <1>8 DEF MainStep

\* The consumer's goroutine and the server's, which report.
LEMMA GoroutinesKeepAInv ==
    ASSUME AInv, ConsumerStep \/ ServerStep PROVE AInv'
<1> USE DEF AInv, config
<1>1. CASE ConsumerWorks
  <2>1. PoolBound'
    BY <1>1, Takes DEF ConsumerWorks, PoolBound, Types
  <2>2. Types' /\ ReportsOnce' /\ ClosesInOrder'
    BY <1>1 DEF ConsumerWorks, Types, ReportsOnce, Reported, ClosesInOrder
  <2> QED
    BY <2>1, <2>2
<1>2. CASE ConsumerSaved
  <2>1. PoolBound'
    BY <1>2, GivesBack DEF ConsumerSaved, PoolBound, Types
  <2>2. Types' /\ ReportsOnce' /\ ClosesInOrder'
    BY <1>2 DEF ConsumerSaved, Types, ReportsOnce, Reported, ClosesInOrder
  <2> QED
    BY <2>1, <2>2
<1>3. CASE ConsumerReturns
  <2>1. Types'
    BY <1>3 DEF ConsumerReturns, Types
  <2>2. ReportsOnce'
    BY <1>3 DEF ConsumerReturns, Types, ReportsOnce, Reported
  <2>3. PoolBound' /\ ClosesInOrder'
    BY <1>3 DEF ConsumerReturns, PoolBound, ClosesInOrder
  <2> QED
    BY <2>1, <2>2, <2>3
<1>4. CASE Serve \/ ServerClosed
  <2>1. main \notin Booting /\ Reported(server) <= Reported(server')
    BY <1>4 DEF Serve, ServerClosed, ReportsOnce, Reported
  <2>2. Types'
    BY <1>4 DEF Serve, ServerClosed, Types
  <2>3. ReportsOnce'
    <3>1. Reported(server) \in Nat /\ Reported(server') \in Nat
          /\ Reported(consumer) \in Nat
      BY DEF Reported
    <3>2. main' = main /\ errCh' = errCh /\ consumer' = consumer
      BY <1>4 DEF Serve, ServerClosed
    <3> QED
      BY <2>1, <3>1, <3>2 DEF ReportsOnce, Types
  <2>4. PoolBound' /\ ClosesInOrder'
    BY <1>4 DEF Serve, ServerClosed, PoolBound, ClosesInOrder
  <2> QED
    BY <2>2, <2>3, <2>4
<1>5. CASE ServerFails
  <2>1. Types'
    <3>1. errCh' \in Nat
      BY <1>5 DEF ServerFails, Types
    <3>2. accepting' \in BOOLEAN /\ ctxDone' \in BOOLEAN
      BY <1>5, Zenon DEF ServerFails, Types
    <3> QED
      BY <1>5, <3>1, <3>2 DEF ServerFails, Types
  <2>2. ReportsOnce'
    <3>1. Reported(server) = 0 /\ Reported(server') = 1 /\ Reported(consumer) \in Nat
      BY <1>5 DEF ServerFails, Reported
    <3>2. main' = "wait" /\ errCh' = errCh + 1 /\ consumer' = consumer
      BY <1>5 DEF ServerFails
    <3>3. main' \notin Booting
      BY <3>2 DEF Booting
    <3> QED
      BY <3>1, <3>2, <3>3 DEF ReportsOnce, Types
  <2>3. PoolBound' /\ ClosesInOrder'
    BY <1>5 DEF ServerFails, PoolBound, ClosesInOrder
  <2> QED
    BY <2>1, <2>2, <2>3
<1> QED
  BY <1>1, <1>2, <1>3, <1>4, <1>5 DEF ConsumerStep, ServerStep

\* The handlers.
LEMMA HandlersKeepAInv ==
    ASSUME AInv, NEW r \in Requests, Accept(r) \/ Query(r) \/ Answer(r)
    PROVE  AInv'
<1> USE DEF AInv, config
<1>1. CASE Accept(r)
  BY <1>1 DEF Accept, Types, ReportsOnce, Reported, PoolBound, ClosesInOrder
<1>2. CASE Query(r)
  <2>1. PoolBound'
    BY <1>2, Takes DEF Query, PoolBound, Types
  <2>2. Types' /\ ReportsOnce' /\ ClosesInOrder'
    BY <1>2 DEF Query, Types, ReportsOnce, Reported, ClosesInOrder
  <2> QED
    BY <2>1, <2>2
<1>3. CASE Answer(r)
  <2>1. PoolBound'
    BY <1>3, GivesBack DEF Answer, PoolBound, Types
  <2>2. Types' /\ ReportsOnce' /\ ClosesInOrder'
    BY <1>3 DEF Answer, Types, ReportsOnce, Reported, ClosesInOrder
  <2> QED
    BY <2>1, <2>2
<1> QED
  BY <1>1, <1>2, <1>3

LEMMA NextAInv == AInv /\ [Next]_vars => AInv'
<1> SUFFICES ASSUME AInv, [Next]_vars PROVE AInv'
  OBVIOUS
<1>1. CASE BootFails \/ LastNFails \/ MainStep
  BY <1>1, MainKeepsAInv
<1>2. CASE ConsumerStep \/ ServerStep
  BY <1>2, GoroutinesKeepAInv
<1>3. CASE \E r \in Requests : Accept(r) \/ Query(r) \/ Answer(r)
  BY <1>3, HandlersKeepAInv
<1>4. CASE Signal
  BY <1>4 DEF Signal, AInv, config, Types, ReportsOnce, Reported, PoolBound,
              ClosesInOrder
<1>5. CASE Exited \/ UNCHANGED vars
  BY <1>5 DEF Exited, vars, config, AInv, Types, ReportsOnce, Reported,
              PoolBound, ClosesInOrder
<1> QED
  BY <1>1, <1>2, <1>3, <1>4, <1>5 DEF Next

LEMMA Invariance == Spec => []AInv
BY InitAInv, NextAInv, PTL DEF Spec

\* The types: Run's channel of two holds every report, and no more connections
\* are in use than the pool has.
THEOREM TypeCorrect == Spec => []TypeOK
<1>1. AInv => TypeOK
  BY DEF AInv, Types, ReportsOnce, Reported, PoolBound, TypeOK
<1> QED
  BY <1>1, Invariance, PTL

\* The pool starts to close only after the listener and the reader are closed.
THEOREM ClosedLast == Spec => []PoolClosedLast
<1>1. AInv => PoolClosedLast
  BY DEF AInv, ClosesInOrder, PoolClosedLast
<1> QED
  BY <1>1, Invariance, PTL
-----------------------------------------------------------------------------
(* What the warm-up and the end of the process wait for.                   *)

\* Before Run starts nobody but the warm-up uses the pool: LastN's rows hold one
\* connection and the order being read another.
OnlyRowsHold ==
    main \in Booting =>
        /\ \A r \in Requests : request[r] = "none"
        /\ main \in {"boot", "warmup"} => users = {}
        /\ main = "rows" => users = {"rows"}
        /\ main = "getByUID" => users = {"rows"} \/ users = {"rows", "row"}
        /\ main # "boot" => pool = "open"

HInv == AInv /\ OnlyRowsHold /\ UsersEnd

LEMMA InitHInv == Init => HInv
<1> SUFFICES ASSUME Init PROVE HInv
  OBVIOUS
<1>1. AInv
  BY InitAInv
<1>2. OnlyRowsHold /\ UsersEnd
  BY DEF Init, OnlyRowsHold, UsersEnd, Booting
<1> QED
  BY <1>1, <1>2 DEF HInv

\* Nothing else runs beside the warm-up: of the other steps it meets a signal.
LEMMA BootsAlone ==
    ASSUME HInv, main \in Booting, [Next]_vars
    PROVE  \/ BootFails \/ LastNFails \/ MainStep
           \/ Signal \/ UNCHANGED vars
<1>1. consumer = "off" /\ server = "off" /\ ~accepting /\ main # "exited"
  BY DEF HInv, AInv, ReportsOnce, ClosesInOrder, Booting
<1>2. ~ConsumerStep /\ ~ServerStep
  BY <1>1 DEF ConsumerStep, ServerStep, ConsumerWorks, ConsumerSaved,
              ConsumerReturns, Serve, ServerFails, ServerClosed
<1>3. \A r \in Requests : request[r] = "none"
  BY DEF HInv, OnlyRowsHold
<1>4. ASSUME NEW r \in Requests PROVE ~(Accept(r) \/ Query(r) \/ Answer(r))
  BY <1>1, <1>3 DEF Accept, Query, Answer
<1> QED
  BY <1>1, <1>2, <1>4 DEF Next, Exited

LEMMA BootKeepsHolds ==
    ASSUME HInv, main \in Booting, [Next]_vars
    PROVE  OnlyRowsHold' /\ UsersEnd'
<1> USE DEF config
<1>1. CASE BootFails \/ OpenPool
  BY <1>1 DEF BootFails, OpenPool, HInv, OnlyRowsHold, UsersEnd, Booting
<1>2. CASE LastN \/ LastNRow
  BY <1>2 DEF LastN, LastNRow, KeepsRest, HInv, OnlyRowsHold, UsersEnd, Booting
<1>3. CASE GetByUID
  <2>1. main' \in {"rows", "getByUID"} /\ request' = request /\ pool' = pool
    BY <1>3 DEF GetByUID, KeepsRest
  <2>2. users = {"rows"} \/ users = {"rows", "row"}
    BY <1>3 DEF GetByUID, HInv, OnlyRowsHold
  <2>3. CASE users = {"rows"}
    <3>1. users' = {"rows", "row"} /\ main' = "getByUID"
      BY <1>3, <2>3 DEF GetByUID
    <3> QED
      BY <1>3, <2>1, <3>1 DEF GetByUID, HInv, OnlyRowsHold, UsersEnd, Booting
  <2>4. CASE users = {"rows", "row"}
    <3>1. users' = {"rows"} /\ main' = "rows"
      BY <1>3, <2>4 DEF GetByUID
    <3> QED
      BY <1>3, <2>1, <3>1 DEF GetByUID, HInv, OnlyRowsHold, UsersEnd, Booting
  <2> QED
    BY <2>2, <2>3, <2>4
<1>4. CASE LastNFails \/ StartBoth
  BY <1>4 DEF LastNFails, StartBoth, RunStarts, OnlyRowsHold, UsersEnd, Booting
<1>5. CASE StopWaiting \/ ShutdownEnds \/ CloseConsumer \/ Cleanup \/ ExitMain
  BY <1>5 DEF StopWaiting, ShutdownEnds, CloseConsumer, Cleanup, ExitMain, Booting
<1>6. CASE Signal \/ UNCHANGED vars
  BY <1>6 DEF Signal, vars, HInv, OnlyRowsHold, UsersEnd, Booting
<1> QED
  BY <1>1, <1>2, <1>3, <1>4, <1>5, <1>6, BootsAlone DEF MainStep

LEMMA RunKeepsHolds ==
    ASSUME HInv, main \notin Booting, [Next]_vars
    PROVE  OnlyRowsHold' /\ UsersEnd'
<1> USE DEF config
<1>1. ~(BootFails \/ LastNFails \/ OpenPool \/ LastN \/ LastNRow \/ GetByUID \/ StartBoth)
  BY DEF BootFails, LastNFails, OpenPool, LastN, LastNRow, GetByUID, StartBoth, Booting
<1>2. CASE StopWaiting \/ ShutdownEnds \/ CloseConsumer \/ Cleanup \/ ExitMain
  BY <1>2 DEF StopWaiting, ShutdownEnds, CloseConsumer, Cleanup, ExitMain,
              HInv, OnlyRowsHold, UsersEnd, Booting
<1>3. CASE ConsumerStep
  BY <1>3 DEF ConsumerStep, ConsumerWorks, ConsumerSaved, ConsumerReturns,
              HInv, OnlyRowsHold, UsersEnd, Booting
<1>4. CASE ServerStep
  BY <1>4 DEF ServerStep, Serve, ServerFails, ServerClosed,
              HInv, OnlyRowsHold, UsersEnd, Booting
<1>5. ASSUME NEW r \in Requests, Accept(r) \/ Query(r) \/ Answer(r)
      PROVE  OnlyRowsHold' /\ UsersEnd'
  BY <1>5 DEF Accept, Query, Answer, HInv, AInv, Types, OnlyRowsHold, UsersEnd, Booting
<1>6. CASE Signal \/ Exited \/ UNCHANGED vars
  BY <1>6 DEF Signal, Exited, vars, HInv, OnlyRowsHold, UsersEnd, Booting
<1> QED
  BY <1>1, <1>2, <1>3, <1>4, <1>5, <1>6 DEF Next, MainStep

LEMMA HoldsInvariance == Spec => []HInv
<1>1. HInv /\ [Next]_vars => HInv'
  BY NextAInv, BootKeepsHolds, RunKeepsHolds DEF HInv
<1> QED
  BY <1>1, InitHInv, PTL DEF Spec

\* Whatever the sizes of the pool and of the warm-up, a read of it waits for a
\* connection only in a pool of one, where it waits for that of LastN's rows.
THEOREM ReadsWaitOnlyAlone == Spec => []WarmUpFindsConnection
<1>1. HInv => WarmUpFindsConnection
  <2> SUFFICES ASSUME HInv PROVE WarmUpFindsConnection
    OBVIOUS
  <2>1. maxConns \in Nat \ {0}
    BY DEF HInv, AInv, Types
  <2>2. Cardinality({}) = 0 /\ Cardinality({"rows"}) = 1
    BY FS_EmptySet, FS_Singleton
  <2>3. main = "warmup" => Free
    BY <2>1, <2>2 DEF HInv, OnlyRowsHold, Booting, Free
  <2>4. main = "getByUID" /\ "row" \notin users => pool = "open" /\ users = {"rows"}
    BY DEF HInv, OnlyRowsHold, Booting
  <2>5. main = "getByUID" /\ "row" \notin users => (Free <=> maxConns > 1)
    BY <2>1, <2>2, <2>4 DEF Free
  <2> QED
    BY <2>3, <2>5 DEF WarmUpFindsConnection
<1> QED
  BY <1>1, HoldsInvariance, PTL

\* What is ahead at each place of the warm-up.
LEMMA AheadIs ==
    /\ main = "warmup" => Ahead = 2
    /\ main = "rows" => Ahead = 1
    /\ main = "getByUID" => Ahead = IF "row" \in users THEN 2 ELSE 3
    /\ main = "wait" => Ahead = 0
<1>1. main = "warmup" => Ahead = 2
  BY DEF Ahead
<1>2. main = "rows" => Ahead = 1
  BY DEF Ahead
<1>3. main = "getByUID" => Ahead = IF "row" \in users THEN 2 ELSE 3
  BY DEF Ahead
<1>4. main = "wait" => Ahead = 0
  BY DEF Ahead
<1> QED
  BY <1>1, <1>2, <1>3, <1>4

LEMMA AheadIsNext ==
    /\ main' = "warmup" => Ahead' = 2
    /\ main' = "rows" => Ahead' = 1
    /\ main' = "getByUID" => Ahead' = IF "row" \in users' THEN 2 ELSE 3
    /\ main' = "wait" => Ahead' = 0
<1>1. main' = "warmup" => Ahead' = 2
  BY DEF Ahead
<1>2. main' = "rows" => Ahead' = 1
  BY DEF Ahead
<1>3. main' = "getByUID" => Ahead' = IF "row" \in users' THEN 2 ELSE 3
  BY DEF Ahead
<1>4. main' = "wait" => Ahead' = 0
  BY DEF Ahead
<1> QED
  BY <1>1, <1>2, <1>3, <1>4

\* Each step of the warm-up, also one that fails, leaves fewer to take, and no
\* other step comes in between or sets it back.
THEOREM RowsRunOut == Spec => WarmUpAdvances
<1>1. HInv /\ [Next]_vars =>
         (main \in Booting \ {"boot"} =>
            \/ (MainStep \/ LastNFails) /\ ToDo' < ToDo
            \/ UNCHANGED <<main, ToDo>>)
  <2> SUFFICES ASSUME HInv, [Next]_vars, main \in Booting \ {"boot"}
               PROVE  \/ (MainStep \/ LastNFails) /\ ToDo' < ToDo
                      \/ UNCHANGED <<main, ToDo>>
    OBVIOUS
  <2>1. left \in Nat
    BY AppAssumption DEF HInv, AInv, Types
  <2>2. CASE LastN
    <3>1. Ahead = 2 /\ Ahead' = 1 /\ left' = left
      BY <2>2, AheadIs, AheadIsNext DEF LastN
    <3> QED
      BY <2>1, <2>2, <3>1 DEF MainStep, ToDo
  <2>3. CASE LastNRow
    <3>1. users = {"rows"} /\ users' = users
      BY <2>3 DEF LastNRow, KeepsRest, HInv, OnlyRowsHold, Booting
    <3>2. Ahead = 1 /\ Ahead' = 3
      BY <2>3, <3>1, AheadIs, AheadIsNext DEF LastNRow
    <3>3. left \in Nat \ {0} /\ left' = left - 1
      BY <2>1, <2>3 DEF LastNRow
    <3> QED
      BY <2>3, <3>2, <3>3 DEF MainStep, ToDo
  <2>4. CASE GetByUID
    <3>1. left' = left
      BY <2>4 DEF GetByUID
    <3>2. CASE "row" \in users
      <4>1. Ahead = 2 /\ Ahead' = 1
        BY <2>4, <3>2, AheadIs, AheadIsNext DEF GetByUID
      <4> QED
        BY <2>1, <2>4, <3>1, <4>1 DEF MainStep, ToDo
    <3>3. CASE "row" \notin users
      <4>1. Ahead = 3 /\ Ahead' = 2
        BY <2>4, <3>3, AheadIs, AheadIsNext DEF GetByUID
      <4> QED
        BY <2>1, <2>4, <3>1, <4>1 DEF MainStep, ToDo
    <3> QED
      BY <3>2, <3>3
  <2>5. CASE LastNFails \/ StartBoth
    <3>1. main \in {"warmup", "rows", "getByUID"} /\ main' = "wait" /\ left' = left
      BY <2>5 DEF LastNFails, StartBoth, RunStarts, config
    <3>2. Ahead \in 1 .. 3 /\ Ahead' = 0
      BY <3>1, AheadIs, AheadIsNext
    <3> QED
      BY <2>1, <2>5, <3>1, <3>2 DEF MainStep, ToDo
  <2>6. CASE BootFails \/ OpenPool \/ StopWaiting \/ ShutdownEnds
             \/ CloseConsumer \/ Cleanup \/ ExitMain
    BY <2>6 DEF BootFails, OpenPool, StopWaiting, ShutdownEnds, CloseConsumer,
                Cleanup, ExitMain, Booting
  <2>7. CASE Signal \/ UNCHANGED vars
    <3>1. main' = main /\ users' = users /\ left' = left
      BY <2>7 DEF Signal, vars, config
    <3>2. Ahead' = Ahead
      BY <3>1 DEF Ahead
    <3> QED
      BY <3>1, <3>2 DEF ToDo
  <2>8. BootFails \/ LastNFails \/ MainStep \/ Signal \/ UNCHANGED vars
    BY BootsAlone DEF Booting
  <2> QED
    BY <2>2, <2>3, <2>4, <2>5, <2>6, <2>7, <2>8 DEF MainStep
<1> QED
  BY <1>1, HoldsInvariance, PTL DEF Spec, WarmUpAdvances

\* Who holds a connection while Run, the shutdown or pool.Close wait is a save
\* or a request that a timeout ends.
THEOREM HoldersEnd == Spec => []UsersEnd
<1>1. HInv => UsersEnd
  BY DEF HInv
<1> QED
  BY <1>1, HoldsInvariance, PTL

\* A closing pool only ever gets emptier.
THEOREM OnlyDrains == Spec => PoolDrains
<1>1. AInv /\ [Next]_vars => (pool \in {"closing", "closed"} => users' \subseteq users)
  <2> SUFFICES ASSUME AInv, [Next]_vars, pool \in {"closing", "closed"}
               PROVE  users' \subseteq users
    OBVIOUS
  <2>1. ~Free /\ main \in {"closePool", "exited"}
    BY DEF AInv, ClosesInOrder, Free
  <2>2. CASE BootFails \/ LastNFails \/ MainStep
    BY <2>1, <2>2 DEF BootFails, LastNFails, MainStep, OpenPool, LastN, LastNRow,
       GetByUID, StartBoth, StopWaiting, ShutdownEnds, CloseConsumer, Cleanup, ExitMain
  <2>3. CASE ConsumerStep \/ ServerStep
    BY <2>1, <2>3 DEF ConsumerStep, ServerStep, ConsumerWorks, ConsumerSaved,
       ConsumerReturns, Serve, ServerFails, ServerClosed
  <2>4. ASSUME NEW r \in Requests, Accept(r) \/ Query(r) \/ Answer(r)
        PROVE  users' \subseteq users
    BY <2>1, <2>4 DEF Accept, Query, Answer
  <2>5. CASE Signal \/ Exited \/ UNCHANGED vars
    BY <2>5 DEF Signal, Exited, vars
  <2> QED
    BY <2>2, <2>3, <2>4, <2>5 DEF Next
<1> QED
  BY <1>1, Invariance, PTL DEF Spec, PoolDrains
=============================================================================
