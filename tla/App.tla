-------------------------------- MODULE App ---------------------------------
(***************************************************************************)
(* The life of the process (cmd/server, internal/app): Bootstrap, then     *)
(* App.Run with the goroutines of the consumer and of the HTTP server,     *)
(* then the cleanup and the end of main.  What the consumer and the        *)
(* handlers do is reduced to whether they run and hold a connection of the *)
(* pool.                                                                   *)
(***************************************************************************)
EXTENDS Integers, FiniteSets

CONSTANTS
    Requests,   \* HTTP requests
    MaxConns,   \* bound: the largest configured pool
    MaxRows     \* bound: the most orders that LastN lists

ASSUME AppAssumption == MaxConns \in Nat \ {0} /\ MaxRows \in Nat

VARIABLES
    main,      \* where main, Bootstrap and Run are
    ctxDone,   \* SIGTERM has cancelled the context
    errCh,     \* errors in Run's channel
    consumer,  \* the goroutine of Consumer.Run
    server,    \* the goroutine of ListenAndServe
    accepting, \* the listener is open
    reader,    \* the Kafka reader: open or closed
    pool,      \* the pool: none, open, closing (refuses new users), closed
    request,   \* the state of each request
    users,     \* who holds a connection of the pool
    maxConns,  \* the size of the pool
    left       \* rows that LastN has still to read

config == <<maxConns, left>>
vars   == <<main, ctxDone, errCh, consumer, server, accepting, reader, pool,
            request, users, config>>

Booting == {"boot", "warmup", "rows", "getByUID"}
Mains == Booting \cup {"wait", "shutdown", "closeConsumer", "cleanup",
                        "closePool", "exited"}

Up == main # "exited"

Init == /\ main = "boot"
        /\ ctxDone = FALSE
        /\ errCh = 0
        /\ consumer = "off" /\ server = "off"
        /\ accepting = FALSE
        /\ reader = "none" /\ pool = "none"
        /\ request = [r \in Requests |-> "none"]
        /\ users = {}
        /\ maxConns \in 1 .. MaxConns
        /\ left \in 0 .. MaxRows

\* Another connection can be taken.
Free == pool = "open" /\ Cardinality(users) < maxConns

\* OS: SIGINT or SIGTERM, once NotifyContext is set.
Signal == /\ Up /\ ~ctxDone
          /\ ctxDone' = TRUE
          /\ UNCHANGED <<main, errCh, consumer, server, accepting, reader,
                         pool, request, users, config>>

\* MAIN: Bootstrap cannot open the pool; main prints and returns.
BootFails == /\ main = "boot"
             /\ main' = "exited"
             /\ UNCHANGED <<ctxDone, errCh, consumer, server, accepting,
                            reader, pool, request, users, config>>

\* MAIN: Bootstrap opens the pool.
OpenPool == /\ main = "boot"
            /\ pool' = "open"
            /\ main' = "warmup"
            /\ UNCHANGED <<ctxDone, errCh, consumer, server, accepting,
                           reader, request, users, config>>

\* What a step of the warm-up leaves alone.
KeepsRest == UNCHANGED <<ctxDone, errCh, consumer, server, accepting, reader,
                         pool, request, maxConns>>

\* MAIN: LastN asks for the latest order_uids; its rows hold a connection.
LastN == /\ main = "warmup" /\ Free
         /\ users' = users \cup {"rows"}
         /\ main' = "rows"
         /\ KeepsRest /\ UNCHANGED left

\* MAIN: the next row: its order is read while the rows stay open.
LastNRow == /\ main = "rows" /\ left > 0
            /\ left' = left - 1
            /\ main' = "getByUID"
            /\ KeepsRest /\ UNCHANGED users

\* Mutant: the connection of a read is never given back: the pool is one less.
GetByUID_Leaks ==
    /\ main = "getByUID" /\ Free
    /\ maxConns' = maxConns - 1
    /\ main' = "rows"
    /\ UNCHANGED <<ctxDone, errCh, consumer, server, accepting, reader, pool,
                   request, users, left>>

\* MAIN: GetByUID takes a connection, gives it back, and LastN goes on.
GetByUID == /\ main = "getByUID"
            /\ IF "row" \in users
               THEN users' = users \ {"row"} /\ main' = "rows"
               ELSE Free /\ users' = users \cup {"row"} /\ UNCHANGED main
            /\ KeepsRest /\ UNCHANGED left

\* Bootstrap makes the reader and returns; Run starts both goroutines.
RunStarts == /\ users' = {}
             /\ reader' = "open"
             /\ consumer' = "idle" /\ server' = "starting"
             /\ main' = "wait"
             /\ UNCHANGED <<ctxDone, errCh, accepting, pool, request, config>>

\* MAIN: the warm-up is switched off, finds no further row, or a query of it
\* fails because the context is cancelled; what it held is given back.
StartBoth == /\ \/ main = "warmup"
                \/ main = "rows" /\ left = 0
                \/ main = "getByUID" /\ ctxDone
             /\ RunStarts

\* MAIN: a query of LastN fails for another reason; Bootstrap only warns.
LastNFails == main \in {"rows", "getByUID"} /\ RunStarts

\* Mutant: Run waits for the context only.
StopWaiting_CtxOnly ==
    /\ main = "wait" /\ ctxDone
    /\ main' = "shutdown"
    /\ accepting' = FALSE
    /\ UNCHANGED <<ctxDone, errCh, consumer, server, reader, pool, request, users, config>>

\* Mutant: the HTTP server is not shut down.
StopWaiting_NoShutdown ==
    /\ main = "wait"
    /\ \/ ctxDone /\ UNCHANGED errCh
       \/ errCh > 0 /\ errCh' = errCh - 1
    /\ main' = "closeConsumer"
    /\ UNCHANGED <<ctxDone, accepting, consumer, server, reader, pool, request, users, config>>

\* MAIN: Run's select: the context is cancelled, or a goroutine reports.
StopWaiting == /\ main = "wait"
               /\ \/ ctxDone /\ UNCHANGED errCh
                  \/ errCh > 0 /\ errCh' = errCh - 1
               /\ main' = "shutdown"
               /\ accepting' = FALSE
               /\ UNCHANGED <<ctxDone, consumer, server, reader, pool,
                              request, users, config>>

\* MAIN: Shutdown returns when no request is served, or at gracefulTimeout.
ShutdownEnds == /\ main = "shutdown"
                /\ main' = "closeConsumer"
                /\ UNCHANGED <<ctxDone, errCh, consumer, server, accepting,
                               reader, pool, request, users, config>>

\* MAIN: Run closes the reader and returns nil.
CloseConsumer == /\ main = "closeConsumer"
                 /\ reader' = "closed"
                 /\ main' = "cleanup"
                 /\ UNCHANGED <<ctxDone, errCh, consumer, server, accepting,
                                pool, request, users, config>>

\* MAIN: cleanup closes the reader once more, then the pool, which refuses
\* new users and waits for the connections in use.
Cleanup == /\ main = "cleanup"
           /\ reader' = "closed"
           /\ pool' = "closing"
           /\ main' = "closePool"
           /\ UNCHANGED <<ctxDone, errCh, consumer, server, accepting,
                          request, users, config>>

\* MAIN: pool.Close returns, and main with it; no goroutine is waited for.
ExitMain == /\ main = "closePool" /\ users = {}
            /\ pool' = "closed"
            /\ main' = "exited"
            /\ UNCHANGED <<ctxDone, errCh, consumer, server, accepting,
                           reader, request, users, config>>
-----------------------------------------------------------------------------
\* CONSUMER: takes a message and, when one is free, a connection to save its
\* order; where it waits for one in vain it is as it was.
ConsumerWorks == /\ Up /\ consumer = "idle" /\ Free
                 /\ consumer' = "saving"
                 /\ users' = users \cup {"consumer"}
                 /\ UNCHANGED <<main, ctxDone, errCh, server, accepting,
                                reader, pool, request, config>>

\* CONSUMER: the save ends, at the latest at processTimeout.
ConsumerSaved == /\ Up /\ consumer = "saving"
                 /\ consumer' = "idle"
                 /\ users' = users \ {"consumer"}
                 /\ UNCHANGED <<main, ctxDone, errCh, server, accepting,
                                reader, pool, request, config>>

\* Mutant: a failed fetch is reported and Run goes on.
ConsumerReturns_GoesOn ==
    /\ Up /\ consumer = "idle"
    /\ errCh' = errCh + 1
    /\ UNCHANGED <<main, ctxDone, consumer, server, accepting, reader, pool,
                   request, users, config>>

\* CONSUMER: Run returns the context's error and its goroutine reports it; a
\* closed reader alone only makes Run retry.
ConsumerReturns == /\ Up /\ consumer = "idle" /\ ctxDone
                   /\ consumer' = "returned"
                   /\ errCh' = errCh + 1
                   /\ UNCHANGED <<main, ctxDone, server, accepting, reader,
                                  pool, request, users, config>>

\* HTTP: ListenAndServe listens, unless Shutdown came first.
Serve == /\ Up /\ server = "starting"
         /\ IF main = "wait"
            THEN server' = "serving" /\ accepting' = TRUE
            ELSE server' = "returned" /\ UNCHANGED accepting
         /\ UNCHANGED <<main, ctxDone, errCh, consumer, reader, pool, request,
                        users, config>>

\* HTTP: ListenAndServe fails, and its goroutine reports it.
ServerFails == /\ Up /\ server \in {"starting", "serving"} /\ main = "wait"
               /\ server' = "returned"
               /\ accepting' = FALSE
               /\ errCh' = errCh + 1
               /\ UNCHANGED <<main, ctxDone, consumer, reader, pool, request,
                              users, config>>

\* HTTP: ListenAndServe returns ErrServerClosed, which is not reported.
ServerClosed == /\ Up /\ server = "serving" /\ ~accepting
                /\ server' = "returned"
                /\ UNCHANGED <<main, ctxDone, errCh, consumer, accepting,
                               reader, pool, request, users, config>>

\* HANDLER: a request is accepted.
Accept(r) == /\ Up /\ accepting /\ request[r] = "none"
             /\ request' = [request EXCEPT ![r] = "served"]
             /\ UNCHANGED <<main, ctxDone, errCh, consumer, server, accepting,
                            reader, pool, users, config>>

\* HANDLER: a cache miss takes a connection when one is free.
Query(r) == /\ Up /\ request[r] = "served" /\ Free /\ r \notin users
            /\ users' = users \cup {r}
            /\ UNCHANGED <<main, ctxDone, errCh, consumer, server, accepting,
                           reader, pool, request, config>>

\* HANDLER: the answer is written, at the latest at reqTimeout.
Answer(r) == /\ Up /\ request[r] = "served"
             /\ request' = [request EXCEPT ![r] = "answered"]
             /\ users' = users \ {r}
             /\ UNCHANGED <<main, ctxDone, errCh, consumer, server, accepting,
                            reader, pool, config>>

Exited == main = "exited" /\ UNCHANGED vars

MainStep == \/ OpenPool \/ LastN \/ LastNRow \/ GetByUID \/ StartBoth \/ StopWaiting \/ ShutdownEnds
            \/ CloseConsumer \/ Cleanup \/ ExitMain
ConsumerStep == ConsumerWorks \/ ConsumerSaved \/ ConsumerReturns
ServerStep   == Serve \/ ServerFails \/ ServerClosed

Next == \/ Signal \/ BootFails \/ LastNFails \/ MainStep \/ ConsumerStep \/ ServerStep
        \/ \E r \in Requests : Accept(r) \/ Query(r) \/ Answer(r)
        \/ Exited

Spec == Init /\ [][Next]_vars

LiveSpec == Spec /\ WF_vars(MainStep) /\ WF_vars(ConsumerSaved)
                 /\ WF_vars(ServerClosed \/ Serve)
                 /\ \A r \in Requests : WF_vars(Answer(r))
-----------------------------------------------------------------------------
(* Properties.                                                             *)

\* The types; Run's channel of two places holds every report of its goroutines,
\* so that neither blocks on a report nobody reads any more.
TypeOK == /\ main \in Mains
          /\ ctxDone \in BOOLEAN
          /\ errCh \in 0 .. 2
          /\ consumer \in {"off", "idle", "saving", "returned"}
          /\ server \in {"off", "starting", "serving", "returned"}
          /\ accepting \in BOOLEAN
          /\ reader \in {"none", "open", "closed"}
          /\ pool \in {"none", "open", "closing", "closed"}
          /\ request \in [Requests -> {"none", "served", "answered"}]
          /\ users \subseteq Requests \cup {"consumer", "rows", "row"}
          /\ Cardinality(users) <= maxConns
          /\ maxConns \in 1 .. MaxConns /\ left \in 0 .. MaxRows

\* The pool starts to close only when the listener and the reader are closed.
\* It says nothing of what was let in before: the consumer's goroutine, which
\* Run does not wait for, and a request that outlived Shutdown's timeout may
\* still ask the closing pool, and are refused.
PoolClosedLast == pool \in {"closing", "closed"}
                     => ~accepting /\ reader = "closed"

\* SIGTERM or a failed HTTP server end the process, whatever requests and
\* saves are under way, in a bounded number of timeouts.
ProcessEnds == /\ ctxDone /\ main \notin {"boot", "exited"} ~> main = "exited"
               /\ server = "returned" ~> main = "exited"

\* The warm-up ends by itself when the pool has a connection beside the one of
\* LastN's rows, or there is no row; with a single connection GetByUID waits
\* for the one that LastN holds until a signal comes.
BootstrapEnds ==
    /\ main = "warmup" /\ (maxConns > 1 \/ left = 0) ~> main \notin Booting
    /\ main \in Booting /\ ctxDone ~> main \notin Booting

\* What BootstrapEnds rests on: LastN finds a connection, and a read of an order
\* beside LastN's open rows finds one exactly when the pool has more than one.
WarmUpFindsConnection ==
    /\ main = "warmup" => Free
    /\ main = "getByUID" /\ "row" \notin users => (Free <=> maxConns > 1)

Ahead == CASE main = "warmup"   -> 2
           [] main = "rows"     -> 1
           [] main = "getByUID" -> IF "row" \in users THEN 2 ELSE 3
           [] OTHER             -> 0

\* A bound on the steps the warm-up has still to take: three a row.
ToDo == 3 * left + Ahead

\* Each step of the warm-up leaves fewer, and nothing that runs beside it more.
WarmUpAdvances ==
    [][(main \in Booting \ {"boot"}) =>
          \/ (MainStep \/ LastNFails) /\ ToDo' < ToDo
          \/ UNCHANGED <<main, ToDo>>]_vars

\* What ProcessEnds rests on: past Bootstrap only a save under way and requests
\* being served hold connections, and each ends by its timeout.
UsersEnd ==
    main \notin Booting =>
        \A x \in users : \/ x = "consumer" /\ consumer = "saving"
                         \/ x \in Requests /\ request[x] = "served"

\* Once cleanup closes the pool none is taken any more, so that the wait of
\* pool.Close for those in use ends.
PoolDrains == [][(pool \in {"closing", "closed"}) => users' \subseteq users]_vars
=============================================================================
