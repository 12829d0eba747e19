------------------------------ MODULE Consumer ------------------------------
(***************************************************************************)
(* The Kafka consumer of the order service (internal/kafka): the loop of   *)
(* Consumer.Run, one partition of the topic, the consumer group's          *)
(* committed offset, and the process the loop runs in.                     *)
(*                                                                         *)
(* The broker and the client library are modelled from how Run uses them:  *)
(* FetchMessage advances a position that only a new session (a start or a  *)
(* rebalance) sets back to the committed offset; CommitMessages stores the *)
(* offset after the message, whatever it was before.                       *)
(***************************************************************************)
EXTENDS Integers, Sequences, Backoff

CONSTANTS
    Kinds,          \* the kinds of message producers send
    StartOffset,    \* "first" or "last": where a group with no commit starts
    RetryInitial,   \* first interval between failed fetches
    RetryMax,       \* largest interval
    MaxLog,         \* bound: messages published
    MaxFaults,      \* bound: crashes, cancellations, broker and HTTP failures
    MaxRebalances   \* bound: group rebalances

\* "good" can be stored; "invalid" fails domain validation; "malformed" is not
\* strict JSON of an order; "unstorable" passes validation and is refused by
\* the database.
AllKinds == {"good", "invalid", "malformed", "unstorable"}

ASSUME KindsAssumption == Kinds \subseteq AllKinds
ASSUME StartAssumption == StartOffset \in {"first", "last"}
ASSUME RetryAssumption == /\ RetryInitial \in Nat \ {0}
                          /\ RetryMax \in Nat \ {0}
                          /\ 2 * RetryInitial <= MaxInt
                          /\ 2 * RetryMax <= MaxInt
ASSUME BoundsAssumption == /\ MaxLog \in Nat
                           /\ MaxFaults \in Nat
                           /\ MaxRebalances \in Nat

VARIABLES
    log,         \* the partition: the kind of the message at each offset
    committed,   \* the group's committed offset
    pos,         \* offset the reader delivers next
    closedAt,    \* what the log's length was when the reader was closed
    pc,          \* where Run is
    msg,         \* offset Run is working on
    retry,       \* Run's current fetch interval
    ctxDone,     \* the context given to Run is cancelled
    saved,       \* history: offsets whose order reached the database
    rejected,    \* history: offsets found invalid by SaveFromMessage
    failed,      \* history: offsets whose handling ended without a commit
    skipped,     \* history: offsets a session's start position passed over
    faults,      \* faults so far
    rebalances   \* rebalances so far

broker  == <<log, committed>>
reader  == <<pos, closedAt>>
loop    == <<pc, msg, retry, ctxDone>>
history == <<saved, rejected, failed, skipped>>
bounds  == <<faults, rebalances>>
vars    == <<broker, reader, loop, history, bounds>>

NoOffset == -1
Open     == -1

PCs == {"down", "fetch", "backoff", "handle", "stored", "commit", "pause",
        "returned"}

Kind(o) == log[o + 1]

Running == pc # "down"
Closed  == closedAt # Open

-----------------------------------------------------------------------------
Init == /\ log = << >>
        /\ committed = NoOffset
        /\ pos = 0
        /\ closedAt = Open
        /\ pc = "down"
        /\ msg = NoOffset
        /\ retry = RetryInitial
        /\ ctxDone = FALSE
        /\ saved = {} /\ rejected = {} /\ failed = {} /\ skipped = {}
        /\ faults = 0 /\ rebalances = 0

\* PRODUCER: append a message.
Publish(k) ==
    /\ Len(log) < MaxLog
    /\ log' = Append(log, k)
    /\ UNCHANGED <<committed, reader, loop, history, bounds>>

\* Mutant: the stored offset is taken for that of the last message processed.
ResumeAt_Past == IF committed # NoOffset THEN committed + 1
                 ELSE IF StartOffset = "first" THEN 0 ELSE Len(log)

\* Where a new session of the group starts reading.
ResumeAt == IF committed # NoOffset THEN committed
            ELSE IF StartOffset = "first" THEN 0 ELSE Len(log)

\* Mutant: a reader without a group starts from the first offset every time.
NewSession_NoGroup == pos' = 0 /\ UNCHANGED skipped

\* A session begins: the position comes from the broker, not from the loop.
NewSession ==
    /\ pos' = ResumeAt
    /\ skipped' = IF committed = NoOffset THEN skipped \cup (0 .. ResumeAt - 1)
                  ELSE skipped

\* BROKER: the group rebalances; the loop does not notice.
Rebalance ==
    /\ Running /\ ~Closed
    /\ rebalances < MaxRebalances
    /\ rebalances' = rebalances + 1
    /\ NewSession
    /\ UNCHANGED <<broker, closedAt, loop, saved, rejected, failed, faults>>
-----------------------------------------------------------------------------
(* The process.                                                            *)

\* PROCESS: start; NewConsumer, then Run up to its first FetchMessage.
Start ==
    /\ ~Running
    /\ NewSession
    /\ closedAt' = Open
    /\ pc' = "fetch"
    /\ msg' = NoOffset
    /\ retry' = RetryInitial
    /\ ctxDone' = FALSE
    /\ UNCHANGED <<broker, saved, rejected, failed, bounds>>

\* PROCESS: SIGTERM cancels the context.
Cancel ==
    /\ Running /\ ~ctxDone
    /\ faults < MaxFaults
    /\ faults' = faults + 1
    /\ ctxDone' = TRUE
    /\ UNCHANGED <<broker, reader, pc, msg, retry, history, rebalances>>

\* APP: Close once the context is cancelled, or after an HTTP failure that
\* leaves the context alive; Run is not waited for.
Close ==
    /\ Running /\ ~Closed
    /\ closedAt' = Len(log)
    /\ \/ ctxDone /\ UNCHANGED faults
       \/ ~ctxDone /\ faults < MaxFaults /\ faults' = faults + 1
    /\ UNCHANGED <<broker, pos, loop, history, rebalances>>

Halt == /\ pc' = "down"
        /\ msg' = NoOffset
        /\ UNCHANGED <<broker, reader, retry, ctxDone, history, rebalances>>

\* PROCESS: main returns once the reader is closed, wherever Run is.
Exit == Running /\ Closed /\ Halt /\ UNCHANGED faults

\* PROCESS: killed at any point.
Crash == /\ Running
         /\ faults < MaxFaults
         /\ faults' = faults + 1
         /\ Halt
-----------------------------------------------------------------------------
(* Run.                                                                    *)

Goto(l) == pc' = l

\* Mutant: ReadMessage, which commits what it delivers.
FetchOk_AutoCommits ==
    /\ pc = "fetch"
    /\ pos < (IF Closed THEN closedAt ELSE Len(log))
    /\ msg' = pos
    /\ pos' = pos + 1
    /\ committed' = pos + 1
    /\ retry' = RetryInitial
    /\ Goto("handle")
    /\ UNCHANGED <<log, closedAt, ctxDone, history, bounds>>

\* CONSUMER: FetchMessage returns a message; a closed reader still delivers
\* what it had buffered, and a cancelled context may lose against a message.
FetchOk ==
    /\ pc = "fetch"
    /\ pos < (IF Closed THEN closedAt ELSE Len(log))
    /\ msg' = pos
    /\ pos' = pos + 1
    /\ retry' = RetryInitial
    /\ Goto("handle")
    /\ UNCHANGED <<broker, closedAt, ctxDone, history, bounds>>

\* CONSUMER: FetchMessage blocks until there is a message.
FetchWaits ==
    /\ pc = "fetch" /\ ~Closed
    /\ pos = Len(log)
    /\ UNCHANGED vars

\* Mutant: an error of the broker ends Run.
FetchErr_Returns ==
    /\ pc = "fetch"
    /\ \/ Closed /\ UNCHANGED faults
       \/ ~Closed /\ faults < MaxFaults /\ faults' = faults + 1
    /\ Goto("returned")
    /\ UNCHANGED <<broker, reader, msg, retry, ctxDone, history, rebalances>>

\* CONSUMER: FetchMessage fails on the broker, or on a closed reader.
FetchErr ==
    /\ pc = "fetch"
    /\ \/ Closed /\ UNCHANGED faults
       \/ ~Closed /\ faults < MaxFaults /\ faults' = faults + 1
    /\ Goto(IF ctxDone THEN "returned" ELSE "backoff")
    /\ UNCHANGED <<broker, reader, msg, retry, ctxDone, history, rebalances>>

\* Mutant: the context is not asked after a failed fetch.
FetchCancelled_Retries ==
    /\ pc = "fetch" /\ ctxDone
    /\ Goto("backoff")
    /\ UNCHANGED <<broker, reader, msg, retry, ctxDone, history, bounds>>

\* CONSUMER: FetchMessage returns the context's error, and so does Run.
FetchCancelled ==
    /\ pc = "fetch" /\ ctxDone
    /\ Goto("returned")
    /\ UNCHANGED <<broker, reader, msg, retry, ctxDone, history, bounds>>

\* CONSUMER: the backoff elapses and the interval doubles.
BackoffElapsed ==
    /\ pc = "backoff"
    /\ retry' = nextBackoff(retry, RetryMax)
    /\ Goto("fetch")
    /\ UNCHANGED <<broker, reader, msg, ctxDone, history, bounds>>

\* CONSUMER: the backoff is cut short by the context.
BackoffCancelled ==
    /\ pc = "backoff" /\ ctxDone
    /\ Goto("returned")
    /\ UNCHANGED <<broker, reader, msg, retry, ctxDone, history, bounds>>

\* SERVICE: the transaction that stores the order commits in the database;
\* SaveFromMessage has not returned yet.
Store ==
    /\ pc = "handle" /\ Kind(msg) = "good"
    /\ saved' = saved \cup {msg}
    /\ Goto("stored")
    /\ UNCHANGED <<broker, reader, msg, retry, ctxDone, rejected, failed,
                   skipped, bounds>>

\* CONSUMER: SaveFromMessage returns nil.
HandleOk ==
    /\ pc = "stored"
    /\ Goto("commit")
    /\ UNCHANGED <<broker, reader, msg, retry, ctxDone, history, bounds>>

\* CONSUMER: SaveFromMessage returns an error that wraps ErrInvalidOrder.
HandleInvalid ==
    /\ pc = "handle" /\ Kind(msg) = "invalid"
    /\ rejected' = rejected \cup {msg}
    /\ Goto("commit")
    /\ UNCHANGED <<broker, reader, msg, retry, ctxDone, saved, failed,
                   skipped, bounds>>

\* Mutant: every error of the service is committed over.
HandleFailed_Commits ==
    /\ \/ pc = "handle" /\ Kind(msg) # "invalid"
       \/ pc = "stored"
    /\ failed' = failed \cup {msg}
    /\ Goto("commit")
    /\ UNCHANGED <<broker, reader, msg, retry, ctxDone, saved, rejected,
                   skipped, bounds>>

\* CONSUMER: SaveFromMessage returns any other error: bad JSON, the database,
\* the timeout, the context; also when the transaction had committed.
HandleFailed ==
    /\ \/ pc = "handle" /\ Kind(msg) # "invalid"
       \/ pc = "stored"
    /\ failed' = failed \cup {msg}
    /\ msg' = NoOffset
    /\ Goto("pause")
    /\ UNCHANGED <<broker, reader, retry, ctxDone, saved, rejected, skipped,
                   bounds>>

\* CONSUMER: CommitMessages reaches the broker.
CommitOk ==
    /\ pc = "commit" /\ ~Closed
    /\ committed' = msg + 1
    /\ msg' = NoOffset
    /\ Goto("fetch")
    /\ UNCHANGED <<log, reader, retry, ctxDone, history, bounds>>

\* CONSUMER: CommitMessages fails; commitSafely only logs it.
CommitErr ==
    /\ pc = "commit"
    /\ msg' = NoOffset
    /\ Goto("fetch")
    /\ UNCHANGED <<broker, reader, retry, ctxDone, history, bounds>>

\* CONSUMER: the pause after a failure ends, by the timer or the context.
PauseEnds ==
    /\ pc = "pause"
    /\ Goto("fetch")
    /\ UNCHANGED <<broker, reader, msg, retry, ctxDone, history, bounds>>
-----------------------------------------------------------------------------
HandleStep == Store \/ HandleOk \/ HandleInvalid \/ HandleFailed
CommitStep == CommitOk \/ CommitErr
RunStep    == \/ FetchOk \/ FetchWaits \/ FetchErr \/ FetchCancelled
              \/ BackoffElapsed \/ BackoffCancelled
              \/ HandleStep \/ CommitStep \/ PauseEnds

Next == \/ \E k \in Kinds : Publish(k)
        \/ Rebalance
        \/ Start \/ Cancel \/ Close \/ Exit \/ Crash
        \/ RunStep

Spec == Init /\ [][Next]_vars

\* The goroutine of Run is scheduled, and the calls it makes return: the
\* fetch when a message is there or the context is cancelled, the handler
\* within processTimeout, the timers when they elapse.
RunFairness == /\ WF_vars(FetchOk)
               /\ WF_vars(FetchCancelled)
               /\ WF_vars(BackoffElapsed \/ BackoffCancelled)
               /\ WF_vars(HandleStep)
               /\ WF_vars(CommitStep)
               /\ WF_vars(PauseEnds)

\* App.Run closes the consumer after a cancellation, main then returns, and
\* the container is started again.
ProcessFairness == /\ WF_vars(ctxDone /\ Close)
                   /\ WF_vars(Exit)
                   /\ WF_vars(Start)

RunSpec == Spec /\ RunFairness
-----------------------------------------------------------------------------
(* Properties.                                                             *)

processed == saved \cup rejected
handled   == processed \cup failed \cup skipped

\* The types of the variables, and the positions that stay inside the log.
TypeOK == /\ log \in Seq(Kinds)
          /\ committed \in NoOffset .. Len(log)
          /\ pos \in 0 .. Len(log)
          /\ closedAt \in Open .. Len(log)
          /\ pc \in PCs
          /\ msg \in NoOffset .. Len(log) - 1
          /\ retry \in 1 .. MaxInt
          /\ ctxDone \in BOOLEAN
          /\ saved \subseteq 0 .. Len(log) - 1
          /\ rejected \subseteq 0 .. Len(log) - 1
          /\ failed \subseteq 0 .. Len(log) - 1
          /\ skipped \subseteq 0 .. Len(log) - 1
          /\ faults \in 0 .. MaxFaults
          /\ rebalances \in 0 .. MaxRebalances

\* No message lies below the committed offset that Run never handed to the
\* service, whatever crashes, lost commits and rebalances came between; with
\* StartOffset = "last" the start position may have passed over it.
NoSilentSkip == \A o \in 0 .. committed - 1 : o \in handled

\* While the group never rebalanced, the committed offset never moves back,
\* restarts included: a later commit covers a larger offset.
CommitsMonotone == [][rebalances = 0 => committed' >= committed]_vars

\* The group's offset moves only to right after a processed message, over
\* messages that were handled: Run implements the promise of Delivery.
Contract == INSTANCE Delivery WITH published <- Len(log)
ImplementsDelivery == Contract!Spec

\* Run returns after its context is cancelled, wherever it was, on its own.
RunReturns == ctxDone ~> ~ctxDone \/ pc \in {"returned", "down"}

\* Every published message is handed to the service in the end when the group
\* starts from the first offset and the process is restarted after it stops.
EveryMessageHandled ==
    ProcessFairness =>
        \A o \in 0 .. MaxLog - 1 : o < Len(log) ~> o \in handled

\* ports/message_consumer.go: a message is confirmed only after it was
\* processed; a commit confirms every offset below it.
AtLeastOnce == \A o \in 0 .. committed - 1 : o \in processed
=============================================================================
