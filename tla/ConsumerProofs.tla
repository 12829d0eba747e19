--------------------------- MODULE ConsumerProofs ---------------------------
(***************************************************************************)
(* Proofs about the consumer, for every log, any number of faults and      *)
(* rebalances, both start offsets and every retry interval.                *)
(***************************************************************************)
EXTENDS Consumer, TLAPS

\* Run works on a message exactly between its fetch and its commit or failure.
InHand == msg # NoOffset <=> pc \in {"handle", "stored", "commit"}

\* While the process runs, the reader has passed only over messages that were
\* handled, and the one in hand.
PassedHandled == Running => \A o \in 0 .. pos - 1 : o \in handled \/ o = msg

\* Messages before the one in hand were handled, even if a rebalance has moved
\* the position since it was fetched.
BeforeHandled == \A o \in 0 .. msg - 1 : o \in handled

\* Run commits only what it processed.
CommitProcessed == pc = "commit" => msg \in processed

\* A message whose handler is past the transaction is in the database.
StoredSaved == pc = "stored" => msg \in saved

\* Without rebalances the commits follow the position.
CommitsFollow == rebalances = 0 /\ Running =>
                    /\ committed <= pos
                    /\ msg # NoOffset => committed <= msg /\ msg < pos

\* Doubling the interval never overflows.
RetryDoubles == 2 * retry <= MaxInt

IInv == /\ TypeOK
        /\ RetryDoubles
        /\ InHand
        /\ NoSilentSkip
        /\ PassedHandled
        /\ BeforeHandled
        /\ CommitProcessed
        /\ StoredSaved
        /\ CommitsFollow
-----------------------------------------------------------------------------
\* The next interval of a positive one that can be doubled is positive and can
\* be doubled: nextBackoff neither wraps around nor reaches zero.
LEMMA NextBackoffBounds ==
    ASSUME NEW current \in 1 .. MaxInt, 2 * current <= MaxInt
    PROVE  /\ nextBackoff(current, RetryMax) \in 1 .. MaxInt
           /\ 2 * nextBackoff(current, RetryMax) <= MaxInt
BY RetryAssumption, MaxIntAssumption DEF nextBackoff, Wrap

\* A session starts inside the log.
LEMMA ResumeInLog == TypeOK => ResumeAt \in 0 .. Len(log)
BY DEF TypeOK, ResumeAt, NoOffset

\* Appending a message extends the log by one offset and keeps its kinds.
LEMMA AppendKinds ==
    ASSUME NEW s \in Seq(Kinds), NEW k \in Kinds
    PROVE  /\ Append(s, k) \in Seq(Kinds)
           /\ Len(Append(s, k)) = Len(s) + 1
           /\ Len(s) \in Nat
OBVIOUS

LEMMA InitIInv == Init => IInv
<1> SUFFICES ASSUME Init PROVE IInv
  OBVIOUS
<1>1. TypeOK
  <2>1. log \in Seq(Kinds) /\ Len(log) = 0
    BY DEF Init
  <2>2. retry \in 1 .. MaxInt
    BY RetryAssumption, MaxIntAssumption DEF Init
  <2>3. /\ committed \in NoOffset .. Len(log) /\ pos \in 0 .. Len(log)
        /\ closedAt \in Open .. Len(log) /\ msg \in NoOffset .. Len(log) - 1
    BY <2>1 DEF Init, NoOffset, Open
  <2>4. faults \in 0 .. MaxFaults /\ rebalances \in 0 .. MaxRebalances
    BY BoundsAssumption DEF Init
  <2> QED
    BY <2>1, <2>2, <2>3, <2>4 DEF Init, TypeOK, PCs
<1>2. RetryDoubles
  BY RetryAssumption DEF Init, RetryDoubles
<1>3. InHand /\ NoSilentSkip /\ PassedHandled /\ BeforeHandled
      /\ CommitProcessed /\ StoredSaved /\ CommitsFollow
  BY DEF Init, InHand, NoSilentSkip, PassedHandled, BeforeHandled,
         CommitProcessed, StoredSaved, CommitsFollow, NoOffset, Running
<1> QED
  BY <1>1, <1>2, <1>3 DEF IInv

-----------------------------------------------------------------------------
\* The position and the offsets a new session passes over lie inside the log.
LEMMA NewSessionInLog ==
    ASSUME TypeOK, NewSession
    PROVE  pos' \in 0 .. Len(log) /\ skipped' \subseteq 0 .. Len(log) - 1
<1>1. ResumeAt \in 0 .. Len(log)
  BY ResumeInLog
<1>2. 0 .. ResumeAt - 1 \subseteq 0 .. Len(log) - 1
  <2>1. Len(log) \in Nat
    BY DEF TypeOK
  <2> QED
    BY <1>1, <2>1
<1> QED
  BY <1>1, <1>2 DEF TypeOK, NewSession

LEMMA NextTypeOK ==
    ASSUME TypeOK, RetryDoubles, InHand, [Next]_vars
    PROVE  TypeOK' /\ RetryDoubles'
<1> USE RetryAssumption, MaxIntAssumption, BoundsAssumption
    DEF TypeOK, RetryDoubles, vars, broker, reader, loop, history, bounds,
        NoOffset, Open, PCs, Goto
<1>1. CASE \E k \in Kinds : Publish(k)
  BY <1>1, AppendKinds DEF Publish
<1>2. CASE Rebalance
  BY <1>2, NewSessionInLog DEF Rebalance
<1>3. CASE Start
  <2>1. pos' \in 0 .. Len(log) /\ skipped' \subseteq 0 .. Len(log) - 1
    BY <1>3, NewSessionInLog DEF Start
  <2>2. Len(log) \in Nat /\ log' = log /\ retry' \in 1 .. MaxInt
    BY <1>3 DEF Start
  <2>3. closedAt' \in Open .. Len(log) /\ msg' \in NoOffset .. Len(log) - 1
    BY <1>3, <2>2 DEF Start
  <2> QED
    BY <1>3, <2>1, <2>2, <2>3 DEF Start
<1>4. CASE Cancel
  BY <1>4 DEF Cancel
<1>5. CASE Close
  BY <1>5 DEF Close
<1>6. CASE Exit
  BY <1>6 DEF Exit, Halt
<1>7. CASE Crash
  BY <1>7 DEF Crash, Halt
<1>8. CASE FetchOk
  BY <1>8 DEF FetchOk, InHand
<1>9. CASE FetchWaits
  BY <1>9 DEF FetchWaits
<1>10. CASE FetchErr
  BY <1>10 DEF FetchErr
<1>11. CASE FetchCancelled
  BY <1>11 DEF FetchCancelled
<1>12. CASE BackoffElapsed
  BY <1>12, NextBackoffBounds DEF BackoffElapsed
<1>13. CASE BackoffCancelled
  BY <1>13 DEF BackoffCancelled
<1>14. CASE Store
  BY <1>14 DEF Store, InHand
<1>15. CASE HandleOk
  BY <1>15 DEF HandleOk
<1>16. CASE HandleInvalid
  BY <1>16 DEF HandleInvalid, InHand
<1>17. CASE HandleFailed
  BY <1>17 DEF HandleFailed, InHand
<1>18. CASE CommitOk
  BY <1>18 DEF CommitOk, InHand
<1>19. CASE CommitErr
  BY <1>19 DEF CommitErr
<1>20. CASE PauseEnds
  BY <1>20 DEF PauseEnds
<1>21. CASE UNCHANGED vars
  BY <1>21
<1> QED
  BY <1>1, <1>2, <1>3, <1>4, <1>5, <1>6, <1>7, <1>8, <1>9, <1>10, <1>11,
     <1>12, <1>13, <1>14, <1>15, <1>16, <1>17, <1>18, <1>19, <1>20, <1>21
  DEF Next, RunStep, HandleStep, CommitStep
-----------------------------------------------------------------------------
\* What a step may do to the loop's bookkeeping.
LEMMA NextInHand ==
    ASSUME TypeOK, InHand, StoredSaved, CommitProcessed, [Next]_vars
    PROVE  InHand' /\ StoredSaved' /\ CommitProcessed'
<1> USE DEF TypeOK, InHand, StoredSaved, CommitProcessed, processed, vars,
        broker, reader, loop, history, bounds, NoOffset, Goto
<1>1. CASE \E k \in Kinds : Publish(k)
  BY <1>1 DEF Publish
<1>2. CASE Rebalance
  BY <1>2 DEF Rebalance, NewSession
<1>3. CASE Start
  BY <1>3 DEF Start, NewSession
<1>4. CASE Cancel
  BY <1>4 DEF Cancel
<1>5. CASE Close
  BY <1>5 DEF Close
<1>6. CASE Exit
  BY <1>6 DEF Exit, Halt, Running
<1>7. CASE Crash
  BY <1>7 DEF Crash, Halt, Running
<1>8. CASE FetchOk
  BY <1>8 DEF FetchOk
<1>9. CASE FetchWaits
  BY <1>9 DEF FetchWaits
<1>10. CASE FetchErr
  BY <1>10 DEF FetchErr
<1>11. CASE FetchCancelled
  BY <1>11 DEF FetchCancelled
<1>12. CASE BackoffElapsed
  BY <1>12 DEF BackoffElapsed
<1>13. CASE BackoffCancelled
  BY <1>13 DEF BackoffCancelled
<1>14. CASE Store
  BY <1>14 DEF Store
<1>15. CASE HandleOk
  BY <1>15 DEF HandleOk
<1>16. CASE HandleInvalid
  BY <1>16 DEF HandleInvalid
<1>17. CASE HandleFailed
  BY <1>17 DEF HandleFailed
<1>18. CASE CommitOk
  BY <1>18 DEF CommitOk
<1>19. CASE CommitErr
  BY <1>19 DEF CommitErr
<1>20. CASE PauseEnds
  BY <1>20 DEF PauseEnds
<1>21. CASE UNCHANGED vars
  BY <1>21
<1> QED
  BY <1>1, <1>2, <1>3, <1>4, <1>5, <1>6, <1>7, <1>8, <1>9, <1>10, <1>11,
     <1>12, <1>13, <1>14, <1>15, <1>16, <1>17, <1>18, <1>19, <1>20, <1>21
  DEF Next, RunStep, HandleStep, CommitStep
-----------------------------------------------------------------------------
\* Handled and processed offsets stay so.
LEMMA HandledGrows ==
    ASSUME [Next]_vars
    PROVE  handled \subseteq handled' /\ processed \subseteq processed'
<1> USE DEF handled, processed, vars, broker, reader, loop, history, bounds
<1>1. CASE \E k \in Kinds : Publish(k)
  BY <1>1 DEF Publish
<1>2. CASE Rebalance
  BY <1>2 DEF Rebalance, NewSession
<1>3. CASE Start
  BY <1>3 DEF Start, NewSession
<1>4. CASE Cancel
  BY <1>4 DEF Cancel
<1>5. CASE Close
  BY <1>5 DEF Close
<1>6. CASE Exit
  BY <1>6 DEF Exit, Halt
<1>7. CASE Crash
  BY <1>7 DEF Crash, Halt
<1>8. CASE FetchOk
  BY <1>8 DEF FetchOk
<1>9. CASE FetchWaits
  BY <1>9 DEF FetchWaits
<1>10. CASE FetchErr
  BY <1>10 DEF FetchErr
<1>11. CASE FetchCancelled
  BY <1>11 DEF FetchCancelled
<1>12. CASE BackoffElapsed
  BY <1>12 DEF BackoffElapsed
<1>13. CASE BackoffCancelled
  BY <1>13 DEF BackoffCancelled
<1>14. CASE Store
  BY <1>14 DEF Store
<1>15. CASE HandleOk
  BY <1>15 DEF HandleOk
<1>16. CASE HandleInvalid
  BY <1>16 DEF HandleInvalid
<1>17. CASE HandleFailed
  BY <1>17 DEF HandleFailed
<1>18. CASE CommitOk
  BY <1>18 DEF CommitOk
<1>19. CASE CommitErr
  BY <1>19 DEF CommitErr
<1>20. CASE PauseEnds
  BY <1>20 DEF PauseEnds
<1>21. CASE UNCHANGED vars
  BY <1>21
<1> QED
  BY <1>1, <1>2, <1>3, <1>4, <1>5, <1>6, <1>7, <1>8, <1>9, <1>10, <1>11,
     <1>12, <1>13, <1>14, <1>15, <1>16, <1>17, <1>18, <1>19, <1>20, <1>21
  DEF Next, RunStep, HandleStep, CommitStep

\* A session that begins without a commit at the first offset passes over
\* nothing; otherwise what lies before its start is handled from then on.
LEMMA SessionHandled ==
    ASSUME TypeOK, NoSilentSkip, NewSession, processed' = processed, failed' = failed
    PROVE  \A o \in 0 .. pos' - 1 : o \in handled'
<1>1. CASE committed = NoOffset
  BY <1>1 DEF NewSession, handled
<1>2. CASE committed # NoOffset
  BY <1>2 DEF NewSession, ResumeAt, NoSilentSkip, handled
<1> QED
  BY <1>1, <1>2

\* The offsets before the committed one, before the position and before the
\* message in hand stay handled.
LEMMA NextHandled ==
    ASSUME TypeOK, InHand, NoSilentSkip, PassedHandled, BeforeHandled,
           CommitProcessed, [Next]_vars
    PROVE  NoSilentSkip' /\ PassedHandled' /\ BeforeHandled'
<1>0. handled \subseteq handled'
  BY HandledGrows
<1> USE DEF TypeOK, InHand, NoSilentSkip, PassedHandled, BeforeHandled, vars,
        broker, reader, loop, history, bounds, NoOffset, Open, Goto, Running
<1>1. CASE \E k \in Kinds : Publish(k)
  BY <1>0, <1>1 DEF Publish
<1>2. CASE Rebalance
  BY <1>0, <1>2, SessionHandled DEF Rebalance, processed
<1>3. CASE Start
  BY <1>0, <1>3, SessionHandled DEF Start, processed
<1>4. CASE Cancel
  BY <1>0, <1>4 DEF Cancel
<1>5. CASE Close
  BY <1>0, <1>5 DEF Close
<1>6. CASE Exit
  BY <1>0, <1>6 DEF Exit, Halt
<1>7. CASE Crash
  BY <1>0, <1>7 DEF Crash, Halt
<1>8. CASE FetchOk
  BY <1>0, <1>8 DEF FetchOk
<1>9. CASE FetchWaits
  BY <1>0, <1>9 DEF FetchWaits
<1>10. CASE FetchErr
  BY <1>0, <1>10 DEF FetchErr
<1>11. CASE FetchCancelled
  BY <1>0, <1>11 DEF FetchCancelled
<1>12. CASE BackoffElapsed
  BY <1>0, <1>12 DEF BackoffElapsed
<1>13. CASE BackoffCancelled
  BY <1>0, <1>13 DEF BackoffCancelled
<1>14. CASE Store
  BY <1>0, <1>14 DEF Store
<1>15. CASE HandleOk
  BY <1>0, <1>15 DEF HandleOk
<1>16. CASE HandleInvalid
  BY <1>0, <1>16 DEF HandleInvalid
<1>17. CASE HandleFailed
  BY <1>0, <1>17 DEF HandleFailed, handled
<1>18. CASE CommitOk
  BY <1>0, <1>18 DEF CommitOk, CommitProcessed, handled
<1>19. CASE CommitErr
  BY <1>0, <1>19 DEF CommitErr, CommitProcessed, handled
<1>20. CASE PauseEnds
  BY <1>0, <1>20 DEF PauseEnds
<1>21. CASE UNCHANGED vars
  BY <1>0, <1>21
<1> QED
  BY <1>1, <1>2, <1>3, <1>4, <1>5, <1>6, <1>7, <1>8, <1>9, <1>10, <1>11,
     <1>12, <1>13, <1>14, <1>15, <1>16, <1>17, <1>18, <1>19, <1>20, <1>21
  DEF Next, RunStep, HandleStep, CommitStep

\* While no rebalance happened, the commits stay behind the position.
LEMMA NextCommitsFollow ==
    ASSUME TypeOK, InHand, CommitsFollow, [Next]_vars
    PROVE  CommitsFollow'
<1> USE DEF TypeOK, InHand, CommitsFollow, vars, broker, reader, loop, history,
        bounds, NoOffset, Open, Goto, Running
<1>1. CASE \E k \in Kinds : Publish(k)
  BY <1>1 DEF Publish
<1>2. CASE Rebalance
  BY <1>2, BoundsAssumption DEF Rebalance
<1>3. CASE Start
  BY <1>3 DEF Start, NewSession, ResumeAt
<1>4. CASE Cancel
  BY <1>4 DEF Cancel
<1>5. CASE Close
  BY <1>5 DEF Close
<1>6. CASE Exit
  BY <1>6 DEF Exit, Halt
<1>7. CASE Crash
  BY <1>7 DEF Crash, Halt
<1>8. CASE FetchOk
  BY <1>8 DEF FetchOk
<1>9. CASE FetchWaits
  BY <1>9 DEF FetchWaits
<1>10. CASE FetchErr
  BY <1>10 DEF FetchErr
<1>11. CASE FetchCancelled
  BY <1>11 DEF FetchCancelled
<1>12. CASE BackoffElapsed
  BY <1>12 DEF BackoffElapsed
<1>13. CASE BackoffCancelled
  BY <1>13 DEF BackoffCancelled
<1>14. CASE Store
  BY <1>14 DEF Store
<1>15. CASE HandleOk
  BY <1>15 DEF HandleOk
<1>16. CASE HandleInvalid
  BY <1>16 DEF HandleInvalid
<1>17. CASE HandleFailed
  BY <1>17 DEF HandleFailed
<1>18. CASE CommitOk
  BY <1>18 DEF CommitOk
<1>19. CASE CommitErr
  BY <1>19 DEF CommitErr
<1>20. CASE PauseEnds
  BY <1>20 DEF PauseEnds
<1>21. CASE UNCHANGED vars
  BY <1>21
<1> QED
  BY <1>1, <1>2, <1>3, <1>4, <1>5, <1>6, <1>7, <1>8, <1>9, <1>10, <1>11,
     <1>12, <1>13, <1>14, <1>15, <1>16, <1>17, <1>18, <1>19, <1>20, <1>21
  DEF Next, RunStep, HandleStep, CommitStep
-----------------------------------------------------------------------------
LEMMA NextIInv == IInv /\ [Next]_vars => IInv'
BY NextTypeOK, NextInHand, NextHandled, NextCommitsFollow DEF IInv

LEMMA Invariance == Spec => []IInv
BY InitIInv, NextIInv, PTL DEF Spec

\* Every reachable state is well typed: in particular the fetch interval stays
\* positive however often it doubles, and every offset stays inside the log.
THEOREM TypeCorrect == Spec => []TypeOK
<1>1. IInv => TypeOK
  BY DEF IInv
<1> QED
  BY <1>1, Invariance, PTL

\* No message below the committed offset was never handed to the service.
THEOREM NothingSkipped == Spec => []NoSilentSkip
<1>1. IInv => NoSilentSkip
  BY DEF IInv
<1> QED
  BY <1>1, Invariance, PTL

\* Without rebalances the committed offset never moves back.
THEOREM Monotone == Spec => CommitsMonotone
<1>1. IInv /\ [Next]_vars => [rebalances = 0 => committed' >= committed]_vars
  <2> SUFFICES ASSUME IInv, [Next]_vars, rebalances = 0
               PROVE  committed' >= committed
    OBVIOUS
  <2>1. CASE CommitOk
    BY <2>1 DEF CommitOk, IInv, TypeOK, InHand, CommitsFollow, Running, NoOffset
  <2>2. CASE committed' = committed
    BY <2>2 DEF IInv, TypeOK, NoOffset
  <2>3. CommitOk \/ committed' = committed
    BY DEF Next, RunStep, HandleStep, CommitStep, vars, broker, Publish,
           Rebalance, Start, Cancel, Close, Exit, Crash, Halt, FetchOk,
           FetchWaits, FetchErr, FetchCancelled, BackoffElapsed,
           BackoffCancelled, Store, HandleOk, HandleInvalid, HandleFailed,
           CommitErr, PauseEnds
  <2> QED
    BY <2>1, <2>2, <2>3
<1> QED
  BY <1>1, Invariance, PTL DEF Spec, CommitsMonotone
-----------------------------------------------------------------------------
(* Run implements Delivery.                                                *)

\* A step of the loop, the process, the group or a producer is a step of the
\* contract or leaves its variables alone.
LEMMA StepImplementsDelivery ==
    ASSUME IInv, [Next]_vars
    PROVE  [Contract!Next]_(Contract!dvars)
<1> USE DEF IInv, TypeOK, vars, broker, reader, loop, history, bounds,
        NoOffset, Open, Goto, handled, processed
<1> DEFINE Same == /\ Len(log') = Len(log) /\ committed' = committed
                   /\ handled' = handled /\ processed' = processed
<1>0. Same => [Contract!Next]_(Contract!dvars)
  BY DEF Contract!dvars
<1>1. CASE \E k \in Kinds : Publish(k)
  <2>1. Contract!Publish
    BY <1>1, AppendKinds DEF Publish, Contract!Publish
  <2> QED
    BY <2>1 DEF Contract!Next
<1>2. ASSUME NewSession, log' = log, committed' = committed, saved' = saved,
             rejected' = rejected, failed' = failed
      PROVE  [Contract!Next]_(Contract!dvars)
  <2>1. CASE committed # NoOffset
    <3>1. Same
      BY <1>2, <2>1 DEF NewSession
    <3> QED
      BY <1>0, <3>1
  <2>2. CASE committed = NoOffset
    <3>1. 0 .. ResumeAt - 1 \in SUBSET (0 .. Len(log) - 1)
      BY ResumeInLog
    <3>2. handled' = handled \cup (0 .. ResumeAt - 1)
      BY <1>2, <2>2 DEF NewSession
    <3>3. Contract!Attempt
      BY <1>2, <3>1, <3>2 DEF Contract!Attempt
    <3> QED
      BY <3>3 DEF Contract!Next
  <2> QED
    BY <2>1, <2>2
<1>3. CASE Rebalance \/ Start
  BY <1>2, <1>3 DEF Rebalance, Start
<1>4. CASE HandleFailed
  <2>1. {msg} \in SUBSET (0 .. Len(log) - 1)
    BY <1>4 DEF HandleFailed, InHand
  <2>2. handled' = handled \cup {msg}
    BY <1>4 DEF HandleFailed
  <2>3. Contract!Attempt
    BY <1>4, <2>1, <2>2 DEF HandleFailed, Contract!Attempt
  <2> QED
    BY <2>3 DEF Contract!Next
<1>5. CASE Store \/ HandleInvalid
  <2>1. msg \in 0 .. Len(log) - 1
    BY <1>5 DEF Store, HandleInvalid, InHand
  <2>2. Contract!Process(msg)
    BY <1>5 DEF Store, HandleInvalid, Contract!Process
  <2> QED
    BY <2>1, <2>2 DEF Contract!Next
<1>6. CASE CommitOk
  <2>1. msg \in 0 .. Len(log) - 1 /\ msg \in processed
    BY <1>6 DEF CommitOk, InHand, CommitProcessed
  <2>2. 0 .. msg \subseteq handled
    BY <2>1 DEF BeforeHandled
  <2>3. Contract!Commit(msg)
    BY <1>6, <2>1, <2>2 DEF CommitOk, Contract!Commit
  <2> QED
    BY <2>1, <2>3 DEF Contract!Next
<1>7. CASE Cancel \/ Close \/ Exit \/ Crash
  BY <1>0, <1>7 DEF Cancel, Close, Exit, Crash, Halt
<1>8. CASE FetchOk \/ FetchWaits \/ FetchErr \/ FetchCancelled
           \/ BackoffElapsed \/ BackoffCancelled
  BY <1>0, <1>8 DEF FetchOk, FetchWaits, FetchErr, FetchCancelled,
                    BackoffElapsed, BackoffCancelled
<1>9. CASE HandleOk \/ CommitErr \/ PauseEnds \/ UNCHANGED vars
  BY <1>0, <1>9 DEF HandleOk, CommitErr, PauseEnds
<1> QED
  BY <1>1, <1>3, <1>4, <1>5, <1>6, <1>7, <1>8, <1>9
  DEF Next, RunStep, HandleStep, CommitStep

\* The consumer keeps the promise of Delivery: the group's offset moves only
\* to right after a processed message and only over handled ones, through any
\* crashes, failed commits, cancellations and rebalances.
THEOREM Implementation == Spec => ImplementsDelivery
<1>1. Init => Contract!Init
  BY DEF Init, Contract!Init, handled, processed, NoOffset, Contract!NoOffset
<1>2. IInv /\ [Next]_vars => [Contract!Next]_(Contract!dvars)
  BY StepImplementsDelivery
<1> QED
  BY <1>1, <1>2, Invariance, PTL DEF Spec, ImplementsDelivery, Contract!Spec
=============================================================================
