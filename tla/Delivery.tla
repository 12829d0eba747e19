------------------------------ MODULE Delivery ------------------------------
(***************************************************************************)
(* What the order consumer promises about one partition, independently of  *)
(* how its loop, its reader and its restarts work.  An offset is handled   *)
(* when the service was given its message at least once, or when the       *)
(* group's start position passed over it; it is processed when its order   *)
(* was stored or its data were found invalid for good.  The group's        *)
(* committed offset stands right after a processed message, and only       *)
(* handled messages lie before it.                                         *)
(*                                                                         *)
(* This is weaker than at-least-once processing: a handled message need    *)
(* not be processed.                                                       *)
(***************************************************************************)
EXTENDS Integers

VARIABLES published,   \* number of messages in the partition
          handled,     \* offsets handed to the service, or passed over
          processed,   \* offsets whose processing succeeded
          committed    \* the group's committed offset, NoOffset before the first

dvars == <<published, handled, processed, committed>>

NoOffset == -1

Init == /\ published = 0
        /\ handled = {}
        /\ processed = {}
        /\ committed = NoOffset

\* A producer appends a message.
Publish == /\ published' = published + 1
           /\ UNCHANGED <<handled, processed, committed>>

\* Messages are tried without success, or passed over.
Attempt == /\ \E S \in SUBSET (0 .. published - 1) : handled' = handled \cup S
           /\ UNCHANGED <<published, processed, committed>>

\* The message at offset o is processed.
Process(o) == /\ handled' = handled \cup {o}
              /\ processed' = processed \cup {o}
              /\ UNCHANGED <<published, committed>>

\* The offset after o is committed.
Commit(o) == /\ o \in processed
             /\ 0 .. o \subseteq handled
             /\ committed' = o + 1
             /\ UNCHANGED <<published, handled, processed>>

Next == \/ Publish
        \/ Attempt
        \/ \E o \in 0 .. published - 1 : Process(o) \/ Commit(o)

Spec == Init /\ [][Next]_dvars
=============================================================================
