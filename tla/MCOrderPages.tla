---------------------------- MODULE MCOrderPages -----------------------------
(***************************************************************************)
(* The pages for TLC: two contents with two dates, an order_uid that is    *)
(* its own transaction, and clients that give too large a limit or none    *)
(* that can be read.                                                       *)
(***************************************************************************)
EXTENDS OrderPages, TLC

MCDateOf  == [r \in Revs |-> r]
MCTranOf  == [u \in UIDs |-> u]
MCQueries == {[limit |-> 9, offset |-> NotInt], [limit |-> NotInt, offset |-> -1]}
Symmetry  == Permutations(Customers)

ASSUME MCWalks == FromStart
=============================================================================
