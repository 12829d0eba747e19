--------------------------- MODULE MCOrderService ---------------------------
(***************************************************************************)
(* The service for TLC: readers, orders, transactions and revisions are    *)
(* interchangeable.                                                        *)
(***************************************************************************)
EXTENDS OrderService, TLC

Symmetry == Permutations(Readers) \cup Permutations(Revs)
              \cup Permutations(UIDs) \cup Permutations(Trans)
=============================================================================
