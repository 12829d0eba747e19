------------------------------ MODULE MCWarmUp ------------------------------
(***************************************************************************)
(* The cache from its warm-up on, for TLC: order_uids are interchangeable, *)
(* since the stored orders have any dates, and so are contents.            *)
(***************************************************************************)
EXTENDS WarmUp, TLC

Symmetry == Permutations(Keys) \cup Permutations(Values)
=============================================================================
