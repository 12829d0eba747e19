------------------------------ MODULE MCIntake -------------------------------
(***************************************************************************)
(* The way in for TLC: order_uids and transactions are interchangeable.    *)
(***************************************************************************)
EXTENDS Intake, TLC

Symmetry == Permutations(UIDs) \cup Permutations(Trans)
=============================================================================
