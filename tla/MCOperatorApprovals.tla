-------------------------- MODULE MCOperatorApprovals --------------------------
(* OperatorApprovals with interchangeable requests.                         *)
EXTENDS OperatorApprovals, TLC

Symmetry == Permutations(Requests)
=============================================================================
