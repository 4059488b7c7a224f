-------------------------- MODULE MCCompanyCredits --------------------------
(* CompanyCredits with interchangeable operation slots and jobs.            *)
EXTENDS CompanyCredits, TLC

Symmetry == Permutations(Operations) \cup Permutations(Jobs)
=============================================================================
