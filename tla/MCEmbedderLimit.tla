---------------------------- MODULE MCEmbedderLimit ----------------------------
(* EmbedderLimit with interchangeable requests and processes.               *)
EXTENDS EmbedderLimit, TLC

Symmetry == Permutations(Requests) \cup Permutations(Instances)
=============================================================================
