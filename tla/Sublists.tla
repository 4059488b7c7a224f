-------------------------------- MODULE Sublists --------------------------------
(***************************************************************************)
(* Numbers in their order, and what stands at some places of a list, in    *)
(* the list's order.  Both count how many come before instead of building  *)
(* the list element by element, so that they can be reasoned about by the  *)
(* cardinality of finite sets.                                             *)
(***************************************************************************)
EXTENDS Integers, FiniteSets, Sequences

Rank(at, i) == Cardinality({j \in at : j <= i})

Sorted(at) == [n \in 1..Cardinality(at) |-> CHOOSE i \in at : Rank(at, i) = n]

Sublist(list, at) == [n \in DOMAIN Sorted(at) |-> list[Sorted(at)[n]]]
=============================================================================
