------------------------- MODULE MCSubscriptionSync -------------------------
(* SubscriptionSync with interchangeable subscriptions and worker slots.    *)
EXTENDS SubscriptionSync, TLC

Symmetry == Permutations(Subs) \cup Permutations(Workers)
=============================================================================
