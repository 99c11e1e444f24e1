--------------------------- MODULE MCSubscription ---------------------------
(* Subscription.tla for TLC: the users are interchangeable, and the jobs. *)
EXTENDS Subscription, TLC

Symmetry == Permutations(Jobs)
=============================================================================
