----------------------------- MODULE MCCheckout -----------------------------
(* One session, of either type, with one or two payments. *)
EXTENDS Checkout, TLC

CONSTANTS s1

AllOfOne == [p \in Payments |-> s1]

Symmetry == Permutations(Jobs) \cup Permutations(Payments)
=============================================================================
