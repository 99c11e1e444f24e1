-------------------------- MODULE MCChangeRequests --------------------------
(* Requests about one voter. *)
EXTENDS ChangeRequests, TLC

CONSTANTS v1

AllOfOne == [r \in Requests |-> v1]

Symmetry == Permutations(Jobs) \cup Permutations(Changes)
=============================================================================
