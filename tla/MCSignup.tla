------------------------------ MODULE MCSignup ------------------------------
(* Two purchases of the same lead: whichever is completed first, the other *)
(* finds its address taken.                                                *)
EXTENDS Signup, TLC

CONSTANT e1

SameAddress == [t \in Tokens |-> e1]

Symmetry ==
    Permutations(Jobs) \cup Permutations(Tenants) \cup Permutations(Tokens)
=============================================================================
