-------------------------------- MODULE Rows --------------------------------
(***************************************************************************)
(* What several components do with rows: keep those of a batch that the    *)
(* database accepts when the INSERT of all of them failed, and add up      *)
(* figures.  Both are stated without recursion, as what they come to.      *)
(***************************************************************************)
EXTENDS Naturals, FiniteSets, Sequences

\* the rows of a batch that are not refused, in their order
Kept(batch) ==
    LET good == {n \in DOMAIN batch : ~batch[n].refused}
        Before(m) == {n \in good : n < m}
    IN [n \in 1 .. Cardinality(good) |-> batch[CHOOSE m \in good : Cardinality(Before(m)) = n - 1]]

\* the sum of the naturals that f gives: as many as there are points under it
Under(f) == UNION {{x} \X (1 .. f[x]) : x \in DOMAIN f}
Total(f) == Cardinality(Under(f))
=============================================================================
