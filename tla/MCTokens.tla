------------------------------ MODULE MCTokens ------------------------------
(***************************************************************************)
(* Two known token IDs and an unknown one.  A row of logits names the      *)
(* prefix it answers for and whether the padded entries are still there.   *)
(***************************************************************************)
EXTENDS Integers, Sequences

MCKnown == {0, 1}
MCIds == {0, 1, 7}

MCRow(p)  == [prefix |-> p, padded |-> TRUE]
MCReal(r) == [r EXCEPT !.padded = FALSE]
MCLogits(p) == MCReal(MCRow(p))

\* The choice depends on the whole prefix; a padded entry may be the largest.
MCGreedy(r) ==
    IF r.padded THEN 7
    ELSE LET p == r.prefix
         IN  IF Len(p) = 0 THEN 0 ELSE (p[1] + 2 * p[Len(p)] + Len(p)) % 2
=============================================================================
