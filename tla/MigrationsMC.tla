----------------------------- MODULE MigrationsMC -----------------------------
(* Values for the constants of Migrations. *)
EXTENDS Migrations, TLC

CONSTANTS m1, m2, ann, bob, k1, c1

Symmetry == Permutations({m1, m2}) \union Permutations({ann, bob})

\* Built says what the statements, one after the other, come to.
ASSUME BuiltIsTheFold ==
    \A n \in 0..Len(Up) :
        Built(n) = FoldLeft(LAMBDA s, st : After(st, s), {}, FlattenSeq(SubSeq(Up, 1, n)))
=============================================================================
