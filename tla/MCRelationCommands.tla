------------------------- MODULE MCRelationCommands -------------------------
(* Small instances of RelationCommands.                                    *)
EXTENDS RelationCommands, TLC

CONSTANTS r1, r2, r3

\* The stable case is derived from two of the rows.
MCStableRows == [c \in StableCases |-> {r1, r2}]

MCSymmetry ==
    Permutations(Workers) \cup Permutations(FreshCases) \cup Permutations({r1, r2})

=============================================================================
