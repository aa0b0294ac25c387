----------------------------- MODULE MCTakeover -----------------------------
\* A small instance of Takeover for TLC.
EXTENDS Takeover, TLC

Symmetry == Permutations(Workers) \cup Permutations(Families) \cup Permutations(Recoverers)
            \cup Permutations(Messages \ {Legacy})

=============================================================================
