-------------------------- MODULE MCSessionActions --------------------------
\* A small instance of SessionActions for TLC.
EXTENDS SessionActions, TLC

Symmetry == Permutations(Keys)

=============================================================================
