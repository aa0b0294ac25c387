--------------------------- MODULE MCRuntimeTasks ---------------------------
\* A small instance of RuntimeTasks for TLC.
EXTENDS RuntimeTasks, TLC

Symmetry == Permutations(Threads) \cup Permutations(Handlers)

=============================================================================
