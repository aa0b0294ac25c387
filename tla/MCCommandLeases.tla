--------------------------- MODULE MCCommandLeases ---------------------------
(* Instances of CommandLeases for TLC.                                     *)
EXTENDS CommandLeases, TLC

CONSTANTS c1, c2, s1, s2, w1, w2

MCTimes == 0..2

\* Sessions, workers and commands are interchangeable to the store.
MCSymmetry == Permutations(Commands) \cup Permutations(Sessions) \cup Permutations(Workers)
=============================================================================
