---------------------------- MODULE MCAutoExecute ----------------------------
(* Instances of AutoExecute for TLC.                                       *)
EXTENDS AutoExecute, TLC

CONSTANTS c1, c2, s1, ro, p1, p2

MCSessionOf == [c \in Commands |-> s1]
MCTimes == 0..3
MCSymmetry == Permutations(Commands) \cup Permutations(Processes)
=============================================================================
