---------------------------- MODULE MCMemoryIngest ----------------------------
(* Instances of MemoryIngest for TLC.                                      *)
EXTENDS MemoryIngest, TLC

CONSTANTS e1, e2, startup, loop

MCSymmetry == Permutations(Events)
=============================================================================
