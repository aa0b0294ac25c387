---------------------------- MODULE MCApprovals ----------------------------
(***************************************************************************)
(* Small instances of CanonicalApprovals.                                  *)
(***************************************************************************)
EXTENDS CanonicalApprovals
CONSTANTS r1, r2, k1
=============================================================================
