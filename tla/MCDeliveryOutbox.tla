--------------------------- MODULE MCDeliveryOutbox ---------------------------
(* Instances of DeliveryOutbox for TLC.                                    *)
EXTENDS DeliveryOutbox, TLC

CONSTANTS a1, a1r, n1, n2, d1, s1, s2, x1, x2

MCKind == [e \in Envelopes |->
              IF e \in {n1, n2} THEN "notification" ELSE IF e = d1 THEN "decision" ELSE "approval"]
MCOneSession == [e \in Envelopes |-> s1]
\* The reissued envelope belongs to the child session.
MCChildSession == [e \in Envelopes |-> IF e \in {a1r, n2} THEN s2 ELSE s1]

MCNoReissue == [e \in {} |-> e]
MCReissue == [e \in {a1} |-> a1r]

MCDecisionBatch == {<<d1, n1>>, <<n2>>}
MCApprovalAndDecision == {<<a1>>, <<d1>>}

\* Contents are compared and nothing else.
MCSymmetry == Permutations(Contents)
=============================================================================
