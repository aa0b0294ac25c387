-------------------------- MODULE Recovery_proofs ---------------------------
(***************************************************************************)
(* Proofs about Recovery, for any callers, threads, clocks and bounds.     *)
(*                                                                         *)
(* A script is a sequence of 8 to 16 items with different keys, in which   *)
(* what a step needs comes before it (ScriptShape).  RecoveryInv says that *)
(* the log, in the cache and in the file, is closed under what its records *)
(* need; that a call that writes a script has what it wrote before in the  *)
(* log; and that, without faults, an open transaction is led by a call     *)
(* that is at least as far as every other one, unless two calls disagree   *)
(* about it.  The call that leads writes a record nobody wrote, so it is   *)
(* never refused; when another call passes it, the two scripts are the     *)
(* same or the log holds both outcomes (Overtakes).                        *)
(***************************************************************************)
EXTENDS Recovery, SequenceTheorems, FiniteSetTheorems, TLAPS

(***************************************************************************)
(* Scripts.                                                                *)
(***************************************************************************)
RecoverySteps == {
    "recovery_tx_started", "started", "handoff_packet_frozen", "packet_frozen", "identity_issued",
    "child_session_created", "child_created", "lineage_pending", "lineage", "lineage_committed",
    "parent_session_closed_or_cooled", "parent_cooling", "recovery_tx_completed",
    "identity_consumed", "completed", "identity_invalidated", "replay_invalidated",
    "failed_retryable"}

\* A number for every record of a transaction.
Rank(k) ==
    IF k[1] = "event"
    THEN CASE k[2] = "recovery_tx_started"             -> 1
           [] k[2] = "handoff_packet_frozen"           -> 3
           [] k[2] = "identity_issued"                 -> 5
           [] k[2] = "child_session_created"           -> 6
           [] k[2] = "lineage"                         -> 9
           [] k[2] = "lineage_committed"               -> 10
           [] k[2] = "parent_session_closed_or_cooled" -> 12
           [] k[2] = "recovery_tx_completed"           -> 14
           [] k[2] = "identity_consumed"               -> 15
           [] k[2] = "identity_invalidated"            -> 17
           [] k[2] = "replay_invalidated"              -> 18
           [] OTHER                                    -> 0
    ELSE CASE k[2] = "started"           -> 2
           [] k[2] = "packet_frozen"     -> 4
           [] k[2] = "child_created"     -> 7
           [] k[2] = "lineage_pending"   -> 8
           [] k[2] = "lineage_committed" -> 11
           [] k[2] = "parent_cooling"    -> 13
           [] k[2] = "completed"         -> 16
           [] k[2] = "failed_retryable"  -> 19
           [] OTHER                      -> 0

StartKey(tx) == <<"event", "recovery_tx_started", tx, NoThread>>
EndKey(end, tx) == <<"status", end, tx, NoThread>>
ChildKey(tx) == <<"status", "child_created", tx, NoThread>>

ItemOK(item, tx, packet) ==
    /\ item.key[1] \in {"event", "status"} /\ item.key[2] \in RecoverySteps /\ item.key[3] = tx
    /\ item.body.packet = packet

LEMMA BodyFields ==
    ASSUME NEW packet, NEW resume, NEW child
    PROVE  LET b == Body(packet, resume, child)
           IN  b.packet = packet /\ b.resume = resume /\ b.child = child
  BY DEF Body

LEMMA FourInSeq ==
    ASSUME NEW S, NEW a \in S, NEW b \in S, NEW c \in S, NEW d \in S
    PROVE  <<a, b, c, d>> \in Seq(S)
  OBVIOUS

\* What a step of the canonical order needs.
IsStep(k, kind, step) == k[1] = kind /\ k[2] = step

LEMMA Needs_packet_frozen ==
    \A need \in Needs["packet_frozen"] : IsStep(need, "event", "recovery_tx_started") \/ IsStep(need, "event", "handoff_packet_frozen")
  BY DEF Needs, IsStep

LEMMA Needs_child_created ==
    \A need \in Needs["child_created"] : IsStep(need, "status", "packet_frozen") \/ IsStep(need, "event", "child_session_created")
  BY DEF Needs, IsStep

LEMMA Needs_lineage_pending ==
    \A need \in Needs["lineage_pending"] : IsStep(need, "status", "child_created")
  BY DEF Needs, IsStep

LEMMA Needs_lineage_committed ==
    \A need \in Needs["lineage_committed"] : IsStep(need, "status", "lineage_pending") \/ IsStep(need, "event", "lineage") \/ IsStep(need, "event", "lineage_committed")
  BY DEF Needs, IsStep

LEMMA Needs_parent_cooling ==
    \A need \in Needs["parent_cooling"] : IsStep(need, "status", "lineage_committed") \/ IsStep(need, "event", "parent_session_closed_or_cooled")
  BY DEF Needs, IsStep

LEMMA Needs_completed ==
    \A need \in Needs["completed"] : IsStep(need, "status", "packet_frozen") \/ IsStep(need, "event", "recovery_tx_completed")
  BY DEF Needs, IsStep

LEMMA Needs_failed_retryable ==
    \A need \in Needs["failed_retryable"] : IsStep(need, "status", "packet_frozen") \/ IsStep(need, "event", "recovery_tx_completed")
  BY DEF Needs, IsStep

\* What the steps of a script need is before them in the script.
NeedsMet(s, P) ==
    \A i \in 1..Len(s) :
        s[i].key[1] = "status" /\ s[i].key[2] \in DOMAIN Needs =>
            \A need \in Needs[s[i].key[2]] :
                \/ \E p \in P : IsStep(need, p[1], p[2])
                \/ \E j \in 1..i - 1 : IsStep(s[j].key, need[1], need[2])

LineageAfterChild(s, tx) ==
    \A i \in 1..Len(s) :
        s[i].key[2] = "lineage" =>
            /\ s[i].key = <<"event", "lineage", tx, s[i].key[4]>>
            /\ \E j \in 1..i - 1 : s[j].key = ChildKey(tx) /\ s[j].body.child = s[i].key[4]

\* One part of a script.
Part(s, n, tx, packet, resume, child) ==
    /\ Len(s) = n
    /\ \A i \in 1..n : /\ ItemOK(s[i], tx, packet)
                        /\ s[i].body.resume = resume /\ s[i].body.child = child
    /\ \A i, j \in 1..n : Rank(s[i].key) = Rank(s[j].key) => i = j
    /\ LineageAfterChild(s, tx)

LEMMA Started_needs_nothing == "started" \notin DOMAIN Needs
  BY DEF Needs

LEMMA OpeningPart ==
    ASSUME NEW tx, NEW packet, NEW s, s = OpeningScript(tx, packet)
    PROVE  /\ \E S : s \in Seq(S)
           /\ Part(s, 5, tx, packet, "none", NoThread)
           /\ NeedsMet(s, {})
           /\ s[1].key = StartKey(tx) /\ IsStep(s[4].key, "status", "packet_frozen")
           /\ \A i \in 1..5 : Rank(s[i].key) \in 1..5
<1>1. PICK b : /\ b = Body(packet, "none", NoThread)
               /\ b.packet = packet /\ b.resume = "none" /\ b.child = NoThread
  BY BodyFields
<1>2. PICK a1, a2, a3, a4, a5 :
         /\ a1 = Event("recovery_tx_started", tx, b, TRUE)
         /\ a2 = Status("started", tx, b)
         /\ a3 = Event("handoff_packet_frozen", tx, b, TRUE)
         /\ a4 = Status("packet_frozen", tx, b)
         /\ a5 = Once("identity_issued", tx, b)
  OBVIOUS
<1>3. s = <<a1, a2, a3, a4, a5>>
  BY <1>1, <1>2 DEF OpeningScript
<1>4. /\ a1.key = <<"event", "recovery_tx_started", tx, NoThread>> /\ a1.body = b
      /\ a2.key = <<"status", "started", tx, NoThread>> /\ a2.body = b
      /\ a3.key = <<"event", "handoff_packet_frozen", tx, NoThread>> /\ a3.body = b
      /\ a4.key = <<"status", "packet_frozen", tx, NoThread>> /\ a4.body = b
      /\ a5.key = <<"event", "identity_issued", tx, NoThread>> /\ a5.body = b
  BY <1>2 DEF Event, Status, Once, OnChild, Item
<1>5. \E S : s \in Seq(S)
  <2>1. s \in Seq({a1, a2, a3, a4, a5})
    BY <1>3
  <2> QED BY <2>1
<1>6. Len(s) = 5 /\ s[1] = a1 /\ s[2] = a2 /\ s[3] = a3 /\ s[4] = a4 /\ s[5] = a5
  BY <1>3
<1>7. /\ IsStep(a1.key, "event", "recovery_tx_started") /\ a1.key[3] = tx /\ a1.key[4] = NoThread
      /\ IsStep(a2.key, "status", "started") /\ a2.key[3] = tx /\ a2.key[4] = NoThread
      /\ IsStep(a3.key, "event", "handoff_packet_frozen") /\ a3.key[3] = tx /\ a3.key[4] = NoThread
      /\ IsStep(a4.key, "status", "packet_frozen") /\ a4.key[3] = tx /\ a4.key[4] = NoThread
      /\ IsStep(a5.key, "event", "identity_issued") /\ a5.key[3] = tx /\ a5.key[4] = NoThread
  BY <1>4 DEF IsStep
<1>8. /\ Rank(a1.key) = 1
      /\ Rank(a2.key) = 2
      /\ Rank(a3.key) = 3
      /\ Rank(a4.key) = 4
      /\ Rank(a5.key) = 5
  BY <1>7 DEF Rank, IsStep
<1>9. \A i, j \in 1..5 : Rank(s[i].key) = Rank(s[j].key) => i = j
  <2>1. \A i \in 1..5 : Rank(s[i].key) = i + 0
    BY <1>6, <1>8
  <2> QED BY <2>1
<1>10. \A i \in 1..5 : ItemOK(s[i], tx, packet) /\ s[i].body = b
  BY <1>1, <1>4, <1>6, <1>7 DEF ItemOK, RecoverySteps, IsStep
<1>11. NeedsMet(s, {})
  <2> SUFFICES ASSUME NEW i \in 1..5, s[i].key[1] = "status", s[i].key[2] \in DOMAIN Needs,
                      NEW need \in Needs[s[i].key[2]]
               PROVE  \/ \E p \in {} : IsStep(need, p[1], p[2])
                      \/ \E j \in 1..i - 1 : IsStep(s[j].key, need[1], need[2])
    BY <1>6 DEF NeedsMet
  <2>1. CASE i = 4
    <3>1. s[i].key[2] = "packet_frozen"
      BY <1>6, <1>7, <2>1 DEF IsStep
    <3>2. IsStep(need, "event", "recovery_tx_started") \/ IsStep(need, "event", "handoff_packet_frozen")
      BY <3>1, Needs_packet_frozen
    <3>3. 1 \in 1..i - 1 /\ IsStep(s[1].key, "event", "recovery_tx_started") /\ 3 \in 1..i - 1 /\ IsStep(s[3].key, "event", "handoff_packet_frozen")
      BY <1>6, <1>7, <2>1
    <3> QED BY <3>2, <3>3 DEF IsStep
  <2>2. i = 4
    BY Started_needs_nothing, <1>6, <1>7 DEF IsStep
  <2> QED BY <2>1, <2>2
<1>12. LineageAfterChild(s, tx)
  BY <1>6, <1>7 DEF LineageAfterChild, IsStep
<1>13. Part(s, 5, tx, packet, "none", NoThread)
  BY <1>1, <1>6, <1>9, <1>10, <1>12 DEF Part
<1>14. s[1].key = StartKey(tx) /\ IsStep(s[4].key, "status", "packet_frozen")
  BY <1>4, <1>6, <1>7 DEF OutcomeSteps, EndKey, StartKey, IsStep, Terminal
<1>15. \A i \in 1..5 : Rank(s[i].key) \in 1..5
  BY <1>6, <1>8
<1> QED BY <1>5, <1>11, <1>13, <1>14, <1>15

LEMMA ChildPart ==
    ASSUME NEW tx, NEW packet, NEW child, NEW s, s = ChildScript(tx, packet, child)
    PROVE  /\ \E S : s \in Seq(S)
           /\ Part(s, 11, tx, packet, "child", child)
           /\ NeedsMet(s, {<<"status", "packet_frozen">>})
           /\ s[1].key[2] \in OutcomeSteps /\ s[11].key = EndKey("completed", tx)
           /\ \A i \in 1..11 : Rank(s[i].key) \in 6..19
<1>1. PICK b : /\ b = Body(packet, "child", child)
               /\ b.packet = packet /\ b.resume = "child" /\ b.child = child
  BY BodyFields
<1>2. PICK a1, a2, a3, a4, a5, a6, a7, a8, a9, a10, a11 :
         /\ a1 = OnChild("child_session_created", tx, child, b, TRUE)
         /\ a2 = Status("child_created", tx, b)
         /\ a3 = [Status("lineage_pending", tx, b) EXCEPT !.fresh = TRUE]
         /\ a4 = OnChild("lineage", tx, child, b, TRUE)
         /\ a5 = OnChild("lineage_committed", tx, child, b, FALSE)
         /\ a6 = Status("lineage_committed", tx, b)
         /\ a7 = Event("parent_session_closed_or_cooled", tx, b, TRUE)
         /\ a8 = Status("parent_cooling", tx, b)
         /\ a9 = Event("recovery_tx_completed", tx, b, TRUE)
         /\ a10 = Once("identity_consumed", tx, b)
         /\ a11 = Status("completed", tx, b)
  OBVIOUS
<1>3. s = <<a1, a2, a3, a4, a5, a6, a7, a8, a9, a10, a11>>
  BY <1>1, <1>2 DEF ChildScript
<1>4. /\ a1.key = <<"event", "child_session_created", tx, child>> /\ a1.body = b
      /\ a2.key = <<"status", "child_created", tx, NoThread>> /\ a2.body = b
      /\ a3.key = <<"status", "lineage_pending", tx, NoThread>> /\ a3.body = b
      /\ a4.key = <<"event", "lineage", tx, child>> /\ a4.body = b
      /\ a5.key = <<"event", "lineage_committed", tx, child>> /\ a5.body = b
      /\ a6.key = <<"status", "lineage_committed", tx, NoThread>> /\ a6.body = b
      /\ a7.key = <<"event", "parent_session_closed_or_cooled", tx, NoThread>> /\ a7.body = b
      /\ a8.key = <<"status", "parent_cooling", tx, NoThread>> /\ a8.body = b
      /\ a9.key = <<"event", "recovery_tx_completed", tx, NoThread>> /\ a9.body = b
      /\ a10.key = <<"event", "identity_consumed", tx, NoThread>> /\ a10.body = b
      /\ a11.key = <<"status", "completed", tx, NoThread>> /\ a11.body = b
  BY <1>2 DEF Event, Status, Once, OnChild, Item
<1>5. \E S : s \in Seq(S)
  <2>1. s \in Seq({a1, a2, a3, a4, a5, a6, a7, a8, a9, a10, a11})
    BY <1>3
  <2> QED BY <2>1
<1>6. Len(s) = 11 /\ s[1] = a1 /\ s[2] = a2 /\ s[3] = a3 /\ s[4] = a4 /\ s[5] = a5 /\ s[6] = a6 /\ s[7] = a7 /\ s[8] = a8 /\ s[9] = a9 /\ s[10] = a10 /\ s[11] = a11
  BY <1>3
<1>7. /\ IsStep(a1.key, "event", "child_session_created") /\ a1.key[3] = tx /\ a1.key[4] = child
      /\ IsStep(a2.key, "status", "child_created") /\ a2.key[3] = tx /\ a2.key[4] = NoThread
      /\ IsStep(a3.key, "status", "lineage_pending") /\ a3.key[3] = tx /\ a3.key[4] = NoThread
      /\ IsStep(a4.key, "event", "lineage") /\ a4.key[3] = tx /\ a4.key[4] = child
      /\ IsStep(a5.key, "event", "lineage_committed") /\ a5.key[3] = tx /\ a5.key[4] = child
      /\ IsStep(a6.key, "status", "lineage_committed") /\ a6.key[3] = tx /\ a6.key[4] = NoThread
      /\ IsStep(a7.key, "event", "parent_session_closed_or_cooled") /\ a7.key[3] = tx /\ a7.key[4] = NoThread
      /\ IsStep(a8.key, "status", "parent_cooling") /\ a8.key[3] = tx /\ a8.key[4] = NoThread
      /\ IsStep(a9.key, "event", "recovery_tx_completed") /\ a9.key[3] = tx /\ a9.key[4] = NoThread
      /\ IsStep(a10.key, "event", "identity_consumed") /\ a10.key[3] = tx /\ a10.key[4] = NoThread
      /\ IsStep(a11.key, "status", "completed") /\ a11.key[3] = tx /\ a11.key[4] = NoThread
  BY <1>4 DEF IsStep
<1>8. /\ Rank(a1.key) = 6
      /\ Rank(a2.key) = 7
      /\ Rank(a3.key) = 8
      /\ Rank(a4.key) = 9
      /\ Rank(a5.key) = 10
      /\ Rank(a6.key) = 11
      /\ Rank(a7.key) = 12
      /\ Rank(a8.key) = 13
      /\ Rank(a9.key) = 14
      /\ Rank(a10.key) = 15
      /\ Rank(a11.key) = 16
  BY <1>7 DEF Rank, IsStep
<1>9. \A i, j \in 1..11 : Rank(s[i].key) = Rank(s[j].key) => i = j
  <2>1. \A i \in 1..11 : Rank(s[i].key) = i + 5
    BY <1>6, <1>8
  <2> QED BY <2>1
<1>10. \A i \in 1..11 : ItemOK(s[i], tx, packet) /\ s[i].body = b
  BY <1>1, <1>4, <1>6, <1>7 DEF ItemOK, RecoverySteps, IsStep
<1>11. NeedsMet(s, {<<"status", "packet_frozen">>})
  <2> SUFFICES ASSUME NEW i \in 1..11, s[i].key[1] = "status", s[i].key[2] \in DOMAIN Needs,
                      NEW need \in Needs[s[i].key[2]]
               PROVE  \/ \E p \in {<<"status", "packet_frozen">>} : IsStep(need, p[1], p[2])
                      \/ \E j \in 1..i - 1 : IsStep(s[j].key, need[1], need[2])
    BY <1>6 DEF NeedsMet
  <2>1. CASE i = 2
    <3>1. s[i].key[2] = "child_created"
      BY <1>6, <1>7, <2>1 DEF IsStep
    <3>2. IsStep(need, "status", "packet_frozen") \/ IsStep(need, "event", "child_session_created")
      BY <3>1, Needs_child_created
    <3>3. 1 \in 1..i - 1 /\ IsStep(s[1].key, "event", "child_session_created")
      BY <1>6, <1>7, <2>1
    <3> QED BY <3>2, <3>3 DEF IsStep
  <2>2. CASE i = 3
    <3>1. s[i].key[2] = "lineage_pending"
      BY <1>6, <1>7, <2>2 DEF IsStep
    <3>2. IsStep(need, "status", "child_created")
      BY <3>1, Needs_lineage_pending
    <3>3. 2 \in 1..i - 1 /\ IsStep(s[2].key, "status", "child_created")
      BY <1>6, <1>7, <2>2
    <3> QED BY <3>2, <3>3 DEF IsStep
  <2>3. CASE i = 6
    <3>1. s[i].key[2] = "lineage_committed"
      BY <1>6, <1>7, <2>3 DEF IsStep
    <3>2. IsStep(need, "status", "lineage_pending") \/ IsStep(need, "event", "lineage") \/ IsStep(need, "event", "lineage_committed")
      BY <3>1, Needs_lineage_committed
    <3>3. 3 \in 1..i - 1 /\ IsStep(s[3].key, "status", "lineage_pending") /\ 4 \in 1..i - 1 /\ IsStep(s[4].key, "event", "lineage") /\ 5 \in 1..i - 1 /\ IsStep(s[5].key, "event", "lineage_committed")
      BY <1>6, <1>7, <2>3
    <3> QED BY <3>2, <3>3 DEF IsStep
  <2>4. CASE i = 8
    <3>1. s[i].key[2] = "parent_cooling"
      BY <1>6, <1>7, <2>4 DEF IsStep
    <3>2. IsStep(need, "status", "lineage_committed") \/ IsStep(need, "event", "parent_session_closed_or_cooled")
      BY <3>1, Needs_parent_cooling
    <3>3. 6 \in 1..i - 1 /\ IsStep(s[6].key, "status", "lineage_committed") /\ 7 \in 1..i - 1 /\ IsStep(s[7].key, "event", "parent_session_closed_or_cooled")
      BY <1>6, <1>7, <2>4
    <3> QED BY <3>2, <3>3 DEF IsStep
  <2>5. CASE i = 11
    <3>1. s[i].key[2] = "completed"
      BY <1>6, <1>7, <2>5 DEF IsStep
    <3>2. IsStep(need, "status", "packet_frozen") \/ IsStep(need, "event", "recovery_tx_completed")
      BY <3>1, Needs_completed
    <3>3. 9 \in 1..i - 1 /\ IsStep(s[9].key, "event", "recovery_tx_completed")
      BY <1>6, <1>7, <2>5
    <3> QED BY <3>2, <3>3 DEF IsStep
  <2>6. i = 2 \/ i = 3 \/ i = 6 \/ i = 8 \/ i = 11
    BY <1>6, <1>7 DEF IsStep
  <2> QED BY <2>1, <2>2, <2>3, <2>4, <2>5, <2>6
<1>12. LineageAfterChild(s, tx)
  <2> SUFFICES ASSUME NEW i \in 1..11, s[i].key[2] = "lineage"
               PROVE  /\ s[i].key = <<"event", "lineage", tx, s[i].key[4]>>
                      /\ \E j \in 1..i - 1 : s[j].key = ChildKey(tx) /\ s[j].body.child = s[i].key[4]
    BY <1>6 DEF LineageAfterChild
  <2>1. i = 4
    BY <1>6, <1>7 DEF IsStep
  <2>2. s[4].key = <<"event", "lineage", tx, child>> /\ s[4].key[4] = child
    BY <1>4, <1>6, <1>7
  <2>3. s[2].key = ChildKey(tx) /\ s[2].body.child = child /\ 2 \in 1..i - 1
    BY <1>1, <1>4, <1>6, <2>1 DEF ChildKey
  <2> QED BY <2>1, <2>2, <2>3
<1>13. Part(s, 11, tx, packet, "child", child)
  BY <1>1, <1>6, <1>9, <1>10, <1>12 DEF Part
<1>14. s[1].key[2] \in OutcomeSteps /\ s[11].key = EndKey("completed", tx)
  BY <1>4, <1>6, <1>7 DEF OutcomeSteps, EndKey, StartKey, IsStep, Terminal
<1>15. \A i \in 1..11 : Rank(s[i].key) \in 6..19
  BY <1>6, <1>8
<1> QED BY <1>5, <1>11, <1>13, <1>14, <1>15

LEMMA FailedPart ==
    ASSUME NEW tx, NEW packet, NEW s, s = PlainScript(tx, packet, "error")
    PROVE  /\ \E S : s \in Seq(S)
           /\ Part(s, 4, tx, packet, "error", NoThread)
           /\ NeedsMet(s, {<<"status", "packet_frozen">>})
           /\ s[1].key[2] \in OutcomeSteps /\ s[4].key = EndKey("failed_retryable", tx)
           /\ \A i \in 1..4 : Rank(s[i].key) \in 6..19
<1>1. PICK b : /\ b = Body(packet, "error", NoThread)
               /\ b.packet = packet /\ b.resume = "error" /\ b.child = NoThread
  BY BodyFields
<1>2. PICK a1, a2, a3, a4 :
         /\ a1 = [Once("identity_invalidated", tx, b) EXCEPT !.fresh = TRUE]
         /\ a2 = Once("replay_invalidated", tx, b)
         /\ a3 = Event("recovery_tx_completed", tx, b, FALSE)
         /\ a4 = Status("failed_retryable", tx, b)
  OBVIOUS
<1>3. s = <<a1, a2, a3, a4>>
  BY <1>1, <1>2 DEF PlainScript
<1>4. /\ a1.key = <<"event", "identity_invalidated", tx, NoThread>> /\ a1.body = b
      /\ a2.key = <<"event", "replay_invalidated", tx, NoThread>> /\ a2.body = b
      /\ a3.key = <<"event", "recovery_tx_completed", tx, NoThread>> /\ a3.body = b
      /\ a4.key = <<"status", "failed_retryable", tx, NoThread>> /\ a4.body = b
  BY <1>2 DEF Event, Status, Once, OnChild, Item
<1>5. \E S : s \in Seq(S)
  <2>1. s \in Seq({a1, a2, a3, a4})
    BY <1>3, FourInSeq
  <2> QED BY <2>1
<1>6. Len(s) = 4 /\ s[1] = a1 /\ s[2] = a2 /\ s[3] = a3 /\ s[4] = a4
  BY <1>3
<1>7. /\ IsStep(a1.key, "event", "identity_invalidated") /\ a1.key[3] = tx /\ a1.key[4] = NoThread
      /\ IsStep(a2.key, "event", "replay_invalidated") /\ a2.key[3] = tx /\ a2.key[4] = NoThread
      /\ IsStep(a3.key, "event", "recovery_tx_completed") /\ a3.key[3] = tx /\ a3.key[4] = NoThread
      /\ IsStep(a4.key, "status", "failed_retryable") /\ a4.key[3] = tx /\ a4.key[4] = NoThread
  BY <1>4 DEF IsStep
<1>8. /\ Rank(a1.key) = 17
      /\ Rank(a2.key) = 18
      /\ Rank(a3.key) = 14
      /\ Rank(a4.key) = 19
  BY <1>7 DEF Rank, IsStep
<1>9. \A i, j \in 1..4 : Rank(s[i].key) = Rank(s[j].key) => i = j
  BY <1>6, <1>8
<1>10. \A i \in 1..4 : ItemOK(s[i], tx, packet) /\ s[i].body = b
  BY <1>1, <1>4, <1>6, <1>7 DEF ItemOK, RecoverySteps, IsStep
<1>11. NeedsMet(s, {<<"status", "packet_frozen">>})
  <2> SUFFICES ASSUME NEW i \in 1..4, s[i].key[1] = "status", s[i].key[2] \in DOMAIN Needs,
                      NEW need \in Needs[s[i].key[2]]
               PROVE  \/ \E p \in {<<"status", "packet_frozen">>} : IsStep(need, p[1], p[2])
                      \/ \E j \in 1..i - 1 : IsStep(s[j].key, need[1], need[2])
    BY <1>6 DEF NeedsMet
  <2>1. CASE i = 4
    <3>1. s[i].key[2] = "failed_retryable"
      BY <1>6, <1>7, <2>1 DEF IsStep
    <3>2. IsStep(need, "status", "packet_frozen") \/ IsStep(need, "event", "recovery_tx_completed")
      BY <3>1, Needs_failed_retryable
    <3>3. 3 \in 1..i - 1 /\ IsStep(s[3].key, "event", "recovery_tx_completed")
      BY <1>6, <1>7, <2>1
    <3> QED BY <3>2, <3>3 DEF IsStep
  <2>2. i = 4
    BY <1>6, <1>7 DEF IsStep
  <2> QED BY <2>1, <2>2
<1>12. LineageAfterChild(s, tx)
  BY <1>6, <1>7 DEF LineageAfterChild, IsStep
<1>13. Part(s, 4, tx, packet, "error", NoThread)
  BY <1>1, <1>6, <1>9, <1>10, <1>12 DEF Part
<1>14. s[1].key[2] \in OutcomeSteps /\ s[4].key = EndKey("failed_retryable", tx)
  BY <1>4, <1>6, <1>7 DEF OutcomeSteps, EndKey, StartKey, IsStep, Terminal
<1>15. \A i \in 1..4 : Rank(s[i].key) \in 6..19
  BY <1>6, <1>8
<1> QED BY <1>5, <1>11, <1>13, <1>14, <1>15

LEMMA ResumedPart ==
    ASSUME NEW tx, NEW packet, NEW resume, resume # "error", NEW s, s = PlainScript(tx, packet, resume)
    PROVE  /\ \E S : s \in Seq(S)
           /\ Part(s, 3, tx, packet, resume, NoThread)
           /\ NeedsMet(s, {<<"status", "packet_frozen">>})
           /\ s[1].key[2] \in OutcomeSteps /\ s[3].key = EndKey("completed", tx)
           /\ \A i \in 1..3 : Rank(s[i].key) \in 6..19
<1>1. PICK b : /\ b = Body(packet, resume, NoThread)
               /\ b.packet = packet /\ b.resume = resume /\ b.child = NoThread
  BY BodyFields
<1>2. PICK a1, a2, a3 :
         /\ a1 = [Once("identity_consumed", tx, b) EXCEPT !.fresh = TRUE]
         /\ a2 = Event("recovery_tx_completed", tx, b, FALSE)
         /\ a3 = Status("completed", tx, b)
  OBVIOUS
<1>3. s = <<a1, a2, a3>>
  BY <1>1, <1>2 DEF PlainScript
<1>4. /\ a1.key = <<"event", "identity_consumed", tx, NoThread>> /\ a1.body = b
      /\ a2.key = <<"event", "recovery_tx_completed", tx, NoThread>> /\ a2.body = b
      /\ a3.key = <<"status", "completed", tx, NoThread>> /\ a3.body = b
  BY <1>2 DEF Event, Status, Once, OnChild, Item
<1>5. \E S : s \in Seq(S)
  <2>1. s \in Seq({a1, a2, a3})
    BY <1>3
  <2> QED BY <2>1
<1>6. Len(s) = 3 /\ s[1] = a1 /\ s[2] = a2 /\ s[3] = a3
  BY <1>3
<1>7. /\ IsStep(a1.key, "event", "identity_consumed") /\ a1.key[3] = tx /\ a1.key[4] = NoThread
      /\ IsStep(a2.key, "event", "recovery_tx_completed") /\ a2.key[3] = tx /\ a2.key[4] = NoThread
      /\ IsStep(a3.key, "status", "completed") /\ a3.key[3] = tx /\ a3.key[4] = NoThread
  BY <1>4 DEF IsStep
<1>8. /\ Rank(a1.key) = 15
      /\ Rank(a2.key) = 14
      /\ Rank(a3.key) = 16
  BY <1>7 DEF Rank, IsStep
<1>9. \A i, j \in 1..3 : Rank(s[i].key) = Rank(s[j].key) => i = j
  BY <1>6, <1>8
<1>10. \A i \in 1..3 : ItemOK(s[i], tx, packet) /\ s[i].body = b
  BY <1>1, <1>4, <1>6, <1>7 DEF ItemOK, RecoverySteps, IsStep
<1>11. NeedsMet(s, {<<"status", "packet_frozen">>})
  <2> SUFFICES ASSUME NEW i \in 1..3, s[i].key[1] = "status", s[i].key[2] \in DOMAIN Needs,
                      NEW need \in Needs[s[i].key[2]]
               PROVE  \/ \E p \in {<<"status", "packet_frozen">>} : IsStep(need, p[1], p[2])
                      \/ \E j \in 1..i - 1 : IsStep(s[j].key, need[1], need[2])
    BY <1>6 DEF NeedsMet
  <2>1. CASE i = 3
    <3>1. s[i].key[2] = "completed"
      BY <1>6, <1>7, <2>1 DEF IsStep
    <3>2. IsStep(need, "status", "packet_frozen") \/ IsStep(need, "event", "recovery_tx_completed")
      BY <3>1, Needs_completed
    <3>3. 2 \in 1..i - 1 /\ IsStep(s[2].key, "event", "recovery_tx_completed")
      BY <1>6, <1>7, <2>1
    <3> QED BY <3>2, <3>3 DEF IsStep
  <2>2. i = 3
    BY <1>6, <1>7 DEF IsStep
  <2> QED BY <2>1, <2>2
<1>12. LineageAfterChild(s, tx)
  BY <1>6, <1>7 DEF LineageAfterChild, IsStep
<1>13. Part(s, 3, tx, packet, resume, NoThread)
  BY <1>1, <1>6, <1>9, <1>10, <1>12 DEF Part
<1>14. s[1].key[2] \in OutcomeSteps /\ s[3].key = EndKey("completed", tx)
  BY <1>4, <1>6, <1>7 DEF OutcomeSteps, EndKey, StartKey, IsStep, Terminal
<1>15. \A i \in 1..3 : Rank(s[i].key) \in 6..19
  BY <1>6, <1>8
<1> QED BY <1>5, <1>11, <1>13, <1>14, <1>15

(***************************************************************************)
(* The whole script of a transaction.                                      *)
(***************************************************************************)
JoinedTo(a, x, s, m, n) ==
    /\ \E S : s \in Seq(S)
    /\ Len(s) = m + n
    /\ \A i \in 1..m : s[i] = a[i]
    /\ \A i \in 1..n : s[i + m] = x[i]

LEMMA Joined ==
    ASSUME NEW A, NEW B, NEW a \in Seq(A), NEW x \in Seq(B)
    PROVE  JoinedTo(a, x, a \o x, Len(a), Len(x))
<1>0. PICK C : C = A \cup B
  OBVIOUS
<1>1. PICK m \in Nat, n \in Nat : m = Len(a) /\ n = Len(x)
  <2>1. Len(a) \in Nat /\ Len(x) \in Nat
    OBVIOUS
  <2> QED BY <2>1
<1>2. a \in Seq(C) /\ x \in Seq(C)
  BY <1>0
<1>3. PICK s : s = a \o x
  OBVIOUS
<1>4. /\ s \in Seq(C) /\ Len(s) = m + n
      /\ \A i \in 1..m + n : s[i] = IF i <= m THEN a[i] ELSE x[i - m]
  <2>1. /\ a \o x \in Seq(C) /\ Len(a \o x) = Len(a) + Len(x)
        /\ \A i \in 1 .. Len(a) + Len(x) :
              (a \o x)[i] = IF i <= Len(a) THEN a[i] ELSE x[i - Len(a)]
    BY <1>2, ConcatProperties
  <2> QED BY <1>1, <1>3, <2>1
<1>5. \A i \in 1..n : i + m \in 1..m + n /\ ~(i + m <= m) /\ (i + m) - m = i
  OBVIOUS
<1>6. \A i \in 1..n : s[i + m] = x[i]
  BY <1>4, <1>5
<1>7. \A i \in 1..m : i \in 1..m + n
  OBVIOUS
<1>8. \A i \in 1..m : s[i] = a[i]
  BY <1>4, <1>7
<1>9. JoinedTo(a, x, s, m, n)
  BY <1>4, <1>6, <1>8 DEF JoinedTo
<1> QED BY <1>1, <1>3, <1>9

Shaped(s, tx, packet, resume, child) ==
    /\ \E S : s \in Seq(S)
    /\ Len(s) \in 8..16
    /\ \A i \in 1..Len(s) : ItemOK(s[i], tx, packet)
    /\ \A i, j \in 1..Len(s) : s[i].key = s[j].key => i = j
    /\ s[1].key = StartKey(tx)
    /\ \A i \in 1..5 : s[i] = OpeningScript(tx, packet)[i]
    /\ s[6].key[2] \in OutcomeSteps /\ s[6].body.resume = resume /\ s[6].body.child = child
    /\ \E end \in Terminal : s[Len(s)].key = EndKey(end, tx)
    /\ NeedsMet(s, {}) /\ LineageAfterChild(s, tx)

\* The part of a script after the opening.
ClosingPart(x, n, tx, packet, resume, child, end) ==
    /\ Part(x, n, tx, packet, resume, child)
    /\ NeedsMet(x, {<<"status", "packet_frozen">>})
    /\ x[1].key[2] \in OutcomeSteps /\ x[n].key = EndKey(end, tx)
    /\ \A i \in 1..n : Rank(x[i].key) \in 6..19

LEMMA AssembledFrom ==
    ASSUME NEW tx, NEW packet, NEW resume, NEW child, NEW n \in 3..11, NEW end \in Terminal,
           NEW a, a = OpeningScript(tx, packet), NEW x, NEW s,
           ClosingPart(x, n, tx, packet, resume, child, end), JoinedTo(a, x, s, 5, n)
    PROVE  Shaped(s, tx, packet, resume, child)
<1>0. /\ Part(x, n, tx, packet, resume, child)
      /\ NeedsMet(x, {<<"status", "packet_frozen">>})
      /\ x[1].key[2] \in OutcomeSteps /\ x[n].key = EndKey(end, tx)
      /\ \A i \in 1..n : Rank(x[i].key) \in 6..19
  BY DEF ClosingPart
<1>5. /\ \E S : s \in Seq(S)
      /\ Len(s) = 5 + n
      /\ \A i \in 1..5 : s[i] = a[i]
      /\ \A i \in 1..n : s[i + 5] = x[i]
  BY DEF JoinedTo
<1>1. n \in Nat /\ 5 \in Nat
  OBVIOUS
<1>2. /\ \E S : a \in Seq(S)
      /\ Part(a, 5, tx, packet, "none", NoThread) /\ NeedsMet(a, {})
      /\ a[1].key = StartKey(tx) /\ IsStep(a[4].key, "status", "packet_frozen")
      /\ \A i \in 1..5 : Rank(a[i].key) \in 1..5
  BY OpeningPart
<1>4. /\ Len(a) = 5 /\ Len(x) = n
      /\ \A i \in 1..5 : ItemOK(a[i], tx, packet)
      /\ \A i, j \in 1..5 : Rank(a[i].key) = Rank(a[j].key) => i = j
      /\ \A i \in 1..n : ItemOK(x[i], tx, packet) /\ x[i].body.resume = resume /\ x[i].body.child = child
      /\ \A i, j \in 1..n : Rank(x[i].key) = Rank(x[j].key) => i = j
      /\ LineageAfterChild(a, tx) /\ LineageAfterChild(x, tx)
  BY <1>0, <1>2 DEF Part
<1>6. ASSUME NEW i \in 1..5 + n
      PROVE  (i \in 1..5 /\ s[i] = a[i]) \/ \E k \in 1..n : i = k + 5 /\ s[i] = x[k]
  <2>1. CASE i <= 5
    BY <1>5, <2>1
  <2>2. CASE i > 5
    <3>1. i - 5 \in 1..n /\ i = (i - 5) + 5
      BY <2>2
    <3> QED BY <1>5, <3>1
  <2> QED BY <2>1, <2>2
<1>7. \A i \in 1..5 + n : ItemOK(s[i], tx, packet)
  BY <1>4, <1>6
<1>8. ASSUME NEW i \in 1..5 + n, NEW j \in 1..5 + n, s[i].key = s[j].key PROVE i = j
  <2>1. CASE i \in 1..5 /\ s[i] = a[i]
    <3>1. ASSUME NEW k \in 1..n, s[j] = x[k] PROVE FALSE
      <4>1. Rank(x[k].key) = Rank(a[i].key)
        BY <1>8, <2>1, <3>1
      <4>2. Rank(a[i].key) \in 1..5 /\ Rank(x[k].key) \in 6..19
        BY <1>0, <1>2, <2>1
      <4> QED BY <4>1, <4>2
    <3>2. j \in 1..5 /\ s[j] = a[j]
      BY <1>6, <3>1
    <3> QED BY <1>4, <1>8, <2>1, <3>2
  <2>2. ASSUME NEW k \in 1..n, i = k + 5, s[i] = x[k] PROVE i = j
    <3>1. ASSUME j \in 1..5, s[j] = a[j] PROVE FALSE
      <4>1. Rank(a[j].key) = Rank(x[k].key)
        BY <1>8, <2>2, <3>1
      <4>2. Rank(a[j].key) \in 1..5 /\ Rank(x[k].key) \in 6..19
        BY <1>0, <1>2, <2>2, <3>1
      <4> QED BY <4>1, <4>2
    <3>2. PICK m \in 1..n : j = m + 5 /\ s[j] = x[m]
      BY <1>6, <3>1
    <3> QED BY <1>4, <1>8, <2>2, <3>2
  <2> QED BY <1>6, <2>1, <2>2
<1>9. NeedsMet(s, {})
  <2> SUFFICES ASSUME NEW i \in 1..5 + n, s[i].key[1] = "status", s[i].key[2] \in DOMAIN Needs,
                      NEW need \in Needs[s[i].key[2]]
               PROVE  \E j \in 1..i - 1 : IsStep(s[j].key, need[1], need[2])
    BY <1>5 DEF NeedsMet
  <2>1. CASE i \in 1..5 /\ s[i] = a[i]
    <3>1. PICK j \in 1..i - 1 : IsStep(a[j].key, need[1], need[2])
      BY <1>2, <1>4, <2>1 DEF NeedsMet
    <3>2. j \in 1..5 /\ s[j] = a[j]
      BY <1>5, <2>1
    <3> QED BY <3>1, <3>2
  <2>2. ASSUME NEW k \in 1..n, i = k + 5, s[i] = x[k]
        PROVE  \E j \in 1..i - 1 : IsStep(s[j].key, need[1], need[2])
    <3>1. \/ \E p \in {<<"status", "packet_frozen">>} : IsStep(need, p[1], p[2])
          \/ \E j \in 1..k - 1 : IsStep(x[j].key, need[1], need[2])
      BY <1>0, <1>4, <2>2 DEF NeedsMet
    <3>2. CASE IsStep(need, "status", "packet_frozen")
      <4>1. 4 \in 1..i - 1 /\ s[4] = a[4]
        BY <1>5, <2>2
      <4>2. IsStep(s[4].key, need[1], need[2])
        BY <1>2, <3>2, <4>1 DEF IsStep
      <4> QED BY <4>1, <4>2
    <3>3. ASSUME NEW j \in 1..k - 1, IsStep(x[j].key, need[1], need[2])
          PROVE  \E q \in 1..i - 1 : IsStep(s[q].key, need[1], need[2])
      <4>1. j + 5 \in 1..i - 1 /\ s[j + 5] = x[j]
        BY <1>5, <2>2, <3>3
      <4> QED BY <3>3, <4>1
    <3> QED BY <3>1, <3>2, <3>3
  <2> QED BY <1>6, <2>1, <2>2
<1>10. LineageAfterChild(s, tx)
  <2> SUFFICES ASSUME NEW i \in 1..5 + n, s[i].key[2] = "lineage"
               PROVE  /\ s[i].key = <<"event", "lineage", tx, s[i].key[4]>>
                      /\ \E j \in 1..i - 1 : s[j].key = ChildKey(tx) /\ s[j].body.child = s[i].key[4]
    BY <1>5 DEF LineageAfterChild
  <2>1. CASE i \in 1..5 /\ s[i] = a[i]
    <3>1. PICK j \in 1..i - 1 : a[j].key = ChildKey(tx) /\ a[j].body.child = a[i].key[4]
      BY <1>4, <2>1 DEF LineageAfterChild
    <3>2. j \in 1..5 /\ s[j] = a[j]
      BY <1>5, <2>1
    <3>3. s[i].key = <<"event", "lineage", tx, s[i].key[4]>>
      BY <1>4, <2>1 DEF LineageAfterChild
    <3> QED BY <2>1, <3>1, <3>2, <3>3
  <2>2. ASSUME NEW k \in 1..n, i = k + 5, s[i] = x[k]
        PROVE  /\ s[i].key = <<"event", "lineage", tx, s[i].key[4]>>
               /\ \E j \in 1..i - 1 : s[j].key = ChildKey(tx) /\ s[j].body.child = s[i].key[4]
    <3>1. PICK j \in 1..k - 1 : x[j].key = ChildKey(tx) /\ x[j].body.child = x[k].key[4]
      BY <1>4, <2>2 DEF LineageAfterChild
    <3>2. j + 5 \in 1..i - 1 /\ s[j + 5] = x[j]
      BY <1>5, <2>2, <3>1
    <3>3. s[i].key = <<"event", "lineage", tx, s[i].key[4]>>
      BY <1>4, <2>2 DEF LineageAfterChild
    <3> QED BY <2>2, <3>1, <3>2, <3>3
  <2> QED BY <1>6, <2>1, <2>2
<1>11. s[6] = x[1] /\ s[n + 5] = x[n] /\ 1 \in 1..n
  <2>1. 1 \in 1..n /\ n \in 1..n /\ 1 + 5 = 6
    OBVIOUS
  <2> QED BY <1>5, <2>1
<1>12. Len(s) \in 8..16 /\ s[1] = a[1] /\ Len(s) = n + 5
  BY <1>5
<1>13. \E S : s \in Seq(S)
  BY <1>5
<1>14. s[6].key[2] \in OutcomeSteps /\ s[6].body.resume = resume /\ s[6].body.child = child
  BY <1>0, <1>4, <1>11
<1>15. s[Len(s)].key = EndKey(end, tx)
  BY <1>0, <1>11, <1>12
<1> QED BY <1>2, <1>5, <1>7, <1>8, <1>9, <1>10, <1>12, <1>13, <1>14, <1>15 DEF Shaped

LEMMA Assembled ==
    ASSUME NEW tx, NEW packet, NEW resume, NEW child, NEW n \in 3..11, NEW end \in Terminal,
           NEW x, \E S : x \in Seq(S), ClosingPart(x, n, tx, packet, resume, child, end)
    PROVE  Shaped(OpeningScript(tx, packet) \o x, tx, packet, resume, child)
<1>1. PICK a, s : a = OpeningScript(tx, packet) /\ s = a \o x
  OBVIOUS
<1>2. (\E S : a \in Seq(S)) /\ Len(a) = 5 /\ Len(x) = n
  BY <1>1, OpeningPart DEF Part, ClosingPart
<1>3. PICK A, B : a \in Seq(A) /\ x \in Seq(B)
  BY <1>2
<1>4. JoinedTo(a, x, s, 5, n)
  BY <1>1, <1>2, <1>3, Joined
<1> QED BY <1>1, <1>4, AssembledFrom

\* The script of a recovery, with what it says of the resume.
IsScript(s, tx, packet, r, ch) ==
    \E resume, child :
        /\ s = RecoveryScript(tx, packet, resume, child)
        /\ r = (IF child # NoThread THEN "child" ELSE resume)
        /\ ch = child

LEMMA ScriptShape ==
    ASSUME NEW s, NEW tx, NEW packet, NEW r, NEW ch, IsScript(s, tx, packet, r, ch)
    PROVE  Shaped(s, tx, packet, r, ch)
<1>1. PICK resume, child : /\ s = RecoveryScript(tx, packet, resume, child)
                           /\ r = (IF child # NoThread THEN "child" ELSE resume)
                           /\ ch = child
  BY DEF IsScript
<1>0. 3 \in 3..11 /\ 4 \in 3..11 /\ 11 \in 3..11 /\ {"completed", "failed_retryable"} \subseteq Terminal
  BY DEF Terminal
<1>2. CASE child # NoThread
  <2>1. s = OpeningScript(tx, packet) \o ChildScript(tx, packet, child) /\ r = "child"
    BY <1>1, <1>2 DEF RecoveryScript
  <2>2. PICK x : x = ChildScript(tx, packet, child)
    OBVIOUS
  <2>3. (\E S : x \in Seq(S)) /\ ClosingPart(x, 11, tx, packet, "child", child, "completed")
    BY <1>1, <1>2, <2>2, ChildPart DEF ClosingPart
  <2>4. Shaped(OpeningScript(tx, packet) \o x, tx, packet, "child", child)
    BY <1>0, <2>3, Assembled
  <2> QED BY <1>1, <1>2, <2>1, <2>2, <2>4
<1>3. CASE child = NoThread /\ resume = "error"
  <2>1. s = OpeningScript(tx, packet) \o PlainScript(tx, packet, "error") /\ r = "error"
    BY <1>1, <1>3 DEF RecoveryScript
  <2>2. PICK x : x = PlainScript(tx, packet, "error")
    OBVIOUS
  <2>3. (\E S : x \in Seq(S)) /\ ClosingPart(x, 4, tx, packet, "error", NoThread, "failed_retryable")
    BY <1>1, <1>3, <2>2, FailedPart DEF ClosingPart
  <2>4. Shaped(OpeningScript(tx, packet) \o x, tx, packet, "error", NoThread)
    BY <1>0, <2>3, Assembled
  <2> QED BY <1>1, <1>3, <2>1, <2>2, <2>4
<1>4. CASE child = NoThread /\ resume # "error"
  <2>1. s = OpeningScript(tx, packet) \o PlainScript(tx, packet, resume) /\ r = resume
    BY <1>1, <1>4 DEF RecoveryScript
  <2>2. PICK x : x = PlainScript(tx, packet, resume)
    OBVIOUS
  <2>3. (\E S : x \in Seq(S)) /\ ClosingPart(x, 3, tx, packet, resume, NoThread, "completed")
    BY <1>1, <1>4, <2>2, ResumedPart DEF ClosingPart
  <2>4. Shaped(OpeningScript(tx, packet) \o x, tx, packet, resume, NoThread)
    BY <1>0, <2>3, Assembled
  <2> QED BY <1>1, <1>4, <2>1, <2>2, <2>4
<1> QED BY <1>2, <1>3, <1>4

\* There is one script for what it says.
LEMMA SameScript ==
    ASSUME NEW s, NEW t, NEW tx, NEW packet, NEW r, NEW ch,
           IsScript(s, tx, packet, r, ch), IsScript(t, tx, packet, r, ch)
    PROVE  s = t
<1>1. PICK resume, child : /\ s = RecoveryScript(tx, packet, resume, child)
                           /\ r = (IF child # NoThread THEN "child" ELSE resume)
                           /\ ch = child
  BY DEF IsScript
<1>2. PICK resume2, child2 : /\ t = RecoveryScript(tx, packet, resume2, child2)
                             /\ r = (IF child2 # NoThread THEN "child" ELSE resume2)
                             /\ ch = child2
  BY DEF IsScript
<1>3. CASE child # NoThread
  BY <1>1, <1>2, <1>3 DEF RecoveryScript
<1>4. CASE child = NoThread
  BY <1>1, <1>2, <1>4 DEF RecoveryScript
<1> QED BY <1>3, <1>4

(***************************************************************************)
(* The log, and the calls that write it.                                   *)
(***************************************************************************)
\* A record that says what an item of a script says.
Says(q, item) ==
    /\ q.key = item.key /\ q.body.packet = item.body.packet
    /\ q.body.resume = item.body.resume /\ q.body.child = item.body.child

InLog(E, s, p) == \A i \in 1..p - 1 : \E q \in E : Says(q, s[i])

NeedsOf(E, r) ==
    r.key[1] = "status" =>
        /\ r.key[2] \in RecoverySteps
        /\ r.key[2] \in DOMAIN Needs =>
              \A need \in Needs[r.key[2]] :
                  \E q \in E : IsStep(q.key, need[1], need[2]) /\ q.key[3] = r.key[3]

LineageOf(E, r) ==
    r.key[2] = "lineage" =>
        /\ r.key = <<"event", "lineage", r.key[3], r.key[4]>>
        /\ \E q \in E : q.key = ChildKey(r.key[3]) /\ q.body.child = r.key[4]

StartOf(E, r) == r.key[2] \in RecoverySteps => \E q \in E : q.key = StartKey(r.key[3])

Sound(E, r) == NeedsOf(E, r) /\ LineageOf(E, r) /\ StartOf(E, r)
SoundLog(E) == \A r \in E : Sound(E, r)

Unique(E) == \A q, r \in E : q.key = r.key => q = r

LEMMA SoundGrows ==
    ASSUME NEW E, NEW F, E \subseteq F, NEW r, Sound(E, r) PROVE Sound(F, r)
<1>1. NeedsOf(F, r)
  BY DEF Sound, NeedsOf
<1>2. LineageOf(F, r)
  BY DEF Sound, LineageOf
<1>3. StartOf(F, r)
  BY DEF Sound, StartOf
<1> QED BY <1>1, <1>2, <1>3 DEF Sound

\* The next record of a script has what it needs in the log.
LEMMA ScriptEnters ==
    ASSUME NEW E, NEW s, NEW tx, NEW packet, NEW r, NEW ch, IsScript(s, tx, packet, r, ch),
           NEW p \in 1..Len(s), InLog(E, s, p), NEW x, x.key = s[p].key
    PROVE  Sound(E \cup {x}, x)
<1>1. Shaped(s, tx, packet, r, ch)
  BY ScriptShape
<1>2. /\ Len(s) \in 8..16 /\ \A i \in 1..Len(s) : ItemOK(s[i], tx, packet)
      /\ s[1].key = StartKey(tx) /\ NeedsMet(s, {}) /\ LineageAfterChild(s, tx)
  BY <1>1 DEF Shaped
<1>3. \A i \in 1..p - 1 : i \in 1..Len(s) /\ \E q \in E : Says(q, s[i])
  BY <1>2 DEF InLog
<1>4. x.key[2] \in RecoverySteps /\ x.key[3] = tx
  BY <1>2 DEF ItemOK
<1>5. NeedsOf(E \cup {x}, x)
  <2> SUFFICES ASSUME x.key[1] = "status", x.key[2] \in DOMAIN Needs, NEW need \in Needs[x.key[2]]
               PROVE  \E q \in E \cup {x} : IsStep(q.key, need[1], need[2]) /\ q.key[3] = x.key[3]
    BY <1>4 DEF NeedsOf
  <2>1. PICK j \in 1..p - 1 : IsStep(s[j].key, need[1], need[2])
    BY <1>2 DEF NeedsMet
  <2>2. PICK q \in E : Says(q, s[j])
    BY <1>3
  <2>3. q.key = s[j].key /\ q.key[3] = tx
    BY <1>2, <1>3, <2>2 DEF Says, ItemOK
  <2> QED BY <1>4, <2>1, <2>3
<1>6. LineageOf(E \cup {x}, x)
  <2> SUFFICES ASSUME x.key[2] = "lineage"
               PROVE  /\ x.key = <<"event", "lineage", x.key[3], x.key[4]>>
                      /\ \E q \in E \cup {x} : q.key = ChildKey(x.key[3]) /\ q.body.child = x.key[4]
    BY DEF LineageOf
  <2>1. s[p].key = <<"event", "lineage", tx, s[p].key[4]>>
    BY <1>2 DEF LineageAfterChild
  <2>2. PICK j \in 1..p - 1 : s[j].key = ChildKey(tx) /\ s[j].body.child = s[p].key[4]
    BY <1>2 DEF LineageAfterChild
  <2>3. PICK q \in E : Says(q, s[j])
    BY <1>3
  <2> QED BY <1>4, <2>1, <2>2, <2>3 DEF Says
<1>7. StartOf(E \cup {x}, x)
  <2>1. CASE p = 1
    BY <1>2, <1>4, <2>1 DEF StartOf
  <2>2. CASE p # 1
    <3>1. 1 \in 1..p - 1
      BY <1>2, <2>2
    <3>2. PICK q \in E : Says(q, s[1])
      BY <1>3, <3>1
    <3> QED BY <1>2, <1>4, <3>2 DEF StartOf, Says
  <2> QED BY <2>1, <2>2
<1> QED BY <1>5, <1>6, <1>7 DEF Sound

DifferIn(E, tx) ==
    \E q, u \in E :
        /\ q.key[2] \in OutcomeSteps /\ q.key[3] = tx
        /\ u.key[2] \in OutcomeSteps /\ u.key[3] = tx
        /\ q.body.resume # u.body.resume \/ q.body.child # u.body.child

\* The log has nothing of the transaction beyond the first p - 1 items of s.
AllBefore(E, tx, s, p) ==
    \A q \in E : q.key[2] \in RecoverySteps /\ q.key[3] = tx =>
        \E i \in 1..p - 1 : q.key = s[i].key

\* When another call writes past the one that leads, it leads now, or the two
\* disagree in the log about how the resume went.
LEMMA Overtakes ==
    ASSUME NEW E, Unique(E), NEW tx,
           NEW s, NEW packet, NEW r, NEW ch, IsScript(s, tx, packet, r, ch),
           NEW p \in 1..Len(s), InLog(E, s, p),
           NEW t, NEW packet2, NEW r2, NEW ch2, IsScript(t, tx, packet2, r2, ch2),
           NEW m \in 1..Len(t), InLog(E, t, m), AllBefore(E, tx, t, m),
           NEW x, Says(x, s[p]), \A q \in E : q.key # x.key,
           \E q \in E : q.key = StartKey(tx)
    PROVE  AllBefore(E \cup {x}, tx, s, p + 1) \/ DifferIn(E \cup {x}, tx)
<1>a. Shaped(s, tx, packet, r, ch) /\ Shaped(t, tx, packet2, r2, ch2)
  BY ScriptShape
<1>1. /\ Len(s) \in 8..16 /\ \A i \in 1..Len(s) : ItemOK(s[i], tx, packet)
      /\ \A i, j \in 1..Len(s) : s[i].key = s[j].key => i = j
      /\ s[1].key = StartKey(tx)
      /\ \A i \in 1..5 : s[i] = OpeningScript(tx, packet)[i]
      /\ s[6].key[2] \in OutcomeSteps /\ s[6].body.resume = r /\ s[6].body.child = ch
  BY <1>a DEF Shaped
<1>2. /\ Len(t) \in 8..16 /\ \A i \in 1..Len(t) : ItemOK(t[i], tx, packet2)
      /\ \A i, j \in 1..Len(t) : t[i].key = t[j].key => i = j
      /\ t[1].key = StartKey(tx)
      /\ \A i \in 1..5 : t[i] = OpeningScript(tx, packet2)[i]
      /\ t[6].key[2] \in OutcomeSteps /\ t[6].body.resume = r2 /\ t[6].body.child = ch2
  BY <1>a DEF Shaped
<1>3. p \in Nat /\ m \in Nat /\ Len(s) \in Nat /\ Len(t) \in Nat
  BY <1>1, <1>2
<1>4. \A i \in 1..p - 1 : i \in 1..Len(s) /\ \E q \in E : Says(q, s[i])
  BY <1>3 DEF InLog
<1>5. \A i \in 1..m - 1 : i \in 1..Len(t) /\ \E q \in E : Says(q, t[i])
  BY <1>3 DEF InLog
<1>6. x.key = s[p].key /\ x.key[2] \in RecoverySteps /\ x.key[3] = tx
  BY <1>1 DEF Says, ItemOK
<1>7. \A i \in 1..p - 1 : \E j \in 1..m - 1 : s[i].key = t[j].key
  <2> SUFFICES ASSUME NEW i \in 1..p - 1 PROVE \E j \in 1..m - 1 : s[i].key = t[j].key
    OBVIOUS
  <2>1. PICK q \in E : q.key = s[i].key
    BY <1>4 DEF Says
  <2>2. q.key[2] \in RecoverySteps /\ q.key[3] = tx
    BY <1>1, <1>4, <2>1 DEF ItemOK
  <2> QED BY <2>1, <2>2 DEF AllBefore
<1>8. ASSUME NEW i \in 1..m - 1, s[p] = t[i] PROVE FALSE
  <2>1. PICK q \in E : Says(q, t[i])
    BY <1>5
  <2> QED BY <1>6, <1>8, <2>1 DEF Says
<1>9. ASSUME m \in 1..p - 1, s[m] = t[m] PROVE FALSE
  <2>1. PICK j \in 1..m - 1 : s[m].key = t[j].key
    BY <1>7, <1>9
  <2>2. j \in 1..Len(t) /\ j # m
    BY <1>3
  <2> QED BY <1>2, <1>9, <2>1, <2>2
<1>10. p # 1 /\ m # 1
  <2>1. p # 1
    BY <1>1, <1>6
  <2>2. 1 \in 1..p - 1
    BY <1>3, <2>1
  <2>3. PICK j \in 1..m - 1 : s[1].key = t[j].key
    BY <1>7, <2>2
  <2> QED BY <1>3, <2>1, <2>3
<1>11. packet = packet2
  <2>1. 1 \in 1..p - 1 /\ 1 \in 1..m - 1 /\ 1 \in 1..Len(s) /\ 1 \in 1..Len(t)
    BY <1>1, <1>2, <1>3, <1>10
  <2>2. PICK q \in E : Says(q, s[1])
    BY <1>4, <2>1
  <2>3. PICK u \in E : Says(u, t[1])
    BY <1>5, <2>1
  <2>4. q.key = u.key
    BY <1>1, <1>2, <2>2, <2>3 DEF Says
  <2>5. q = u
    BY <2>4 DEF Unique
  <2>6. q.body.packet = packet /\ u.body.packet = packet2
    BY <1>1, <1>2, <2>1, <2>2, <2>3 DEF Says, ItemOK
  <2> QED BY <2>5, <2>6
<1>12. ASSUME m = p, \A i \in 1..p - 1 : s[i] = t[i] PROVE AllBefore(E \cup {x}, tx, s, p + 1)
  <2> SUFFICES ASSUME NEW q \in E \cup {x}, q.key[2] \in RecoverySteps, q.key[3] = tx
               PROVE  \E i \in 1..(p + 1) - 1 : q.key = s[i].key
    BY DEF AllBefore
  <2>1. CASE q = x
    <3>1. p \in 1..(p + 1) - 1
      BY <1>3
    <3> QED BY <1>6, <2>1, <3>1
  <2>2. CASE q \in E
    <3>1. PICK i \in 1..m - 1 : q.key = t[i].key
      BY <2>2 DEF AllBefore
    <3>2. i \in 1..p - 1 /\ i \in 1..(p + 1) - 1
      BY <1>3, <1>12
    <3> QED BY <1>12, <3>1, <3>2
  <2> QED BY <2>1, <2>2
<1>13. CASE r = r2 /\ ch = ch2
  <2>1. s = t
    BY <1>11, <1>13, SameScript
  <2>2. ~(p < m)
    <3> SUFFICES ASSUME p < m PROVE FALSE
      OBVIOUS
    <3>1. p \in 1..m - 1
      BY <1>3
    <3> QED BY <1>8, <2>1, <3>1
  <2>3. ~(m < p)
    <3> SUFFICES ASSUME m < p PROVE FALSE
      OBVIOUS
    <3>1. m \in 1..p - 1
      BY <1>3
    <3> QED BY <1>9, <2>1, <3>1
  <2>4. m = p
    BY <1>3, <2>2, <2>3
  <2> QED BY <1>12, <2>1, <2>4
<1>14. CASE ~(r = r2 /\ ch = ch2)
  <2>1. \A i \in 1..5 : s[i] = t[i]
    BY <1>1, <1>2, <1>11
  <2>2. CASE m <= 5
    <3>1. ~(m < p)
      <4> SUFFICES ASSUME m < p PROVE FALSE
        OBVIOUS
      <4>1. m \in 1..p - 1 /\ m \in 1..5
        BY <1>3, <2>2
      <4> QED BY <1>9, <2>1, <4>1
    <3>2. ~(p < m)
      <4> SUFFICES ASSUME p < m PROVE FALSE
        OBVIOUS
      <4>1. p \in 1..m - 1 /\ p \in 1..5
        BY <1>3, <2>2
      <4> QED BY <1>8, <2>1, <4>1
    <3>3. m = p /\ \A i \in 1..p - 1 : i \in 1..5
      BY <1>3, <2>2, <3>1, <3>2
    <3> QED BY <1>12, <2>1, <3>3
  <2>3. CASE m > 5
    <3>1. p > 5
      <4> SUFFICES ASSUME ~(p > 5) PROVE FALSE
        OBVIOUS
      <4>1. p \in 1..m - 1 /\ p \in 1..5
        BY <1>3, <2>3
      <4> QED BY <1>8, <2>1, <4>1
    <3>2. CASE m = 6 /\ p = 6
      <4>1. m = p /\ \A i \in 1..p - 1 : i \in 1..5
        BY <3>2
      <4> QED BY <1>12, <2>1, <4>1
    <3>3. CASE m = 6 /\ p # 6
      <4>1. 6 \in 1..p - 1 /\ 6 \in 1..Len(s)
        BY <1>1, <1>3, <3>1, <3>3
      <4>2. PICK j \in 1..m - 1 : s[6].key = t[j].key
        BY <1>7, <4>1
      <4>3. j \in 1..5 /\ j \in 1..Len(s) /\ j # 6
        BY <1>1, <3>3
      <4>4. s[6].key = s[j].key
        BY <2>1, <4>2, <4>3
      <4> QED BY <1>1, <4>1, <4>3, <4>4
    <3>4. CASE m # 6
      <4>1. 6 \in 1..m - 1 /\ 6 \in 1..Len(t) /\ 6 \in 1..Len(s)
        BY <1>1, <1>2, <1>3, <2>3, <3>4
      <4>2. PICK u \in E : Says(u, t[6])
        BY <1>5, <4>1
      <4>3. PICK q \in E \cup {x} : Says(q, s[6])
        <5>1. CASE p = 6
          BY <5>1
        <5>2. CASE p # 6
          <6>1. 6 \in 1..p - 1
            BY <1>3, <3>1, <5>2
          <6> QED BY <1>4, <6>1
        <5> QED BY <5>1, <5>2
      <4>4. /\ u.key[2] \in OutcomeSteps /\ u.key[3] = tx
            /\ u.body.resume = r2 /\ u.body.child = ch2
        BY <1>2, <4>1, <4>2 DEF Says, ItemOK
      <4>5. /\ q.key[2] \in OutcomeSteps /\ q.key[3] = tx
            /\ q.body.resume = r /\ q.body.child = ch
        BY <1>1, <4>1, <4>3 DEF Says, ItemOK
      <4> QED BY <1>14, <4>4, <4>5 DEF DifferIn
    <3> QED BY <3>2, <3>3, <3>4
  <2> QED BY <1>3, <2>2, <2>3
<1> QED BY <1>13, <1>14

(***************************************************************************)
(* What a call has left to write.                                          *)
(***************************************************************************)
Suffix(s, p) == SubSeq(s, p, Len(s))

LEMMA SuffixFacts ==
    ASSUME NEW s, \E S : s \in Seq(S), NEW p \in 1..Len(s)
    PROVE  /\ Head(Suffix(s, p)) = s[p]
           /\ Tail(Suffix(s, p)) = Suffix(s, p + 1)
           /\ Suffix(s, p + 1) = <<>> <=> p = Len(s)
           /\ p # Len(s) => p + 1 \in 1..Len(s)
<1>1. PICK S : s \in Seq(S)
  OBVIOUS
<1>2. Len(s) \in Nat /\ p \in Nat /\ Len(s) \in p..Len(s)
  BY <1>1
<1>3. Head(Suffix(s, p)) = s[p] /\ Tail(Suffix(s, p)) = Suffix(s, p + 1)
  BY <1>1, <1>2, HeadTailOfSubSeq DEF Suffix
<1>4. p = Len(s) => Suffix(s, p + 1) = <<>>
  BY <1>2, SubSeqEmpty DEF Suffix
<1>5. ASSUME p # Len(s) PROVE p + 1 \in 1..Len(s) /\ Suffix(s, p + 1) # <<>>
  <2>1. p + 1 \in 1..Len(s) /\ p + 1 \in Int /\ Len(s) \in Int
    BY <1>2, <1>5
  <2>2. \A i \in p + 1..Len(s) : s[i] \in S
    BY <1>1, <1>2
  <2>3. Len(Suffix(s, p + 1)) = Len(s) - (p + 1) + 1
    BY <2>1, <2>2, SubSeqProperties DEF Suffix
  <2> QED BY <1>2, <2>1, <2>3
<1> QED BY <1>3, <1>4, <1>5

LEMMA SuffixEnds ==
    ASSUME NEW s, \E S : s \in Seq(S), NEW p \in 1..Len(s)
    PROVE  \E i \in DOMAIN Suffix(s, p) : Suffix(s, p)[i] = s[Len(s)]
<1>1. PICK S : s \in Seq(S)
  OBVIOUS
<1>2. Len(s) \in Nat /\ p \in Nat /\ p \in Int /\ Len(s) \in Int
  BY <1>1
<1>3. \A i \in p..Len(s) : s[i] \in S
  BY <1>1, <1>2
<1>4. /\ Suffix(s, p) \in Seq(S) /\ Len(Suffix(s, p)) = Len(s) - p + 1
      /\ \A i \in 1..Len(s) - p + 1 : Suffix(s, p)[i] = s[p + i - 1]
  BY <1>2, <1>3, SubSeqProperties DEF Suffix
<1>5. /\ Len(s) - p + 1 \in 1..Len(s) - p + 1
      /\ p + (Len(s) - p + 1) - 1 = Len(s)
  BY <1>2
<1>6. Suffix(s, p)[Len(s) - p + 1] = s[Len(s)]
  BY <1>4, <1>5
<1>7. Len(s) - p + 1 \in DOMAIN Suffix(s, p)
  BY <1>4, <1>5
<1> QED BY <1>6, <1>7

\* The record of a call has the fields of an idle one.
IsCall(k) == DOMAIN k = DOMAIN IdleCall

\* A call that is about to write the p-th item of a script, and has what it
\* wrote before in the log.
Follows(k, E, s, p) ==
    /\ p \in 1..Len(s)
    /\ k.todo = Suffix(s, p) /\ k.then = "idle"
    /\ InLog(E, s, p)

OnScript(k, E) ==
    \E s, tx, packet, r, ch, p : IsScript(s, tx, packet, r, ch) /\ Follows(k, E, s, p)

\* A call that writes records which are not of a transaction.
Aside(k) ==
    /\ k.todo # <<>> /\ \E S : k.todo \in Seq(S)
    /\ \A i \in 1..Len(k.todo) :
          k.todo[i].key[1] = "event" /\ k.todo[i].key[2] \notin RecoverySteps
    /\ k.then \in {"idle", "handoff"}

Writers(C, E) ==
    \A c \in Callers : C[c].pc = "write" => OnScript(C[c], E) \/ Aside(C[c])

\* A call that is ahead of every other one in a transaction.
Leads(k, E, tx) ==
    /\ k.pc = "write"
    /\ \E s, packet, r, ch, p :
          IsScript(s, tx, packet, r, ch) /\ Follows(k, E, s, p) /\ AllBefore(E, tx, s, p)

StartedIn(E, tx) == \E q \in E : q.key = StartKey(tx)
EndedIn(E, tx)   == \E end \in Terminal : \E q \in E : q.key = EndKey(end, tx)

Led(C, E, tx) ==
    StartedIn(E, tx) =>
        EndedIn(E, tx) \/ DifferIn(E, tx) \/ \E c \in Callers : Leads(C[c], E, tx)

(***************************************************************************)
(* The inductive invariant.                                                *)
(***************************************************************************)
LogInv(E, F) ==
    /\ IsFiniteSet(E) /\ F \subseteq E
    /\ Unique(E) /\ SoundLog(E) /\ SoundLog(F)

CallsInv(C, E) ==
    /\ DOMAIN C = Callers /\ \A c \in Callers : IsCall(C[c])
    /\ Writers(C, E)

LedInv(C, E, f) == f \in Nat /\ (f = 0 => \A tx : Led(C, E, tx))

RecoveryInv ==
    /\ LogInv(cache.entries, file.entries)
    /\ CallsInv(caller, cache.entries)
    /\ LedInv(caller, cache.entries, faults)

\* What a log that grows keeps.
LEMMA FollowsGrows ==
    ASSUME NEW E, NEW F, E \subseteq F, NEW k, NEW s, NEW p, Follows(k, E, s, p)
    PROVE  Follows(k, F, s, p)
  BY DEF Follows, InLog

LEMMA OnScriptGrows ==
    ASSUME NEW E, NEW F, E \subseteq F, NEW k, OnScript(k, E) PROVE OnScript(k, F)
<1>1. PICK s, tx, packet, r, ch, p : IsScript(s, tx, packet, r, ch) /\ Follows(k, E, s, p)
  BY DEF OnScript
<1>2. Follows(k, F, s, p)
  BY <1>1, FollowsGrows
<1> QED BY <1>1, <1>2 DEF OnScript

LEMMA DifferGrows ==
    ASSUME NEW E, NEW F, E \subseteq F, NEW tx, DifferIn(E, tx) PROVE DifferIn(F, tx)
  BY DEF DifferIn

LEMMA EndedGrows ==
    ASSUME NEW E, NEW F, E \subseteq F, NEW tx, EndedIn(E, tx) PROVE EndedIn(F, tx)
  BY DEF EndedIn

\* The record a leading call writes next is not in the log.
LEMMA LeaderUnknown ==
    ASSUME NEW E, NEW k, NEW tx, Leads(k, E, tx)
    PROVE  /\ \A q \in E : q.key # Head(k.todo).key
           /\ Head(k.todo).key[2] \in RecoverySteps /\ Head(k.todo).key[3] = tx
<1>1. PICK s, packet, r, ch, p :
         IsScript(s, tx, packet, r, ch) /\ Follows(k, E, s, p) /\ AllBefore(E, tx, s, p)
  BY DEF Leads
<1>2. Shaped(s, tx, packet, r, ch)
  BY <1>1, ScriptShape
<1>3. /\ \E S : s \in Seq(S)
      /\ Len(s) \in 8..16 /\ \A i \in 1..Len(s) : ItemOK(s[i], tx, packet)
      /\ \A i, j \in 1..Len(s) : s[i].key = s[j].key => i = j
  BY <1>2 DEF Shaped
<1>4. p \in 1..Len(s) /\ k.todo = Suffix(s, p)
  BY <1>1 DEF Follows
<1>5. Head(k.todo) = s[p]
  BY <1>3, <1>4, SuffixFacts
<1>6. s[p].key[2] \in RecoverySteps /\ s[p].key[3] = tx
  BY <1>3, <1>4 DEF ItemOK
<1>7. ASSUME NEW q \in E, q.key = s[p].key PROVE FALSE
  <2>1. PICK i \in 1..p - 1 : q.key = s[i].key
    BY <1>1, <1>6, <1>7 DEF AllBefore
  <2>2. i \in 1..Len(s) /\ i # p
    BY <1>3, <1>4
  <2> QED BY <1>3, <1>4, <1>7, <2>1, <2>2
<1> QED BY <1>5, <1>6, <1>7

(***************************************************************************)
(* Steps that write nothing.                                               *)
(***************************************************************************)
\* D is C, but for the call c.
OnlyMoves(C, D, c) ==
    /\ DOMAIN D = Callers /\ IsCall(D[c])
    /\ \A d \in Callers : d # c => D[d] = C[d]

LEMMA CallMoves ==
    ASSUME NEW C, NEW D, NEW E, NEW f, CallsInv(C, E), LedInv(C, E, f),
           NEW c \in Callers, C[c].pc # "write", OnlyMoves(C, D, c),
           D[c].pc = "write" => OnScript(D[c], E) \/ Aside(D[c])
    PROVE  CallsInv(D, E) /\ LedInv(D, E, f)
<1>1. CallsInv(D, E)
  <2>1. \A d \in Callers : IsCall(D[d])
    BY DEF CallsInv, OnlyMoves
  <2>2. Writers(D, E)
    BY DEF CallsInv, OnlyMoves, Writers
  <2> QED BY <2>1, <2>2 DEF CallsInv, OnlyMoves
<1>2. ASSUME f = 0, NEW tx PROVE Led(D, E, tx)
  <2>1. Led(C, E, tx)
    BY <1>2 DEF LedInv
  <2>2. ASSUME NEW d \in Callers, Leads(C[d], E, tx) PROVE Leads(D[d], E, tx)
    <3>1. d # c
      BY <2>2 DEF Leads
    <3> QED BY <2>2, <3>1 DEF OnlyMoves
  <2> QED BY <2>1, <2>2 DEF Led
<1>3. LedInv(D, E, f)
  BY <1>2 DEF LedInv
<1> QED BY <1>1, <1>3

LEMMA FirstOfMany == \A n \in 8..16 : 1 \in 1..n
  OBVIOUS

LEMMA ScriptBegins ==
    ASSUME NEW E, NEW k, NEW tx, NEW packet, NEW resume, NEW child,
           k = WriteThen(RecoveryScript(tx, packet, resume, child), "idle")
    PROVE  OnScript(k, E) /\ IsCall(k)
<1>1. PICK s : s = RecoveryScript(tx, packet, resume, child)
  OBVIOUS
<1>2. PICK r : r = (IF child # NoThread THEN "child" ELSE resume)
  OBVIOUS
<1>3. IsScript(s, tx, packet, r, child)
  BY <1>1, <1>2 DEF IsScript
<1>4. Shaped(s, tx, packet, r, child)
  BY <1>3, ScriptShape
<1>5. (\E S : s \in Seq(S)) /\ Len(s) \in 8..16
  BY <1>4 DEF Shaped
<1>6. Suffix(s, 1) = s
  BY <1>5, SubSeqFull DEF Suffix
<1>7. k.todo = s /\ k.then = "idle" /\ IsCall(k)
  BY <1>1 DEF WriteThen, IdleCall, IsCall
<1>8. 1 \in 1..Len(s) /\ InLog(E, s, 1)
  <2>1. 1 \in 1..Len(s)
    BY <1>5, FirstOfMany
  <2>2. \A i \in 1..1 - 1 : FALSE
    OBVIOUS
  <2> QED BY <2>1, <2>2 DEF InLog
<1>9. Follows(k, E, s, 1)
  BY <1>6, <1>7, <1>8 DEF Follows
<1> QED BY <1>3, <1>7, <1>9 DEF OnScript

\* The items of a call's own records.
Private(item) == item.key[1] = "event" /\ item.key[2] \notin RecoverySteps

LEMMA AsideBegins ==
    ASSUME NEW k, NEW todo, todo # <<>>, \E S : todo \in Seq(S),
           \A i \in 1..Len(todo) : Private(todo[i]),
           k.todo = todo, k.then \in {"idle", "handoff"}
    PROVE  Aside(k)
  BY DEF Aside, Private

LEMMA PrivateItems ==
    ASSUME NEW step \in {"recovery_dispatch_started", "suppressed", "gate_suppressed",
                         "suppressed_identity_invalidated", "suppressed_replay_invalidated",
                         "reentry_suppressed"}, NEW id, NEW body, NEW fresh
    PROVE  /\ Private(Event(step, id, body, fresh))
           /\ Private(Once(step, id, body))
           /\ Private([Once(step, id, body) EXCEPT !.fresh = TRUE])
<1>1. step \notin RecoverySteps
  BY DEF RecoverySteps
<1> QED BY <1>1 DEF Private, Event, Once, Item

LEMMA OneAside ==
    ASSUME NEW a, Private(a)
    PROVE  <<a>> # <<>> /\ (\E S : <<a>> \in Seq(S)) /\ \A i \in 1..Len(<<a>>) : Private(<<a>>[i])
<1>1. PICK s : s = <<a>>
  OBVIOUS
<1>2. s \in Seq({a}) /\ Len(s) = 1 /\ s[1] = a /\ s # <<>>
  BY <1>1
<1>3. \A i \in 1..1 : Private(s[i])
  BY <1>2
<1> QED BY <1>1, <1>2, <1>3

LEMMA TwoAside ==
    ASSUME NEW a, NEW b, Private(a), Private(b)
    PROVE  LET s == <<a, b>> IN
           s # <<>> /\ (\E S : s \in Seq(S)) /\ \A i \in 1..Len(s) : Private(s[i])
<1>1. PICK s : s = <<a, b>>
  OBVIOUS
<1>2. s \in Seq({a, b}) /\ Len(s) = 2 /\ s[1] = a /\ s[2] = b
  BY <1>1
<1>3. \A i \in 1..2 : Private(s[i])
  BY <1>2
<1> QED BY <1>1, <1>2, <1>3

LEMMA FourAside ==
    ASSUME NEW a, NEW b, NEW c, NEW d, Private(a), Private(b), Private(c), Private(d)
    PROVE  LET s == <<a, b>> \o <<c, d>> IN
           s # <<>> /\ (\E S : s \in Seq(S)) /\ \A i \in 1..Len(s) : Private(s[i])
<1>1. <<a, b>> \in Seq({a, b}) /\ <<c, d>> \in Seq({c, d}) /\ Len(<<a, b>>) = 2 /\ Len(<<c, d>>) = 2
  OBVIOUS
<1>2. PICK s : s = <<a, b>> \o <<c, d>>
  OBVIOUS
<1>3. JoinedTo(<<a, b>>, <<c, d>>, s, 2, 2)
  BY <1>1, <1>2, Joined
<1>4. /\ (\E S : s \in Seq(S)) /\ Len(s) = 2 + 2
      /\ \A i \in 1..2 : s[i] = <<a, b>>[i]
      /\ \A i \in 1..2 : s[i + 2] = <<c, d>>[i]
  BY <1>3 DEF JoinedTo
<1>0. /\ <<a, b>>[1] = a /\ <<a, b>>[2] = b /\ <<c, d>>[1] = c /\ <<c, d>>[2] = d
      /\ 1 \in 1..2 /\ 2 \in 1..2
  OBVIOUS
<1>5. s[1] = a /\ s[2] = b /\ s[1 + 2] = c /\ s[2 + 2] = d
  BY <1>0, <1>4
<1>6. s[3] = c /\ s[4] = d
  BY <1>5
<1>7. \A i \in 1..4 : Private(s[i])
  BY <1>5, <1>6
<1>8. s # <<>> /\ Len(s) = 4
  <2>1. Len(s) = 4
    BY <1>4
  <2>2. Len(<<>>) = 0
    OBVIOUS
  <2> QED BY <2>1, <2>2
<1> QED BY <1>2, <1>4, <1>7, <1>8

LEMMA SuppressedAside ==
    ASSUME NEW reason, NEW seen
    PROVE  LET s == SuppressedScript(reason, seen) IN
           s # <<>> /\ (\E S : s \in Seq(S)) /\ \A i \in 1..Len(s) : Private(s[i])
<1>1. PICK id, body : /\ id = <<seen.status, Second(now)>>
                      /\ body = [reason |-> reason, tx |-> NoTx, progress |-> seen.progress]
  OBVIOUS
<1>2. PICK a, b, c, d : /\ a = Event("suppressed", id, body, TRUE)
                        /\ b = Once("gate_suppressed", <<"task", id, reason>>, body)
                        /\ c = Once("suppressed_identity_invalidated", id, body)
                        /\ d = Once("suppressed_replay_invalidated", id, body)
  OBVIOUS
<1>3. Private(a) /\ Private(b) /\ Private(c) /\ Private(d)
  BY <1>2, PrivateItems
<1>4. CASE reason \in {"project_not_active", "project_state_unavailable",
                       "pending_approval", "task_terminal"}
  <2>1. SuppressedScript(reason, seen) = <<a, b>> \o <<c, d>>
    BY <1>1, <1>2, <1>4 DEF SuppressedScript
  <2> QED BY <1>3, <2>1, FourAside
<1>5. CASE reason \notin {"project_not_active", "project_state_unavailable",
                          "pending_approval", "task_terminal"}
  <2>1. SuppressedScript(reason, seen) = <<a, b>> \o <<>>
    BY <1>1, <1>2, <1>5 DEF SuppressedScript
  <2>2. <<a, b>> \o <<>> = <<a, b>>
    <3>1. <<a, b>> \in Seq({a, b})
      OBVIOUS
    <3> QED BY <3>1, ConcatEmptySeq
  <2> QED BY <1>3, <2>1, <2>2, TwoAside
<1> QED BY <1>4, <1>5

\* The actions of a call that is not writing.
QuietStep(c) ==
    /\ caller[c].pc # "write" /\ OnlyMoves(caller, caller', c)
    /\ caller'[c].pc = "write" => OnScript(caller'[c], cache.entries) \/ Aside(caller'[c])
    /\ UNCHANGED <<faults, logVars>>

LEMMA QuietKeeps ==
    ASSUME RecoveryInv, NEW c \in Callers, QuietStep(c) PROVE RecoveryInv'
<1>1. CallsInv(caller, cache.entries) /\ LedInv(caller, cache.entries, faults)
  BY DEF RecoveryInv
<1>2. /\ caller[c].pc # "write" /\ OnlyMoves(caller, caller', c)
      /\ caller'[c].pc = "write" => OnScript(caller'[c], cache.entries) \/ Aside(caller'[c])
      /\ faults' = faults /\ cache' = cache /\ file' = file
  BY DEF QuietStep, logVars
<1>3. CallsInv(caller', cache.entries) /\ LedInv(caller', cache.entries, faults)
  BY <1>1, <1>2, CallMoves
<1>4. LogInv(cache'.entries, file'.entries)
  BY <1>2 DEF RecoveryInv
<1> QED BY <1>2, <1>3, <1>4 DEF RecoveryInv

LEMMA SuppressReentryQuiet ==
    ASSUME RecoveryInv, NEW c \in Callers, SuppressReentry(c) PROVE QuietStep(c)
<1>1. PICK a, b :
        /\ Private(a) /\ Private(b)
        /\ caller' = [caller EXCEPT ![c] = WriteThen(<<a, b>>, "idle")]
  <2>1. PICK manual \in BOOLEAN, injected \in BOOLEAN :
          LET reason == SuppressionReason(manual, injected)
              tx == IF ~HasStatus THEN NoTx ELSE LatestStatus.key[3]
              id == <<tx, record.progress, reason,
                      IF ~HasStatus THEN "none" ELSE LatestStatus.key[2],
                      IF ~HasStatus THEN 0 ELSE LatestStatus.at>>
              body == [reason |-> reason, tx |-> tx, progress |-> record.progress]
          IN caller' = [caller EXCEPT ![c] = WriteThen(
                  << [Once("reentry_suppressed", id, body) EXCEPT !.fresh = TRUE],
                     Once("gate_suppressed", <<"reentry", id, reason>>, body) >>, "idle")]
    BY DEF SuppressReentry
  <2>2. PICK reason, id, body :
          caller' = [caller EXCEPT ![c] = WriteThen(
                  << [Once("reentry_suppressed", id, body) EXCEPT !.fresh = TRUE],
                     Once("gate_suppressed", <<"reentry", id, reason>>, body) >>, "idle")]
    BY <2>1
  <2>3. Private([Once("reentry_suppressed", id, body) EXCEPT !.fresh = TRUE])
    BY PrivateItems
  <2>4. Private(Once("gate_suppressed", <<"reentry", id, reason>>, body))
    BY PrivateItems
  <2> QED BY <2>2, <2>3, <2>4
<1>2. PICK k : k = WriteThen(<<a, b>>, "idle")
  OBVIOUS
<1>3. k.todo = <<a, b>> /\ k.then = "idle" /\ IsCall(k)
  BY <1>2 DEF WriteThen, IdleCall, IsCall
<1>4. Aside(k)
  BY <1>1, <1>3, TwoAside, AsideBegins
<1>5. DOMAIN caller = Callers /\ caller[c].pc # "write" /\ UNCHANGED <<faults, logVars>>
  BY DEF RecoveryInv, CallsInv, SuppressReentry
<1>6. OnlyMoves(caller, caller', c) /\ caller'[c] = k
  BY <1>1, <1>2, <1>3, <1>5 DEF OnlyMoves
<1> QED BY <1>4, <1>5, <1>6 DEF QuietStep

LEMMA ReadTaskQuiet ==
    ASSUME RecoveryInv, NEW c \in Callers, ReadTask(c) PROVE QuietStep(c)
<1>1. PICK k : caller' = [caller EXCEPT ![c] = k] /\ IsCall(k) /\ Aside(k)
  <2>1. PICK hold \in Holds :
          LET seen   == [thread |-> current, status |-> tasks[current].status,
                         pressure |-> tasks[current].pressure, progress |-> tasks[current].progress]
              reason == NoopReason(seen, hold)
          IN caller' =
                  [caller EXCEPT ![c] =
                     IF reason = "none"
                     THEN [WriteThen(<< [Once("recovery_dispatch_started",
                              <<seen.thread, seen.progress>>, seen)
                              EXCEPT !.fresh = TRUE] >>, "handoff")
                           EXCEPT !.seen = seen, !.packet = Second(now)]
                     ELSE WriteThen(SuppressedScript(reason, seen), "idle")]
    BY DEF ReadTask
  <2>2. PICK seen, reason, id :
          caller' = [caller EXCEPT ![c] =
                     IF reason = "none"
                     THEN [WriteThen(<< [Once("recovery_dispatch_started", id, seen)
                              EXCEPT !.fresh = TRUE] >>, "handoff")
                           EXCEPT !.seen = seen, !.packet = Second(now)]
                     ELSE WriteThen(SuppressedScript(reason, seen), "idle")]
    BY <2>1
  <2>3. CASE reason = "none"
    <3>1. PICK a : a = [Once("recovery_dispatch_started", id, seen) EXCEPT !.fresh = TRUE]
      OBVIOUS
    <3>2. Private(a)
      BY <3>1, PrivateItems
    <3>3. PICK k : k = [WriteThen(<<a>>, "handoff") EXCEPT !.seen = seen, !.packet = Second(now)]
      OBVIOUS
    <3>4. k.todo = <<a>> /\ k.then = "handoff" /\ IsCall(k)
      BY <3>3 DEF WriteThen, IdleCall, IsCall
    <3>5. Aside(k)
      BY <3>2, <3>4, OneAside, AsideBegins
    <3> QED BY <2>2, <2>3, <3>1, <3>3, <3>4, <3>5
  <2>4. CASE reason # "none"
    <3>1. PICK k : k = WriteThen(SuppressedScript(reason, seen), "idle")
      OBVIOUS
    <3>2. k.todo = SuppressedScript(reason, seen) /\ k.then = "idle" /\ IsCall(k)
      BY <3>1 DEF WriteThen, IdleCall, IsCall
    <3>3. Aside(k)
      BY <3>2, SuppressedAside, AsideBegins
    <3> QED BY <2>2, <2>4, <3>1, <3>2, <3>3
  <2> QED BY <2>3, <2>4
<1>2. DOMAIN caller = Callers /\ caller[c].pc # "write" /\ UNCHANGED <<faults, logVars>>
  BY DEF RecoveryInv, CallsInv, ReadTask
<1>3. OnlyMoves(caller, caller', c) /\ caller'[c] = k
  BY <1>1, <1>2 DEF OnlyMoves
<1> QED BY <1>1, <1>2, <1>3 DEF QuietStep

LEMMA CheckActiveQuiet ==
    ASSUME RecoveryInv, NEW c \in Callers, CheckActive(c) PROVE QuietStep(c)
<1>1. DOMAIN caller = Callers /\ caller[c].pc # "write" /\ UNCHANGED <<faults, logVars>>
  BY DEF RecoveryInv, CallsInv, CheckActive
<1>2. PICK k : /\ caller' = [caller EXCEPT ![c] = k] /\ IsCall(k)
               /\ k.pc = "write" => OnScript(k, cache.entries)
  <2>1. CASE ConflictsWithActive(TxOf(c))
    <3>1. caller' = [caller EXCEPT ![c] = IdleCall]
      BY <2>1 DEF CheckActive, End
    <3>2. IsCall(IdleCall) /\ IdleCall.pc = "idle"
      BY DEF IsCall, IdleCall
    <3> QED BY <3>1, <3>2
  <2>2. CASE ~ConflictsWithActive(TxOf(c))
    <3>1. PICK k : /\ k = WriteThen(RecoveryScript(TxOf(c), caller[c].packet, caller[c].resume,
                                                   caller[c].child), "idle")
                   /\ caller' = [caller EXCEPT ![c] = k]
      BY <2>2 DEF CheckActive
    <3>2. OnScript(k, cache.entries) /\ IsCall(k)
      BY <3>1, ScriptBegins
    <3> QED BY <3>1, <3>2
  <2> QED BY <2>1, <2>2
<1>3. OnlyMoves(caller, caller', c) /\ caller'[c] = k
  BY <1>1, <1>2 DEF OnlyMoves
<1> QED BY <1>1, <1>2, <1>3 DEF QuietStep

LEMMA TalkQuiet ==
    ASSUME RecoveryInv, NEW c \in Callers,
           \/ Handoff(c) \/ HandoffFails(c) \/ StartResume(c)
           \/ ResumeSameThread(c) \/ ResumeInChild(c) \/ ResumeFails(c)
    PROVE  QuietStep(c)
<1>1. DOMAIN caller = Callers /\ IsCall(caller[c])
  BY DEF RecoveryInv, CallsInv
<1>2. UNCHANGED <<faults, logVars>> /\ caller[c].pc # "write"
  BY DEF Handoff, HandoffFails, StartResume, ResumeSameThread, ResumeInChild, ResumeFails
<1>3. "pc" \in DOMAIN caller[c] /\ IsCall(IdleCall) /\ IdleCall.pc = "idle"
  BY <1>1 DEF IsCall, IdleCall
<1>4. OnlyMoves(caller, caller', c) /\ caller'[c].pc # "write"
  <2>1. CASE Handoff(c)
    BY <1>1, <1>3, <2>1 DEF Handoff, OnlyMoves, IsCall
  <2>2. CASE HandoffFails(c)
    BY <1>1, <1>3, <2>2 DEF HandoffFails, End, OnlyMoves
  <2>3. CASE StartResume(c)
    BY <1>1, <1>3, <2>3 DEF StartResume, OnlyMoves, IsCall
  <2>4. CASE ResumeSameThread(c)
    BY <1>1, <1>3, <2>4 DEF ResumeSameThread, OnlyMoves, IsCall
  <2>5. CASE ResumeInChild(c)
    BY <1>1, <1>3, <2>5 DEF ResumeInChild, OnlyMoves, IsCall
  <2>6. CASE ResumeFails(c)
    BY <1>1, <1>3, <2>6 DEF ResumeFails, OnlyMoves, IsCall
  <2> QED BY <2>1, <2>2, <2>3, <2>4, <2>5, <2>6
<1> QED BY <1>2, <1>4 DEF QuietStep

(***************************************************************************)
(* Steps that write a record.                                              *)
(***************************************************************************)
\* A call that has its record in the log goes on with the next one.
AfterWrite(k, k2) ==
    /\ IsCall(k2)
    /\ IF Tail(k.todo) = <<>>
       THEN k2.pc = k.then
       ELSE k2.pc = "write" /\ k2.todo = Tail(k.todo) /\ k2.then = k.then

\* The log has the record that the call was about to write.
HasNext(E, k) == \E q \in E : Says(q, Head(k.todo))

LEMMA HeadOfScript ==
    ASSUME NEW s, NEW tx, NEW packet, NEW r, NEW ch, IsScript(s, tx, packet, r, ch),
           NEW E, NEW k, NEW p, Follows(k, E, s, p)
    PROVE  /\ p \in 1..Len(s) /\ p \in Nat /\ Len(s) \in 8..16
           /\ Head(k.todo) = s[p] /\ Tail(k.todo) = Suffix(s, p + 1)
           /\ Suffix(s, p + 1) = <<>> <=> p = Len(s)
           /\ p # Len(s) => p + 1 \in 1..Len(s)
           /\ s[p].key[2] \in RecoverySteps /\ s[p].key[3] = tx
<1>1. Shaped(s, tx, packet, r, ch)
  BY ScriptShape
<1>2. (\E S : s \in Seq(S)) /\ Len(s) \in 8..16 /\ \A i \in 1..Len(s) : ItemOK(s[i], tx, packet)
  BY <1>1 DEF Shaped
<1>3. p \in 1..Len(s) /\ k.todo = Suffix(s, p)
  BY DEF Follows
<1>4. s[p].key[2] \in RecoverySteps /\ s[p].key[3] = tx
  BY <1>2, <1>3 DEF ItemOK
<1>5. p \in Nat
  BY <1>2, <1>3
<1> QED BY <1>2, <1>3, <1>4, <1>5, SuffixFacts

LEMMA ScriptGoesOn ==
    ASSUME NEW s, NEW tx, NEW packet, NEW r, NEW ch, IsScript(s, tx, packet, r, ch),
           NEW E, NEW F, E \subseteq F, NEW k, NEW k2, NEW p, Follows(k, E, s, p),
           HasNext(F, k), AfterWrite(k, k2)
    PROVE  IF p = Len(s) THEN k2.pc = "idle" ELSE k2.pc = "write" /\ Follows(k2, F, s, p + 1)
<1>1. /\ p \in 1..Len(s) /\ p \in Nat /\ Len(s) \in 8..16
      /\ Head(k.todo) = s[p] /\ Tail(k.todo) = Suffix(s, p + 1)
      /\ Suffix(s, p + 1) = <<>> <=> p = Len(s)
      /\ p # Len(s) => p + 1 \in 1..Len(s)
  BY HeadOfScript
<1>2. k.then = "idle" /\ InLog(E, s, p)
  BY DEF Follows
<1>3. CASE p = Len(s)
  BY <1>1, <1>2, <1>3 DEF AfterWrite
<1>4. CASE p # Len(s)
  <2>1. k2.pc = "write" /\ k2.todo = Suffix(s, p + 1) /\ k2.then = "idle"
    BY <1>1, <1>2, <1>4 DEF AfterWrite
  <2>2. ASSUME NEW i \in 1..(p + 1) - 1 PROVE \E q \in F : Says(q, s[i])
    <3>1. CASE i = p
      BY <1>1, <3>1 DEF HasNext
    <3>2. CASE i # p
      <4>1. i \in 1..p - 1
        BY <1>1, <3>2
      <4> QED BY <1>2, <4>1 DEF InLog
    <3> QED BY <3>1, <3>2
  <2>3. InLog(F, s, p + 1)
    BY <2>2 DEF InLog
  <2> QED BY <1>1, <1>4, <2>1, <2>3 DEF Follows
<1> QED BY <1>3, <1>4

LEMMA AsideItem ==
    ASSUME NEW k, Aside(k) PROVE Private(Head(k.todo))
<1>1. PICK S : k.todo \in Seq(S)
  BY DEF Aside
<1>2. PICK s \in Seq(S) : s = k.todo
  BY <1>1
<1>3. 1 \in 1..Len(s) /\ Head(s) = s[1]
  BY <1>2 DEF Aside
<1> QED BY <1>2, <1>3 DEF Aside, Private

LEMMA AsideGoesOn ==
    ASSUME NEW k, NEW k2, Aside(k), AfterWrite(k, k2), k2.pc = "write" PROVE Aside(k2)
<1>1. PICK S : k.todo \in Seq(S)
  BY DEF Aside
<1>2. PICK s \in Seq(S) : s = k.todo
  BY <1>1
<1>3. s # <<>> /\ (\A i \in 1..Len(s) : Private(s[i])) /\ k.then \in {"idle", "handoff"}
  BY <1>2 DEF Aside, Private
<1>4. PICK t \in Seq(S) : t = Tail(s) /\ Len(t) = Len(s) - 1 /\ \A i \in 1..Len(t) : t[i] = s[i + 1]
  <2>1. Tail(s) \in Seq(S) /\ Len(Tail(s)) = Len(s) - 1 /\ \A i \in 1..Len(Tail(s)) : Tail(s)[i] = s[i + 1]
    BY <1>2, <1>3, HeadTailProperties
  <2> QED BY <2>1
<1>5. t # <<>> /\ k2.todo = t /\ k2.then = k.then
  BY <1>2, <1>3, <1>4 DEF AfterWrite
<1>6. \A i \in 1..Len(t) : Private(t[i])
  <2>1. Len(s) \in Nat /\ Len(t) = Len(s) - 1
    BY <1>2, <1>4
  <2>2. \A i \in 1..Len(t) : i + 1 \in 1..Len(s)
    BY <2>1
  <2> QED BY <1>3, <1>4, <2>2
<1> QED BY <1>3, <1>4, <1>5, <1>6, AsideBegins

\* The call that wrote, and the others.
LEMMA CallsGoOn ==
    ASSUME NEW C, NEW D, NEW E, NEW F, E \subseteq F, CallsInv(C, E),
           NEW c \in Callers, C[c].pc = "write", OnlyMoves(C, D, c),
           HasNext(F, C[c]), AfterWrite(C[c], D[c])
    PROVE  CallsInv(D, F)
<1>1. \A d \in Callers : IsCall(D[d])
  BY DEF CallsInv, OnlyMoves
<1>2. ASSUME NEW d \in Callers, d # c, D[d].pc = "write" PROVE OnScript(D[d], F) \/ Aside(D[d])
  <2>1. D[d] = C[d]
    BY <1>2 DEF OnlyMoves
  <2>2. OnScript(C[d], E) \/ Aside(C[d])
    BY <1>2, <2>1 DEF CallsInv, Writers
  <2> QED BY <2>1, <2>2, OnScriptGrows
<1>3. ASSUME D[c].pc = "write" PROVE OnScript(D[c], F) \/ Aside(D[c])
  <2>1. CASE Aside(C[c])
    BY <1>3, <2>1, AsideGoesOn
  <2>2. CASE OnScript(C[c], E)
    <3>1. PICK s, tx, packet, r, ch, p : IsScript(s, tx, packet, r, ch) /\ Follows(C[c], E, s, p)
      BY <2>2 DEF OnScript
    <3>2. Follows(D[c], F, s, p + 1)
      BY <1>3, <3>1, ScriptGoesOn
    <3> QED BY <3>1, <3>2 DEF OnScript
  <2> QED BY <2>1, <2>2 DEF CallsInv, Writers
<1>4. Writers(D, F)
  BY <1>2, <1>3 DEF Writers
<1> QED BY <1>1, <1>4 DEF CallsInv, OnlyMoves

\* A call that finds its record in the log, or runs into another one there,
\* did not lead.
LEMMA LedSame ==
    ASSUME NEW C, NEW D, NEW E, \A tx : Led(C, E, tx), NEW c \in Callers, OnlyMoves(C, D, c),
           \E q \in E : q.key = Head(C[c].todo).key
    PROVE  \A tx : Led(D, E, tx)
<1> SUFFICES ASSUME NEW tx PROVE Led(D, E, tx)
  OBVIOUS
<1>1. ASSUME NEW d \in Callers, Leads(C[d], E, tx) PROVE Leads(D[d], E, tx)
  <2>1. d # c
    BY <1>1, LeaderUnknown
  <2> QED BY <1>1, <2>1 DEF OnlyMoves
<1>2. Led(C, E, tx)
  OBVIOUS
<1> QED BY <1>1, <1>2 DEF Led

\* A record of another transaction, or of none, changes no lead.
LEMMA OtherStaysLed ==
    ASSUME NEW C, NEW D, NEW E, NEW tx, Led(C, E, tx), NEW c \in Callers, OnlyMoves(C, D, c),
           NEW x, x.key = Head(C[c].todo).key, ~(x.key[2] \in RecoverySteps /\ x.key[3] = tx)
    PROVE  Led(D, E \cup {x}, tx)
<1>1. ASSUME StartedIn(E \cup {x}, tx) PROVE StartedIn(E, tx)
  <2>1. PICK q \in E \cup {x} : q.key = StartKey(tx)
    BY <1>1 DEF StartedIn
  <2>2. q # x
    BY <2>1 DEF StartKey, RecoverySteps
  <2> QED BY <2>1, <2>2 DEF StartedIn
<1>2. E \subseteq E \cup {x}
  OBVIOUS
<1>3. ASSUME NEW d \in Callers, Leads(C[d], E, tx) PROVE Leads(D[d], E \cup {x}, tx)
  <2>1. d # c
    BY <1>3, LeaderUnknown
  <2>2. D[d] = C[d]
    BY <2>1 DEF OnlyMoves
  <2>3. PICK s, packet, r, ch, p :
          IsScript(s, tx, packet, r, ch) /\ Follows(C[d], E, s, p) /\ AllBefore(E, tx, s, p)
    BY <1>3 DEF Leads
  <2>4. Follows(C[d], E \cup {x}, s, p)
    BY <1>2, <2>3, FollowsGrows
  <2>5. AllBefore(E \cup {x}, tx, s, p)
    BY <2>3 DEF AllBefore
  <2>6. Leads(C[d], E \cup {x}, tx)
    BY <1>3, <2>3, <2>4, <2>5 DEF Leads
  <2> QED BY <2>2, <2>6
<1> QED BY <1>1, <1>2, <1>3, EndedGrows, DifferGrows DEF Led

\* The call is ahead now, or it is done, or the transaction is in dispute.
LEMMA OwnStaysLed ==
    ASSUME NEW C, NEW D, NEW E, NEW tx, Led(C, E, tx), Unique(E), SoundLog(E),
           NEW c \in Callers, OnScript(C[c], E), NEW x, Says(x, Head(C[c].todo)),
           \A q \in E : q.key # x.key, AfterWrite(C[c], D[c]),
           x.key[2] \in RecoverySteps, x.key[3] = tx, OnlyMoves(C, D, c)
    PROVE  Led(D, E \cup {x}, tx)
<1>0. E \subseteq E \cup {x} /\ HasNext(E \cup {x}, C[c])
  BY DEF HasNext
<1>1. PICK s, tx1, packet, r, ch, p : IsScript(s, tx1, packet, r, ch) /\ Follows(C[c], E, s, p)
  BY DEF OnScript
<1>2. /\ p \in 1..Len(s) /\ p \in Nat /\ Len(s) \in 8..16 /\ Head(C[c].todo) = s[p]
      /\ s[p].key[2] \in RecoverySteps /\ s[p].key[3] = tx1
  BY <1>1, HeadOfScript
<1>3. tx1 = tx /\ Says(x, s[p])
  BY <1>2 DEF Says
<1>4. IF p = Len(s) THEN D[c].pc = "idle"
      ELSE D[c].pc = "write" /\ Follows(D[c], E \cup {x}, s, p + 1)
  BY <1>0, <1>1, ScriptGoesOn
<1>5. CASE p = Len(s)
  <2>1. Shaped(s, tx, packet, r, ch)
    BY <1>1, <1>3, ScriptShape
  <2>2. PICK end \in Terminal : s[Len(s)].key = EndKey(end, tx)
    BY <2>1 DEF Shaped
  <2>3. x.key = EndKey(end, tx)
    BY <1>3, <1>5, <2>2 DEF Says
  <2>4. EndedIn(E \cup {x}, tx)
    BY <2>3 DEF EndedIn
  <2> QED BY <2>4 DEF Led
<1>6. CASE p # Len(s)
  <2>1. ASSUME AllBefore(E \cup {x}, tx, s, p + 1) PROVE Leads(D[c], E \cup {x}, tx)
    BY <1>1, <1>3, <1>4, <1>6, <2>1 DEF Leads
  <2>2. CASE ~StartedIn(E, tx)
    <3>1. ASSUME NEW q \in E, q.key[2] \in RecoverySteps, q.key[3] = tx PROVE FALSE
      BY <2>2, <3>1 DEF SoundLog, Sound, StartOf, StartedIn
    <3>2. x.key = s[p].key /\ p \in 1..(p + 1) - 1
      BY <1>2, <1>3 DEF Says
    <3>3. AllBefore(E \cup {x}, tx, s, p + 1)
      BY <3>1, <3>2 DEF AllBefore
    <3> QED BY <2>1, <3>3 DEF Led
  <2>3. CASE EndedIn(E, tx) \/ DifferIn(E, tx)
    BY <1>0, <2>3, EndedGrows, DifferGrows DEF Led
  <2>4. ASSUME StartedIn(E, tx), NEW d \in Callers, Leads(C[d], E, tx)
        PROVE  Led(D, E \cup {x}, tx)
    <3>1. PICK t, packet2, r2, ch2, m :
            IsScript(t, tx, packet2, r2, ch2) /\ Follows(C[d], E, t, m) /\ AllBefore(E, tx, t, m)
      BY <2>4 DEF Leads
    <3>2. m \in 1..Len(t) /\ InLog(E, t, m) /\ InLog(E, s, p)
      BY <1>1, <3>1 DEF Follows
    <3>3. \E q \in E : q.key = StartKey(tx)
      BY <2>4 DEF StartedIn
    <3>4. IsScript(s, tx, packet, r, ch)
      BY <1>1, <1>3
    <3>5. AllBefore(E \cup {x}, tx, s, p + 1) \/ DifferIn(E \cup {x}, tx)
      BY <1>2, <1>3, <3>1, <3>2, <3>3, <3>4, Overtakes
    <3> QED BY <2>1, <3>5 DEF Led
  <2> QED BY <2>2, <2>3, <2>4 DEF Led
<1> QED BY <1>5, <1>6

LEMMA LedGrows ==
    ASSUME NEW C, NEW D, NEW E, \A tx : Led(C, E, tx), Unique(E), SoundLog(E), CallsInv(C, E),
           NEW c \in Callers, C[c].pc = "write", NEW x, Says(x, Head(C[c].todo)),
           \A q \in E : q.key # x.key, AfterWrite(C[c], D[c]), OnlyMoves(C, D, c)
    PROVE  \A tx : Led(D, E \cup {x}, tx)
<1> SUFFICES ASSUME NEW tx PROVE Led(D, E \cup {x}, tx)
  OBVIOUS
<1>1. x.key = Head(C[c].todo).key /\ Led(C, E, tx)
  BY DEF Says
<1>2. CASE ~(x.key[2] \in RecoverySteps /\ x.key[3] = tx)
  BY <1>1, <1>2, OtherStaysLed
<1>3. CASE x.key[2] \in RecoverySteps /\ x.key[3] = tx
  <2>1. ~Aside(C[c])
    BY <1>1, <1>3, AsideItem DEF Private
  <2>2. OnScript(C[c], E)
    BY <2>1 DEF CallsInv, Writers
  <2> QED BY <1>1, <1>3, <2>2, OwnStaysLed
<1> QED BY <1>2, <1>3

\* A record that enters the log has what it needs there.
LEMMA NextSound ==
    ASSUME NEW C, NEW E, CallsInv(C, E), NEW c \in Callers, C[c].pc = "write",
           NEW x, x.key = Head(C[c].todo).key
    PROVE  Sound(E \cup {x}, x)
<1>1. CASE OnScript(C[c], E)
  <2>1. PICK s, tx, packet, r, ch, p : IsScript(s, tx, packet, r, ch) /\ Follows(C[c], E, s, p)
    BY <1>1 DEF OnScript
  <2>2. p \in 1..Len(s) /\ Head(C[c].todo) = s[p]
    BY <2>1, HeadOfScript
  <2>3. InLog(E, s, p) /\ x.key = s[p].key
    BY <2>1, <2>2 DEF Follows
  <2> QED BY <2>1, <2>2, <2>3, ScriptEnters
<1>2. CASE Aside(C[c])
  <2>1. x.key[1] = "event" /\ x.key[2] \notin RecoverySteps
    BY <1>2, AsideItem DEF Private
  <2>2. x.key[2] # "lineage" /\ x.key[1] # "status"
    BY <2>1 DEF RecoverySteps
  <2> QED BY <2>1, <2>2 DEF Sound, NeedsOf, LineageOf, StartOf
<1> QED BY <1>1, <1>2 DEF CallsInv, Writers

LEMMA LogGrows ==
    ASSUME NEW E, NEW F, LogInv(E, F), NEW x, Sound(E \cup {x}, x), \A q \in E : q.key # x.key,
           NEW G, G = F \/ G = E \cup {x}
    PROVE  LogInv(E \cup {x}, G)
<1>1. IsFiniteSet(E \cup {x})
  BY FS_AddElement DEF LogInv
<1>2. Unique(E \cup {x})
  BY DEF LogInv, Unique
<1>3. E \subseteq E \cup {x}
  OBVIOUS
<1>4. SoundLog(E \cup {x})
  BY <1>3, SoundGrows DEF LogInv, SoundLog
<1> QED BY <1>1, <1>2, <1>4 DEF LogInv

\* What NextRecordOf adds to an item is not compared here.
LEMMA NextSays ==
    ASSUME NEW c
    PROVE  Says(NextRecordOf(c), Head(caller[c].todo))
<1>1. PICK item, at : /\ item = Head(caller[c].todo)
                      /\ at = IF item.fresh THEN Second(now) ELSE caller[c].at
  OBVIOUS
<1>2. NextRecordOf(c) =
        [key |-> item.key, at |-> at,
         body |-> IF item.key[2] = "identity_consumed"
                  THEN [packet |-> item.body.packet, resume |-> item.body.resume,
                        child |-> item.body.child, consumed |-> at]
                  ELSE item.body]
  BY <1>1 DEF NextRecordOf
<1>3. Says(NextRecordOf(c), item)
  BY <1>2 DEF Says
<1> QED BY <1>1, <1>3

LEMMA CallStops ==
    ASSUME NEW C, NEW D, NEW E, NEW F, E \subseteq F, CallsInv(C, E),
           NEW c \in Callers, OnlyMoves(C, D, c), D[c].pc = "idle"
    PROVE  CallsInv(D, F)
<1>1. \A d \in Callers : IsCall(D[d])
  BY DEF CallsInv, OnlyMoves
<1>2. ASSUME NEW d \in Callers, D[d].pc = "write" PROVE OnScript(D[d], F) \/ Aside(D[d])
  <2>1. d # c /\ D[d] = C[d]
    BY <1>2 DEF OnlyMoves
  <2> QED BY <1>2, <2>1, OnScriptGrows DEF CallsInv, Writers
<1> QED BY <1>1, <1>2 DEF CallsInv, OnlyMoves, Writers

LEMMA EndMoves ==
    ASSUME DOMAIN caller = Callers, NEW c \in Callers, End(c)
    PROVE  OnlyMoves(caller, caller', c) /\ caller'[c].pc = "idle"
<1>1. IsCall(IdleCall) /\ IdleCall.pc = "idle"
  BY DEF IsCall, IdleCall
<1> QED BY <1>1 DEF End, OnlyMoves

LEMMA WriteGoesOn ==
    ASSUME CallsInv(caller, cache.entries), NEW c \in Callers, WriteRecord(c),
           ~Conflicting(NextRecordOf(c), Head(caller[c].todo).once)
    PROVE  /\ OnlyMoves(caller, caller', c) /\ AfterWrite(caller[c], caller'[c])
           /\ Write(NextRecordOf(c), StreamOf(NextRecordOf(c)))
<1>1. DOMAIN caller = Callers /\ IsCall(caller[c])
  BY DEF CallsInv
<1>2. PICK r, rest : r = NextRecordOf(c) /\ rest = Tail(caller[c].todo)
  OBVIOUS
<1>3. /\ Write(r, StreamOf(r))
      /\ IF rest = <<>> /\ caller[c].then = "idle"
         THEN End(c)
         ELSE caller' = [caller EXCEPT ![c].todo = rest, ![c].at = r.at,
                   ![c].pc = IF rest = <<>> THEN caller[c].then ELSE "write"]
  BY <1>2 DEF WriteRecord
<1>4. CASE rest = <<>> /\ caller[c].then = "idle"
  <2>1. OnlyMoves(caller, caller', c) /\ caller'[c].pc = "idle"
    BY <1>1, <1>3, <1>4, EndMoves
  <2> QED BY <1>2, <1>3, <1>4, <2>1 DEF AfterWrite, OnlyMoves
<1>5. CASE ~(rest = <<>> /\ caller[c].then = "idle")
  <2>1. PICK pc : pc = IF rest = <<>> THEN caller[c].then ELSE "write"
    OBVIOUS
  <2>2. PICK k : k = [caller[c] EXCEPT !.todo = rest, !.at = r.at, !.pc = pc]
    OBVIOUS
  <2>3. caller' = [caller EXCEPT ![c] = k]
    BY <1>1, <1>3, <1>5, <2>1, <2>2
  <2>4. /\ "pc" \in DOMAIN caller[c] /\ "todo" \in DOMAIN caller[c] /\ "then" \in DOMAIN caller[c]
    BY <1>1 DEF IsCall, IdleCall
  <2>5. IsCall(k) /\ k.pc = pc /\ k.todo = rest /\ k.then = caller[c].then
    BY <1>1, <2>2, <2>4 DEF IsCall
  <2>6. OnlyMoves(caller, caller', c) /\ caller'[c] = k
    BY <1>1, <2>3, <2>5 DEF OnlyMoves
  <2>7. AfterWrite(caller[c], k)
    BY <1>2, <2>1, <2>5 DEF AfterWrite
  <2> QED BY <1>2, <1>3, <2>6, <2>7
<1> QED BY <1>4, <1>5

LEMMA WriteRecordKeeps ==
    ASSUME RecoveryInv, NEW c \in Callers, WriteRecord(c) PROVE RecoveryInv'
<1>1. /\ LogInv(cache.entries, file.entries) /\ CallsInv(caller, cache.entries)
      /\ LedInv(caller, cache.entries, faults) /\ caller[c].pc = "write" /\ faults' = faults
  BY DEF RecoveryInv, WriteRecord
<1>2. PICK E, F : E = cache.entries /\ F = file.entries
  OBVIOUS
<1>3. /\ DOMAIN caller = Callers /\ Unique(E) /\ SoundLog(E) /\ E \subseteq E
      /\ faults \in Nat /\ (faults = 0 => \A tx : Led(caller, E, tx))
  BY <1>1, <1>2 DEF CallsInv, LogInv, LedInv
<1>4. PICK r : r = NextRecordOf(c)
  OBVIOUS
<1>5. Says(r, Head(caller[c].todo)) /\ r.key = Head(caller[c].todo).key
  BY <1>4, NextSays DEF Says
<1>6. Known(r.key) <=> \E q \in E : q.key = r.key
  BY <1>2 DEF Known
<1>7. CASE Conflicting(r, Head(caller[c].todo).once)
  <2>1. End(c) /\ cache' = cache /\ file' = file /\ Known(r.key)
    BY <1>4, <1>7 DEF WriteRecord, logVars, Conflicting
  <2>2. OnlyMoves(caller, caller', c) /\ caller'[c].pc = "idle"
    BY <1>3, <2>1, EndMoves
  <2>3. CallsInv(caller', E)
    BY <1>1, <1>2, <1>3, <2>2, CallStops
  <2>4. \E q \in E : q.key = Head(caller[c].todo).key
    BY <1>5, <1>6, <2>1
  <2>5. faults = 0 => \A tx : Led(caller', E, tx)
    BY <1>3, <2>2, <2>4, LedSame
  <2> QED BY <1>1, <1>2, <1>3, <2>1, <2>3, <2>5 DEF RecoveryInv, LedInv
<1>8. CASE ~Conflicting(r, Head(caller[c].todo).once)
  <2>1. /\ OnlyMoves(caller, caller', c) /\ AfterWrite(caller[c], caller'[c])
        /\ Write(r, StreamOf(r))
    BY <1>1, <1>4, <1>8, WriteGoesOn
  <2>2. CASE Known(r.key)
    <3>1. cache' = cache /\ file' = file
      BY <2>1, <2>2 DEF Write, logVars
    <3>2. PICK q \in E : q.key = r.key /\ q.body = r.body
      BY <1>2, <1>8, <2>2 DEF Conflicting, SameRecord
    <3>3. HasNext(E, caller[c])
      BY <1>5, <3>2 DEF HasNext, Says
    <3>4. CallsInv(caller', E)
      BY <1>1, <1>2, <1>3, <2>1, <3>3, CallsGoOn
    <3>5. \E u \in E : u.key = Head(caller[c].todo).key
      BY <1>5, <3>2
    <3>6. faults = 0 => \A tx : Led(caller', E, tx)
      BY <1>3, <2>1, <3>5, LedSame
    <3> QED BY <1>1, <1>2, <1>3, <3>1, <3>4, <3>6 DEF RecoveryInv, LedInv
  <2>3. CASE ~Known(r.key)
    <3>1. cache' = Appended(r, StreamOf(r)) /\ file' = cache'
      BY <2>1, <2>3 DEF Write
    <3>2. cache'.entries = E \cup {r} /\ file'.entries = E \cup {r}
      BY <1>2, <3>1 DEF Appended
    <3>3. \A q \in E : q.key # r.key
      BY <1>6, <2>3
    <3>4. Sound(E \cup {r}, r)
      BY <1>1, <1>2, <1>5, NextSound
    <3>5. LogInv(E \cup {r}, E \cup {r})
      BY <1>1, <1>2, <3>3, <3>4, LogGrows
    <3>6. HasNext(E \cup {r}, caller[c]) /\ E \subseteq E \cup {r}
      BY <1>5 DEF HasNext
    <3>7. CallsInv(caller', E \cup {r})
      BY <1>1, <1>2, <2>1, <3>6, CallsGoOn
    <3>8. faults = 0 => \A tx : Led(caller', E \cup {r}, tx)
      BY <1>1, <1>2, <1>3, <1>5, <2>1, <3>3, LedGrows
    <3> QED BY <1>1, <1>3, <3>2, <3>5, <3>7, <3>8 DEF RecoveryInv, LedInv
  <2> QED BY <2>2, <2>3
<1> QED BY <1>7, <1>8

LEMMA WriteRecordRaisesKeeps ==
    ASSUME RecoveryInv, NEW c \in Callers, WriteRecordRaises(c) PROVE RecoveryInv'
<1>1. /\ LogInv(cache.entries, file.entries) /\ CallsInv(caller, cache.entries)
      /\ caller[c].pc = "write" /\ faults \in Nat
  BY DEF RecoveryInv, WriteRecordRaises, LedInv
<1>2. PICK E, F, r : E = cache.entries /\ F = file.entries /\ r = NextRecordOf(c)
  OBVIOUS
<1>3. r.key = Head(caller[c].todo).key
  BY <1>2, NextSays DEF Says
<1>4. ~Known(r.key) /\ cache' = Appended(r, StreamOf(r)) /\ file' = file /\ End(c) /\ faults' = faults + 1
  BY <1>2 DEF WriteRecordRaises, WriteRaises
<1>5. cache'.entries = E \cup {r} /\ file'.entries = F /\ \A q \in E : q.key # r.key
  BY <1>2, <1>4 DEF Appended, Known
<1>6. Sound(E \cup {r}, r)
  BY <1>1, <1>2, <1>3, NextSound
<1>7. LogInv(E \cup {r}, F)
  BY <1>1, <1>2, <1>5, <1>6, LogGrows
<1>8. OnlyMoves(caller, caller', c) /\ caller'[c].pc = "idle"
  BY <1>1, <1>4, EndMoves DEF CallsInv
<1>9. CallsInv(caller', E \cup {r})
  <2>1. E \subseteq E \cup {r}
    OBVIOUS
  <2> QED BY <1>1, <1>2, <1>8, <2>1, CallStops
<1>10. faults' \in Nat /\ faults' # 0
  BY <1>1, <1>4
<1> QED BY <1>5, <1>7, <1>9, <1>10 DEF RecoveryInv, LedInv

LEMMA CrashKeeps ==
    ASSUME RecoveryInv, Crash PROVE RecoveryInv'
<1>1. LogInv(cache.entries, file.entries) /\ faults \in Nat
  BY DEF RecoveryInv, LedInv
<1>2. cache' = file /\ file' = file /\ caller' = [c \in Callers |-> IdleCall] /\ faults' = faults + 1
  BY DEF Crash, Reload
<1>3. LogInv(file.entries, file.entries)
  <2>1. IsFiniteSet(file.entries)
    BY <1>1, FS_Subset DEF LogInv
  <2> QED BY <1>1, <2>1 DEF LogInv, Unique
<1>4. IsCall(IdleCall) /\ IdleCall.pc = "idle"
  BY DEF IsCall, IdleCall
<1>5. CallsInv(caller', file.entries)
  BY <1>2, <1>4 DEF CallsInv, Writers
<1>6. faults' \in Nat /\ faults' # 0
  BY <1>1, <1>2
<1> QED BY <1>2, <1>3, <1>5, <1>6 DEF RecoveryInv, LedInv

\* The actions that leave the calls and the log alone.
LEMMA OthersKeep ==
    ASSUME RecoveryInv, UNCHANGED <<caller, faults, logVars>> PROVE RecoveryInv'
  BY DEF RecoveryInv, logVars

LEMMA RecoveryStarts ==
    ASSUME RecoveryInit PROVE RecoveryInv
<1>1. cache.entries = {} /\ file.entries = {} /\ caller = [c \in Callers |-> IdleCall] /\ faults = 0
  BY DEF RecoveryInit, LogInit
<1>2. LogInv({}, {})
  BY FS_EmptySet DEF LogInv, Unique, SoundLog
<1>3. IsCall(IdleCall) /\ IdleCall.pc = "idle"
  BY DEF IsCall, IdleCall
<1>4. CallsInv(caller, {})
  BY <1>1, <1>3 DEF CallsInv, Writers
<1>5. \A tx : Led(caller, {}, tx)
  BY DEF Led, StartedIn
<1> QED BY <1>1, <1>2, <1>4, <1>5 DEF RecoveryInv, LedInv

\* The inductive invariant: the log is sound, every call that writes has what
\* it wrote in the log, and without faults an open transaction is led.
THEOREM RecoveryInvariance == RecoverySpec => []RecoveryInv
<1>1. RecoveryInit => RecoveryInv
  BY RecoveryStarts
<1>2. RecoveryInv /\ [RecoveryNext]_recoveryVars => RecoveryInv'
  <2> SUFFICES ASSUME RecoveryInv, [RecoveryNext]_recoveryVars PROVE RecoveryInv'
    OBVIOUS
  <2>1. ASSUME NEW c \in Callers, SuppressReentry(c) PROVE RecoveryInv'
    BY <2>1, SuppressReentryQuiet, QuietKeeps
  <2>2. ASSUME NEW c \in Callers, ReadTask(c) PROVE RecoveryInv'
    BY <2>2, ReadTaskQuiet, QuietKeeps
  <2>3. ASSUME NEW c \in Callers, CallStep(c) PROVE RecoveryInv'
    <3>1. CASE CheckActive(c)
      BY <3>1, CheckActiveQuiet, QuietKeeps
    <3>2. CASE WriteRecord(c)
      BY <3>2, WriteRecordKeeps
    <3>3. CASE \/ Handoff(c) \/ HandoffFails(c) \/ StartResume(c)
               \/ ResumeSameThread(c) \/ ResumeInChild(c) \/ ResumeFails(c)
      BY <3>3, TalkQuiet, QuietKeeps
    <3> QED BY <2>3, <3>1, <3>2, <3>3 DEF CallStep
  <2>4. ASSUME NEW c \in Callers, WriteRecordRaises(c) PROVE RecoveryInv'
    BY <2>4, WriteRecordRaisesKeeps
  <2>5. ASSUME NEW th \in Threads, NEW rep \in Reports, RuntimeReports(th, rep) PROVE RecoveryInv'
    BY <2>5, OthersKeep DEF RuntimeReports
  <2>6. CASE RefreshRecord
    BY <2>6, OthersKeep DEF RefreshRecord
  <2>7. CASE Crash
    BY <2>7, CrashKeeps
  <2>8. CASE Tick
    BY <2>8, OthersKeep DEF Tick
  <2>9. CASE UNCHANGED recoveryVars
    BY <2>9, OthersKeep DEF recoveryVars, logVars
  <2> QED BY <2>1, <2>2, <2>3, <2>4, <2>5, <2>6, <2>7, <2>8, <2>9 DEF RecoveryNext
<1> QED BY <1>1, <1>2, PTL DEF RecoverySpec

(***************************************************************************)
(* The properties.                                                         *)
(***************************************************************************)
\* A status in the file has the steps before it in the file, whatever crashed,
\* raised or ran into another call.  (ChainInOrder)
THEOREM StatusesKeepTheChain == RecoverySpec => []ChainInOrder
<1>1. RecoveryInv => ChainInOrder
  <2> SUFFICES ASSUME RecoveryInv, NEW r \in file.entries, r.key[1] = "status",
                      r.key[2] \in DOMAIN Needs, NEW need \in Needs[r.key[2]]
               PROVE  \E q \in file.entries :
                         q.key[1] = need[1] /\ q.key[2] = need[2] /\ q.key[3] = r.key[3]
    BY DEF ChainInOrder
  <2>1. Sound(file.entries, r)
    BY DEF RecoveryInv, LogInv, SoundLog
  <2> QED BY <2>1 DEF Sound, NeedsOf, IsStep
<1> QED BY <1>1, RecoveryInvariance, PTL

LEMMA AtMostOne ==
    ASSUME NEW S, \A a, b \in S : a = b PROVE Cardinality(S) <= 1
<1>1. CASE S = {}
  BY <1>1, FS_EmptySet
<1>2. CASE S # {}
  <2>1. PICK a : a \in S
    BY <1>2
  <2>2. S = {a}
    BY <2>1
  <2> QED BY <2>2, FS_Singleton
<1> QED BY <1>1, <1>2

LEMMA MoreThanOne ==
    ASSUME NEW S, IsFiniteSet(S), NEW a \in S, NEW b \in S, a # b PROVE Cardinality(S) > 1
<1>1. Cardinality(S) \in Nat
  BY FS_CardinalityType
<1>2. Cardinality(S) # 0
  BY FS_EmptySet
<1>3. Cardinality(S) # 1
  <2> SUFFICES ASSUME Cardinality(S) = 1 PROVE FALSE
    OBVIOUS
  <2>1. PICK x : S = {x}
    BY FS_Singleton
  <2> QED BY <2>1
<1> QED BY <1>1, <1>2, <1>3

\* Calls that share a transaction never commit two lineages for it: the second
\* one's child disagrees with the first one's.  (OneLineagePerTransaction)
THEOREM TransactionsHaveOneLineage == RecoverySpec => []OneLineagePerTransaction
<1>1. RecoveryInv => OneLineagePerTransaction
  <2> SUFFICES ASSUME RecoveryInv, NEW tx
               PROVE  Cardinality({r \in cache.entries : r.key[2] = "lineage" /\ r.key[3] = tx}) <= 1
    BY DEF OneLineagePerTransaction
  <2>1. PICK E : E = cache.entries
    OBVIOUS
  <2>2. Unique(E) /\ SoundLog(E)
    BY <2>1 DEF RecoveryInv, LogInv
  <2>3. ASSUME NEW a \in E, NEW b \in E, a.key[2] = "lineage", b.key[2] = "lineage",
               a.key[3] = tx, b.key[3] = tx
        PROVE  a = b
    <3>1. LineageOf(E, a) /\ LineageOf(E, b)
      BY <2>2 DEF SoundLog, Sound
    <3>2. PICK p \in E : p.key = ChildKey(tx) /\ p.body.child = a.key[4]
      BY <2>3, <3>1 DEF LineageOf
    <3>3. PICK q \in E : q.key = ChildKey(tx) /\ q.body.child = b.key[4]
      BY <2>3, <3>1 DEF LineageOf
    <3>4. p = q
      BY <2>2, <3>2, <3>3 DEF Unique
    <3>5. a.key = <<"event", "lineage", tx, a.key[4]>> /\ b.key = <<"event", "lineage", tx, b.key[4]>>
      BY <2>3, <3>1 DEF LineageOf
    <3>6. a.key = b.key
      BY <3>2, <3>3, <3>4, <3>5
    <3> QED BY <2>2, <3>6 DEF Unique
  <2>4. PICK S : S = {r \in E : r.key[2] = "lineage" /\ r.key[3] = tx}
    OBVIOUS
  <2>5. \A a, b \in S : a = b
    BY <2>3, <2>4
  <2> QED BY <2>1, <2>4, <2>5, AtMostOne
<1> QED BY <1>1, RecoveryInvariance, PTL

LEMMA InDispute ==
    ASSUME NEW tx, IsFiniteSet(cache.entries), DifferIn(cache.entries, tx)
    PROVE  OutcomesDisagree(tx)
<1>1. PICK Q : Q = {q \in cache.entries : q.key[2] \in OutcomeSteps /\ q.key[3] = tx}
  OBVIOUS
<1>2. PICK S : S = {<<r.body.resume, r.body.child>> : r \in Q}
  OBVIOUS
<1>3. IsFiniteSet(Q)
  BY <1>1, FS_Subset
<1>4. IsFiniteSet(S)
  <2>1. PICK f : f = [r \in Q |-> <<r.body.resume, r.body.child>>]
    OBVIOUS
  <2>2. f \in Surjection(Q, S)
    BY <1>2, <2>1 DEF Surjection
  <2> QED BY <1>3, <2>2, FS_Surjection
<1>5. PICK a \in Q, b \in Q : a.body.resume # b.body.resume \/ a.body.child # b.body.child
  BY <1>1 DEF DifferIn
<1>6. PICK u, v : u = <<a.body.resume, a.body.child>> /\ v = <<b.body.resume, b.body.child>>
  OBVIOUS
<1>7. u \in S /\ v \in S /\ u # v
  BY <1>2, <1>5, <1>6
<1> QED BY <1>1, <1>2, <1>4, <1>7, MoreThanOne DEF OutcomesDisagree

LEMMA LeaderWillEnd ==
    ASSUME NEW c, NEW E, NEW tx, Leads(caller[c], E, tx) PROVE WillEnd(c, tx)
<1>1. PICK s, packet, r, ch, p : IsScript(s, tx, packet, r, ch) /\ Follows(caller[c], E, s, p)
  BY DEF Leads
<1>2. Shaped(s, tx, packet, r, ch)
  BY <1>1, ScriptShape
<1>3. (\E S : s \in Seq(S)) /\ \E end \in Terminal : s[Len(s)].key = EndKey(end, tx)
  BY <1>2 DEF Shaped
<1>4. p \in 1..Len(s) /\ caller[c].todo = Suffix(s, p)
  BY <1>1 DEF Follows
<1>5. PICK i \in DOMAIN Suffix(s, p) : Suffix(s, p)[i] = s[Len(s)]
  BY <1>3, <1>4, SuffixEnds
<1> QED BY <1>3, <1>4, <1>5 DEF WillEnd, EndKey

\* An open transaction is on its way to its end, or in dispute, unless a crash
\* or a failed write cut it off: the call that leads it is never refused.
\* (OpenIsOwned)
THEOREM OpenTransactionsAreOwned == RecoverySpec => []OpenIsOwned
<1>1. RecoveryInv => OpenIsOwned
  <2> SUFFICES ASSUME RecoveryInv, faults = 0, NEW tx \in Transactions
               PROVE  Ended(tx) \/ OutcomesDisagree(tx) \/ \E c \in Callers : WillEnd(c, tx)
    BY DEF OpenIsOwned
  <2>1. PICK E : E = cache.entries
    OBVIOUS
  <2>2. IsFiniteSet(E) /\ SoundLog(E) /\ Led(caller, E, tx)
    BY <2>1 DEF RecoveryInv, LogInv, LedInv
  <2>3. PICK r \in E : r.key[1] = "status" /\ r.key[3] = tx
    BY <2>1 DEF Transactions, StatusRecords
  <2>4. StartedIn(E, tx)
    <3>1. NeedsOf(E, r) /\ StartOf(E, r)
      BY <2>2 DEF SoundLog, Sound
    <3> QED BY <2>3, <3>1 DEF NeedsOf, StartOf, StartedIn
  <2>5. CASE EndedIn(E, tx)
    BY <2>1, <2>5 DEF EndedIn, Ended, Known, EndKey
  <2>6. CASE DifferIn(E, tx)
    BY <2>1, <2>2, <2>6, InDispute
  <2>7. ASSUME NEW c \in Callers, Leads(caller[c], E, tx) PROVE WillEnd(c, tx)
    BY <2>7, LeaderWillEnd
  <2> QED BY <2>2, <2>4, <2>5, <2>6, <2>7 DEF Led
<1> QED BY <1>1, RecoveryInvariance, PTL

(***************************************************************************)
(* Types.                                                                  *)
(***************************************************************************)
Pcs == {"idle", "write", "handoff", "resume", "resuming", "check"}

IsTask(t, n) ==
    DOMAIN t = {"status", "pressure", "progress"} /\ t.progress \in Nat /\ t.progress <= n

TasksTyped(T, cur, rec, n) ==
    /\ n \in Nat /\ n <= MaxTime
    /\ DOMAIN T = Threads /\ \A th \in Threads : IsTask(T[th], n)
    /\ cur \in Threads /\ T[cur].status # "none"
    /\ rec.progress \in Nat /\ rec.progress <= n

CountsTyped ==
    /\ calls \in 0..MaxCalls
    /\ reports \in Nat /\ faults \in Nat /\ reports + faults <= MaxEvents

CallsTyped == \A c \in Callers : caller[c].pc \in Pcs

TypedInv == TasksTyped(tasks, current, record, now) /\ CountsTyped /\ CallsTyped

LEMMA TypedInitially == ASSUME RecoveryInit PROVE TypedInv
<1>1. 0 \in Threads /\ 0 \in Nat /\ 0 <= MaxTime
  BY RecoveryConstants DEF Threads
<1>2. TasksTyped(tasks, current, record, now)
  <2>1. /\ now = 0 /\ current = 0 /\ record.progress = 0
        /\ tasks = [th \in Threads |-> IF th = 0
              THEN [status |-> "running", pressure |-> "critical", progress |-> 0] ELSE NoTask]
    BY DEF RecoveryInit
  <2>2. \A th \in Threads : IsTask(tasks[th], 0)
    BY <2>1 DEF IsTask, NoTask
  <2> QED BY <1>1, <2>1, <2>2 DEF TasksTyped
<1>3. CountsTyped
  BY RecoveryConstants DEF RecoveryInit, CountsTyped
<1>4. CallsTyped
  BY DEF RecoveryInit, CallsTyped, IdleCall, Pcs
<1> QED BY <1>2, <1>3, <1>4 DEF TypedInv

LEMMA CountsStep == ASSUME CountsTyped, [RecoveryNext]_recoveryVars PROVE CountsTyped'
<1> USE RecoveryConstants DEF CountsTyped
<1>1. ASSUME NEW c \in Callers, SuppressReentry(c) PROVE CountsTyped'
  BY <1>1 DEF SuppressReentry
<1>2. ASSUME NEW c \in Callers, ReadTask(c) PROVE CountsTyped'
  BY <1>2 DEF ReadTask
<1>3. ASSUME NEW c \in Callers, CallStep(c) PROVE CountsTyped'
  <2>1. UNCHANGED <<calls, reports, faults>>
    BY <1>3 DEF CallStep, Handoff, HandoffFails, StartResume, ResumeSameThread, ResumeInChild,
                ResumeFails, CheckActive, WriteRecord
  <2> QED BY <2>1
<1>4. ASSUME NEW c \in Callers, WriteRecordRaises(c) PROVE CountsTyped'
  BY <1>4 DEF WriteRecordRaises
<1>5. ASSUME NEW th \in Threads, NEW rep \in Reports, RuntimeReports(th, rep) PROVE CountsTyped'
  BY <1>5 DEF RuntimeReports
<1>6. CASE RefreshRecord
  BY <1>6 DEF RefreshRecord
<1>7. CASE Crash
  BY <1>7 DEF Crash
<1>8. CASE Tick
  BY <1>8 DEF Tick
<1>9. CASE UNCHANGED recoveryVars
  BY <1>9 DEF recoveryVars
<1> QED BY <1>1, <1>2, <1>3, <1>4, <1>5, <1>6, <1>7, <1>8, <1>9 DEF RecoveryNext

LEMMA OneCallTyped ==
    ASSUME CallsTyped, NEW c \in Callers, OnlyMoves(caller, caller', c), caller'[c].pc \in Pcs
    PROVE  CallsTyped'
  BY DEF CallsTyped, OnlyMoves

LEMMA CallsStep ==
    ASSUME RecoveryInv, CallsTyped, [RecoveryNext]_recoveryVars PROVE CallsTyped'
<1>0. DOMAIN caller = Callers /\ \A c \in Callers : IsCall(caller[c])
  BY DEF RecoveryInv, CallsInv
<1>1. ASSUME NEW c \in Callers, SuppressReentry(c) PROVE CallsTyped'
  BY <1>0, <1>1 DEF SuppressReentry, WriteThen, IdleCall, CallsTyped, Pcs
<1>2. ASSUME NEW c \in Callers, ReadTask(c) PROVE CallsTyped'
  <2>1. PICK k : caller' = [caller EXCEPT ![c] = k] /\ k.pc = "write"
    <3>1. PICK hold \in Holds :
            LET seen   == [thread |-> current, status |-> tasks[current].status,
                           pressure |-> tasks[current].pressure, progress |-> tasks[current].progress]
                reason == NoopReason(seen, hold)
            IN caller' =
                    [caller EXCEPT ![c] =
                       IF reason = "none"
                       THEN [WriteThen(<< [Once("recovery_dispatch_started",
                                <<seen.thread, seen.progress>>, seen)
                                EXCEPT !.fresh = TRUE] >>, "handoff")
                             EXCEPT !.seen = seen, !.packet = Second(now)]
                       ELSE WriteThen(SuppressedScript(reason, seen), "idle")]
      BY <1>2 DEF ReadTask
    <3>2. PICK seen, reason, todo, script :
            caller' = [caller EXCEPT ![c] =
                       IF reason = "none"
                       THEN [WriteThen(todo, "handoff") EXCEPT !.seen = seen, !.packet = Second(now)]
                       ELSE WriteThen(script, "idle")]
      BY <3>1
    <3>3. PICK k : k = IF reason = "none"
                       THEN [WriteThen(todo, "handoff") EXCEPT !.seen = seen, !.packet = Second(now)]
                       ELSE WriteThen(script, "idle")
      OBVIOUS
    <3>4. k.pc = "write"
      BY <3>3 DEF WriteThen, IdleCall
    <3> QED BY <3>2, <3>3, <3>4
  <2> QED BY <1>0, <2>1 DEF CallsTyped, Pcs
<1>3. ASSUME NEW c \in Callers, WriteRecord(c) PROVE CallsTyped'
  <2>1. caller[c].pc = "write" /\ caller[c].then \in {"idle", "handoff"}
    BY <1>3 DEF WriteRecord, RecoveryInv, CallsInv, Writers, OnScript, Follows, Aside
  <2>2. CASE Conflicting(NextRecordOf(c), Head(caller[c].todo).once)
    <3>1. End(c)
      BY <1>3, <2>2 DEF WriteRecord
    <3>2. OnlyMoves(caller, caller', c) /\ caller'[c].pc = "idle"
      BY <1>0, <3>1, EndMoves
    <3> QED BY <3>2, OneCallTyped DEF Pcs
  <2>3. CASE ~Conflicting(NextRecordOf(c), Head(caller[c].todo).once)
    <3>1. OnlyMoves(caller, caller', c) /\ AfterWrite(caller[c], caller'[c])
      BY <1>3, <2>3, WriteGoesOn DEF RecoveryInv
    <3>2. caller'[c].pc \in Pcs
      BY <2>1, <3>1 DEF AfterWrite, Pcs
    <3> QED BY <3>1, <3>2, OneCallTyped
  <2> QED BY <2>2, <2>3
<1>4. ASSUME NEW c \in Callers, HandoffFails(c) \/ WriteRecordRaises(c) PROVE CallsTyped'
  <2>1. End(c)
    BY <1>4 DEF HandoffFails, WriteRecordRaises
  <2>2. OnlyMoves(caller, caller', c) /\ caller'[c].pc = "idle"
    BY <1>0, <2>1, EndMoves
  <2> QED BY <2>2, OneCallTyped DEF Pcs
<1>5. ASSUME NEW c \in Callers, CheckActive(c) PROVE CallsTyped'
  <2>1. PICK k : caller' = [caller EXCEPT ![c] = k] /\ k.pc \in {"idle", "write"}
    <3>1. CASE ConflictsWithActive(TxOf(c))
      <4>1. caller' = [caller EXCEPT ![c] = IdleCall]
        BY <1>5, <3>1 DEF CheckActive, End
      <4>2. PICK k : k = IdleCall
        OBVIOUS
      <4>3. k.pc = "idle" /\ caller' = [caller EXCEPT ![c] = k]
        BY <4>1, <4>2 DEF IdleCall
      <4> QED BY <4>3
    <3>2. CASE ~ConflictsWithActive(TxOf(c))
      <4>1. PICK k : /\ k = WriteThen(RecoveryScript(TxOf(c), caller[c].packet, caller[c].resume,
                                                     caller[c].child), "idle")
                     /\ caller' = [caller EXCEPT ![c] = k]
        BY <1>5, <3>2 DEF CheckActive
      <4>2. k.pc = "write"
        BY <4>1 DEF WriteThen, IdleCall
      <4> QED BY <4>1, <4>2
    <3> QED BY <3>1, <3>2
  <2> QED BY <1>0, <2>1 DEF CallsTyped, Pcs
<1>6. ASSUME NEW c \in Callers, \/ Handoff(c) \/ StartResume(c)
                                \/ ResumeSameThread(c) \/ ResumeInChild(c) \/ ResumeFails(c)
      PROVE  CallsTyped'
  <2>1. "pc" \in DOMAIN caller[c]
    BY <1>0 DEF IsCall, IdleCall
  <2>2. /\ \A d \in Callers : d # c => caller'[d] = caller[d]
        /\ caller'[c].pc \in {"resume", "check", "resuming"}
    <3>1. CASE Handoff(c)
      BY <1>0, <2>1, <3>1 DEF Handoff
    <3>2. CASE StartResume(c)
      BY <1>0, <2>1, <3>2 DEF StartResume
    <3>3. CASE ResumeSameThread(c)
      BY <1>0, <2>1, <3>3 DEF ResumeSameThread
    <3>4. CASE ResumeInChild(c)
      BY <1>0, <2>1, <3>4 DEF ResumeInChild
    <3>5. CASE ResumeFails(c)
      BY <1>0, <2>1, <3>5 DEF ResumeFails
    <3> QED BY <1>6, <3>1, <3>2, <3>3, <3>4, <3>5
  <2> QED BY <2>2 DEF CallsTyped, Pcs
<1>7. CASE Crash
  BY <1>7 DEF Crash, CallsTyped, IdleCall, Pcs
<1>8. ASSUME UNCHANGED caller PROVE CallsTyped'
  BY <1>8 DEF CallsTyped
<1>9. ASSUME NEW th \in Threads, NEW rep \in Reports, RuntimeReports(th, rep) PROVE UNCHANGED caller
  BY <1>9 DEF RuntimeReports
<1>10. RefreshRecord \/ Tick \/ UNCHANGED recoveryVars => UNCHANGED caller
  BY DEF RefreshRecord, Tick, recoveryVars
<1> QED BY <1>1, <1>2, <1>3, <1>4, <1>5, <1>6, <1>7, <1>8, <1>9, <1>10 DEF RecoveryNext, CallStep

\* A task that is overwritten.
LEMMA TaskSet ==
    ASSUME NEW T, NEW cur, NEW rec, NEW n, TasksTyped(T, cur, rec, n), NEW th \in Threads,
           NEW status, NEW pressure, status # "none"
    PROVE  TasksTyped([T EXCEPT ![th] = [status |-> status, pressure |-> pressure, progress |-> n]],
                      cur, rec, n)
<1>1. n \in Nat /\ n <= n /\ DOMAIN T = Threads
  BY DEF TasksTyped
<1>2. PICK U : U = [T EXCEPT ![th] = [status |-> status, pressure |-> pressure, progress |-> n]]
  OBVIOUS
<1>3. DOMAIN U = Threads /\ \A t \in Threads : t # th => U[t] = T[t]
  BY <1>1, <1>2
<1>4. IsTask(U[th], n) /\ U[th].status # "none"
  BY <1>1, <1>2 DEF IsTask
<1>5. \A t \in Threads : IsTask(U[t], n)
  BY <1>3, <1>4 DEF TasksTyped
<1>6. U[cur].status # "none"
  BY <1>3, <1>4 DEF TasksTyped
<1> QED BY <1>2, <1>3, <1>5, <1>6 DEF TasksTyped

LEMMA FreshIsThread == FreshThread <= MaxThread => FreshThread \in Threads
<1>1. IsFiniteSet(Threads)
  BY RecoveryConstants, FS_Interval DEF Threads
<1>2. PICK S : S = {th \in Threads : tasks[th] # NoTask}
  OBVIOUS
<1>3. Cardinality(S) \in Nat
  BY <1>1, <1>2, FS_Subset, FS_CardinalityType
<1> QED BY <1>2, <1>3, RecoveryConstants DEF FreshThread, Threads

LEMMA TasksStep ==
    ASSUME TasksTyped(tasks, current, record, now), [RecoveryNext]_recoveryVars
    PROVE  TasksTyped(tasks', current', record', now')
<1>0. current \in Threads
  BY DEF TasksTyped
<1>1. ASSUME UNCHANGED <<tasks, current, record, now>>
      PROVE  TasksTyped(tasks', current', record', now')
  BY <1>1
<1>2. ASSUME NEW status, status # "none", NEW pressure, MergeUpdate(status, pressure),
             UNCHANGED <<current, record, now>>
      PROVE  TasksTyped(tasks', current', record', now')
  BY <1>0, <1>2, TaskSet DEF MergeUpdate
<1>3. ASSUME NEW c \in Callers, SuppressReentry(c) \/ ReadTask(c) \/ WriteRecordRaises(c)
      PROVE  UNCHANGED <<tasks, current, record, now>>
  BY <1>3 DEF SuppressReentry, ReadTask, WriteRecordRaises, taskVars
<1>4. ASSUME NEW c \in Callers, CheckActive(c) \/ WriteRecord(c)
      PROVE  UNCHANGED <<tasks, current, record, now>>
  BY <1>4 DEF CheckActive, WriteRecord, taskVars
<1>5. ASSUME NEW c \in Callers, Handoff(c) \/ HandoffFails(c)
      PROVE  TasksTyped(tasks', current', record', now')
  <2>1. /\ MergeUpdate("handoff_in_progress", tasks[current].pressure) \/ UNCHANGED tasks
        /\ UNCHANGED <<current, record, now>>
    BY <1>5 DEF Handoff, HandoffFails
  <2> QED BY <1>1, <1>2, <2>1
<1>6. ASSUME NEW c \in Callers, StartResume(c) PROVE TasksTyped(tasks', current', record', now')
  <2>1. MergeUpdate("resuming", tasks[current].pressure) /\ UNCHANGED <<current, record, now>>
    BY <1>6 DEF StartResume
  <2> QED BY <1>2, <2>1
<1>7. ASSUME NEW c \in Callers, ResumeSameThread(c) PROVE TasksTyped(tasks', current', record', now')
  <2>1. MergeUpdate("running", "medium") /\ UNCHANGED <<current, record, now>>
    BY <1>7 DEF ResumeSameThread
  <2> QED BY <1>2, <2>1
<1>8. ASSUME NEW c \in Callers, ResumeFails(c) PROVE TasksTyped(tasks', current', record', now')
  <2>1. /\ MergeUpdate("failed", tasks[current].pressure) \/ UNCHANGED tasks
        /\ UNCHANGED <<current, record, now>>
    BY <1>8 DEF ResumeFails
  <2> QED BY <1>1, <1>2, <2>1
<1>9. ASSUME NEW c \in Callers, ResumeInChild(c) PROVE TasksTyped(tasks', current', record', now')
  <2>1. PICK fresh \in Threads :
          /\ current' = fresh /\ record' = record /\ now' = now
          /\ tasks' = [tasks EXCEPT
                ![caller[c].parent] = [status |-> "paused", pressure |-> tasks[current].pressure,
                                       progress |-> tasks[current].progress],
                ![fresh] = [status |-> "running", pressure |-> "medium", progress |-> now]]
    BY <1>9, FreshIsThread DEF ResumeInChild
  <2>2. PICK T : T = [tasks EXCEPT
                ![caller[c].parent] = [status |-> "paused", pressure |-> tasks[current].pressure,
                                       progress |-> tasks[current].progress]]
    OBVIOUS
  <2>3. /\ now \in Nat /\ DOMAIN tasks = Threads /\ \A th \in Threads : IsTask(tasks[th], now)
        /\ tasks[current].progress \in Nat /\ tasks[current].progress <= now
    BY <1>0 DEF TasksTyped, IsTask
  <2>4. DOMAIN T = Threads /\ \A th \in Threads : IsTask(T[th], now)
    BY <2>2, <2>3 DEF IsTask
  <2>5. tasks' = [T EXCEPT ![fresh] = [status |-> "running", pressure |-> "medium", progress |-> now]]
    BY <2>1, <2>2
  <2>6. DOMAIN tasks' = Threads /\ \A th \in Threads : th # fresh => tasks'[th] = T[th]
    BY <2>4, <2>5
  <2>7. tasks'[fresh] = [status |-> "running", pressure |-> "medium", progress |-> now]
    BY <2>4, <2>5
  <2>8. IsTask(tasks'[fresh], now) /\ tasks'[fresh].status # "none"
    BY <2>3, <2>7 DEF IsTask
  <2>9. \A th \in Threads : IsTask(tasks'[th], now)
    BY <2>4, <2>6, <2>8
  <2> QED BY <2>1, <2>6, <2>8, <2>9 DEF TasksTyped
<1>10. ASSUME NEW th \in Threads, NEW rep \in Reports, RuntimeReports(th, rep)
       PROVE  TasksTyped(tasks', current', record', now')
  <2>1. PICK status : /\ status = IF tasks[th].status = "paused" /\ rep.status # "completed"
                                  THEN "paused" ELSE rep.status
                      /\ tasks' = [tasks EXCEPT ![th] =
                            [status |-> status, pressure |-> rep.pressure, progress |-> now]]
                      /\ current' = th /\ record' = record /\ now' = now
    BY <1>10 DEF RuntimeReports
  <2>2. status # "none"
    BY <2>1, RecoveryConstants
  <2>3. TasksTyped(tasks', current, record, now)
    BY <2>1, <2>2, TaskSet
  <2>4. tasks'[th].status # "none"
    BY <2>1, <2>2 DEF TasksTyped
  <2> QED BY <2>1, <2>3, <2>4 DEF TasksTyped
<1>11. CASE RefreshRecord
  <2>1. record'.progress = tasks[current].progress /\ UNCHANGED <<tasks, current, now>>
    BY <1>11 DEF RefreshRecord, taskVars
  <2> QED BY <1>0, <2>1 DEF TasksTyped, IsTask
<1>12. CASE Crash
  BY <1>1, <1>12 DEF Crash, taskVars
<1>13. CASE Tick
  <2>1. now' = now + 1 /\ now < MaxTime /\ UNCHANGED <<tasks, current, record>>
    BY <1>13 DEF Tick, taskVars
  <2>2. now' \in Nat /\ now' <= MaxTime /\ \A n \in Nat : n <= now => n <= now'
    BY <2>1, RecoveryConstants DEF TasksTyped
  <2>3. \A th \in Threads : IsTask(tasks[th], now')
    BY <2>2 DEF TasksTyped, IsTask
  <2> QED BY <2>1, <2>2, <2>3 DEF TasksTyped
<1>14. CASE UNCHANGED recoveryVars
  BY <1>1, <1>14 DEF recoveryVars
<1> QED BY <1>1, <1>3, <1>4, <1>5, <1>6, <1>7, <1>8, <1>9, <1>10, <1>11, <1>12, <1>13, <1>14
        DEF RecoveryNext, CallStep

\* Nothing carries a time that has not come, the file lags behind the cache.
\* (RecoveryTypeOK)
THEOREM RecoveriesAreTyped == RecoverySpec => []RecoveryTypeOK
<1>1. RecoveryInit => TypedInv
  BY TypedInitially
<1>2. RecoveryInv /\ TypedInv /\ [RecoveryNext]_recoveryVars => TypedInv'
  BY TasksStep, CountsStep, CallsStep DEF TypedInv
<1>3. RecoveryInv /\ TypedInv => RecoveryTypeOK
  <2> SUFFICES ASSUME RecoveryInv, TypedInv PROVE RecoveryTypeOK
    OBVIOUS
  <2>1. file.entries \subseteq cache.entries
    BY DEF RecoveryInv, LogInv
  <2>2. /\ now \in Nat /\ now <= MaxTime /\ current \in Threads /\ tasks[current].status # "none"
        /\ \A th \in Threads : IsTask(tasks[th], now)
        /\ record.progress <= now
    BY DEF TypedInv, TasksTyped
  <2>3. tasks[current] # NoTask
    BY <2>2 DEF NoTask
  <2>4. \A th \in Threads : tasks[th].progress <= now
    BY <2>2 DEF IsTask
  <2>5. now \in 0..MaxTime
    BY <2>2, RecoveryConstants
  <2> QED BY <2>1, <2>2, <2>3, <2>4, <2>5 DEF RecoveryTypeOK, TypedInv, CountsTyped, CallsTyped, Pcs
<1> QED BY <1>1, <1>2, <1>3, RecoveryInvariance, PTL DEF RecoverySpec

=============================================================================
