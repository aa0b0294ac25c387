------------------------ MODULE SessionActions_proofs -------------------------
(***************************************************************************)
(* Proofs about SessionActions, for any keys, kinds, threads and bounds.   *)
(*                                                                         *)
(* The invariant keeps an account for every key, of what the runtime did   *)
(* or may still do against the troubles its calls met with, and says of    *)
(* every identity that is in doubt whose issue it is.                      *)
(***************************************************************************)
EXTENDS SessionActions, Sequences, TLAPS

InHand(k) == call # NoCall /\ call.key = k

\* The call in hand is for a key that was asked and has no receipt yet.
HandOK ==
    call # NoCall => /\ call.key \in Keys /\ receipt[call.key] = "none" /\ call.pc # "idle"
                     /\ call.pc = "issue" => call.kind \in Continuing

\* What the runtime did for a key, and may still do.
Done(k) == got[k] + orphans[k]

\* The one time that needs no trouble: it is on record, or the call has it in hand.
Granting   == {"done", "ok", "consume", "store"}
Granted(k) == receipt[k] # "none" \/ (InHand(k) /\ call.pc \in Granting)

Account == \A k \in Keys : Done(k) <= troubles[k] + (IF Granted(k) THEN 1 ELSE 0)

IdStream(id) == <<"identity", id>>

\* The call in hand issued the identity and has not settled it.
Pending(id, k) ==
    /\ call # NoCall /\ call.key = k /\ call.kind \in Continuing /\ Identity(call) = id
    /\ call.pc \in {"send", "await", "done", "ok", "consume"}

LastFits(id) ==
    LET r == Last(IdStream(id))
    IN  HasLast(IdStream(id)) =>
            /\ r.key[6] \in Keys /\ r.body[2] = id[1] /\ r.body = <<r.body[1], r.body[2]>>
            /\ StateOf(r) = "issued" => troubles[r.key[6]] > 0 \/ Pending(id, r.key[6])

ActionsInv ==
    /\ ActionsTypeOK /\ HandOK /\ Account
    /\ \A id \in Identities : LastFits(id)

-----------------------------------------------------------------------------
(***************************************************************************)
(* The log.                                                                *)
(***************************************************************************)
LEMMA WriteIs ==
    ASSUME NEW r, NEW s, Write(r, s)
    PROVE  /\ \A t : t # s => (HasLast(t)' <=> HasLast(t)) /\ (HasLast(t) => Last(t)' = Last(t))
           /\ ~Known(r.key) => HasLast(s)' /\ Last(s)' = r
           /\ Known(r.key) => (HasLast(s)' <=> HasLast(s)) /\ Last(s)' = Last(s)
<1>1. CASE Known(r.key)
  BY <1>1 DEF Write, logVars, HasLast, Last
<1>2. CASE ~Known(r.key)
  <2>1. cache' = Appended(r, s)
    BY <1>2 DEF Write
  <2>2. PICK D : D = DOMAIN cache.last \cup {s}
    OBVIOUS
  <2>3. cache'.last = [t \in D |-> IF t = s THEN r ELSE cache.last[t]]
    BY <2>1, <2>2 DEF Appended
  <2>4. DOMAIN cache'.last = D /\ \A t \in D : cache'.last[t] = IF t = s THEN r ELSE cache.last[t]
    BY <2>3
  <2> QED BY <1>2, <2>2, <2>4 DEF HasLast, Last
<1> QED BY <1>1, <1>2

\* Nothing is written to the stream of an identity.
Elsewhere(id) ==
    /\ HasLast(IdStream(id))' <=> HasLast(IdStream(id))
    /\ HasLast(IdStream(id)) => Last(IdStream(id))' = Last(IdStream(id))

LEMMA LogRests == ASSUME UNCHANGED logVars, NEW id PROVE Elsewhere(id)
  BY DEF logVars, Elsewhere, HasLast, Last

LEMMA OtherStream ==
    ASSUME NEW r, NEW s, Write(r, s), NEW id, s # IdStream(id) PROVE Elsewhere(id)
  BY WriteIs DEF Elsewhere

LEMMA Streams ==
    ASSUME NEW id
    PROVE  /\ IdStream(id) # <<"gate">> /\ \A k : IdStream(id) # <<"token", k>>
           /\ \A c : (Stream(c) = IdStream(id)) <=> (Identity(c) = id)
<1>1. Len(<<"gate">>) = 1 /\ Len(IdStream(id)) = 2
  BY DEF IdStream
<1>2. \A k : <<"token", k>>[1] = "token" /\ IdStream(id)[1] = "identity" /\ IdStream(id)[2] = id
  BY DEF IdStream
<1>3. \A c : Stream(c) = <<"identity", Identity(c)>> /\ Stream(c)[2] = Identity(c)
  BY DEF Stream
<1> QED BY <1>1, <1>2, <1>3 DEF IdStream

TroublesGrow == \A k \in Keys : troubles'[k] >= troubles[k]

\* The pending call goes on, or ends in trouble.
GoesOn(id) ==
    \/ call' = call
    \/ \E x \in {"send", "await", "done", "ok", "consume"} : call' = [call EXCEPT !.pc = x]
    \/ call.key \in Keys => troubles'[call.key] > 0
    \/ call = NoCall \/ call.kind \notin Continuing
    \/ call.pc \notin {"send", "await", "done", "ok", "consume"} \/ Identity(call) # id

LEMMA LastStays ==
    ASSUME ActionsInv, troubles' \in [Keys -> Nat], TroublesGrow, NEW id \in Identities,
           GoesOn(id), Elsewhere(id)
    PROVE  LastFits(id)'
<1> SUFFICES ASSUME HasLast(IdStream(id))' PROVE LastFits(id)'
  BY DEF LastFits
<1>1. PICK r : r = Last(IdStream(id)) /\ Last(IdStream(id))' = r
  BY DEF Elsewhere
<1>2. PICK k \in Keys : k = r.key[6]
  BY <1>1 DEF Elsewhere, ActionsInv, LastFits
<1>3. /\ r.body[2] = id[1] /\ r.body = <<r.body[1], r.body[2]>>
      /\ StateOf(r) = "issued" => troubles[k] > 0 \/ Pending(id, k)
  BY <1>1, <1>2 DEF Elsewhere, ActionsInv, LastFits
<1>4. troubles[k] > 0 => troubles'[k] > 0
  BY <1>2 DEF TroublesGrow, ActionsInv, ActionsTypeOK
<1>5. Pending(id, k) => Pending(id, k)' \/ troubles'[k] > 0
  <2> SUFFICES ASSUME Pending(id, k) PROVE Pending(id, k)' \/ troubles'[k] > 0
    OBVIOUS
  <2>1. CASE call' = call
    BY <2>1 DEF Pending, Identity
  <2>2. CASE \E x \in {"send", "await", "done", "ok", "consume"} : call' = [call EXCEPT !.pc = x]
    <3>1. PICK x \in {"send", "await", "done", "ok", "consume"} : call' = [call EXCEPT !.pc = x]
      BY <2>2
    <3>2. /\ call'.key = call.key /\ call'.kind = call.kind /\ call'.gov = call.gov
          /\ call'.pc = x
      BY <3>1 DEF ActionsInv, ActionsTypeOK, ActionState
    <3>3. call' # NoCall
      BY <3>2 DEF NoCall
    <3> QED BY <3>2, <3>3 DEF Pending, Identity
  <2>3. CASE call.key \in Keys => troubles'[call.key] > 0
    BY <1>2, <2>3 DEF Pending
  <2> QED BY <2>1, <2>2, <2>3 DEF GoesOn, Pending
<1> QED BY <1>1, <1>2, <1>3, <1>4, <1>5 DEF LastFits, StateOf

-----------------------------------------------------------------------------
(***************************************************************************)
(* Calls.                                                                  *)
(***************************************************************************)
LEMMA NoCallIs ==
    /\ NoCall \in ActionState /\ NoCall.pc = "idle"
    /\ \A c : c.pc # "idle" => c # NoCall
<1>1. NoCall.gov \in Snapshots
  BY SessionActionsConstants DEF NoCall, Snapshots
<1> QED BY <1>1 DEF NoCall, ActionState

LEMMA GovernanceIs ==
    ASSUME ActionsTypeOK PROVE Governance \in Snapshots
  BY DEF ActionsTypeOK, Governance, Snapshots

LEMMA CallIs ==
    ASSUME ActionsTypeOK, NEW k \in Keys
    PROVE  /\ CallOf(k) \in ActionState /\ CallOf(k) # NoCall
           /\ CallOf(k).key = k /\ CallOf(k).kind = asked[k].kind /\ CallOf(k).pc = "send"
<1>1. PICK a \in [kind : Kinds \cup {"none"}, auto : BOOLEAN, gov : Snapshots] : a = asked[k]
  BY DEF ActionsTypeOK
<1>2. PICK g \in Snapshots : g = IF a.auto THEN a.gov ELSE Governance
  BY GovernanceIs
<1>3. CallOf(k) = [NoCall EXCEPT !.key = k, !.kind = a.kind, !.auto = a.auto, !.pc = "send",
                                 !.gov = g]
  BY <1>1, <1>2 DEF CallOf
<1>4. NoCall \in ActionState
  BY NoCallIs
<1>5. /\ CallOf(k) \in ActionState /\ CallOf(k).key = k /\ CallOf(k).kind = a.kind
      /\ CallOf(k).pc = "send"
  BY <1>3, <1>4 DEF ActionState
<1> QED BY <1>1, <1>5, NoCallIs

LEMMA TroubleIs ==
    ASSUME ActionsTypeOK, NEW k \in Keys, Trouble(k)
    PROVE  /\ troubles' \in [Keys -> Nat] /\ troubles'[k] = troubles[k] + 1
           /\ \A j \in Keys \ {k} : troubles'[j] = troubles[j]
           /\ TroublesGrow /\ troubles'[k] > 0
<1>1. troubles \in [Keys -> Nat] /\ troubles' = [troubles EXCEPT ![k] = @ + 1]
  BY DEF ActionsTypeOK, Trouble
<1>2. /\ troubles' \in [Keys -> Nat] /\ troubles'[k] = troubles[k] + 1
      /\ \A j \in Keys \ {k} : troubles'[j] = troubles[j]
  BY <1>1
<1>3. \A j \in Keys : troubles[j] \in Nat
  BY <1>1
<1> QED BY <1>2, <1>3 DEF TroublesGrow

LEMMA TroublesRest ==
    ASSUME ActionsTypeOK, UNCHANGED troubles PROVE TroublesGrow /\ troubles' \in [Keys -> Nat]
  BY DEF ActionsTypeOK, TroublesGrow

\* Nothing of the keys changes.
LEMMA KeysRest ==
    ASSUME ActionsInv, UNCHANGED <<receipt, call, troubles, orphans, got>>, ActionsTypeOK',
           \A id \in Identities : Elsewhere(id)
    PROVE  ActionsInv'
<1>1. HandOK'
  BY DEF ActionsInv, HandOK
<1>2. Account'
  BY DEF ActionsInv, Account, Done, Granted, Granting, InHand
<1>3. TroublesGrow /\ troubles' \in [Keys -> Nat] /\ \A id \in Identities : GoesOn(id)
  BY TroublesRest DEF ActionsInv, GoesOn
<1>4. \A id \in Identities : LastFits(id)'
  BY <1>3, LastStays
<1> QED BY <1>1, <1>2, <1>4 DEF ActionsInv

\* A key without a call in hand gets its receipt.
LEMMA StoresKeeps ==
    ASSUME ActionsInv, NEW k \in Keys,
           NEW x \in {"completed", "noop", "blocked", "rejected", "error"}, Stores(k, x),
           UNCHANGED <<snap, asked, aged, troubles, orphans, got>>,
           \/ call = NoCall /\ UNCHANGED call
           \/ call.key = k /\ call.pc = "store" /\ call' = NoCall,
           \A id \in Identities : Elsewhere(id)
    PROVE  ActionsInv'
<1>1. /\ receipt' \in [Keys -> {"none", "completed", "noop", "blocked", "rejected", "error"}]
      /\ receipt'[k] = x /\ \A j \in Keys \ {k} : receipt'[j] = receipt[j]
  BY DEF Stores, ActionsInv, ActionsTypeOK
<1>2. call' = NoCall
  OBVIOUS
<1>3. ActionsTypeOK'
  BY <1>1, <1>2, NoCallIs DEF ActionsInv, ActionsTypeOK
<1>4. HandOK'
  BY <1>2 DEF HandOK
<1>5. ASSUME NEW j \in Keys PROVE (Done(j) <= troubles[j] + (IF Granted(j) THEN 1 ELSE 0))'
  <2>1. Done(j)' = Done(j) /\ troubles'[j] = troubles[j] /\ Done(j) \in Nat /\ troubles[j] \in Nat
    BY DEF Done, ActionsInv, ActionsTypeOK
  <2>2. Granted(j) => Granted(j)'
    BY <1>1 DEF Granted, Granting, InHand
  <2>3. Done(j) <= troubles[j] + (IF Granted(j) THEN 1 ELSE 0)
    BY DEF ActionsInv, Account
  <2> QED BY <2>1, <2>2, <2>3
<1>6. TroublesGrow /\ troubles' \in [Keys -> Nat] /\ \A id \in Identities : GoesOn(id)
  BY TroublesRest DEF ActionsInv, GoesOn
<1>7. \A id \in Identities : LastFits(id)'
  BY <1>6, LastStays
<1> QED BY <1>3, <1>4, <1>5, <1>7 DEF ActionsInv, Account

\* The call of a key ends in trouble.
LEMMA RaisesKeeps ==
    ASSUME ActionsInv, NEW k \in Keys, Trouble(k), call' = NoCall,
           call # NoCall => call.key = k,
           UNCHANGED <<snap, asked, receipt, aged, got>>,
           orphans' = orphans \/ (orphans' = Abandoned(k) /\ call # NoCall),
           \A id \in Identities : Elsewhere(id)
    PROVE  ActionsInv'
<1>1. /\ troubles' \in [Keys -> Nat] /\ troubles'[k] = troubles[k] + 1
      /\ \A j \in Keys \ {k} : troubles'[j] = troubles[j]
      /\ TroublesGrow /\ troubles'[k] > 0
  BY TroubleIs DEF ActionsInv
<1>2. /\ orphans' \in [Keys -> Nat] /\ \A j \in Keys \ {k} : orphans'[j] = orphans[j]
      /\ \/ orphans'[k] = orphans[k]
         \/ orphans'[k] = orphans[k] + 1 /\ call # NoCall /\ call.pc = "await"
  BY DEF Abandoned, ActionsInv, ActionsTypeOK
<1>3. ActionsTypeOK'
  BY <1>1, <1>2, NoCallIs DEF ActionsInv, ActionsTypeOK
<1>4. HandOK'
  BY DEF HandOK
<1>5. ASSUME NEW j \in Keys PROVE (Done(j) <= troubles[j] + (IF Granted(j) THEN 1 ELSE 0))'
  <2>1. /\ got[j] \in Nat /\ orphans[j] \in Nat /\ troubles[j] \in Nat /\ got'[j] = got[j]
        /\ got[j] + orphans[j] <= troubles[j] + (IF Granted(j) THEN 1 ELSE 0)
    BY DEF Done, ActionsInv, ActionsTypeOK, Account
  <2>2. CASE j # k
    <3>1. Granted(j)' <=> Granted(j)
      BY <2>2 DEF Granted, Granting, InHand
    <3> QED BY <1>1, <1>2, <2>1, <2>2, <3>1 DEF Done
  <2>3. CASE j = k
    <3>1. receipt[k] # "none" => Granted(k)'
      BY DEF Granted, Granting
    <3>2. orphans'[k] = orphans[k] + 1 => ~Granted(k)
      BY <1>2, <2>1, <2>3 DEF Granted, Granting, ActionsInv, HandOK
    <3> QED BY <1>1, <1>2, <2>1, <2>3, <3>1, <3>2 DEF Done
  <2> QED BY <2>2, <2>3
<1>6. \A id \in Identities : GoesOn(id)
  BY <1>1 DEF GoesOn
<1>7. \A id \in Identities : LastFits(id)'
  BY <1>1, <1>6, LastStays
<1> QED BY <1>3, <1>4, <1>5, <1>7 DEF ActionsInv, Account

\* A new call for a key without a receipt.
LEMMA StartKeeps ==
    ASSUME ActionsInv, NEW k \in Keys, call = NoCall, receipt[k] = "none",
           call' \in ActionState, call'.key = k, call'.pc \in {"send", "issue"},
           call'.pc = "issue" => call'.kind \in Continuing, aged' \subseteq Identities,
           UNCHANGED <<snap, asked, receipt, troubles, orphans, got>>,
           \A id \in Identities : LastFits(id)'
    PROVE  ActionsInv'
<1>1. ActionsTypeOK'
  BY DEF ActionsInv, ActionsTypeOK
<1>2. HandOK'
  BY DEF HandOK
<1>3. \A j \in Keys : Granted(j)' <=> Granted(j)
  BY DEF Granted, Granting, InHand
<1>4. Account'
  BY <1>3 DEF ActionsInv, Account, Done
<1> QED BY <1>1, <1>2, <1>4 DEF ActionsInv

\* The call in hand moves on.
LEMMA MovesKeeps ==
    ASSUME ActionsInv, call # NoCall,
           NEW x \in {"send", "await", "done", "ok", "consume", "store"},
           call' = [call EXCEPT !.pc = x], call.pc \in Granting => x \in Granting,
           aged' \subseteq Identities, UNCHANGED <<snap, asked, receipt, troubles, orphans>>,
           \/ UNCHANGED got /\ x # "done"
           \/ got' = [got EXCEPT ![call.key] = @ + 1] /\ call.pc = "await" /\ x = "done",
           \A id \in Identities : LastFits(id)'
    PROVE  ActionsInv'
<1>1. PICK c \in ActionState : c = call
  BY DEF ActionsInv, ActionsTypeOK
<1>2. call' \in ActionState /\ call'.pc = x /\ call'.key = call.key /\ call' # NoCall
  <2>1. call' = [c EXCEPT !.pc = x]
    BY <1>1
  <2>2. call' \in ActionState /\ call'.pc = x /\ call'.key = c.key
    BY <2>1 DEF ActionState
  <2> QED BY <1>1, <2>2, NoCallIs
<1>3. PICK k \in Keys : k = call.key /\ receipt[k] = "none"
  BY DEF ActionsInv, HandOK
<1>4. /\ got' \in [Keys -> Nat] /\ \A j \in Keys \ {k} : got'[j] = got[j]
      /\ \/ got'[k] = got[k]
         \/ got'[k] = got[k] + 1 /\ call.pc = "await" /\ x = "done"
  BY <1>3 DEF ActionsInv, ActionsTypeOK
<1>5. ActionsTypeOK'
  BY <1>2, <1>4 DEF ActionsInv, ActionsTypeOK
<1>6. HandOK'
  BY <1>2, <1>3 DEF HandOK
<1>7. ASSUME NEW j \in Keys PROVE (Done(j) <= troubles[j] + (IF Granted(j) THEN 1 ELSE 0))'
  <2>1. /\ got[j] \in Nat /\ orphans[j] \in Nat /\ troubles[j] \in Nat
        /\ orphans'[j] = orphans[j] /\ troubles'[j] = troubles[j]
        /\ got[j] + orphans[j] <= troubles[j] + (IF Granted(j) THEN 1 ELSE 0)
    BY DEF Done, ActionsInv, ActionsTypeOK, Account
  <2>2. Granted(j) => Granted(j)'
    BY <1>2 DEF Granted, InHand, Granting
  <2>3. got'[j] = got[j] \/ (got'[j] = got[j] + 1 /\ ~Granted(j) /\ Granted(j)')
    BY <1>2, <1>3, <1>4 DEF Granted, Granting, InHand
  <2> QED BY <2>1, <2>2, <2>3 DEF Done
<1> QED BY <1>5, <1>6, <1>7 DEF ActionsInv, Account

\* The request fails; it may still be served.
LEMMA FailingKeeps ==
    ASSUME ActionsInv, call.pc \in {"await", "done"}, Trouble(call.key),
           NEW w \in {"control_link_error", "bridge_error"},
           call' = [call EXCEPT !.pc = "failed", !.why = w],
           UNCHANGED <<snap, asked, receipt, aged, got, cache, file>>,
           orphans' = orphans \/ orphans' = Abandoned(call.key)
    PROVE  ActionsInv'
<1>1. PICK c \in ActionState : c = call /\ c # NoCall
  BY NoCallIs DEF ActionsInv, ActionsTypeOK
<1>2. PICK k \in Keys : k = call.key /\ receipt[k] = "none"
  BY <1>1 DEF ActionsInv, HandOK
<1>3. /\ call' \in ActionState /\ call'.pc = "failed" /\ call'.key = k
  BY <1>1, <1>2 DEF ActionState
<1>4. /\ troubles' \in [Keys -> Nat] /\ troubles'[k] = troubles[k] + 1
      /\ \A j \in Keys \ {k} : troubles'[j] = troubles[j]
      /\ TroublesGrow /\ troubles'[k] > 0
  BY <1>2, TroubleIs DEF ActionsInv
<1>5. /\ orphans' \in [Keys -> Nat] /\ \A j \in Keys \ {k} : orphans'[j] = orphans[j]
      /\ \/ orphans'[k] = orphans[k]
         \/ orphans'[k] = orphans[k] + 1 /\ call.pc = "await"
  BY <1>2 DEF Abandoned, ActionsInv, ActionsTypeOK
<1>6. ActionsTypeOK'
  BY <1>3, <1>4, <1>5 DEF ActionsInv, ActionsTypeOK
<1>7. HandOK'
  BY <1>2, <1>3 DEF HandOK
<1>8. ASSUME NEW j \in Keys PROVE (Done(j) <= troubles[j] + (IF Granted(j) THEN 1 ELSE 0))'
  <2>1. /\ got[j] \in Nat /\ orphans[j] \in Nat /\ troubles[j] \in Nat /\ got'[j] = got[j]
        /\ got[j] + orphans[j] <= troubles[j] + (IF Granted(j) THEN 1 ELSE 0)
    BY DEF Done, ActionsInv, ActionsTypeOK, Account
  <2>2. CASE j # k
    <3>1. Granted(j)' <=> Granted(j)
      BY <1>2, <1>3, <2>2 DEF Granted, Granting, InHand
    <3> QED BY <1>4, <1>5, <2>1, <2>2, <3>1 DEF Done
  <2>3. CASE j = k
    <3>1. call.pc = "await" => ~Granted(k)
      BY <1>2 DEF Granted, Granting
    <3> QED BY <1>4, <1>5, <2>1, <2>3, <3>1 DEF Done
  <2> QED BY <2>2, <2>3
<1>9. \A id \in Identities : LastFits(id)'
  <2>1. \A id \in Identities : GoesOn(id)
    BY <1>2, <1>4 DEF GoesOn
  <2>2. \A id \in Identities : Elsewhere(id)
    BY LogRests DEF logVars
  <2> QED BY <1>4, <2>1, <2>2, LastStays
<1> QED BY <1>6, <1>7, <1>8, <1>9 DEF ActionsInv, Account

-----------------------------------------------------------------------------
(***************************************************************************)
(* The steps.                                                              *)
(***************************************************************************)
LEMMA EventIs ==
    ASSUME NEW c, NEW st, NEW why, NEW r, r = IdentityEvent(c, st, why)
    PROVE  /\ StateOf(r) = st /\ r.key[6] = c.key /\ r.key[4] = c.gov.ver
           /\ r.body = <<r.body[1], r.body[2]>> /\ r.body[2] = Identity(c)[1]
           /\ r.body[1] = c.gov.seq
  BY DEF IdentityEvent, StateOf, Identity

\* An event of the identity is written that is no issue.
LEMMA ClosingWrite ==
    ASSUME ActionsInv, troubles' \in [Keys -> Nat], TroublesGrow, NEW c, c.key \in Keys,
           NEW st \in {"invalidated", "consumed"}, NEW why,
           Write(IdentityEvent(c, st, why), Stream(c)), NEW id \in Identities,
           (Identity(c) = id /\ ~Known(IdentityEvent(c, st, why).key)) \/ GoesOn(id)
    PROVE  LastFits(id)'
<1>1. PICK r : r = IdentityEvent(c, st, why)
  OBVIOUS
<1>2. CASE Identity(c) # id
  <2>1. Stream(c) # IdStream(id)
    BY <1>2, Streams
  <2>2. Elsewhere(id)
    BY <2>1, OtherStream
  <2> QED BY <1>2, <2>2, LastStays
<1>3. CASE Identity(c) = id /\ Known(r.key)
  <2>1. Elsewhere(id)
    BY <1>1, <1>3, WriteIs, Streams DEF Elsewhere
  <2> QED BY <1>1, <1>3, <2>1, LastStays
<1>4. CASE Identity(c) = id /\ ~Known(r.key)
  <2>1. Last(IdStream(id))' = r
    BY <1>1, <1>4, WriteIs, Streams
  <2> QED BY <1>1, <1>4, <2>1, EventIs DEF LastFits, StateOf
<1> QED BY <1>2, <1>3, <1>4
\* An issue is written, or the key's call raises.
LEMMA IssueKeeps ==
    ASSUME ActionsInv, NEW c \in ActionState, Issue(c), c.key \in Keys, receipt[c.key] = "none",
           c.kind \in Continuing, call = NoCall \/ (call = c /\ call.pc = "issue")
    PROVE  ActionsInv'
<1>1. PICK r : r = IdentityEvent(c, "issued", "none")
  OBVIOUS
<1>2. CASE Conflicting(r, TRUE)
  <2>1. /\ Trouble(c.key) /\ call' = NoCall
        /\ UNCHANGED <<snap, asked, receipt, aged, orphans, got>> /\ UNCHANGED logVars
    BY <1>1, <1>2 DEF Issue, Raises
  <2> QED BY <2>1, LogRests, RaisesKeeps
<1>3. CASE ~Conflicting(r, TRUE)
  <2>1. /\ Write(r, Stream(c)) /\ call' = [c EXCEPT !.pc = "send"]
        /\ aged' = aged \/ aged' = aged \ {Identity(c)}
        /\ UNCHANGED <<snap, asked, receipt, troubles, orphans, got>>
    BY <1>1, <1>3 DEF Issue
  <2>2. /\ call' \in ActionState /\ call'.pc = "send" /\ call'.key = c.key
        /\ call'.kind = c.kind /\ call'.gov = c.gov /\ call' # NoCall
    BY <2>1, NoCallIs DEF ActionState
  <2>3. aged' \subseteq Identities
    BY <2>1 DEF ActionsInv, ActionsTypeOK
  <2>4. TroublesGrow /\ troubles' \in [Keys -> Nat] /\ \A id \in Identities : GoesOn(id)
    BY <2>1, TroublesRest DEF ActionsInv, GoesOn
  <2>5. ASSUME NEW id \in Identities PROVE LastFits(id)'
    <3>1. CASE Identity(c) # id
      <4>1. Elsewhere(id)
        BY <2>1, <3>1, Streams, OtherStream
      <4> QED BY <2>4, <4>1, LastStays
    <3>2. CASE Identity(c) = id /\ Known(r.key)
      <4>1. Elsewhere(id)
        BY <2>1, <3>2, WriteIs, Streams DEF Elsewhere
      <4> QED BY <2>4, <4>1, LastStays
    <3>3. CASE Identity(c) = id /\ ~Known(r.key)
      <4>1. Last(IdStream(id))' = r
        BY <2>1, <3>3, WriteIs, Streams
      <4>2. Pending(id, c.key)'
        BY <2>2, <3>3 DEF Pending, Identity
      <4>3. r.key[6] = c.key /\ r.body = <<r.body[1], r.body[2]>> /\ r.body[2] = id[1]
        BY <1>1, <3>3, EventIs
      <4> QED BY <4>1, <4>2, <4>3 DEF LastFits
    <3> QED BY <3>1, <3>2, <3>3
  <2>6. CASE call = NoCall
    BY <2>1, <2>2, <2>3, <2>5, <2>6, StartKeeps
  <2>7. CASE call = c /\ call.pc = "issue"
    <3>1. call # NoCall /\ call.pc \notin Granting
      BY <2>7, NoCallIs DEF Granting
    <3> QED BY <2>1, <2>3, <2>5, <2>7, <3>1, MovesKeeps
  <2> QED BY <2>6, <2>7
<1> QED BY <1>2, <1>3

\* The call in hand moves on, and no identity is written to.
LEMMA MovesOn ==
    ASSUME ActionsInv, call # NoCall, NEW x \in {"send", "await", "done", "ok", "consume"},
           call' = [call EXCEPT !.pc = x], call.pc \in Granting => x \in Granting,
           UNCHANGED <<snap, asked, receipt, aged, troubles, orphans>>,
           \/ UNCHANGED got /\ x # "done"
           \/ got' = [got EXCEPT ![call.key] = @ + 1] /\ call.pc = "await" /\ x = "done",
           \A id \in Identities : Elsewhere(id)
    PROVE  ActionsInv'
<1>1. TroublesGrow /\ troubles' \in [Keys -> Nat] /\ \A id \in Identities : GoesOn(id)
  BY TroublesRest DEF ActionsInv, GoesOn
<1>2. \A id \in Identities : LastFits(id)'
  BY <1>1, LastStays
<1>3. aged' \subseteq Identities
  BY DEF ActionsInv, ActionsTypeOK
<1> QED BY <1>2, <1>3, MovesKeeps

LEMMA RefreshKeeps ==
    ASSUME ActionsInv, NEW th \in Threads, NEW bar \in Bars, NEW evented \in BOOLEAN,
           RefreshRecord(th, bar, evented)
    PROVE  ActionsInv'
<1>1. UNCHANGED <<asked, receipt, call, aged, troubles, orphans, got, logVars>>
  BY DEF RefreshRecord
<1>2. snap' \in [ver : 0..MaxSeq, seq : 0..MaxSeq, thread : Threads \cup {"none"},
                 bar : Bars, evented : BOOLEAN]
  <2>1. PICK z \in [ver : 0..MaxSeq, seq : 0..MaxSeq, thread : Threads \cup {"none"},
                    bar : Bars, evented : BOOLEAN] : z = snap
    BY DEF ActionsInv, ActionsTypeOK
  <2>2. PICK n : n = [z EXCEPT !.thread = th, !.bar = bar, !.evented = evented]
    OBVIOUS
  <2>3. n \in [ver : 0..MaxSeq, seq : 0..MaxSeq, thread : Threads \cup {"none"},
               bar : Bars, evented : BOOLEAN] /\ n.seq = z.seq
    BY <2>2
  <2>4. PICK v \in 0..MaxSeq : v = IF bar # z.bar THEN z.seq + 1 ELSE n.ver
    BY <2>1, <2>3, SessionActionsConstants DEF RefreshRecord
  <2>5. z.seq + 1 \in 0..MaxSeq
    BY <2>1, SessionActionsConstants DEF RefreshRecord
  <2>6. snap' = [n EXCEPT !.seq = @ + 1, !.ver = IF bar # z.bar THEN z.seq + 1 ELSE @]
    BY <2>1, <2>2 DEF RefreshRecord
  <2>7. snap' = [n EXCEPT !.seq = z.seq + 1, !.ver = v]
    BY <2>3, <2>4, <2>6
  <2> QED BY <2>3, <2>5, <2>7
<1>3. ActionsTypeOK'
  BY <1>1, <1>2 DEF ActionsInv, ActionsTypeOK
<1> QED BY <1>1, <1>3, LogRests, KeysRest

LEMMA AskKeeps ==
    ASSUME ActionsInv, NEW k \in Keys, NEW kind \in Kinds, NEW auto \in BOOLEAN, Ask(k, kind, auto)
    PROVE  ActionsInv'
<1>1. /\ asked' = [asked EXCEPT ![k] = [kind |-> kind, auto |-> auto, gov |-> Governance]]
      /\ UNCHANGED <<snap, receipt, call, aged, troubles, orphans, got>>
  BY DEF Ask
<1>2. Governance \in Snapshots
  BY GovernanceIs DEF ActionsInv
<1>3. ActionsTypeOK'
  BY <1>1, <1>2 DEF ActionsInv, ActionsTypeOK
<1>4. ASSUME NEW id \in Identities PROVE Elsewhere(id)
  <2>1. CASE UNCHANGED logVars
    BY <2>1, LogRests
  <2>2. CASE kind = "switch"
    <3>1. \E r : Write(r, <<"token", k>>)
      BY <2>2 DEF Ask
    <3> QED BY <3>1, OtherStream, Streams
  <2> QED BY <2>1, <2>2 DEF Ask
<1> QED BY <1>1, <1>3, <1>4, KeysRest

LEMMA SuppressKeeps ==
    ASSUME ActionsInv, NEW k \in Keys, Suppress(k) PROVE ActionsInv'
<1>1. PICK gate, why : gate = GateEvent(CallOf(k), "suppressed", why) /\ why = SuppressedBy(CallOf(k))
  OBVIOUS
<1>2. /\ call = NoCall /\ UNCHANGED <<snap, asked, aged, orphans, got>>
      /\ \/ Raises(k) /\ UNCHANGED logVars
         \/ /\ Stores(k, ResultOf(why)) /\ UNCHANGED <<call, troubles>>
            /\ Write(gate, <<"gate">>) \/ UNCHANGED logVars
  BY <1>1 DEF Suppress, MayStart
<1>3. \A id \in Identities : Elsewhere(id)
  <2>1. Write(gate, <<"gate">>) \/ UNCHANGED logVars
    BY <1>2
  <2> QED BY <2>1, OtherStream, LogRests, Streams
<1>4. CASE Raises(k)
  <2>1. Trouble(k) /\ call' = NoCall /\ UNCHANGED receipt
    BY <1>4 DEF Raises
  <2> QED BY <1>2, <1>3, <2>1, RaisesKeeps
<1>5. CASE Stores(k, ResultOf(why)) /\ UNCHANGED <<call, troubles>>
  <2>1. ResultOf(why) \in {"completed", "noop", "blocked", "rejected", "error"}
    BY DEF ResultOf
  <2> QED BY <1>2, <1>3, <1>5, <2>1, StoresKeeps
<1> QED BY <1>2, <1>4, <1>5

LEMMA StartPlainKeeps ==
    ASSUME ActionsInv, NEW k \in Keys, StartPlain(k) PROVE ActionsInv'
<1>1. /\ call = NoCall /\ receipt[k] = "none" /\ call' = CallOf(k)
      /\ UNCHANGED <<snap, asked, receipt, aged, troubles, orphans, got, logVars>>
  BY DEF StartPlain, MayStart
<1>2. call' \in ActionState /\ call'.key = k /\ call'.pc = "send"
  BY <1>1, CallIs DEF ActionsInv
<1>3. TroublesGrow /\ troubles' \in [Keys -> Nat] /\ \A id \in Identities : GoesOn(id)
  BY <1>1, TroublesRest DEF ActionsInv, GoesOn
<1>4. \A id \in Identities : LastFits(id)'
  BY <1>1, <1>3, LogRests, LastStays
<1>5. aged' \subseteq Identities
  BY <1>1 DEF ActionsInv, ActionsTypeOK
<1> QED BY <1>1, <1>2, <1>4, <1>5, StartKeeps

LEMMA InvalidateStaleKeeps ==
    ASSUME ActionsInv, NEW k \in Keys, InvalidateStale(k) PROVE ActionsInv'
<1>1. PICK c \in ActionState : c = CallOf(k) /\ c.key = k /\ c.kind = asked[k].kind
  BY CallIs DEF ActionsInv
<1>2. /\ call = NoCall /\ receipt[k] = "none" /\ c.kind \in Continuing
      /\ UNCHANGED <<snap, asked, aged, orphans, got>>
      /\ \/ Raises(k) /\ UNCHANGED logVars
         \/ /\ Write(IdentityEvent(c, "invalidated", "stale_entry"), Stream(c))
            /\ call' = [c EXCEPT !.pc = "issue"]
            /\ UNCHANGED <<receipt, troubles>>
  BY <1>1 DEF InvalidateStale, MayStart
<1>3. CASE Raises(k) /\ UNCHANGED logVars
  <2>1. Trouble(k) /\ call' = NoCall /\ UNCHANGED receipt
    BY <1>3 DEF Raises
  <2> QED BY <1>2, <1>3, <2>1, LogRests, RaisesKeeps
<1>4. CASE /\ Write(IdentityEvent(c, "invalidated", "stale_entry"), Stream(c))
           /\ call' = [c EXCEPT !.pc = "issue"]
           /\ UNCHANGED <<receipt, troubles>>
  <2>1. /\ call' \in ActionState /\ call'.pc = "issue" /\ call'.key = k
        /\ call'.kind \in Continuing
    BY <1>1, <1>2, <1>4 DEF ActionState
  <2>2. TroublesGrow /\ troubles' \in [Keys -> Nat] /\ \A id \in Identities : GoesOn(id)
    BY <1>2, <1>4, TroublesRest DEF ActionsInv, GoesOn
  <2>3. \A id \in Identities : LastFits(id)'
    BY <1>1, <1>4, <2>2, ClosingWrite
  <2>4. aged' \subseteq Identities
    BY <1>2 DEF ActionsInv, ActionsTypeOK
  <2> QED BY <1>2, <1>4, <2>1, <2>3, <2>4, StartKeeps
<1> QED BY <1>2, <1>3, <1>4

LEMMA PrepareKeeps ==
    ASSUME ActionsInv, NEW k \in Keys, Prepare(k) PROVE ActionsInv'
<1>1. CASE IssueFirst(k)
  <2>1. PICK c \in ActionState : c = CallOf(k) /\ c.key = k /\ c.kind = asked[k].kind
    BY CallIs DEF ActionsInv
  <2>2. Issue(c) /\ call = NoCall /\ receipt[k] = "none" /\ c.kind \in Continuing
    BY <1>1, <2>1 DEF IssueFirst, MayStart
  <2> QED BY <2>1, <2>2, IssueKeeps
<1> QED BY <1>1, SuppressKeeps, InvalidateStaleKeeps DEF Prepare

\* A request whose caller is gone is served, or it fails.
LEMMA OrphanKeeps ==
    ASSUME ActionsInv, NEW k \in Keys, OrphanDone(k) \/ OrphanFails(k) PROVE ActionsInv'
<1>1. /\ orphans[k] > 0 /\ orphans' = [orphans EXCEPT ![k] = @ - 1]
      /\ got' = got \/ got' = [got EXCEPT ![k] = @ + 1]
      /\ UNCHANGED <<snap, asked, receipt, call, aged, troubles, logVars>>
  BY DEF OrphanDone, OrphanFails
<1>2. orphans \in [Keys -> Nat] /\ got \in [Keys -> Nat] /\ troubles \in [Keys -> Nat]
  BY DEF ActionsInv, ActionsTypeOK
<1>3. orphans' \in [Keys -> Nat] /\ got' \in [Keys -> Nat]
  BY <1>1, <1>2
<1>4. \A j \in Keys : Done(j)' <= Done(j)
  BY <1>1, <1>2 DEF Done
<1>5. Account'
  <2>1. ASSUME NEW j \in Keys PROVE (Done(j) <= troubles[j] + (IF Granted(j) THEN 1 ELSE 0))'
    <3>1. Done(j) <= troubles[j] + (IF Granted(j) THEN 1 ELSE 0)
      BY DEF ActionsInv, Account
    <3>2. (Granted(j)' <=> Granted(j)) /\ troubles'[j] = troubles[j]
      BY <1>1 DEF Granted, Granting, InHand
    <3>3. Done(j) \in Nat /\ Done(j)' \in Nat /\ troubles[j] \in Nat
      BY <1>2, <1>3 DEF Done
    <3> QED BY <1>4, <3>1, <3>2, <3>3
  <2> QED BY <2>1 DEF Account
<1>6. ActionsTypeOK'
  BY <1>1, <1>3 DEF ActionsInv, ActionsTypeOK
<1>7. HandOK'
  BY <1>1 DEF ActionsInv, HandOK
<1>8. TroublesGrow /\ troubles' \in [Keys -> Nat] /\ \A id \in Identities : GoesOn(id)
  BY <1>1, TroublesRest DEF ActionsInv, GoesOn
<1>9. \A id \in Identities : LastFits(id)'
  BY <1>1, <1>8, LogRests, LastStays
<1> QED BY <1>5, <1>6, <1>7, <1>9 DEF ActionsInv

LEMMA RequestKeeps ==
    ASSUME ActionsInv, Send \/ RuntimeDoes \/ RuntimeAnswers PROVE ActionsInv'
<1>1. UNCHANGED <<snap, asked, receipt, aged, troubles, orphans, logVars>>
  BY DEF Send, RuntimeDoes, RuntimeAnswers
<1>2. \A id \in Identities : Elsewhere(id)
  BY <1>1, LogRests
<1>3. CASE Send
  <2>1. call # NoCall /\ call.pc \notin Granting /\ UNCHANGED got /\ call' = [call EXCEPT !.pc = "await"]
    BY <1>3, NoCallIs DEF Send, Granting
  <2> QED BY <1>1, <1>2, <2>1, MovesOn
<1>4. CASE RuntimeDoes
  <2>1. /\ call # NoCall /\ call.pc = "await" /\ "done" \in Granting
        /\ call' = [call EXCEPT !.pc = "done"] /\ got' = [got EXCEPT ![call.key] = @ + 1]
    BY <1>4, NoCallIs DEF RuntimeDoes, Granting
  <2> QED BY <1>1, <1>2, <2>1, MovesOn
<1>5. CASE RuntimeAnswers
  <2>1. call # NoCall /\ "ok" \in Granting /\ UNCHANGED got /\ call' = [call EXCEPT !.pc = "ok"]
    BY <1>5, NoCallIs DEF RuntimeAnswers, Granting
  <2> QED BY <1>1, <1>2, <2>1, MovesOn
<1> QED BY <1>3, <1>4, <1>5

LEMMA FailsKeeps == ASSUME ActionsInv, Fails PROVE ActionsInv'
<1>1. /\ call.pc = "failed" /\ call' = NoCall
      /\ UNCHANGED <<snap, asked, receipt, aged, troubles, orphans, got>>
  BY DEF Fails
<1>2. PICK k \in Keys : k = call.key
  BY <1>1, NoCallIs DEF ActionsInv, HandOK
<1>3. PICK w : w = IF call.kind = "switch" THEN "control_link_error" ELSE call.why
  OBVIOUS
<1>4. \/ UNCHANGED logVars
      \/ Write(TokenEvent(call, "invalidated", w), <<"token", k>>)
      \/ Write(IdentityEvent(call, "invalidated", w), Stream(call))
  <2>1. CASE call.kind = "switch"
    <3>1. Streamed(call) = <<"token", k>> /\ SettleEvent(call, "invalidated", w) = TokenEvent(call, "invalidated", w)
      BY <1>2, <2>1 DEF Streamed, SettleEvent
    <3> QED BY <1>3, <3>1 DEF Fails
  <2>2. CASE call.kind # "switch"
    <3>1. Streamed(call) = Stream(call) /\ SettleEvent(call, "invalidated", w) = IdentityEvent(call, "invalidated", w)
      BY <2>2 DEF Streamed, SettleEvent
    <3> QED BY <1>3, <3>1 DEF Fails
  <2> QED BY <2>1, <2>2
<1>5. TroublesGrow /\ troubles' \in [Keys -> Nat] /\ \A id \in Identities : GoesOn(id)
  BY <1>1, TroublesRest DEF ActionsInv, GoesOn
<1>6. ASSUME NEW id \in Identities PROVE LastFits(id)'
  <2>1. CASE Write(IdentityEvent(call, "invalidated", w), Stream(call))
    BY <1>2, <1>5, <2>1, ClosingWrite
  <2>2. CASE UNCHANGED logVars \/ Write(TokenEvent(call, "invalidated", w), <<"token", k>>)
    <3>1. Elsewhere(id)
      BY <2>2, LogRests, OtherStream, Streams
    <3> QED BY <1>5, <3>1, LastStays
  <2> QED BY <1>4, <2>1, <2>2
<1>7. ActionsTypeOK'
  BY <1>1, NoCallIs DEF ActionsInv, ActionsTypeOK
<1>8. HandOK'
  BY <1>1 DEF HandOK
<1>9. Account'
  <2>1. \A j \in Keys : Granted(j) => Granted(j)'
    BY <1>1 DEF Granted, Granting, InHand
  <2>2. ASSUME NEW j \in Keys PROVE (Done(j) <= troubles[j] + (IF Granted(j) THEN 1 ELSE 0))'
    <3>1. Done(j) <= troubles[j] + (IF Granted(j) THEN 1 ELSE 0)
      BY DEF ActionsInv, Account
    <3>2. Done(j) \in Nat /\ troubles[j] \in Nat /\ Done(j)' = Done(j) /\ troubles'[j] = troubles[j]
      BY <1>1 DEF Done, ActionsInv, ActionsTypeOK
    <3> QED BY <2>1, <3>1, <3>2
  <2> QED BY <2>2 DEF Account
<1> QED BY <1>6, <1>7, <1>8, <1>9 DEF ActionsInv

LEMMA GateKeeps == ASSUME ActionsInv, Gate PROVE ActionsInv'
<1>1. PICK gate : gate = GateEvent(call, "eligible", "none")
  OBVIOUS
<1>2. /\ call.pc = "ok" /\ UNCHANGED <<snap, asked, aged, orphans, got>>
      /\ \/ Raises(call.key) /\ UNCHANGED logVars
         \/ /\ Write(gate, <<"gate">>) /\ call' = [call EXCEPT !.pc = "consume"]
            /\ UNCHANGED <<troubles, receipt>>
  BY <1>1 DEF Gate
<1>3. call # NoCall /\ call.key \in Keys
  BY <1>2, NoCallIs DEF ActionsInv, HandOK
<1>4. \A id \in Identities : Elsewhere(id)
  BY <1>2, LogRests, OtherStream, Streams
<1>5. CASE Raises(call.key)
  <2>1. Trouble(call.key) /\ call' = NoCall /\ UNCHANGED receipt
    BY <1>5 DEF Raises
  <2> QED BY <1>2, <1>3, <1>4, <2>1, RaisesKeeps
<1>6. CASE call' = [call EXCEPT !.pc = "consume"] /\ UNCHANGED <<troubles, receipt>>
  <2>1. "consume" \in Granting
    BY DEF Granting
  <2> QED BY <1>2, <1>3, <1>4, <1>6, <2>1, MovesOn
<1> QED BY <1>2, <1>5, <1>6

LEMMA ConsumeKeeps == ASSUME ActionsInv, Consume PROVE ActionsInv'
<1>1. call.pc \in {"ok", "consume"} /\ UNCHANGED <<snap, asked, aged, orphans, got>>
  BY DEF Consume
<1>2. PICK k \in Keys : k = call.key /\ call # NoCall
  BY <1>1, NoCallIs DEF ActionsInv, HandOK
<1>3. CASE Raises(k) /\ UNCHANGED logVars
  <2>1. Trouble(k) /\ call' = NoCall /\ UNCHANGED receipt
    BY <1>3 DEF Raises
  <2> QED BY <1>1, <1>2, <1>3, <2>1, LogRests, RaisesKeeps
<1>4. CASE call' = [call EXCEPT !.pc = "store"] /\ UNCHANGED <<troubles, receipt>>
  <2>1. TroublesGrow /\ troubles' \in [Keys -> Nat]
    BY <1>4, TroublesRest DEF ActionsInv
  <2>2. ASSUME NEW id \in Identities PROVE LastFits(id)'
    <3>1. CASE call.kind \notin Continuing
      <4>1. GoesOn(id)
        BY <3>1 DEF GoesOn
      <4>2. UNCHANGED logVars \/ \E r : Write(r, <<"token", k>>)
        BY <1>2, <1>4, <3>1, NoCallIs DEF Consume, Streamed, Raises
      <4>3. Elsewhere(id)
        BY <4>2, LogRests, OtherStream, Streams
      <4> QED BY <2>1, <4>1, <4>3, LastStays
    <3>2. CASE call.kind \in Continuing
      <4>1. call.kind # "switch"
        BY <3>2 DEF Continuing
      <4>2. PICK r : r = IdentityEvent(call, "consumed", "none")
        OBVIOUS
      <4>3. SettleEvent(call, "consumed", "none") = r /\ Streamed(call) = Stream(call)
        BY <4>1, <4>2 DEF SettleEvent, Streamed
      <4>4. call' # NoCall
        BY <1>1, <1>4, NoCallIs DEF ActionsInv, ActionsTypeOK, ActionState
      <4>5. ~Known(r.key) /\ Write(r, Stream(call))
        BY <3>2, <4>3, <4>4 DEF Consume, Raises
      <4>6. (Identity(call) = id /\ ~Known(r.key)) \/ GoesOn(id)
        BY <4>5 DEF GoesOn
      <4> QED BY <1>2, <2>1, <4>2, <4>5, <4>6, ClosingWrite
    <3> QED BY <3>1, <3>2
  <2>3. aged' \subseteq Identities /\ "store" \in Granting
    BY <1>1 DEF ActionsInv, ActionsTypeOK, Granting
  <2> QED BY <1>1, <1>2, <1>4, <2>2, <2>3, MovesKeeps
<1> QED BY <1>2, <1>3, <1>4 DEF Consume

LEMMA StoreKeeps == ASSUME ActionsInv, Store PROVE ActionsInv'
<1>1. /\ call.pc = "store" /\ Stores(call.key, "completed") /\ call' = NoCall
      /\ UNCHANGED <<snap, asked, aged, troubles, orphans, got, logVars>>
  BY DEF Store
<1>2. call.key \in Keys
  BY <1>1, NoCallIs DEF ActionsInv, HandOK
<1> QED BY <1>1, <1>2, LogRests, StoresKeeps

LEMMA CrashKeeps == ASSUME ActionsInv, Crash PROVE ActionsInv'
<1>1. /\ call # NoCall /\ Trouble(call.key) /\ orphans' = Abandoned(call.key) /\ call' = NoCall
      /\ UNCHANGED <<snap, asked, receipt, aged, got, logVars>>
  BY DEF Crash
<1>2. call.key \in Keys
  BY <1>1 DEF ActionsInv, HandOK
<1> QED BY <1>1, <1>2, LogRests, RaisesKeeps

LEMMA FailingRequestKeeps ==
    ASSUME ActionsInv, NEW code \in {"control_link_error", "bridge_error"},
           RuntimeFails(code) \/ TimeOut
    PROVE  ActionsInv'
<1>1. PICK w \in {"control_link_error", "bridge_error"} : call' = [call EXCEPT !.pc = "failed", !.why = w]
  BY DEF RuntimeFails, TimeOut
<1>2. /\ call.pc \in {"await", "done"} /\ Trouble(call.key)
      /\ orphans' = orphans \/ orphans' = Abandoned(call.key)
      /\ UNCHANGED <<snap, asked, receipt, aged, got, cache, file>>
  BY DEF RuntimeFails, TimeOut, logVars
<1> QED BY <1>1, <1>2, FailingKeeps

LEMMA AgeKeeps == ASSUME ActionsInv, NEW id \in Identities, Age(id) PROVE ActionsInv'
<1>1. aged' = aged \cup {id} /\ UNCHANGED <<snap, asked, receipt, call, troubles, orphans, got, logVars>>
  BY DEF Age
<1>2. ActionsTypeOK'
  BY <1>1 DEF ActionsInv, ActionsTypeOK
<1> QED BY <1>1, <1>2, LogRests, KeysRest

LEMMA PlainKeeps ==
    ASSUME ActionsInv, NEW k \in Keys, Summarize(k) \/ RefuseArguments(k) PROVE ActionsInv'
<1>1. /\ call = NoCall /\ (Stores(k, "completed") \/ Stores(k, "error"))
      /\ UNCHANGED <<snap, asked, call, aged, troubles, orphans, got, logVars>>
  BY DEF Summarize, RefuseArguments, MayStart
<1> QED BY <1>1, LogRests, StoresKeeps

LEMMA ActionsInit == Init => ActionsInv
<1> SUFFICES ASSUME Init PROVE ActionsInv
  OBVIOUS
<1>1. ActionsTypeOK
  <2>1. NotAsked \in [kind : Kinds \cup {"none"}, auto : BOOLEAN, gov : Snapshots]
    BY SessionActionsConstants DEF NotAsked, NoCall, Snapshots
  <2> QED BY <2>1, NoCallIs, SessionActionsConstants DEF Init, ActionsTypeOK, Bars
<1>2. HandOK
  BY DEF Init, HandOK
<1>3. Account
  BY DEF Init, Account, Done, Granted, Granting, InHand
<1>4. \A id \in Identities : LastFits(id)
  BY DEF Init, LogInit, LastFits, HasLast
<1> QED BY <1>1, <1>2, <1>3, <1>4 DEF ActionsInv

LEMMA ActionsStep == ActionsInv /\ [Next]_vars => ActionsInv'
<1> SUFFICES ASSUME ActionsInv, [Next]_vars PROVE ActionsInv'
  OBVIOUS
<1>1. ASSUME NEW k \in Keys,
             \/ Continue(k) \/ ResumeSession(k) \/ ForceHandoffOrRetry(k)
             \/ OperatorGuidance(k) \/ Pause(k) \/ Summarize(k)
             \/ RefuseArguments(k) \/ OrphanDone(k) \/ OrphanFails(k)
      PROVE  ActionsInv'
  BY <1>1, PrepareKeeps, StartPlainKeeps, PlainKeeps, OrphanKeeps
     DEF Continue, ResumeSession, ForceHandoffOrRetry, OperatorGuidance, Pause
<1>2. CASE IssueAgain
  <2>1. PICK c \in ActionState : c = call
    BY DEF ActionsInv, ActionsTypeOK
  <2>2. Issue(c) /\ c.pc = "issue" /\ call # NoCall
    BY <1>2, <2>1, NoCallIs DEF IssueAgain
  <2>3. c.key \in Keys /\ receipt[c.key] = "none" /\ c.kind \in Continuing
    BY <2>1, <2>2 DEF ActionsInv, HandOK
  <2> QED BY <2>1, <2>2, <2>3, IssueKeeps
<1>3. CASE UNCHANGED vars
  <2>1. ActionsTypeOK'
    BY <1>3 DEF vars, actionVars, ActionsInv, ActionsTypeOK
  <2>2. UNCHANGED <<receipt, call, troubles, orphans, got>> /\ UNCHANGED logVars
    BY <1>3 DEF vars, actionVars
  <2> QED BY <2>1, <2>2, LogRests, KeysRest
<1> QED
  BY <1>1, <1>2, <1>3, RefreshKeeps, AskKeeps, RequestKeeps, FailingRequestKeeps, FailsKeeps,
     GateKeeps, ConsumeKeeps, StoreKeeps, CrashKeeps, AgeKeeps
     DEF Next

-----------------------------------------------------------------------------
(***************************************************************************)
(* Results.                                                                *)
(***************************************************************************)

\* The invariant: the account of every key, and whose issue is in doubt.
THEOREM ActionsInvariance == Spec => []ActionsInv
  BY ActionsInit, ActionsStep, PTL DEF Spec

\* Every variable of the actions keeps its type.
THEOREM ActionsTypeCorrect == Spec => []ActionsTypeOK
<1>1. ActionsInv => ActionsTypeOK
  BY DEF ActionsInv
<1> QED BY <1>1, ActionsInvariance, PTL

\* The runtime does what a key asks at most once more than the calls of the
\* key met with trouble (execute_watchdog_action under its lock, create_or_get).
THEOREM SentTwiceOnlyAfterTroubleHolds == Spec => []SentTwiceOnlyAfterTrouble
<1>1. ActionsInv => SentTwiceOnlyAfterTrouble
  <2> SUFFICES ASSUME ActionsInv, NEW k \in Keys PROVE got[k] + orphans[k] <= 1 + troubles[k]
    BY DEF SentTwiceOnlyAfterTrouble
  <2>1. got[k] \in Nat /\ orphans[k] \in Nat /\ troubles[k] \in Nat
    BY DEF ActionsInv, ActionsTypeOK
  <2>2. got[k] + orphans[k] <= troubles[k] + (IF Granted(k) THEN 1 ELSE 0)
    BY DEF ActionsInv, Account, Done
  <2> QED BY <2>1, <2>2
<1> QED BY <1>1, ActionsInvariance, PTL

\* While nothing is executed, an identity in doubt is that of a call that met
\* with trouble (_record_continuation_identity_state on every way out).
THEOREM IssuedIsSettledHolds == Spec => []IssuedIsSettled
<1>1. ActionsInv => IssuedIsSettled
  BY DEF ActionsInv, LastFits, Pending, IssuedIsSettled, IdStream
<1> QED BY <1>1, ActionsInvariance, PTL

\* The calls in hand appear in three ways only.
LEMMA CallAppears ==
    ASSUME ActionsInv, Next, call = NoCall, call' # NoCall
    PROVE  \E k \in Keys : \/ StartPlain(k) \/ InvalidateStale(k) \/ IssueFirst(k)
<1>1. ~IssueAgain /\ ~Send /\ ~RuntimeDoes /\ ~RuntimeAnswers /\ ~TimeOut /\ ~Fails /\ ~Gate
      /\ ~Consume /\ ~Store /\ ~Crash /\ \A code : ~RuntimeFails(code)
  BY NoCallIs DEF IssueAgain, Send, RuntimeDoes, RuntimeAnswers, TimeOut, Fails, Gate, Consume,
     Store, Crash, RuntimeFails
<1>2. \A th, bar, evented : ~RefreshRecord(th, bar, evented)
  BY DEF RefreshRecord
<1>3. \A k, kind, auto : ~Ask(k, kind, auto)
  BY DEF Ask
<1>4. \A k : ~Summarize(k) /\ ~RefuseArguments(k) /\ ~OrphanDone(k) /\ ~OrphanFails(k) /\ ~Suppress(k)
  BY DEF Summarize, RefuseArguments, OrphanDone, OrphanFails, Suppress, Raises
<1>5. \A id : ~Age(id)
  BY DEF Age
<1> QED
  BY <1>1, <1>2, <1>3, <1>4, <1>5
     DEF Next, Continue, ResumeSession, ForceHandoffOrRetry, OperatorGuidance, Pause, Prepare

\* A continuation takes over an identity in doubt only when it is too old or
\* the session has moved on (_issued_continuation_identity_is_stale).
LEMMA InDoubtStep ==
    ASSUME ActionsInv, [Next]_vars, NEW id \in Identities,
           HasLast(IdStream(id)), StateOf(Last(IdStream(id))) = "issued",
           call = NoCall, id \notin aged,
           call' # NoCall, call'.kind \in Continuing, Identity(call') = id
    PROVE  \/ call'.gov.ver # Last(IdStream(id)).key[4]
           \/ call'.gov.seq # Last(IdStream(id)).body[1]
<1>1. Next
  BY DEF vars, actionVars
<1>2. PICK k \in Keys : StartPlain(k) \/ InvalidateStale(k) \/ IssueFirst(k)
  BY <1>1, CallAppears
<1>3. PICK c \in ActionState : c = CallOf(k) /\ c.key = k /\ c.kind = asked[k].kind
  BY CallIs DEF ActionsInv
<1>4. ~StartPlain(k)
  BY <1>3 DEF StartPlain
<1>5. /\ \E x \in {"issue", "send"} : call' = [c EXCEPT !.pc = x]
      /\ SuppressedBy(c) = "none"
      /\ InFlight(c) \/ IssueFirst(k)
  BY <1>2, <1>3, <1>4 DEF InvalidateStale, IssueFirst, Issue, Raises
<1>6. call'.kind = c.kind /\ call'.gov = c.gov
  BY <1>3, <1>5 DEF ActionState
<1>7. Identity(c) = id /\ Stream(c) = IdStream(id) /\ id[1] = c.gov.thread
  BY <1>6 DEF Identity, Stream, IdStream
<1>8. InFlight(c) /\ ~IssueFirst(k)
  BY <1>3, <1>7 DEF InFlight, IssueFirst
<1>9. IsStale(c)
  BY <1>5, <1>6, <1>8 DEF SuppressedBy
<1>10. PICK r : r = Last(IdStream(id))
  OBVIOUS
<1>11. r.body = <<r.body[1], id[1]>>
  BY <1>10 DEF ActionsInv, LastFits
<1>12. r.key[4] # c.gov.ver \/ r.body # <<c.gov.seq, c.gov.thread>>
  BY <1>7, <1>9, <1>10 DEF IsStale
<1> QED BY <1>6, <1>7, <1>10, <1>11, <1>12

\* A continuation in doubt holds back the other keys of the same snapshot, by
\* the staleness test of _preflight_continuation_identity_for_action.
THEOREM InDoubtHoldsBackHolds == Spec => InDoubtHoldsBack
<1>1. ActionsInv /\ [Next]_vars =>
          [\A id \in Identities :
              LET s == <<"identity", id>>
              IN  (/\ HasLast(s) /\ StateOf(Last(s)) = "issued"
                   /\ call = NoCall /\ id \notin aged
                   /\ call' # NoCall /\ call'.kind \in Continuing /\ Identity(call') = id)
                  => \/ call'.gov.ver # Last(s).key[4]
                     \/ call'.gov.seq # Last(s).body[1]]_vars
  BY InDoubtStep DEF IdStream
<1> QED BY <1>1, ActionsInvariance, PTL DEF Spec, InDoubtHoldsBack

=============================================================================
