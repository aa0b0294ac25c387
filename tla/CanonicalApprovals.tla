------------------------- MODULE CanonicalApprovals -------------------------
(***************************************************************************)
(* The watchdog's own approvals, kept beside those of the control agent.   *)
(* The resident orchestrator prompts for a decision of policy (it reuses a *)
(* runtime approval it trusts, or makes up an id), a person answers, and   *)
(* the answer is passed on to the runtime, the approved action executed    *)
(* and the record closed.  Meanwhile the refresh loop supersedes, dedupes  *)
(* and expires records, and a new goal contract supersedes old prompts.    *)
(* The response lock serialises answers; the approval store is locked per  *)
(* call only, so the copy an answer works on may be stale when written.    *)
(***************************************************************************)
EXTENDS RuntimeApprovals

CONSTANTS
    Prompting,     \* runtime requests whose command is the action policy asks for
    ClientKeys,    \* the client_request_ids answers come with
    MaxSnap,       \* bound: versions of the session's facts
    MaxGoal,       \* bound: versions of the goal contract
    MaxFaults,     \* bound: crashes and failures of the watchdog, restarts of
                   \* the control agent and changes of the goal, taken together
    MaxTicks       \* bound: ticks of the orchestrator

ASSUME PromptingAssumption == Prompting \subseteq Requests
ASSUME CallersAssumption == "watchdog" \in Callers
ASSUME BoundsAssumption == MaxSnap \in Nat \ {0} /\ MaxGoal \in Nat \ {0}

VARIABLES
    store,      \* canonical approval records, by envelope
    asked,      \* the approval_requested event of an approval id
    cards,      \* prompts in the outbox: the envelope and the decision shown
    released,   \* newest snapshot with a stored decision that asks nobody
    queue,      \* runtime approvals in the persisted session record
    snap, goal, \* the facts' version, the goal contract's version
    orch,       \* the orchestrator's tick
    expiry,     \* the copy the refresh loop is expiring
    answer,     \* the answer under the response lock
    receipts,   \* action receipts
    responses,  \* stored responses
    execs,      \* executions of the approved action, per decision
    torn,       \* executions a crash cut off before their receipt
    faults, ticks

canonVars == <<store, asked, cards, released, queue, snap, goal, orch, expiry, answer,
               receipts, responses, execs, torn, faults, ticks>>
vars == <<runtimeVars, canonVars>>

Snaps == 1 .. MaxSnap
MadeUp(s) == <<"approval", s>>
NoId == <<"none", 0>>
Ids == Prompting \cup {MadeUp(s) : s \in Snaps}

\* An id the watchdog makes up is a hash that no request of codex has.
ASSUME IdsAssumption == NoId \notin Requests /\ \A s \in Snaps : MadeUp(s) \notin Requests

\* An envelope id is hashed from the approval id of the decision, or, when the
\* decision has none, from its other fields, of which the snapshot varies.
Envelope(id, s) == IF id = NoId THEN <<"fields", s>> ELSE <<"id", id>>
Envelopes == {Envelope(NoId, s) : s \in Snaps} \cup {Envelope(a, 1) : a \in Ids}
Decision(id, s) == [id |-> id, snap |-> s]
Decisions == {Decision(a, s) : a \in Ids \cup {NoId}, s \in Snaps}

Absent == [status |-> "absent"]
Record(d, g) == [status |-> "pending", id |-> IF d.id = NoId THEN MadeUp(d.snap) ELSE d.id,
                 goal |-> g, decision |-> d]
IsOpen(e) == store[e].status = "pending"
Open == {e \in Envelopes : IsOpen(e)}
Of(a) == {e \in Envelopes : store[e].status # "absent" /\ store[e].id = a}

Idle == [pc |-> "idle"]

\* One more fault, or another goal, may happen.
Faulty == faults + restarts + goal - 1 < MaxFaults

CanonInit ==
    /\ store = [e \in Envelopes |-> Absent]
    /\ asked = [a \in Ids |-> {}]
    /\ cards = {} /\ released = 0 /\ queue = {} /\ snap = 1 /\ goal = 1
    /\ orch = Idle /\ expiry = Idle /\ answer = Idle
    /\ receipts = {} /\ responses = {}
    /\ execs = [d \in Decisions |-> 0]
    /\ torn = {} /\ faults = 0 /\ ticks = 0

-----------------------------------------------------------------------------
(* The approval store.                                                     *)

\* A newer snapshot comes first; within one snapshot the order of creation
\* and of the ids decides, and any fixed order stands for it.
Newest(E) == CHOOSE e \in E : \A f \in E : store[f].decision.snap <= store[e].decision.snap

Closed(e, status) == [store[e] EXCEPT !.status = status]
Supersede(E) == [e \in Envelopes |-> IF e \in E THEN Closed(e, "superseded") ELSE store[e]]

\* put: a pending record is refreshed (it keeps its envelope and approval id),
\* one that was closed is left alone, a new one is added.
Existing(r, e) ==
    IF store[e].status # "absent" THEN {e}
    ELSE LET pending == {f \in Of(r.id) : IsOpen(f)}
         IN  IF pending = {} THEN {} ELSE {Newest(pending)}

Put(r, e) ==
    IF Existing(r, e) = {} THEN [store EXCEPT ![e] = r]
    ELSE LET f == CHOOSE x \in Existing(r, e) : TRUE
         IN  IF IsOpen(f) /\ store[f].decision.snap <= r.decision.snap
             THEN [store EXCEPT ![f] = [r EXCEPT !.id = store[f].id]] ELSE store

SupersededBy(s) == {e \in Open : store[e].decision.snap <= s}
StaleForGoal(g) == {e \in Open : store[e].goal < g}

\* Of several pending records with one approval id, or asking for the same
\* action under the same goal contract, only the newest stays.
DuplicateIds == {e \in Open : \E f \in Open :
    f # e /\ store[f].id = store[e].id /\ Newest({e, f}) = f}
DuplicateActions(E) == {e \in Open \ E : \E f \in Open \ E :
    f # e /\ store[f].goal = store[e].goal /\ Newest({e, f}) = f}

-----------------------------------------------------------------------------
(* The orchestrator's tick.                                                *)

\* Pending records, without those that are past the interaction window and
\* that the runtime, when it can be asked, does not list as actionable.
Prompted(aged) == {store[e].id : e \in {x \in Open :
    aged => store[x].id \in Requests /\ Actionable(store[x].id)}}

\* Approvals the tick sees: those of the session record that have no record
\* here or a pending one; without any, the pending records themselves.
Overlay(aged) ==
    LET projected == {a \in queue \cap Prompting : Of(a) = {} \/ \E e \in Of(a) : IsOpen(e)}
    IN  IF projected # {} THEN projected ELSE Prompted(aged)

\* ... and those whose records and events all say what is asked for now.
Trusted(seen, aged) ==
    LET fits(a) == /\ \A e \in Of(a) : store[e].decision.snap = snap /\ store[e].goal = goal
                   /\ \A ev \in asked[a] : ev = <<snap, goal>>
        first   == {a \in seen : fits(a)}
    IN  IF first # {} THEN first ELSE {a \in Prompted(aged) : fits(a)}

\* The tick reads, decides and stores its decision.
TickDecides(asks, aged) ==
    /\ orch.pc = "idle" /\ ticks < MaxTicks
    /\ ticks' = ticks + 1
    /\ LET seen    == Overlay(aged)
           trusted == Trusted(seen, aged)
       IN  \E id \in IF trusted = {} THEN {NoId} ELSE trusted :
              orch' = [pc |-> IF asks THEN "prompt" ELSE "release", decision |-> Decision(id, snap),
                       goal |-> goal, stale |-> seen \ trusted, copies |-> {}]
    /\ released' = IF ~asks /\ released < snap THEN snap ELSE released
    /\ UNCHANGED <<store, asked, cards, queue, snap, goal, expiry, answer, receipts,
                   responses, execs, torn, faults, runtimeVars>>

\* A decision that asks nobody supersedes every older prompt.
TickReleases ==
    /\ orch.pc = "release"
    /\ store' = Supersede(SupersededBy(orch.decision.snap))
    /\ orch' = Idle
    /\ UNCHANGED <<asked, cards, released, queue, snap, goal, expiry, answer, receipts,
                   responses, execs, torn, faults, ticks, runtimeVars>>

\* materialize_canonical_approval: the record, the event, the card; an event
\* that says something else ends the tick with an error.
TickPrompts ==
    /\ orch.pc = "prompt"
    /\ LET r    == Record(orch.decision, orch.goal)
           e    == Envelope(orch.decision.id, orch.decision.snap)
           new  == Put(r, e)
           at   == IF Existing(r, e) = {} THEN e ELSE CHOOSE x \in Existing(r, e) : TRUE
           kept == new[at]
           clash == \E ev \in asked[kept.id] : ev[1] > kept.decision.snap \/ ev[2] # kept.goal
       IN  /\ store' = new
           /\ asked' = IF asked[kept.id] = {}
                       THEN [asked EXCEPT ![kept.id] = {<<kept.decision.snap, kept.goal>>}]
                       ELSE asked
           /\ cards' = IF clash THEN cards ELSE cards \cup {<<at, kept.decision>>}
           /\ orch' = IF clash \/ orch.stale = {} THEN Idle ELSE [orch EXCEPT !.pc = "drift"]
    /\ UNCHANGED <<released, queue, snap, goal, expiry, answer, receipts, responses,
                   execs, torn, faults, ticks, runtimeVars>>

\* _supersede_stale_pending_approvals reads the records of one id ...
TickReadsStale ==
    /\ orch.pc = "drift"
    /\ \E a \in orch.stale :
          LET copies == {<<e, store[e]>> : e \in {x \in Of(a) : IsOpen(x)}}
              rest   == orch.stale \ {a}
          IN  orch' = IF copies # {} THEN [orch EXCEPT !.pc = "drifted", !.stale = rest, !.copies = copies]
                      ELSE IF rest = {} THEN Idle ELSE [orch EXCEPT !.stale = rest]
    /\ UNCHANGED <<store, asked, cards, released, queue, snap, goal, expiry, answer, receipts,
                   responses, execs, torn, faults, ticks, runtimeVars>>

\* ... and writes them back, whatever they have become.
TickSupersedesStale ==
    /\ orch.pc = "drifted"
    /\ store' = [e \in Envelopes |->
          IF \E c \in orch.copies : c[1] = e
          THEN [(CHOOSE c \in orch.copies : c[1] = e)[2] EXCEPT !.status = "superseded"]
          ELSE store[e]]
    /\ orch' = IF orch.stale = {} THEN Idle ELSE [orch EXCEPT !.pc = "drift", !.copies = {}]
    /\ UNCHANGED <<asked, cards, released, queue, snap, goal, expiry, answer, receipts,
                   responses, execs, torn, faults, ticks, runtimeVars>>

-----------------------------------------------------------------------------
(* The refresh loop, the session's facts and the goal contract.            *)

\* The record of the session is rebuilt from what the runtime reports.
RefreshSession(moves) ==
    /\ moves => snap < MaxSnap
    /\ snap' = IF moves THEN snap + 1 ELSE snap
    /\ queue' = {r \in Requests : Actionable(r)}
    /\ snap' # snap \/ queue' # queue
    /\ UNCHANGED <<store, asked, cards, released, goal, orch, expiry, answer, receipts,
                   responses, execs, torn, faults, ticks, runtimeVars>>

\* A new goal contract supersedes what older ones prompted for.  A crash after
\* the contract's event leaves the prompts: a retry finds the event and stops.
BootstrapGoal(cut) ==
    /\ goal < MaxGoal /\ Faulty
    /\ goal' = goal + 1
    /\ store' = IF cut THEN store ELSE Supersede(StaleForGoal(goal + 1))
    /\ faults' = IF cut THEN faults + 1 ELSE faults
    /\ UNCHANGED <<asked, cards, released, queue, snap, orch, expiry, answer, receipts,
                   responses, execs, torn, ticks, runtimeVars>>

\* _reconcile_stale_pending_approvals: superseded by a stored decision, then
\* duplicates by approval id, then duplicates by action.
Reconcile ==
    /\ expiry.pc = "idle"
    /\ LET old == SupersededBy(released) \cup DuplicateIds
           all == old \cup DuplicateActions(old)
       IN  /\ all # {}
           /\ store' = Supersede(all)
    /\ UNCHANGED <<asked, cards, released, queue, snap, goal, orch, expiry, answer, receipts,
                   responses, execs, torn, faults, ticks, runtimeVars>>

\* An elapsed timeout: the loop reads the record and writes the event ...
ExpireReads(e) ==
    /\ expiry.pc = "idle" /\ IsOpen(e)
    /\ expiry' = [pc |-> "expire", env |-> e, copy |-> store[e]]
    /\ UNCHANGED <<store, asked, cards, released, queue, snap, goal, orch, answer, receipts,
                   responses, execs, torn, faults, ticks, runtimeVars>>

\* ... and then closes the copy it read.
ExpireWrites ==
    /\ expiry.pc = "expire"
    /\ store' = [store EXCEPT ![expiry.env] = [expiry.copy EXCEPT !.status = "expired"]]
    /\ expiry' = Idle
    /\ UNCHANGED <<asked, cards, released, queue, snap, goal, orch, answer, receipts,
                   responses, execs, torn, faults, ticks, runtimeVars>>

-----------------------------------------------------------------------------
(* An answer, under the response lock.                                     *)

\* The third action, execute_action, takes the path of approve.
RespondActs == Answers
Key == <<answer.env, answer.act, answer.client>>
Receipt(kind) == <<kind, answer.copy.decision>>

\* The checks of the factory: closed records raise, an approved one is replayed.
Answerable(e, act) ==
    \/ IsOpen(e)
    \/ store[e].status = "rejected" /\ act = "reject"

\* A card is good for the decision it shows.
CardAdmits(e) == <<e, store[e].decision>> \in cards

\* A text reply is taken to mean the one pending record that has a card, or,
\* when none has, the one there is.  A reply that names its project also meets
\* records the runtime still lists as actionable.
Bound(e) == store[e].status \notin {"superseded", "expired"} /\ \E c \in cards : c[1] = e
Candidates(known) == Open \cup {e \in Envelopes :
    known /\ store[e].status # "absent" /\ store[e].id \in Requests /\ Actionable(store[e].id)}
TextMeans(e, known) ==
    LET bound == {x \in Candidates(known) : Bound(x)}
    IN  IF bound # {} THEN bound = {e} ELSE Candidates(known) = {e}

Respond(e, act, client) ==
    /\ answer.pc = "idle" /\ store[e].status # "absent"
    /\ CardAdmits(e) \/ \E known \in BOOLEAN : TextMeans(e, known)
    /\ <<e, act, client>> \notin responses
    /\ \/ /\ Answerable(e, act)
          /\ answer' = [pc |-> "decide", env |-> e, act |-> act, client |-> client, copy |-> store[e]]
          /\ UNCHANGED responses
       \/ /\ store[e].status = "approved" /\ act # "reject"
          /\ responses' = responses \cup {<<e, act, client>>}
          /\ UNCHANGED answer
    /\ UNCHANGED <<store, asked, cards, released, queue, snap, goal, orch, expiry, receipts,
                   execs, torn, faults, ticks, runtimeVars>>

\* The runtime is asked unless a receipt says it was.  It does not know the ids
\* the watchdog made up.
AnswerDecides ==
    /\ answer.pc = "decide"
    /\ IF Receipt(answer.act) \in receipts
       THEN /\ answer' = [answer EXCEPT !.pc = "decided"]
            /\ UNCHANGED runtimeVars
       ELSE IF answer.copy.id \in Requests
       THEN /\ Decide("watchdog", answer.copy.id, answer.act)
            /\ answer' = [answer EXCEPT !.pc = "asked"]
       ELSE /\ answer' = Idle
            /\ UNCHANGED runtimeVars
    /\ UNCHANGED <<store, asked, cards, released, queue, snap, goal, orch, expiry, receipts,
                   responses, execs, torn, faults, ticks>>

\* The runtime's answer arrives; without success the response fails.
BelievedAnyway(ok) == TRUE
Believed(ok) == ok

AnswerDecided ==
    /\ answer.pc = "asked" /\ calls["watchdog"].pc = "done"
    /\ Leave("watchdog")
    /\ IF Believed(calls["watchdog"].ok)
       THEN /\ receipts' = receipts \cup {Receipt(answer.act)}
            /\ answer' = [answer EXCEPT !.pc = "decided"]
       ELSE /\ answer' = Idle /\ UNCHANGED receipts
    /\ UNCHANGED <<store, asked, cards, released, queue, snap, goal, orch, expiry,
                   responses, execs, torn, faults, ticks>>

\* The runtime's answer is lost (timeout); the runtime may have done its part.
AnswerLost ==
    /\ answer.pc = "asked" /\ calls["watchdog"].pc = "done" /\ Faulty
    /\ Leave("watchdog")
    /\ faults' = faults + 1
    /\ answer' = Idle
    /\ UNCHANGED <<store, asked, cards, released, queue, snap, goal, orch, expiry, receipts,
                   responses, execs, torn, ticks>>

\* An approval executes the registered action, once per receipt.
AnswerExecutesAgain ==
    /\ answer.pc = "decided" /\ answer.act # "reject"
    /\ execs' = [execs EXCEPT ![answer.copy.decision] = @ + 1]
    /\ receipts' = receipts \cup {Receipt("execute")}
    /\ answer' = [answer EXCEPT !.pc = "executed"]
    /\ UNCHANGED <<store, asked, cards, released, queue, snap, goal, orch, expiry,
                   responses, torn, faults, ticks, runtimeVars>>

AnswerExecutes ==
    /\ answer.pc = "decided" /\ answer.act # "reject"
    /\ execs' = [execs EXCEPT ![answer.copy.decision] =
                   IF Receipt("execute") \in receipts THEN @ ELSE @ + 1]
    /\ receipts' = receipts \cup {Receipt("execute")}
    /\ answer' = [answer EXCEPT !.pc = "executed"]
    /\ UNCHANGED <<store, asked, cards, released, queue, snap, goal, orch, expiry,
                   responses, torn, faults, ticks, runtimeVars>>

\* The action raises before its effect; the response fails.
AnswerExecutionFails ==
    /\ answer.pc = "decided" /\ answer.act # "reject" /\ Faulty
    /\ Receipt("execute") \notin receipts
    /\ faults' = faults + 1
    /\ answer' = Idle
    /\ UNCHANGED <<store, asked, cards, released, queue, snap, goal, orch, expiry, receipts,
                   responses, execs, torn, ticks, runtimeVars>>

AnswerCloses ==
    /\ answer.pc = "executed" \/ (answer.pc = "decided" /\ answer.act = "reject")
    /\ store' = [store EXCEPT ![answer.env] =
          [answer.copy EXCEPT !.status = IF answer.act = "reject" THEN "rejected" ELSE "approved"]]
    /\ answer' = [answer EXCEPT !.pc = "closed"]
    /\ UNCHANGED <<asked, cards, released, queue, snap, goal, orch, expiry, receipts,
                   responses, execs, torn, faults, ticks, runtimeVars>>

\* The events, the envelopes and the stored response.
AnswerStored ==
    /\ answer.pc = "closed"
    /\ responses' = responses \cup {Key}
    /\ answer' = Idle
    /\ UNCHANGED <<store, asked, cards, released, queue, snap, goal, orch, expiry, receipts,
                   execs, torn, faults, ticks, runtimeVars>>

\* The watchdog crashes at work: what was under way is gone.  The action may have been
\* executed and its receipt not written.
CrashWatchdog ==
    /\ Faulty /\ {orch, expiry, answer} # {Idle}
    /\ faults' = faults + 1
    /\ orch' = Idle /\ expiry' = Idle /\ answer' = Idle
    /\ \/ UNCHANGED <<execs, torn>>
       \/ /\ answer.pc = "decided" /\ answer.act # "reject"
          /\ Receipt("execute") \notin receipts
          /\ execs' = [execs EXCEPT ![answer.copy.decision] = @ + 1]
          /\ torn' = torn \cup {answer.copy.decision}
    /\ UNCHANGED <<store, asked, cards, released, queue, snap, goal, receipts, responses, ticks, runtimeVars>>

-----------------------------------------------------------------------------

Init == RuntimeInit /\ CanonInit

RuntimeNext ==
    /\ \/ \E r \in Requests : CodexStep(r)
       \/ \E c \in Callers : EndpointStep(c)
       \/ Faulty /\ RestartRuntime
       \/ \E c \in Callers \ {"watchdog"} :
             \E r \in Requests, d \in Answers : Decide(c, r, d)
       \/ answer.pc # "asked" /\ Leave("watchdog")
    /\ UNCHANGED canonVars

Next ==
    \/ RuntimeNext
    \/ \E asks, aged \in BOOLEAN : TickDecides(asks, aged)
    \/ TickReleases \/ TickPrompts \/ TickReadsStale \/ TickSupersedesStale
    \/ \E b \in BOOLEAN : RefreshSession(b) \/ BootstrapGoal(b)
    \/ Reconcile \/ ExpireWrites \/ \E e \in Envelopes : ExpireReads(e)
    \/ \E e \in Envelopes, act \in RespondActs, k \in ClientKeys : Respond(e, act, k)
    \/ AnswerDecides \/ AnswerDecided \/ AnswerLost \/ AnswerExecutes
    \/ AnswerExecutionFails \/ AnswerCloses \/ AnswerStored
    \/ CrashWatchdog

Spec == Init /\ [][Next]_vars

-----------------------------------------------------------------------------

Statuses == {"absent", "pending", "approved", "rejected", "superseded", "expired"}

Goals == 1 .. MaxGoal
Records == [status : Statuses \ {"absent"}, id : Ids, goal : Goals, decision : Decisions]

\* The approval id of the records under an envelope: the id the envelope is
\* hashed from, or the one made up for the decision's snapshot.
IdUnder(e) == IF e[1] = "id" THEN e[2] ELSE MadeUp(e[2])
IdOf(d) == IF d.id = NoId THEN MadeUp(d.snap) ELSE d.id
FitsUnder(e, r) == r.id = IdUnder(e) /\ r.id = IdOf(r.decision)

StoreTypeOK ==
    /\ store \in [Envelopes -> {Absent} \cup Records]
    /\ \A e \in Envelopes : store[e].status # "absent" => FitsUnder(e, store[e])

TickStates == [pc : {"prompt", "release", "drift", "drifted"}, decision : Decisions,
               goal : Goals, stale : SUBSET Ids, copies : SUBSET (Envelopes \X Records)]
OrchTypeOK ==
    /\ orch \in {Idle} \cup TickStates
    /\ orch.pc = "drifted" => \A c \in orch.copies : FitsUnder(c[1], c[2])

ExpiryTypeOK ==
    /\ expiry \in {Idle} \cup [pc : {"expire"}, env : Envelopes, copy : Records]
    /\ expiry.pc # "idle" => FitsUnder(expiry.env, expiry.copy)

AnswerStates == [pc : {"decide", "asked", "decided", "executed", "closed"},
                 env : Envelopes, act : Answers, client : ClientKeys, copy : Records]
AnswerTypeOK ==
    /\ answer \in {Idle} \cup AnswerStates
    /\ answer.pc # "idle" => FitsUnder(answer.env, answer.copy)

HistoryTypeOK ==
    /\ asked \in [Ids -> SUBSET (Snaps \X Goals)]
    /\ cards \subseteq Envelopes \X Decisions
    /\ responses \subseteq Envelopes \X Answers \X ClientKeys
    /\ receipts \subseteq (Answers \cup {"execute"}) \X Decisions
    /\ execs \in [Decisions -> Nat] /\ torn \subseteq Decisions

\* The type of the canonical state: a record, or a copy somebody holds of it,
\* has the approval id its envelope and its decision are hashed from.
ApprovalsTypeOK ==
    /\ RuntimeTypeOK
    /\ StoreTypeOK /\ OrchTypeOK /\ ExpiryTypeOK /\ AnswerTypeOK /\ HistoryTypeOK
    /\ queue \subseteq Requests
    /\ snap \in Snaps /\ goal \in Goals /\ released \in 0 .. snap

\* The two stores agree on what was answered: a canonical record is approved or
\* rejected only when the runtime's row is, and an action is executed only for
\* an approval the runtime granted, so nothing rejected is ever executed.
AnswerIsTheRuntimes ==
    /\ \A e \in Envelopes : store[e].status \in {"approved", "rejected"} =>
          store[e].id \in Requests /\ rows[store[e].id].status = store[e].status
    /\ \A d \in Decisions : execs[d] > 0 =>
          d.id \in Requests /\ rows[d.id].status = "approved"

\* However often a person answers, and whichever step of an answer fails, the
\* action of an approval is executed for one decision only, and once; only a
\* crash between the action and its receipt can repeat it.
ExecutedOnce ==
    /\ \A c, d \in Decisions : execs[c] > 0 /\ execs[d] > 0 /\ c.id = d.id => c = d
    /\ \A d \in Decisions : execs[d] <= 1 + (IF d \in torn THEN faults ELSE 0)

=============================================================================
