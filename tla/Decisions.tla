----------------------------- MODULE Decisions -----------------------------
(***************************************************************************)
(* One session under the resident orchestrator: the refresh loop that      *)
(* persists what the runtime reports, and the decision loop that takes the *)
(* persisted record through brain, gates and policy, records the decision  *)
(* in the session log and in the decision store, and hands an automatic    *)
(* one to the executor (AutoExecute takes it from there).                  *)
(*                                                                         *)
(* A tick is not atomic: the provider may answer minutes later, the log    *)
(* and the stores are files written one after the other, and goal          *)
(* messages, refreshes and the experts go on meanwhile.  The tick may be   *)
(* cut off between any two writes, by a crash or by a write that raises;   *)
(* the next tick starts over.                                              *)
(*                                                                         *)
(* Time is abstracted: cooldowns, quiet windows and staleness may hold a   *)
(* tick back or not.                                                       *)
(***************************************************************************)
EXTENDS Judgement, Naturals

CONSTANTS
    Tasks,        \* what a refresh may read
    Answers,      \* what the provider may reply; none when it is not configured
    Reports,      \* the release gate reports that may be configured
    Repos,        \* what the repository's state files may say
    Experts,
    MaxVersion,   \* bound on changes of the facts
    MaxGoals,     \* bound on goal messages
    MaxTicks,     \* bound on ticks
    MaxOutside,   \* bound on changes of the experts and the hub
    MaxCuts       \* bound on ticks cut off

ASSUME TasksAssumption == Tasks \subseteq TaskType
ASSUME ReposAssumption == Repos \subseteq RepoType
ASSUME NoActionAssumption == NoAction \notin Actions \cup {Automatic, Ask, Stop}
ASSUME BoundsAssumption == MaxVersion \in Nat \ {0}
ASSUME AnswersAssumption == \A a \in Answers : IsContent(a) \/ a.form \in {"status", "timeout", "refused"}

VARIABLES
    settings,  \* report and repo: what the process is configured with
    record,    \* the persisted session record: a bundle and its fact version
    goal,      \* current goal contract: none, draft or ready, and its number
    hub,       \* the memory hub answers
    experts,   \* Experts -> absent, bound or stale
    log,       \* the session's events: cursor, proposed, validated, verdicts, noted, commands
    store,     \* the decision store: key -> decision
    tick,      \* the running tick: its step and what it has read
    counts,    \* the bounds' counters
    history    \* ghost: what was dispatched, which keys were cut or failed

vars == <<settings, record, goal, hub, experts, log, store, tick, counts, history>>

Idle == [at |-> "idle"]

(***************************************************************************)
(* A step of the surroundings is only taken where a tick could tell it     *)
(* from one taken earlier: record, hub and experts are read once in a tick *)
(* (Begin, Recall, Judge), the goal from Begin to Judge.                   *)
(***************************************************************************)
Between     == tick = Idle
GoalMatters == tick.at \in {"idle", "asking", "judge"}

\* The key of a decision; the approval is the record's.
Key(d) == [version |-> d.version, result |-> d.result, intent |-> d.intent,
           action |-> d.action, asked |-> d.asked]

\* What the decision trace is hashed from, beyond the key.
Trace == [cursor |-> log.cursor, goal |-> goal.number]

\* An event is appended: the session's last log_seq moves.
Logged(l) == [l EXCEPT !.cursor = @ + 1]

Recorded(v, t) ==
    LET b == Bundle(t, settings.repo)
    IN  [version |-> v, facts |-> b.facts, asked |-> b.asked, state |-> b.state,
         intents |-> b.intents, status |-> b.status]

\* The store's put: the version moves with the facts, and with the time of the
\* last progress they carry.
PutRecord(t) ==
    LET facts == Bundle(t, settings.repo).facts
    IN  \/ /\ facts = record.facts
           /\ record' = Recorded(record.version, t)
        \/ /\ facts # record.facts \/ facts # {}
           /\ record.version < MaxVersion
           /\ record' = Recorded(record.version + 1, t)

\* refresh_project, of a project the runtime lists.  An unreadable runtime or
\* approval list leaves the record alone.
Refresh ==
    /\ Between
    /\ \E t \in Tasks : PutRecord(t)
    /\ UNCHANGED <<settings, goal, hub, experts, log, store, tick, counts, history>>

\* _refresh_missing_project, of one it no longer knows.
RefreshMissing ==
    /\ Between
    /\ PutRecord(TaskOf(record))
    /\ UNCHANGED <<settings, goal, hub, experts, log, store, tick, counts, history>>

\* A goal message: a new contract version, complete or not.
SetGoal ==
    /\ GoalMatters
    /\ counts.goals < MaxGoals
    /\ counts' = [counts EXCEPT !.goals = @ + 1]
    /\ \E s \in {"draft", "ready"} : goal' = [state |-> s, number |-> goal.number + 1]
    /\ log' = Logged(log)
    /\ UNCHANGED <<settings, record, hub, experts, store, tick, history>>

\* The memory hub goes away and comes back.  (It never reports a conflict: the
\* brain passes it no goal to disagree with.)
HubChanges ==
    /\ Between
    /\ counts.outside < MaxOutside
    /\ counts' = [counts EXCEPT !.outside = @ + 1]
    /\ hub' = ~hub
    /\ UNCHANGED <<settings, record, goal, experts, log, store, tick, history>>

\* bind_runtime_handle, and the time after which a handle is stale; nothing
\* the orchestrator does refreshes one.
ExpertChanges ==
    /\ Between
    /\ counts.outside < MaxOutside
    /\ counts' = [counts EXCEPT !.outside = @ + 1]
    /\ \E e \in Experts, s \in {"bound", "stale"} :
          /\ s = "stale" => experts[e] = "bound"
          /\ experts' = [experts EXCEPT ![e] = s]
    /\ UNCHANGED <<settings, record, goal, hub, log, store, tick, history>>

\* The process is restarted with a release gate report.
Reconfigure ==
    /\ Between
    /\ counts.outside < MaxOutside
    /\ counts' = [counts EXCEPT !.outside = @ + 1]
    /\ \E r \in Reports : settings' = [settings EXCEPT !.report = r]
    /\ UNCHANGED <<record, goal, hub, experts, log, store, tick, history>>

(***************************************************************************)
(* The tick.  Begin takes the record; with a provider and no contract one  *)
(* is bootstrapped from the task, unless there is nothing to make it from. *)
(***************************************************************************)
Begin ==
    /\ tick = Idle
    /\ counts.ticks < MaxTicks
    /\ counts' = [counts EXCEPT !.ticks = @ + 1]
    /\ tick' = [at |-> "recall", rec |-> record]
    /\ \/ UNCHANGED <<goal, log>>
       \/ /\ Answers # {} /\ goal.state = "none"
          /\ goal' = [state |-> "ready", number |-> 1]
          /\ log' = Logged(log)
    /\ UNCHANGED <<settings, record, hub, experts, store, history>>

\* record_memory_unavailable_degraded.
Note(l) == [Logged(l) EXCEPT !.noted = TRUE]

\* _consume_memory_advisory_context: an outage is noted once; noting it again
\* in a later second conflicts with the note and ends the tick.
Recall ==
    /\ tick.at = "recall"
    /\ \/ /\ hub \/ log.noted
          /\ tick' = [tick EXCEPT !.at = "think"]
          /\ UNCHANGED log
       \/ /\ ~hub /\ ~log.noted
          /\ log' = Note(log)
          /\ tick' = [tick EXCEPT !.at = "think"]
       \/ /\ ~hub /\ log.noted
          /\ tick' = Idle
          /\ UNCHANGED log
    /\ UNCHANGED <<settings, record, goal, hub, experts, store, counts, history>>

Done == {<<DecisionClass(r.rec.facts, r.d.intent, r.d.action), r.d.action>> : r \in history.runs}

\* A cooldown or a recovery under way is recorded, once for the same facts.
Noted(l) == {l, Logged(l)}

\* The action is chosen, unless there is none for the intent; whatever may hold
\* it back may have passed.
Choose(i) ==
    LET action == ActionFor(tick.rec, i.intent)
    IN  \/ /\ action = NoAction \/ HeldByHuman(action)
           /\ tick' = Idle
           /\ UNCHANGED log
        \/ /\ \/ HeldByCooldown(tick.rec.facts, i, action, Done)
              \/ HeldByRecovery(i, action, Done)
           /\ tick' = Idle
           /\ log' \in Noted(log)
        \/ /\ action # NoAction
           /\ tick' = [at |-> "judge", rec |-> tick.rec, by |-> i, action |-> action,
                       ready |-> goal.state]
           /\ UNCHANGED log

\* evaluate_session up to the call of the provider, which is asked with the
\* goal of this moment.
Think ==
    /\ tick.at = "think"
    /\ LET c == Context(settings.repo, tick.rec, goal.state)
       IN  CASE Answers = {} -> Choose(ByRules(tick.rec.facts))
             [] Answers # {} /\ Precluded(c) -> Choose(Precluding(c, tick.rec.facts))
             [] OTHER -> tick' = [tick EXCEPT !.at = "asking"] /\ UNCHANGED log
    /\ UNCHANGED <<settings, record, goal, hub, experts, store, counts, history>>

\* The provider's replies, and whether the next work item is known; the
\* readiness the policy will use is read now.
Answer ==
    /\ tick.at = "asking"
    /\ \E first, second \in Answers, known \in BOOLEAN :
          Choose(FromProvider(Decoded(Final(first, second)), tick.rec.facts, known))
    /\ UNCHANGED <<settings, record, goal, hub, experts, store, counts, history>>

\* _decision_evidence_for_intent: the verdicts of the validator and of the
\* release gate.
Evidence(i) ==
    LET v == Validator(i, tick.ready, log.noted)
    IN  [validator |-> v, release |-> ReleaseGate(i, v, settings.report)]

\* The decision record: what policy and expert gate make of the evidence.
Judged ==
    LET i == tick.by
        e == Evidence(i)
        p == Policy(tick.rec.facts, i, tick.action, tick.ready, e.validator, e.release)
    IN  [version |-> tick.rec.version, result |-> Gated(p, i.source, experts),
         intent |-> i.intent, action |-> tick.action, asked |-> tick.rec.asked,
         source |-> i.source, trace |-> Trace, validator |-> e.validator, release |-> e.release,
         governance |-> Governance(tick.rec.facts, i, tick.action, p, experts)]

\* A file with one entry more, or another one.
Filed(f, k, e) == [x \in DOMAIN f \cup {k} |-> IF x = k THEN e ELSE f[x]]

\* Mutant: one event of the two is enough.
CanonicalByProposal(k) == k \in DOMAIN log.proposed

\* _has_canonical_decision_events.
Canonicalised(k) == k \in DOMAIN log.proposed /\ k \in log.validated

\* Mutant: the lifecycle is recorded at every tick.
SettleAnew(d) == "propose"

\* _record_and_store_decision: the lifecycle is recorded unless it is complete.
\* (A decision is stored after its lifecycle, so a stored one has it.)
Settle(d) == IF Canonicalised(Key(d)) THEN "put" ELSE "propose"

Judge ==
    /\ tick.at = "judge"
    /\ tick' = [at |-> Settle(Judged), rec |-> tick.rec, d |-> Judged,
                ready |-> tick.ready, healthy |-> Healthy(experts)]
    /\ UNCHANGED <<settings, record, goal, hub, experts, log, store, counts, history>>

\* The proposal's payload names the trace; a proposal of the same decision
\* under another trace is refused.
ProposalConflicts(d) ==
    Key(d) \in DOMAIN log.proposed /\ log.proposed[Key(d)] # d.trace

\* decision_proposed.
Propose ==
    /\ tick.at = "propose"
    /\ IF ProposalConflicts(tick.d)
       THEN /\ tick' = Idle
            /\ history' = [history EXCEPT !.refused = @ \cup {Key(tick.d)}]
            /\ UNCHANGED log
       ELSE /\ log' = [Logged(log) EXCEPT !.proposed = Filed(@, Key(tick.d), tick.d.trace)]
            /\ tick' = [tick EXCEPT !.at = "validate"]
            /\ UNCHANGED history
    /\ UNCHANGED <<settings, record, goal, hub, experts, store, counts>>

\* decision_validated.
Validate ==
    /\ tick.at = "validate"
    /\ log' = [Logged(log) EXCEPT !.validated = @ \cup {Key(tick.d)}]
    /\ tick' = [tick EXCEPT !.at = "verdict"]
    /\ UNCHANGED <<settings, record, goal, hub, experts, store, counts, history>>

\* The governance's verdict, and what becomes of the token of a branch switch.
Verdict ==
    /\ tick.at = "verdict"
    /\ log' = [Logged(log) EXCEPT !.verdicts = @ \cup
          {[key |-> Key(tick.d), gate |-> tick.d.governance.gate,
            class |-> tick.d.governance.class, token |-> TokenState(tick.d.governance)]}]
    /\ tick' = [tick EXCEPT !.at = "put"]
    /\ UNCHANGED <<settings, record, goal, hub, experts, store, counts, history>>

\* _merge_existing_lifecycle_evidence: a stored decision keeps its verdicts and
\* its trace; the rest of its evidence is replaced.
Merged(d) ==
    IF Key(d) \in DOMAIN store
    THEN LET e == store[Key(d)]
         IN  [d EXCEPT !.validator = e.validator, !.release = e.release, !.trace = e.trace]
    ELSE d

Put ==
    /\ tick.at = "put"
    /\ store' = Filed(store, Key(tick.d), Merged(tick.d))
    /\ tick' = [tick EXCEPT !.at = "act", !.d = Merged(tick.d)]
    /\ UNCHANGED <<settings, record, goal, hub, experts, log, counts, history>>

\* command_created, and the command goes to the executor: once, as the lease
\* of AutoExecute sees to.  Any other decision goes to the outbox or to an
\* approval.
Act ==
    /\ tick.at = "act"
    /\ tick' = Idle
    /\ IF MayRun(tick.d) /\ Key(tick.d) \notin log.commands
       THEN /\ log' = [Logged(log) EXCEPT !.commands = @ \cup {Key(tick.d)}]
            /\ history' = [history EXCEPT !.runs = @ \cup
                  {[d |-> tick.d, rec |-> tick.rec, ready |-> tick.ready,
                    healthy |-> tick.healthy, noted |-> log.noted,
                    report |-> settings.report]}]
       ELSE UNCHANGED <<log, history>>
    /\ UNCHANGED <<settings, record, goal, hub, experts, store, counts>>

\* A crash, or a write that raises.
Cut ==
    /\ tick # Idle
    /\ counts.cuts < MaxCuts
    /\ counts' = [counts EXCEPT !.cuts = @ + 1]
    /\ tick' = Idle
    /\ history' = [history EXCEPT
          !.cut = IF tick.at = "validate" THEN @ \cup {Key(tick.d)} ELSE @,
          !.blind = IF tick.at = "verdict" THEN @ \cup {Key(tick.d)} ELSE @]
    /\ UNCHANGED <<settings, record, goal, hub, experts, log, store>>

DecisionsInit ==
    /\ settings \in [report : {"none"}, repo : Repos]
    /\ \E t \in Tasks : record = Recorded(1, t)
    /\ goal \in {[state |-> "none", number |-> 0], [state |-> "ready", number |-> 1]}
    /\ hub = TRUE
    /\ experts \in {[e \in Experts |-> s] : s \in {"absent", "bound"}}
    /\ log = [cursor |-> 0, proposed |-> [k \in {} |-> k], validated |-> {},
              verdicts |-> {}, noted |-> FALSE, commands |-> {}]
    /\ store = [k \in {} |-> k]
    /\ tick = Idle
    /\ counts = [goals |-> 0, outside |-> 0, ticks |-> 0, cuts |-> 0]
    /\ history = [runs |-> {}, cut |-> {}, blind |-> {}, refused |-> {}]

Next ==
    \/ Refresh \/ RefreshMissing \/ SetGoal \/ HubChanges \/ ExpertChanges \/ Reconfigure
    \/ Begin \/ Recall \/ Think \/ Answer \/ Judge
    \/ Propose \/ Validate \/ Verdict \/ Put \/ Act
    \/ Cut

Spec == DecisionsInit /\ [][Next]_vars

----------------------------------------------------------------------------
Keys == [version : 1..MaxVersion, result : {Automatic, Ask, Stop}, intent : IntentKinds,
         action : Actions, asked : BOOLEAN]

Facts == ApprovalFacts \cup {"project_not_active", "task_completed", "recovery_available",
            "approval_state_unavailable", "stuck_no_progress", "repeat_failure",
            "context_critical"}
Records == [version : 1..MaxVersion, facts : SUBSET Facts, asked : BOOLEAN,
            state : {"awaiting_approval", "blocked", "active"},
            intents : SUBSET {"continue_session", "request_recovery", "execute_recovery"},
            status : Statuses \cup {"waiting_for_approval"}]
Readiness == {"none", "draft", "ready"}
Sources   == {Model, Rules}
Verdicts  == {"pass", "action_args_invalid", "memory_unavailable", "goal_contract_not_ready",
              "report_load_failed", "not_applicable", "input_hash_mismatch"}
Classes   == {"branch_complete_switch", "continue_current_branch", "recover_current_branch",
              "project_complete", "await_human", "blocked", "none"}
Gates     == {"eligible", "suppressed"}
DecisionType ==
    [version : 1..MaxVersion, result : {Automatic, Ask, Stop}, intent : IntentKinds,
     action : Actions, asked : BOOLEAN, source : Sources,
     trace : [cursor : Nat, goal : Nat], validator : Verdicts, release : Verdicts,
     governance : [gate : Gates, class : Classes, token : BOOLEAN]]
Runs == [d : DecisionType, rec : Records, ready : Readiness, healthy : BOOLEAN,
         noted : BOOLEAN, report : Reports \cup {"none"}]

\* A file of entries by key.
FiledByKey(f) == DOMAIN f \subseteq Keys /\ f = [k \in DOMAIN f |-> f[k]]

Early == [at : {"recall", "think", "asking"}, rec : Records]
Chosen == [at : {"judge"}, rec : Records, action : Actions, ready : Readiness,
           by : [intent : IntentKinds, source : Sources, message : BOOLEAN]]
Decided == [at : {"propose", "validate", "verdict", "put", "act"}, rec : Records,
            d : DecisionType, ready : Readiness, healthy : BOOLEAN]

\* What a record's parts say of each other.
RecordFits(r) ==
    /\ "execute_recovery" \in r.intents => "context_critical" \in r.facts
    /\ r.asked <=> r.state = "awaiting_approval"
    /\ r.asked <=> r.facts \cap ApprovalFacts # {}

IsLog(l) ==
    /\ l \in [cursor : Nat, proposed : {l.proposed}, validated : SUBSET Keys,
              verdicts : SUBSET [key : Keys, gate : Gates, class : Classes,
                                 token : {"none", "issued", "invalidated"}],
              noted : BOOLEAN, commands : SUBSET Keys]
    /\ FiledByKey(l.proposed)
    /\ {v.key : v \in l.verdicts} \subseteq l.validated
    /\ l.validated \subseteq DOMAIN l.proposed

SurroundingsTypeOK ==
    /\ settings \in [report : Reports \cup {"none"}, repo : Repos]
    /\ goal \in [state : Readiness, number : Nat]
    /\ goal.state = "none" <=> goal.number = 0
    /\ hub \in BOOLEAN
    /\ experts \in [Experts -> {"absent", "bound", "stale"}]
    /\ counts \in [goals : Nat, outside : Nat, ticks : Nat, cuts : Nat]

RecordTypeOK == record \in Records /\ RecordFits(record)

StoreTypeOK ==
    /\ FiledByKey(store)
    /\ \A k \in DOMAIN store : store[k] \in DecisionType /\ Key(store[k]) = k

TickTypeOK ==
    /\ tick \in {Idle} \cup Early \cup Chosen \cup Decided
    /\ tick # Idle => tick.rec.version <= record.version /\ RecordFits(tick.rec)

HistoryTypeOK ==
    history \in [runs : SUBSET Runs, cut : SUBSET Keys, blind : SUBSET Keys,
                 refused : SUBSET Keys]

\* Types, and of what is read together: a stored decision is under its own
\* key, a record's facts and intents fit each other, and a tick never holds
\* facts newer than the record's.
DecisionsTypeOK ==
    SurroundingsTypeOK /\ RecordTypeOK /\ IsLog(log) /\ StoreTypeOK /\ TickTypeOK /\ HistoryTypeOK

\* Whatever is executed without asking was allowed by all of the gates at
\* once, although brain, policy, stored verdicts and expert gate read at
\* different moments and a stored decision is merged with a new one: the
\* project was active and no approval open in the record of the tick, the
\* goal was not an unready one, a recovery was offered, no release report
\* stood against it, a continuation never follows an outage of the memory, and
\* what a model proposed had both resident experts behind it.
ExecutedWasAllowed ==
    \A r \in history.runs :
        /\ "project_not_active" \notin r.rec.facts
        /\ ~r.rec.asked
        /\ r.ready # "draft"
        /\ r.report # "unreadable"
        /\ r.d.source = Model => r.healthy
        /\ r.d.intent = "propose_recovery" => r.d.action \in r.rec.intents
        /\ r.d.intent = "propose_execute" =>
              /\ r.report = "none"
              /\ ~r.noted
              /\ "continue_session" \in r.rec.intents

\* A command is preceded by the whole record of its decision, wherever the
\* tick was cut: it was proposed, validated and stored, and the gate's verdict
\* is on the log too unless a cut fell between validation and verdict.
CommandsAreOnRecord ==
    /\ \A k \in log.commands :
          /\ k \in log.validated
          /\ k \in DOMAIN store /\ store[k].result = Automatic
          /\ k \in history.blind \/ \E v \in log.verdicts : v.key = k /\ v.gate = "eligible"
    /\ DOMAIN store \subseteq log.validated

\* A tick is refused its own decision only after a tick was cut between the
\* two events of that decision: nothing else wedges a decision, whatever goal
\* messages and refreshes do to its trace.
OnlyACutWedges == history.refused \subseteq history.cut

\* What 085 (FR-8504) says: a session that is paused, handed over, resuming or
\* waiting for direction is not continued automatically.
PausedIsNotContinued ==
    \A r \in history.runs :
        r.d.action = "continue_session" =>
            r.rec.status \notin {"handoff_in_progress", "resuming", "paused",
                                  "waiting_for_direction"}

=============================================================================
