----------------------------- MODULE Judgement -----------------------------
(***************************************************************************)
(* How one session record becomes a decision: the rules and the external   *)
(* model that propose an intent, the orchestrator's choice of an action,   *)
(* and the gates between the intent and an automatic execution -           *)
(* validator, release gate, policy and the two resident experts.  All of   *)
(* it is pure; what each part is read from, and when, is in Decisions.     *)
(***************************************************************************)
EXTENDS SessionFacts, Provider

CONSTANT NoAction

Model == "external_model"
Rules == "rules_fallback"

IntentKinds == {"propose_execute", "propose_recovery", "branch_complete_switch",
                "require_approval", "candidate_closure", "observe_only"}
Executing == {"propose_execute", "propose_recovery", "branch_complete_switch"}
Actions == {"continue_session", "request_recovery", "execute_recovery",
            "post_operator_guidance"}

\* An intent with its source and whether its arguments carry a message.
Intent(i, s, m) == [intent |-> i, source |-> s, message |-> m]

\* _rule_based_intent.
RuleIntent(facts) ==
    IF "task_completed" \in facts THEN "candidate_closure"
    ELSE IF facts \cap ApprovalFacts # {} THEN "require_approval"
    ELSE IF "context_critical" \in facts THEN "propose_recovery"
    ELSE IF facts \cap {"stuck_no_progress", "repeat_failure"} # {} THEN "propose_execute"
    ELSE "observe_only"

ByRules(facts) == Intent(RuleIntent(facts), Rules, RuleIntent(facts) = "propose_execute")

(***************************************************************************)
(* What the model would be told, as far as the brain itself looks at it:   *)
(* _build_decision_context.  A repository whose files name another project *)
(* says "active" here and "unknown" to the facts.                          *)
(***************************************************************************)
Context(repo, b, goal) ==
    [project |-> RepoState(repo), goal |-> goal, asked |-> b.asked,
     unreadable |-> "approval_state_unavailable" \in b.facts]

\* _provider_precondition_block: the model is asked only for an active project,
\* outside an approval, with a ready goal; otherwise the rules answer - for an
\* unready goal from the facts.
Precluded(c) == c.project # "active" \/ c.unreadable \/ c.asked \/ c.goal # "ready"

Precluding(c, facts) ==
    CASE c.project # "active" \/ c.unreadable -> Intent("observe_only", Rules, FALSE)
      [] c.project = "active" /\ ~c.unreadable /\ c.asked ->
            Intent("require_approval", Rules, FALSE)
      [] OTHER -> ByRules(facts)

\* _map_intent.
MapIntent(a) ==
    CASE a = "project_complete"        -> "candidate_closure"
      [] a = "recover_current_branch"  -> "propose_recovery"
      [] a = "branch_complete_switch"  -> "branch_complete_switch"
      [] a = "await_human"             -> "require_approval"
      [] a = "continue_current_branch" -> "propose_execute"
      [] OTHER                         -> "observe_only"

\* A failure other than invalid output or a timeout keeps the provider's name,
\* so the rules' answer counts as the model's.
FromProvider(a, facts, nextKnown) ==
    CASE a \in Canonical ->
            Intent(MapIntent(a), Model, a = "branch_complete_switch" => nextKnown)
      [] a = "unavailable" \/ (a = "timeout" /\ "task_completed" \in facts) ->
            [ByRules(facts) EXCEPT !.source = Model]
      [] OTHER -> ByRules(facts)

\* _action_ref_for_brain_intent; an approval is taken to be one for
\* continue_session, or not to fit the record.
ActionFor(b, i) ==
    LET nothing ==
          \/ "project_not_active" \in b.facts
          \/ i = "observe_only" /\ b.facts = {}
          \/ i = "require_approval" /\ ~b.asked
          \/ i = "propose_execute" /\ "continue_session" \notin b.intents
          \/ /\ i = "propose_recovery"
             /\ b.intents \cap {"execute_recovery", "request_recovery"} = {}
    IN  CASE nothing -> NoAction
          [] ~nothing /\ i = "propose_recovery" ->
                IF "execute_recovery" \in b.intents THEN "execute_recovery" ELSE "request_recovery"
          [] ~nothing /\ i \in {"branch_complete_switch", "candidate_closure"} ->
                "post_operator_guidance"
          [] OTHER -> "continue_session"

\* DecisionValidator.validate: operator guidance needs a message, the rest of
\* the tests are for propose_execute.  A missing contract is no objection.
Validator(i, goal, noted) ==
    CASE i.intent = "branch_complete_switch" /\ ~i.message -> "action_args_invalid"
      [] i.intent = "propose_execute" /\ noted -> "memory_unavailable"
      [] i.intent = "propose_execute" /\ ~noted /\ goal = "draft" -> "goal_contract_not_ready"
      [] OTHER -> "pass"

\* _degrade_reason_for_report: its input hash is that of one trace, so a report
\* only fits the tick it was made for.
ReportFails(report) == report # "none"

\* ReleaseGateEvaluator.evaluate: a configured report must load and fit this
\* very trace; with none the verdict is the resident default.
ReleaseGate(i, validator, report) ==
    CASE report = "unreadable" -> "report_load_failed"
      [] report # "unreadable" /\ i.intent # "propose_execute" -> "not_applicable"
      [] report # "unreadable" /\ i.intent = "propose_execute" ->
            IF validator # "pass" THEN validator
            ELSE IF ReportFails(report) THEN "input_hash_mismatch" ELSE "pass"

\* MANAGED_AGENT_ACTION_BOUNDARY.
Allowed(action) ==
    CASE action = "continue_session" -> {"propose_execute", "require_approval", "observe_only"}
      [] action \in {"request_recovery", "execute_recovery"} -> {"propose_recovery"}
      [] OTHER -> {"candidate_closure", "branch_complete_switch"}

AutoAllowed(action) ==
    CASE action = "continue_session" -> {"propose_execute"}
      [] action \in {"request_recovery", "execute_recovery"} -> {"propose_recovery"}
      [] OTHER -> {"branch_complete_switch"}

Automatic == "auto_execute_and_notify"
Ask  == "require_user_decision"
Stop == "block_and_alert"

\* Both verdicts permit the intent.
GatesOpen(i, validator, release) ==
    /\ validator = "pass"
    /\ release \in (IF i.intent = "propose_execute" THEN {"pass"}
                                                    ELSE {"pass", "not_applicable"})

\* Mutant: the goal's readiness is no longer asked.
ObjectionWithoutGoal(facts, intent, action, goal) ==
    CASE intent \notin Allowed(action) -> Stop
      [] intent \in Allowed(action) /\ facts \cap ApprovalFacts # {} -> Ask
      [] intent \in Allowed(action) \ Executing /\ facts \cap ApprovalFacts = {} -> Stop
      [] OTHER -> NoAction

\* What evaluate_persisted_session_policy has against an intent before the
\* gates, for the actions of the boundary; none of the facts the spine derives
\* is a controlled uncertainty.
Objection(facts, intent, action, goal) ==
    LET human == facts \cap ApprovalFacts # {} \/ goal = "draft"
    IN  CASE intent \notin Allowed(action) -> Stop
          [] intent \in Allowed(action) /\ human -> Ask
          [] intent \in Allowed(action) \ Executing /\ ~human -> Stop
          [] OTHER -> NoAction

Policy(facts, i, action, goal, validator, release) ==
    LET objection == Objection(facts, i.intent, action, goal)
    IN  CASE objection # NoAction -> objection
          [] objection = NoAction /\ GatesOpen(i, validator, release) -> Automatic
          [] OTHER -> Stop

(***************************************************************************)
(* The two resident experts.  An expert is absent (no handle), bound, or   *)
(* stale (its handle was not seen for long).                               *)
(***************************************************************************)
\* consult_or_restore: the statuses it writes.  A handle that is not stale is
\* "restoring" from now on - whether anybody answers is not asked.
Consulted(experts) ==
    [e \in DOMAIN experts |->
        CASE experts[e] = "absent" -> "unavailable"
          [] experts[e] = "stale"  -> "stale"
          [] OTHER                 -> "restoring"]

\* _resident_expert_gate_bundle.
Healthy(experts) ==
    \A e \in DOMAIN experts : Consulted(experts)[e] \notin {"stale", "unavailable"}

\* _with_resident_expert_gate: an automatic decision of the model's becomes a
\* block, under the key of a block.
Gated(result, source, experts) ==
    IF result = Automatic /\ source = Model /\ ~Healthy(experts) THEN Stop ELSE result

\* _continuation_decision_class_for_intent, by the intent the model's word or
\* the rules led to.
DecisionClass(facts, intent, action) ==
    CASE intent = "branch_complete_switch" -> "branch_complete_switch"
      [] intent = "propose_execute" /\ action = "continue_session" -> "continue_current_branch"
      [] intent = "propose_recovery" /\ action = "execute_recovery" -> "recover_current_branch"
      [] intent = "candidate_closure" -> "project_complete"
      [] intent = "require_approval" -> "await_human"
      [] OTHER -> IF "project_not_active" \in facts THEN "blocked" ELSE "none"

\* The continuation governance a decision is recorded with: the gate is said to
\* be open unless the experts closed it, whatever the policy said.
Governance(facts, i, action, result, experts) ==
    [gate  |-> IF Gated(result, i.source, experts) = result THEN "eligible" ELSE "suppressed",
     class |-> DecisionClass(facts, i.intent, action),
     token |-> i.intent = "branch_complete_switch" /\ i.message]

\* record_branch_switch_token_state, after the verdict.
TokenState(g) ==
    CASE ~g.token -> "none"
      [] g.token /\ g.gate = "eligible" -> "issued"
      [] OTHER -> "invalidated"

(***************************************************************************)
(* What holds an action back for a while.                                  *)
(***************************************************************************)
\* _shared_local_manual_activity_quiet_window_seconds: somebody at the keyboard
\* of late; nothing is recorded of it.
HeldByHuman(action) == action \in Actions

\* _auto_dispatch_cooldown_details: the same continuation was dispatched of
\* late, be it from other facts.  (done: what was dispatched, as pairs of class
\* and action.)
HeldByCooldown(facts, i, action, done) ==
    /\ i.intent \in {"propose_execute", "branch_complete_switch"}
    /\ action \in {"continue_session", "request_recovery", "post_operator_guidance"}
    /\ <<DecisionClass(facts, i.intent, action), action>> \in done

\* _recovery_reentry_suppression_details and its cooldown: a recovery is under
\* way, or ended of late.
HeldByRecovery(i, action, done) ==
    /\ i.intent = "propose_recovery"
    /\ action = "execute_recovery"
    /\ <<"recover_current_branch", action>> \in done

\* _decision_allows_auto_execute, of the decision that is in the store.
MayRun(d) ==
    /\ d.result = Automatic
    /\ d.intent \in AutoAllowed(d.action)
    /\ GatesOpen(d, d.validator, d.release)

=============================================================================
