--------------------------- MODULE Decisions_proofs ---------------------------
(***************************************************************************)
(* Proofs about Decisions, for any tasks, provider answers, repositories,  *)
(* reports, experts and bounds: the types, what an automatic execution     *)
(* stands on, and what the log holds of it.                                *)
(***************************************************************************)
EXTENDS Decisions, TLAPS

(***************************************************************************)
(* The facts and the projection.                                           *)
(***************************************************************************)
BundleShape == [facts : SUBSET Facts, asked : BOOLEAN,
                state : {"awaiting_approval", "blocked", "active"},
                intents : SUBSET {"continue_session", "request_recovery", "execute_recovery"},
                status : Statuses \cup {"waiting_for_approval"}]

LEMMA TroublesAreFacts ==
    ASSUME NEW t PROVE Troubles(t) \in SUBSET (Facts \ ApprovalFacts)
  BY DEF Troubles, Facts, ApprovalFacts

\* Only an approval that is asked for makes an approval fact, and it always
\* makes one unless the task is missing.
LEMMA FactsAreOfTheAsked ==
    ASSUME NEW t, NEW asked \in BOOLEAN, NEW state
    PROVE  /\ FactsOf(t, asked, state) \in SUBSET Facts
           /\ ~asked => FactsOf(t, asked, state) \cap ApprovalFacts = {}
           /\ asked => \/ FactsOf(t, asked, state) \cap ApprovalFacts # {}
                       \/ FactsOf(t, asked, state) = {"project_not_active"}
<1> DEFINE rest == CASE state \in NonActive -> {"project_not_active"}
                     [] state \notin NonActive /\ Suppressed(t) -> {}
                     [] OTHER -> Troubles(t)
           head == IF asked THEN ApprovalFacts ELSE {}
<1>1. rest \in SUBSET (Facts \ ApprovalFacts)
  <2>1. {"project_not_active"} \in SUBSET (Facts \ ApprovalFacts)
    BY DEF Facts, ApprovalFacts
  <2> QED BY <2>1, TroublesAreFacts
<1>2. \/ FactsOf(t, asked, state) = {"project_not_active"}
      \/ ~asked /\ FactsOf(t, asked, state) \in {{"task_completed"}, {"approval_state_unavailable"}}
      \/ FactsOf(t, asked, state) = head \cup rest
  BY DEF FactsOf
<1>3. ApprovalFacts \subseteq Facts /\ "approval_pending" \in ApprovalFacts
  BY DEF ApprovalFacts, Facts
<1>4. head \in SUBSET Facts
  BY <1>3
<1>5. /\ {"project_not_active"} \in SUBSET (Facts \ ApprovalFacts)
      /\ {"task_completed"} \in SUBSET (Facts \ ApprovalFacts)
      /\ {"approval_state_unavailable"} \in SUBSET (Facts \ ApprovalFacts)
  BY DEF Facts, ApprovalFacts
<1> HIDE DEF rest
<1>6. CASE FactsOf(t, asked, state) = head \cup rest
  BY <1>1, <1>3, <1>4, <1>6
<1>7. CASE ~asked /\ FactsOf(t, asked, state) \in {{"task_completed"}, {"approval_state_unavailable"}}
  BY <1>5, <1>7
<1>8. CASE FactsOf(t, asked, state) = {"project_not_active"}
  BY <1>5, <1>8
<1> QED BY <1>2, <1>6, <1>7, <1>8

LEMMA BundleFits ==
    ASSUME NEW t \in TaskType, NEW repo
    PROVE  Bundle(t, repo) \in BundleShape /\ RecordFits(Bundle(t, repo))
<1> DEFINE state == ExecutionState(t, repo)
           drop  == "project_not_active" \in FactsOf(t, Asked(t), state)
<1>1. PICK asked \in BOOLEAN : asked = (Asked(t) /\ ~drop)
  OBVIOUS
<1> DEFINE facts == FactsOf(t, asked, state)
<1>2. Bundle(t, repo) = [facts |-> facts, asked |-> asked, state |-> SessionState(facts),
                         intents |-> Intents(t, asked, facts), status |-> StatusOf(t)]
  BY <1>1 DEF Bundle
<1>3. PICK was \in BOOLEAN : was = Asked(t)
  BY DEF Asked
<1>4. asked => facts \cap ApprovalFacts # {}
  <2> SUFFICES ASSUME asked PROVE facts \cap ApprovalFacts # {}
    OBVIOUS
  <2>1. "project_not_active" \notin FactsOf(t, was, state) /\ was
    BY <1>1, <1>3
  <2>2. asked = was
    BY <2>1
  <2> QED BY <2>1, <2>2, FactsAreOfTheAsked
<1>5. facts \in SUBSET Facts /\ (~asked => facts \cap ApprovalFacts = {})
  BY FactsAreOfTheAsked
<1>6. StatusOf(t) \in Statuses \cup {"waiting_for_approval"}
  BY DEF StatusOf, TaskType
<1>7. /\ SessionState(facts) \in {"awaiting_approval", "blocked", "active"}
      /\ (facts \cap ApprovalFacts # {}) <=> SessionState(facts) = "awaiting_approval"
  <2> HIDE DEF facts
  <2> QED BY DEF SessionState
<1>8. /\ Intents(t, asked, facts) \in SUBSET {"continue_session", "request_recovery", "execute_recovery"}
      /\ "execute_recovery" \in Intents(t, asked, facts) => "context_critical" \in facts
  <2> HIDE DEF facts
  <2> QED BY DEF Intents
<1> HIDE DEF facts
<1>9. Bundle(t, repo) \in BundleShape
  BY <1>2, <1>5, <1>6, <1>7, <1>8 DEF BundleShape
<1>10. RecordFits(Bundle(t, repo))
  BY <1>2, <1>4, <1>5, <1>7, <1>8 DEF RecordFits
<1> QED BY <1>9, <1>10

LEMMA RecordedFits ==
    ASSUME NEW t \in TaskType, NEW v \in 1..MaxVersion
    PROVE  /\ Recorded(v, t) \in Records /\ RecordFits(Recorded(v, t))
           /\ Recorded(v, t).version = v
<1>1. PICK b \in BundleShape : b = Bundle(t, settings.repo) /\ RecordFits(b)
  BY BundleFits
<1>2. Recorded(v, t) = [version |-> v, facts |-> b.facts, asked |-> b.asked, state |-> b.state,
                        intents |-> b.intents, status |-> b.status]
  BY <1>1 DEF Recorded, BundleShape
<1>3. Recorded(v, t) \in Records
  BY <1>2 DEF Records, BundleShape
<1>4. RecordFits(Recorded(v, t))
  BY <1>1, <1>2 DEF RecordFits, BundleShape
<1> QED BY <1>2, <1>3, <1>4

LEMMA TaskOfIsATask ==
    ASSUME NEW b PROVE TaskOf(b) \in TaskType
  BY DEF TaskOf, TaskType, Statuses, ProjectStates, Signals

(***************************************************************************)
(* From a record to a decision.                                            *)
(***************************************************************************)
IntentType == [intent : IntentKinds, source : Sources, message : BOOLEAN]

LEMMA ByRulesIsAnIntent ==
    ASSUME NEW facts
    PROVE  /\ ByRules(facts) \in IntentType
           /\ [ByRules(facts) EXCEPT !.source = Model] \in IntentType
<1>1. RuleIntent(facts) \in IntentKinds
  BY DEF RuleIntent, IntentKinds
<1>2. PICK m \in BOOLEAN : m = (RuleIntent(facts) = "propose_execute")
  OBVIOUS
<1>3. ByRules(facts) = [intent |-> RuleIntent(facts), source |-> Rules, message |-> m]
  BY <1>2 DEF ByRules, Intent
<1>4. Rules \in Sources /\ Model \in Sources
  BY DEF Sources
<1> QED BY <1>1, <1>3, <1>4 DEF IntentType

LEMMA PrecludingIsAnIntent ==
    ASSUME NEW c, NEW facts PROVE Precluding(c, facts) \in IntentType
<1>1. \A k \in IntentKinds : Intent(k, Rules, FALSE) \in IntentType
  BY DEF Intent, IntentType, Sources
<1>2. Precluding(c, facts) \in
        {Intent("observe_only", Rules, FALSE), Intent("require_approval", Rules, FALSE), ByRules(facts)}
  BY DEF Precluding
<1>3. {"observe_only", "require_approval"} \subseteq IntentKinds
  BY DEF IntentKinds
<1> QED BY <1>1, <1>2, <1>3, ByRulesIsAnIntent

LEMMA FromProviderIsAnIntent ==
    ASSUME NEW a, NEW facts, NEW known \in BOOLEAN
    PROVE  FromProvider(a, facts, known) \in IntentType
<1>1. MapIntent(a) \in IntentKinds
  BY DEF MapIntent, IntentKinds
<1>2. PICK m \in BOOLEAN : m = (a = "branch_complete_switch" => known)
  OBVIOUS
<1>3. Intent(MapIntent(a), Model, a = "branch_complete_switch" => known) \in IntentType
  BY <1>1, <1>2 DEF Intent, IntentType, Sources
<1>4. FromProvider(a, facts, known) \in
        {Intent(MapIntent(a), Model, a = "branch_complete_switch" => known),
         [ByRules(facts) EXCEPT !.source = Model], ByRules(facts)}
  BY DEF FromProvider
<1> QED BY <1>3, <1>4, ByRulesIsAnIntent

\* An action is offered by the record it is chosen from.
LEMMA ActionIsOffered ==
    ASSUME NEW b, NEW i
    PROVE  /\ ActionFor(b, i) \in Actions \cup {NoAction}
           /\ ActionFor(b, i) # NoAction =>
                /\ "project_not_active" \notin b.facts
                /\ i = "propose_execute" => "continue_session" \in b.intents
                /\ i = "propose_recovery" => ActionFor(b, i) \in b.intents
<1>1. ActionFor(b, i) \in Actions \cup {NoAction}
  BY DEF ActionFor, Actions
<1>2. ASSUME ActionFor(b, i) # NoAction
      PROVE  /\ "project_not_active" \notin b.facts
             /\ i = "propose_execute" => "continue_session" \in b.intents
             /\ i = "propose_recovery" => b.intents \cap {"execute_recovery", "request_recovery"} # {}
  <2> DEFINE nothing == \/ "project_not_active" \in b.facts
                        \/ i = "observe_only" /\ b.facts = {}
                        \/ i = "require_approval" /\ ~b.asked
                        \/ i = "propose_execute" /\ "continue_session" \notin b.intents
                        \/ /\ i = "propose_recovery"
                           /\ b.intents \cap {"execute_recovery", "request_recovery"} = {}
  <2>1. nothing => ActionFor(b, i) = NoAction
    BY DEF ActionFor
  <2>2. ~nothing
    BY <1>2, <2>1
  <2> QED BY <2>2
<1>3. ASSUME ActionFor(b, i) # NoAction, i = "propose_recovery"
      PROVE  ActionFor(b, i) \in b.intents
  <2>1. b.intents \cap {"execute_recovery", "request_recovery"} # {}
        /\ "project_not_active" \notin b.facts
    BY <1>2, <1>3
  <2>2. CASE "execute_recovery" \in b.intents
    <3>1. ActionFor(b, i) = "execute_recovery"
      BY <1>3, <2>1, <2>2 DEF ActionFor
    <3> QED BY <3>1, <2>2
  <2>3. CASE "execute_recovery" \notin b.intents
    <3>1. b.intents \cap {"execute_recovery", "request_recovery"} = {"request_recovery"}
      BY <2>1, <2>3
    <3>2. ActionFor(b, i) = "request_recovery"
      BY <1>3, <2>1, <2>3, <3>1 DEF ActionFor
    <3> QED BY <3>1, <3>2
  <2> QED BY <2>2, <2>3
<1> QED BY <1>1, <1>2, <1>3

LEMMA VerdictsAreVerdicts ==
    ASSUME NEW i, NEW ready, NEW noted, NEW report
    PROVE  /\ Validator(i, ready, noted) \in Verdicts
           /\ ReleaseGate(i, Validator(i, ready, noted), report) \in Verdicts
<1>1. Validator(i, ready, noted) \in
         {"action_args_invalid", "memory_unavailable", "goal_contract_not_ready", "pass"}
  BY DEF Validator
<1>2. \A v \in Verdicts : ReleaseGate(i, v, report) \in Verdicts
  BY DEF ReleaseGate, Verdicts
<1>3. Validator(i, ready, noted) \in Verdicts
  BY <1>1 DEF Verdicts
<1> QED BY <1>2, <1>3

\* Policy lets an intent through when nothing stands against it and both
\* gates are open, and never otherwise.
LEMMA PolicyIsThreeWay ==
    ASSUME NEW facts, NEW i, NEW action, NEW ready, NEW v, NEW w
    PROVE  /\ Policy(facts, i, action, ready, v, w) \in {Automatic, Ask, Stop}
           /\ Policy(facts, i, action, ready, v, w) = Automatic =>
                /\ facts \cap ApprovalFacts = {}
                /\ ready # "draft"
                /\ GatesOpen(i, v, w)
<1> DEFINE objection == Objection(facts, i.intent, action, ready)
<1>1. objection \in {Stop, Ask, NoAction} /\ (objection = NoAction =>
                       facts \cap ApprovalFacts = {} /\ ready # "draft")
  <2>1. objection \in {Stop, Ask, NoAction}
    BY DEF Objection
  <2>2. ASSUME facts \cap ApprovalFacts # {} \/ ready = "draft" PROVE objection \in {Stop, Ask}
    BY <2>2 DEF Objection
  <2>3. NoAction \notin {Stop, Ask}
    BY NoActionAssumption
  <2> QED BY <2>1, <2>2, <2>3
<1>2. Policy(facts, i, action, ready, v, w) =
        IF objection # NoAction THEN objection
        ELSE IF GatesOpen(i, v, w) THEN Automatic ELSE Stop
  BY DEF Policy
<1>3. Automatic \notin {Stop, Ask}
  BY DEF Automatic, Stop, Ask
<1> HIDE DEF objection
<1> QED BY <1>1, <1>2, <1>3

(***************************************************************************)
(* The inductive invariant.                                                *)
(***************************************************************************)
Late == {"propose", "validate", "verdict", "put", "act"}

\* What an automatic decision stands on: the parts of ExecutedWasAllowed.
ClearedBy(d, rec, ready, healthy, noted, report) ==
    /\ "project_not_active" \notin rec.facts
    /\ ~rec.asked
    /\ ready # "draft"
    /\ report # "unreadable"
    /\ d.source = Model => healthy
    /\ d.intent = "propose_recovery" => d.action \in rec.intents
    /\ d.intent = "propose_execute" =>
          report = "none" /\ ~noted /\ "continue_session" \in rec.intents

\* The decision a tick carries was cleared on what the tick has read, and
\* nothing of that moves before the tick is over.
TickIsCleared ==
    /\ tick.at = "judge" => tick.action = ActionFor(tick.rec, tick.by.intent)
    /\ tick.at \in Late /\ tick.d.result = Automatic =>
          /\ ClearedBy(tick.d, tick.rec, tick.ready, tick.healthy, log.noted, settings.report)
          /\ tick.d.governance.gate = "eligible"

\* How far the record of the tick's decision must have come.
TickIsOnRecord ==
    /\ tick.at = "propose" => Key(tick.d) \notin log.validated
    /\ tick.at = "validate" => Key(tick.d) \in DOMAIN log.proposed
    /\ tick.at \in {"verdict", "put", "act"} => Key(tick.d) \in log.validated
    /\ tick.at = "act" => Key(tick.d) \in DOMAIN store

EligibleOnLog(k) == \E v \in log.verdicts : v.key = k /\ v.gate = "eligible"

\* A proposal without its validation, and a validation without its verdict,
\* belong to the running tick or to one that was cut off there.
LifecyclesAreWhole ==
    /\ \A k \in DOMAIN log.proposed :
          \/ k \in log.validated \/ k \in history.cut
          \/ tick.at = "validate" /\ Key(tick.d) = k
    /\ \A k \in log.validated : k.result = Automatic =>
          \/ k \in history.blind \/ EligibleOnLog(k)
          \/ tick.at = "verdict" /\ Key(tick.d) = k

RunsWereCleared ==
    \A r \in history.runs :
        ClearedBy(r.d, r.rec, r.ready, r.healthy, r.noted, r.report)

DecisionsInv ==
    /\ DecisionsTypeOK /\ TickIsCleared /\ TickIsOnRecord /\ LifecyclesAreWhole
    /\ RunsWereCleared /\ CommandsAreOnRecord /\ OnlyACutWedges

(***************************************************************************)
(* What the steps are made of.                                             *)
(***************************************************************************)
LEMMA KeyIs ==
    ASSUME NEW d \in DecisionType
    PROVE  /\ Key(d) \in Keys
           /\ Key(d).result = d.result
  BY DEF Key, Keys, DecisionType

LEMMA TickShape ==
    ASSUME TickTypeOK
    PROVE  /\ tick = Idle => tick.at = "idle"
           /\ tick.at = "idle" => tick = Idle
           /\ tick.at \in {"recall", "think", "asking"} => tick \in Early
           /\ tick.at = "judge" => tick \in Chosen
           /\ tick.at \in Late => tick \in Decided
           /\ tick.at \in {"idle", "recall", "think", "asking", "judge"} \cup Late
  BY DEF TickTypeOK, Idle, Early, Chosen, Decided, Late

LEMMA LoggedIsALog ==
    ASSUME NEW l, IsLog(l)
    PROVE  /\ IsLog(Logged(l)) /\ IsLog(Note(l))
           /\ Logged(l).proposed = l.proposed /\ Note(l).proposed = l.proposed
           /\ Logged(l).validated = l.validated /\ Note(l).validated = l.validated
           /\ Logged(l).verdicts = l.verdicts /\ Note(l).verdicts = l.verdicts
           /\ Logged(l).commands = l.commands /\ Note(l).commands = l.commands
           /\ Logged(l).noted = l.noted
<1> DEFINE shape == [cursor : Nat, proposed : {l.proposed}, validated : SUBSET Keys,
                     verdicts : SUBSET [key : Keys, gate : Gates, class : Classes,
                                        token : {"none", "issued", "invalidated"}],
                     noted : BOOLEAN, commands : SUBSET Keys]
           logged == Logged(l)
           note   == Note(l)
<1>1. l \in shape
  BY DEF IsLog
<1>2. /\ logged \in shape
      /\ logged.proposed = l.proposed /\ logged.validated = l.validated
      /\ logged.verdicts = l.verdicts /\ logged.commands = l.commands /\ logged.noted = l.noted
  BY <1>1 DEF Logged
<1>3. /\ note \in shape
      /\ note.proposed = l.proposed /\ note.validated = l.validated
      /\ note.verdicts = l.verdicts /\ note.commands = l.commands
  <2>1. note = [logged EXCEPT !.noted = TRUE]
    BY DEF Note
  <2> HIDE DEF logged, note
  <2> QED BY <1>2, <2>1
<1> HIDE DEF logged, note
<1>4. IsLog(logged)
  BY <1>2 DEF IsLog
<1>5. IsLog(note)
  BY <1>3 DEF IsLog
<1> QED BY <1>2, <1>3, <1>4, <1>5 DEF logged, note

\* A file stays a file, with one key more.
LEMMA FiledIsFiled ==
    ASSUME NEW f, FiledByKey(f), NEW k \in Keys, NEW e
    PROVE  /\ FiledByKey(Filed(f, k, e))
           /\ DOMAIN Filed(f, k, e) = DOMAIN f \cup {k}
  BY DEF FiledByKey, Filed

\* Before the judgement nothing but the cursor and the note of an outage
\* moves on the log, and no decision is in the tick.
LEMMA BeforeJudgement ==
    ASSUME DecisionsInv, tick.at \notin Late, tick'.at \notin Late,
           SurroundingsTypeOK', RecordTypeOK', TickTypeOK', IsLog(log'),
           log'.proposed = log.proposed, log'.validated = log.validated,
           log'.verdicts = log.verdicts, log'.commands = log.commands,
           store' = store, history' = history,
           tick'.at = "judge" => tick'.action = ActionFor(tick'.rec, tick'.by.intent)
    PROVE  DecisionsInv'
<1>1. DecisionsTypeOK'
  BY DEF DecisionsInv, DecisionsTypeOK, StoreTypeOK, HistoryTypeOK
<1>2. TickIsCleared'
  BY DEF TickIsCleared
<1>3. TickIsOnRecord'
  BY DEF TickIsOnRecord, Late
<1>4. LifecyclesAreWhole'
  BY DEF DecisionsInv, LifecyclesAreWhole, EligibleOnLog, Late
<1>5. RunsWereCleared' /\ CommandsAreOnRecord' /\ OnlyACutWedges'
  BY DEF DecisionsInv, RunsWereCleared, CommandsAreOnRecord, OnlyACutWedges
<1> QED BY <1>1, <1>2, <1>3, <1>4, <1>5 DEF DecisionsInv

(***************************************************************************)
(* The steps of the surroundings.                                          *)
(***************************************************************************)
LEMMA PutRecordFits ==
    ASSUME RecordTypeOK, NEW t \in TaskType, PutRecord(t)
    PROVE  RecordTypeOK' /\ record'.version >= record.version
<1>1. record.version \in 1..MaxVersion
  BY DEF RecordTypeOK, Records
<1>2. PICK v \in 1..MaxVersion : record' = Recorded(v, t) /\ v >= record.version
  <2>1. CASE record' = Recorded(record.version, t)
    BY <2>1, <1>1
  <2>2. CASE record.version < MaxVersion /\ record' = Recorded(record.version + 1, t)
    BY <2>2, <1>1, BoundsAssumption
  <2> QED BY <2>1, <2>2 DEF PutRecord
<1> QED BY <1>2, RecordedFits DEF RecordTypeOK

LEMMA RefreshKeeps ==
    ASSUME DecisionsInv, Refresh \/ RefreshMissing
    PROVE  DecisionsInv'
<1>1. PICK t \in TaskType : PutRecord(t)
  BY TaskOfIsATask, TasksAssumption DEF Refresh, RefreshMissing
<1>2. /\ tick = Idle
      /\ UNCHANGED <<settings, goal, hub, experts, log, store, tick, counts, history>>
  BY DEF Refresh, RefreshMissing, Between
<1>3. RecordTypeOK'
  BY <1>1, PutRecordFits DEF DecisionsInv, DecisionsTypeOK
<1>4. tick.at = "idle" /\ tick' = Idle
  BY <1>2 DEF Idle
<1>5. SurroundingsTypeOK' /\ IsLog(log') /\ TickTypeOK'
  BY <1>2 DEF DecisionsInv, DecisionsTypeOK, SurroundingsTypeOK, TickTypeOK
<1> QED BY <1>2, <1>3, <1>4, <1>5, BeforeJudgement DEF Late

LEMMA SetGoalKeeps ==
    ASSUME DecisionsInv, SetGoal
    PROVE  DecisionsInv'
<1> USE DEF DecisionsInv, DecisionsTypeOK
<1>1. PICK s \in {"draft", "ready"} : goal' = [state |-> s, number |-> goal.number + 1]
  BY DEF SetGoal
<1>2. /\ tick.at \notin Late
      /\ log' = Logged(log) /\ counts' = [counts EXCEPT !.goals = @ + 1]
      /\ UNCHANGED <<settings, record, hub, experts, store, tick, history>>
  BY DEF SetGoal, GoalMatters, Late
<1>3. SurroundingsTypeOK'
  <2>1. goal' \in [state : Readiness, number : Nat] /\ goal'.number # 0 /\ goal'.state # "none"
    BY <1>1 DEF SurroundingsTypeOK, Readiness
  <2>2. counts' \in [goals : Nat, outside : Nat, ticks : Nat, cuts : Nat]
    BY <1>2 DEF SurroundingsTypeOK
  <2> QED BY <1>2, <2>1, <2>2 DEF SurroundingsTypeOK
<1>4. RecordTypeOK' /\ TickTypeOK'
  BY <1>2 DEF RecordTypeOK, TickTypeOK
<1>5. tick'.at = "judge" => tick'.action = ActionFor(tick'.rec, tick'.by.intent)
  BY <1>2 DEF TickIsCleared
<1> QED BY <1>2, <1>3, <1>4, <1>5, LoggedIsALog, BeforeJudgement

LEMMA OutsideKeeps ==
    ASSUME DecisionsInv, HubChanges \/ ExpertChanges \/ Reconfigure
    PROVE  DecisionsInv'
<1> USE DEF DecisionsInv, DecisionsTypeOK
<1>1. /\ tick = Idle /\ counts' = [counts EXCEPT !.outside = @ + 1]
      /\ UNCHANGED <<record, goal, log, store, tick, history>>
  BY DEF HubChanges, ExpertChanges, Reconfigure, Between
<1>2. counts' \in [goals : Nat, outside : Nat, ticks : Nat, cuts : Nat]
  BY <1>1 DEF SurroundingsTypeOK
<1>3. hub' \in BOOLEAN
  <2>1. hub' = hub \/ hub' = ~hub
    BY DEF HubChanges, ExpertChanges, Reconfigure
  <2> QED BY <2>1 DEF SurroundingsTypeOK
<1>4. experts' \in [Experts -> {"absent", "bound", "stale"}]
  <2>1. experts' = experts \/ \E e \in Experts, s \in {"bound", "stale"} :
                                 experts' = [experts EXCEPT ![e] = s]
    BY DEF HubChanges, ExpertChanges, Reconfigure
  <2> QED BY <2>1 DEF SurroundingsTypeOK
<1>5. settings' \in [report : Reports \cup {"none"}, repo : Repos]
  <2>1. settings' = settings \/ \E r \in Reports : settings' = [settings EXCEPT !.report = r]
    BY DEF HubChanges, ExpertChanges, Reconfigure
  <2> QED BY <2>1 DEF SurroundingsTypeOK
<1>6. SurroundingsTypeOK'
  BY <1>1, <1>2, <1>3, <1>4, <1>5 DEF SurroundingsTypeOK
<1>7. RecordTypeOK' /\ TickTypeOK'
  BY <1>1 DEF RecordTypeOK, TickTypeOK
<1>8. tick.at = "idle"
  BY <1>1 DEF Idle
<1> QED BY <1>1, <1>6, <1>7, <1>8, BeforeJudgement DEF Late

(***************************************************************************)
(* The tick, up to the judgement.                                          *)
(***************************************************************************)
LEMMA BeginKeeps ==
    ASSUME DecisionsInv, Begin
    PROVE  DecisionsInv'
<1> USE DEF DecisionsInv, DecisionsTypeOK
<1>1. /\ tick = Idle /\ tick' = [at |-> "recall", rec |-> record]
      /\ counts' = [counts EXCEPT !.ticks = @ + 1]
      /\ UNCHANGED <<settings, record, hub, experts, store, history>>
  BY DEF Begin
<1>2. \/ UNCHANGED <<goal, log>>
      \/ goal' = [state |-> "ready", number |-> 1] /\ log' = Logged(log)
  BY DEF Begin
<1>3. tick' \in Early /\ tick'.rec = record /\ tick'.at = "recall" /\ tick.at = "idle"
  BY <1>1 DEF Early, RecordTypeOK, Idle
<1>4. record.version <= record.version
  BY DEF RecordTypeOK, Records
<1>5. TickTypeOK' /\ RecordTypeOK'
  BY <1>1, <1>3, <1>4 DEF TickTypeOK, RecordTypeOK
<1>6. SurroundingsTypeOK'
  <2>1. goal' \in [state : Readiness, number : Nat]
        /\ (goal'.state = "none" <=> goal'.number = 0)
    BY <1>2 DEF SurroundingsTypeOK, Readiness
  <2>2. counts' \in [goals : Nat, outside : Nat, ticks : Nat, cuts : Nat]
    BY <1>1 DEF SurroundingsTypeOK
  <2> QED BY <1>1, <2>1, <2>2 DEF SurroundingsTypeOK
<1>7. /\ IsLog(log') /\ log'.proposed = log.proposed /\ log'.validated = log.validated
      /\ log'.verdicts = log.verdicts /\ log'.commands = log.commands
  BY <1>2, LoggedIsALog
<1> QED BY <1>1, <1>3, <1>5, <1>6, <1>7, BeforeJudgement DEF Late

\* A tick before the judgement goes idle, on with the same record, or to the
\* judgement with the action its record offers.
LEMMA EarlyStep ==
    ASSUME DecisionsInv, tick \in Early,
           \/ tick' = Idle
           \/ \E a \in {"think", "asking"} : tick' = [tick EXCEPT !.at = a]
           \/ /\ tick' \in Chosen /\ tick'.rec = tick.rec
              /\ tick'.action = ActionFor(tick'.rec, tick'.by.intent),
           log' \in {log, Logged(log), Note(log)},
           UNCHANGED <<settings, record, goal, hub, experts, store, counts, history>>
    PROVE  DecisionsInv'
<1> USE DEF DecisionsInv, DecisionsTypeOK
<1>1. tick.at \notin Late /\ tick # Idle
  BY DEF Early, Idle, Late
<1>2. SurroundingsTypeOK' /\ RecordTypeOK'
  BY DEF SurroundingsTypeOK, RecordTypeOK
<1>3. /\ IsLog(log') /\ log'.proposed = log.proposed /\ log'.validated = log.validated
      /\ log'.verdicts = log.verdicts /\ log'.commands = log.commands
  BY LoggedIsALog
<1>4. tick' \in {Idle} \cup Early \cup Chosen /\ (tick' # Idle => tick'.rec = tick.rec)
      /\ (tick'.at = "judge" => tick'.action = ActionFor(tick'.rec, tick'.by.intent))
  <2>1. CASE tick' = Idle
    BY <2>1 DEF Idle
  <2>2. ASSUME NEW a \in {"think", "asking"}, tick' = [tick EXCEPT !.at = a]
        PROVE  tick' \in Early /\ tick'.rec = tick.rec /\ tick'.at # "judge"
    BY <2>2 DEF Early
  <2> QED BY <2>1, <2>2
<1>5. TickTypeOK'
  BY <1>1, <1>2, <1>4 DEF TickTypeOK
<1>6. tick'.at \notin Late
  BY <1>4 DEF Idle, Early, Chosen, Late
<1> QED BY <1>1, <1>2, <1>3, <1>4, <1>5, <1>6, BeforeJudgement

LEMMA RecallKeeps ==
    ASSUME DecisionsInv, Recall
    PROVE  DecisionsInv'
<1>1. tick \in Early
  BY TickShape DEF DecisionsInv, DecisionsTypeOK, Recall
<1>2. /\ tick' = Idle \/ tick' = [tick EXCEPT !.at = "think"]
      /\ log' \in {log, Note(log)}
      /\ UNCHANGED <<settings, record, goal, hub, experts, store, counts, history>>
  BY DEF Recall
<1> QED BY <1>1, <1>2, EarlyStep

LEMMA ChooseMoves ==
    ASSUME DecisionsInv, tick \in Early, NEW i \in IntentType, Choose(i)
    PROVE  /\ log' \in {log, Logged(log)}
           /\ \/ tick' = Idle
              \/ /\ tick' \in Chosen /\ tick'.rec = tick.rec
                 /\ tick'.action = ActionFor(tick'.rec, tick'.by.intent)
<1>1. log' \in {log, Logged(log)}
  BY DEF Choose, Noted
<1>2. ASSUME tick' # Idle
      PROVE  /\ tick' \in Chosen /\ tick'.rec = tick.rec
             /\ tick'.action = ActionFor(tick'.rec, tick'.by.intent)
  <2>1. /\ ActionFor(tick.rec, i.intent) # NoAction
        /\ tick' = [at |-> "judge", rec |-> tick.rec, by |-> i,
                    action |-> ActionFor(tick.rec, i.intent), ready |-> goal.state]
    BY <1>2 DEF Choose
  <2>2. ActionFor(tick.rec, i.intent) \in Actions
    BY <2>1, ActionIsOffered
  <2>3. tick.rec \in Records /\ goal.state \in Readiness
    BY DEF Early, DecisionsInv, DecisionsTypeOK, SurroundingsTypeOK
  <2> QED BY <2>1, <2>2, <2>3 DEF Chosen, IntentType
<1> QED BY <1>1, <1>2

LEMMA ThinkKeeps ==
    ASSUME DecisionsInv, Think
    PROVE  DecisionsInv'
<1>1. tick \in Early
  BY TickShape DEF DecisionsInv, DecisionsTypeOK, Think
<1>2. UNCHANGED <<settings, record, goal, hub, experts, store, counts, history>>
  BY DEF Think
<1> DEFINE c == Context(settings.repo, tick.rec, goal.state)
<1>3. \/ Choose(ByRules(tick.rec.facts)) \/ Choose(Precluding(c, tick.rec.facts))
      \/ tick' = [tick EXCEPT !.at = "asking"] /\ UNCHANGED log
  BY DEF Think
<1> HIDE DEF c
<1>4. CASE \E i \in IntentType : Choose(i)
  BY <1>1, <1>2, <1>4, ChooseMoves, EarlyStep
<1>5. CASE tick' = [tick EXCEPT !.at = "asking"] /\ UNCHANGED log
  BY <1>1, <1>2, <1>5, EarlyStep
<1> QED BY <1>3, <1>4, <1>5, ByRulesIsAnIntent, PrecludingIsAnIntent

LEMMA AnswerKeeps ==
    ASSUME DecisionsInv, Answer
    PROVE  DecisionsInv'
<1>1. tick \in Early
  BY TickShape DEF DecisionsInv, DecisionsTypeOK, Answer
<1>2. UNCHANGED <<settings, record, goal, hub, experts, store, counts, history>>
  BY DEF Answer
<1>3. PICK first \in Answers, second \in Answers, known \in BOOLEAN :
         Choose(FromProvider(Decoded(Final(first, second)), tick.rec.facts, known))
  BY DEF Answer
<1>4. PICK i \in IntentType : Choose(i)
  BY <1>3, FromProviderIsAnIntent
<1> QED BY <1>1, <1>2, <1>4, ChooseMoves, EarlyStep

(***************************************************************************)
(* The judgement, and what follows it.                                     *)
(***************************************************************************)
LEMMA GovernanceFits ==
    ASSUME NEW facts, NEW i \in IntentType, NEW action, NEW p
    PROVE  LET g == Governance(facts, i, action, p, experts)
           IN  /\ g \in [gate : Gates, class : Classes, token : BOOLEAN]
               /\ Gated(p, i.source, experts) = p => g.gate = "eligible"
<1>1. DecisionClass(facts, i.intent, action) \in Classes
  BY DEF DecisionClass, Classes
<1>2. PICK b \in BOOLEAN : b = (i.intent = "branch_complete_switch" /\ i.message)
  BY DEF IntentType
<1>3. PICK gate \in Gates :
         gate = IF Gated(p, i.source, experts) = p THEN "eligible" ELSE "suppressed"
  BY DEF Gates
<1>4. Governance(facts, i, action, p, experts) =
         [gate |-> gate, class |-> DecisionClass(facts, i.intent, action), token |-> b]
  BY <1>2, <1>3 DEF Governance
<1> QED BY <1>1, <1>3, <1>4

\* A judgement is a decision, and an automatic one is cleared by what was read.
LEMMA JudgedFits ==
    ASSUME DecisionsInv, tick \in Chosen
    PROVE  /\ Judged \in DecisionType
           /\ Judged.result = Automatic =>
                /\ ClearedBy(Judged, tick.rec, tick.ready, Healthy(experts), log.noted, settings.report)
                /\ Judged.governance.gate = "eligible"
<1> USE DEF DecisionsInv, DecisionsTypeOK
<1>1. PICK i \in IntentType : i = tick.by
  BY DEF Chosen, IntentType
<1>2. PICK rec \in Records : rec = tick.rec /\ RecordFits(rec)
  BY DEF Chosen, TickTypeOK, Idle
<1>3. PICK action \in Actions, ready \in Readiness : action = tick.action /\ ready = tick.ready
  BY DEF Chosen
<1> DEFINE v == Validator(i, ready, log.noted)
           w == ReleaseGate(i, v, settings.report)
           p == Policy(rec.facts, i, action, ready, v, w)
           gated == Gated(p, i.source, experts)
           g == Governance(rec.facts, i, action, p, experts)
<1>4. Judged = [version |-> rec.version, result |-> gated, intent |-> i.intent,
                action |-> action, asked |-> rec.asked, source |-> i.source,
                trace |-> Trace, validator |-> v, release |-> w, governance |-> g]
  BY <1>1, <1>2, <1>3 DEF Judged, Evidence
<1>5. v \in Verdicts /\ w \in Verdicts
  BY VerdictsAreVerdicts
<1>6. /\ p \in {Automatic, Ask, Stop}
      /\ p = Automatic => /\ rec.facts \cap ApprovalFacts = {}
                          /\ ready # "draft" /\ GatesOpen(i, v, w)
  BY PolicyIsThreeWay
<1>7. /\ gated \in {Automatic, Ask, Stop}
      /\ gated = Automatic => gated = p
      /\ gated = Automatic /\ i.source = Model => Healthy(experts)
  <2> HIDE DEF p
  <2> QED BY <1>6 DEF Gated, Automatic, Stop
<1>8. g \in [gate : Gates, class : Classes, token : BOOLEAN] /\ (gated = p => g.gate = "eligible")
  <2> HIDE DEF p
  <2> QED BY GovernanceFits
<1>9. Trace \in [cursor : Nat, goal : Nat]
  BY DEF Trace, IsLog, SurroundingsTypeOK
<1>10. action = ActionFor(rec, i.intent) /\ action # NoAction
  BY <1>1, <1>2, <1>3, NoActionAssumption DEF TickIsCleared, Chosen
<1>11. ASSUME GatesOpen(i, v, w)
       PROVE  /\ settings.report # "unreadable"
              /\ i.intent = "propose_execute" => settings.report = "none" /\ ~log.noted
  <2>1. v = "pass" /\ (IF i.intent = "propose_execute" THEN w = "pass"
                                                       ELSE w \in {"pass", "not_applicable"})
    BY <1>11 DEF GatesOpen
  <2>2. settings.report # "unreadable"
    BY <2>1 DEF ReleaseGate
  <2>3. ASSUME i.intent = "propose_execute" PROVE settings.report = "none" /\ ~log.noted
    <3>1. ~log.noted
      BY <2>1, <2>3 DEF Validator
    <3>2. settings.report = "none"
      <4> HIDE DEF v
      <4> QED BY <2>1, <2>2, <2>3 DEF ReleaseGate, ReportFails
    <3> QED BY <3>1, <3>2
  <2> QED BY <2>2, <2>3
<1> HIDE DEF v, w, p, gated, g
<1>12. Judged \in DecisionType
  <2>1. rec.version \in 1..MaxVersion /\ rec.asked \in BOOLEAN
    BY DEF Records
  <2>2. i.intent \in IntentKinds /\ i.source \in Sources
    BY DEF IntentType
  <2> QED BY <1>4, <1>5, <1>7, <1>8, <1>9, <2>1, <2>2 DEF DecisionType
<1>13. ASSUME Judged.result = Automatic
       PROVE  /\ ClearedBy(Judged, rec, ready, Healthy(experts), log.noted, settings.report)
              /\ Judged.governance.gate = "eligible"
  <2>1. gated = Automatic /\ p = Automatic
    BY <1>4, <1>7, <1>13
  <2>2. rec.facts \cap ApprovalFacts = {} /\ ready # "draft" /\ GatesOpen(i, v, w)
    BY <1>6, <2>1
  <2>3. ~rec.asked
    BY <1>2, <2>2 DEF RecordFits
  <2>4. /\ Judged.source = i.source /\ Judged.intent = i.intent
        /\ Judged.action = action /\ Judged.governance = g
    BY <1>4
  <2>5. /\ "project_not_active" \notin rec.facts
        /\ i.intent = "propose_execute" => "continue_session" \in rec.intents
        /\ i.intent = "propose_recovery" => action \in rec.intents
    BY <1>10, ActionIsOffered
  <2> QED BY <1>7, <1>8, <1>11, <2>1, <2>2, <2>3, <2>4, <2>5 DEF ClearedBy
<1> QED BY <1>2, <1>3, <1>12, <1>13

LEMMA JudgeKeeps ==
    ASSUME DecisionsInv, Judge
    PROVE  DecisionsInv'
<1> USE DEF DecisionsInv, DecisionsTypeOK
<1>1. tick \in Chosen
  BY TickShape DEF Judge
<1>2. PICK d \in DecisionType : d = Judged
  BY <1>1, JudgedFits
<1>3. PICK h \in BOOLEAN : h = Healthy(experts)
  BY DEF Healthy
<1>4. /\ tick' = [at |-> Settle(d), rec |-> tick.rec, d |-> d, ready |-> tick.ready, healthy |-> h]
      /\ UNCHANGED <<settings, record, goal, hub, experts, log, store, counts, history>>
  BY <1>2, <1>3 DEF Judge
<1>5. /\ Settle(d) \in {"put", "propose"}
      /\ Settle(d) = "put" <=> Key(d) \in DOMAIN log.proposed /\ Key(d) \in log.validated
  BY DEF Settle, Canonicalised
<1>6. tick.rec \in Records /\ tick.ready \in Readiness /\ tick.at = "judge" /\ tick # Idle
  BY <1>1 DEF Chosen, Idle
<1>7. /\ tick' \in Decided /\ tick'.rec = tick.rec /\ tick'.d = d /\ tick'.ready = tick.ready
      /\ tick'.healthy = h /\ tick'.at = Settle(d)
  BY <1>4, <1>5, <1>6 DEF Decided
<1>8. DecisionsTypeOK'
  <2>1. TickTypeOK'
    BY <1>4, <1>6, <1>7 DEF TickTypeOK
  <2> QED BY <1>4, <2>1 DEF SurroundingsTypeOK, RecordTypeOK, StoreTypeOK, HistoryTypeOK
<1>9. TickIsCleared'
  <2>1. tick'.d.result = Automatic =>
            /\ ClearedBy(d, tick.rec, tick.ready, h, log.noted, settings.report)
            /\ d.governance.gate = "eligible"
    BY <1>1, <1>2, <1>3, <1>7, JudgedFits
  <2> QED BY <1>4, <1>5, <1>7, <2>1 DEF TickIsCleared
<1>10. TickIsOnRecord'
  BY <1>4, <1>5, <1>7 DEF TickIsOnRecord, IsLog
<1>11. LifecyclesAreWhole'
  BY <1>4, <1>6 DEF LifecyclesAreWhole, EligibleOnLog
<1>12. RunsWereCleared' /\ CommandsAreOnRecord' /\ OnlyACutWedges'
  BY <1>4 DEF RunsWereCleared, CommandsAreOnRecord, OnlyACutWedges
<1> QED BY <1>8, <1>9, <1>10, <1>11, <1>12

\* A tick past the judgement takes its next step, or ends.
LEMMA DecidedMoves ==
    ASSUME TickTypeOK, tick \in Decided
    PROVE  /\ tick.d \in DecisionType /\ Key(tick.d) \in Keys /\ tick # Idle
           /\ \A a \in Late :
                 LET t == [tick EXCEPT !.at = a]
                 IN  t \in Decided /\ t.at = a /\ t.rec = tick.rec /\ t.d = tick.d
                     /\ t.ready = tick.ready /\ t.healthy = tick.healthy
           /\ Idle.at \notin Late /\ Idle.at # "judge"
<1>1. tick.d \in DecisionType /\ tick # Idle
  BY DEF Decided, Idle
<1>2. ASSUME NEW a \in Late
      PROVE  LET t == [tick EXCEPT !.at = a]
             IN  t \in Decided /\ t.at = a /\ t.rec = tick.rec /\ t.d = tick.d
                 /\ t.ready = tick.ready /\ t.healthy = tick.healthy
  BY DEF Decided, Late
<1>3. Idle.at \notin Late /\ Idle.at # "judge"
  BY DEF Idle, Late
<1> QED BY <1>1, <1>2, <1>3, KeyIs

LEMMA ProposeKeeps ==
    ASSUME DecisionsInv, Propose
    PROVE  DecisionsInv'
<1> USE DEF DecisionsInv, DecisionsTypeOK
<1>1. tick \in Decided /\ tick.at = "propose"
  BY TickShape DEF Propose, Late
<1> DEFINE key == Key(tick.d)
<1>2. UNCHANGED <<settings, record, goal, hub, experts, store, counts>>
  BY DEF Propose
<1>3. key \in Keys /\ key \notin log.validated
  BY <1>1, DecidedMoves DEF TickIsOnRecord
<1>4. CASE /\ ProposalConflicts(tick.d) /\ tick' = Idle /\ UNCHANGED log
           /\ history' = [history EXCEPT !.refused = @ \cup {key}]
  <2>1. history' \in [runs : SUBSET Runs, cut : SUBSET Keys, blind : SUBSET Keys,
                      refused : SUBSET Keys]
        /\ history'.runs = history.runs /\ history'.cut = history.cut
        /\ history'.blind = history.blind /\ history'.refused = history.refused \cup {key}
    BY <1>3, <1>4 DEF HistoryTypeOK
  <2>2. key \in history.cut
    BY <1>1, <1>3, <1>4 DEF LifecyclesAreWhole, ProposalConflicts
  <2>3. tick'.at \notin Late /\ tick'.at # "judge"
    BY <1>1, <1>4, DecidedMoves
  <2>4. DecisionsTypeOK'
    BY <1>2, <1>4, <2>1
      DEF SurroundingsTypeOK, RecordTypeOK, StoreTypeOK, TickTypeOK, HistoryTypeOK
  <2>5. TickIsCleared' /\ TickIsOnRecord'
    BY <2>3 DEF TickIsCleared, TickIsOnRecord, Late
  <2>6. LifecyclesAreWhole'
    BY <1>1, <1>4, <2>1 DEF LifecyclesAreWhole, EligibleOnLog
  <2>7. RunsWereCleared' /\ CommandsAreOnRecord' /\ OnlyACutWedges'
    BY <1>2, <1>4, <2>1, <2>2 DEF RunsWereCleared, CommandsAreOnRecord, OnlyACutWedges
  <2> QED BY <2>4, <2>5, <2>6, <2>7
<1>5. CASE /\ log' = [Logged(log) EXCEPT !.proposed = Filed(@, key, tick.d.trace)]
           /\ tick' = [tick EXCEPT !.at = "validate"] /\ UNCHANGED history
  <2>1. /\ FiledByKey(Filed(log.proposed, key, tick.d.trace))
        /\ DOMAIN Filed(log.proposed, key, tick.d.trace) = DOMAIN log.proposed \cup {key}
    <3>1. FiledByKey(log.proposed) /\ key \in Keys
      BY <1>3 DEF IsLog
    <3> HIDE DEF key
    <3> QED BY <3>1, FiledIsFiled
  <2>2. IsLog(Logged(log)) /\ Logged(log).proposed = log.proposed
        /\ Logged(log).validated = log.validated /\ Logged(log).verdicts = log.verdicts
        /\ Logged(log).commands = log.commands /\ Logged(log).noted = log.noted
    BY LoggedIsALog
  <2> DEFINE l == Logged(log)
             f == Filed(log.proposed, key, tick.d.trace)
  <2>3. log' = [l EXCEPT !.proposed = f]
    BY <1>5, <2>2
  <2> HIDE DEF l, f
  <2>4. /\ log'.proposed = f /\ log'.validated = l.validated /\ log'.verdicts = l.verdicts
        /\ log'.commands = l.commands /\ log'.noted = l.noted
        /\ log' \in [cursor : Nat, proposed : {log'.proposed}, validated : SUBSET Keys,
              verdicts : SUBSET [key : Keys, gate : Gates, class : Classes,
                                 token : {"none", "issued", "invalidated"}],
              noted : BOOLEAN, commands : SUBSET Keys]
    BY <2>2, <2>3 DEF IsLog, l
  <2>5. IsLog(log')
    BY <2>1, <2>2, <2>4 DEF IsLog, l, f
  <2>6. tick' \in Decided /\ tick'.at = "validate" /\ tick'.rec = tick.rec /\ tick'.d = tick.d
        /\ tick'.ready = tick.ready /\ tick'.healthy = tick.healthy /\ tick # Idle
    BY <1>1, <1>5, DecidedMoves DEF Late
  <2>7. DecisionsTypeOK'
    BY <1>2, <1>5, <2>5, <2>6
      DEF SurroundingsTypeOK, RecordTypeOK, StoreTypeOK, TickTypeOK, HistoryTypeOK
  <2>8. TickIsCleared'
    BY <1>1, <1>2, <2>2, <2>4, <2>6 DEF TickIsCleared, Late, l
  <2>9. TickIsOnRecord'
    BY <2>1, <2>4, <2>6 DEF TickIsOnRecord, f
  <2>10. LifecyclesAreWhole'
    BY <1>1, <1>5, <2>1, <2>2, <2>4, <2>6 DEF LifecyclesAreWhole, EligibleOnLog, l, f
  <2>11. RunsWereCleared' /\ CommandsAreOnRecord' /\ OnlyACutWedges'
    BY <1>2, <1>5, <2>2, <2>4 DEF RunsWereCleared, CommandsAreOnRecord, OnlyACutWedges, l
  <2> QED BY <2>7, <2>8, <2>9, <2>10, <2>11
<1> QED BY <1>1, <1>4, <1>5 DEF Propose

LEMMA ValidateKeeps ==
    ASSUME DecisionsInv, Validate
    PROVE  DecisionsInv'
<1> USE DEF DecisionsInv, DecisionsTypeOK
<1>1. tick \in Decided /\ tick.at = "validate"
  BY TickShape DEF Validate, Late
<1> DEFINE key == Key(tick.d)
<1>2. UNCHANGED <<settings, record, goal, hub, experts, store, counts, history>>
  BY DEF Validate
<1>3. key \in Keys /\ key \in DOMAIN log.proposed
  BY <1>1, DecidedMoves DEF TickIsOnRecord
<1>4. IsLog(Logged(log)) /\ Logged(log).proposed = log.proposed
      /\ Logged(log).validated = log.validated /\ Logged(log).verdicts = log.verdicts
      /\ Logged(log).commands = log.commands /\ Logged(log).noted = log.noted
  BY LoggedIsALog
<1> DEFINE l == Logged(log)
<1>5. log' = [l EXCEPT !.validated = log.validated \cup {key}]
  BY <1>4 DEF Validate
<1> HIDE DEF l, key
<1>6. /\ log'.proposed = log.proposed /\ log'.validated = log.validated \cup {key}
      /\ log'.verdicts = log.verdicts /\ log'.commands = log.commands /\ log'.noted = log.noted
      /\ log' \in [cursor : Nat, proposed : {log'.proposed}, validated : SUBSET Keys,
            verdicts : SUBSET [key : Keys, gate : Gates, class : Classes,
                               token : {"none", "issued", "invalidated"}],
            noted : BOOLEAN, commands : SUBSET Keys]
  BY <1>3, <1>4, <1>5 DEF IsLog, l
<1>7. IsLog(log')
  BY <1>3, <1>6 DEF IsLog
<1>8. tick' \in Decided /\ tick'.at = "verdict" /\ tick'.rec = tick.rec /\ tick'.d = tick.d
      /\ tick'.ready = tick.ready /\ tick'.healthy = tick.healthy /\ tick # Idle
  BY <1>1, DecidedMoves DEF Validate, Late
<1>9. DecisionsTypeOK'
  BY <1>2, <1>7, <1>8
    DEF SurroundingsTypeOK, RecordTypeOK, StoreTypeOK, TickTypeOK, HistoryTypeOK
<1>10. TickIsCleared'
  BY <1>1, <1>2, <1>6, <1>8 DEF TickIsCleared, Late
<1>11. TickIsOnRecord'
  BY <1>6, <1>8 DEF TickIsOnRecord, key
<1>12. LifecyclesAreWhole'
  BY <1>1, <1>2, <1>6, <1>8 DEF LifecyclesAreWhole, EligibleOnLog, key
<1>13. RunsWereCleared' /\ CommandsAreOnRecord' /\ OnlyACutWedges'
  BY <1>2, <1>6 DEF RunsWereCleared, CommandsAreOnRecord, OnlyACutWedges
<1> QED BY <1>9, <1>10, <1>11, <1>12, <1>13

LEMMA VerdictKeeps ==
    ASSUME DecisionsInv, Verdict
    PROVE  DecisionsInv'
<1> USE DEF DecisionsInv, DecisionsTypeOK
<1>1. tick \in Decided /\ tick.at = "verdict"
  BY TickShape DEF Verdict, Late
<1> DEFINE key == Key(tick.d)
           g == tick.d.governance
           v == [key |-> key, gate |-> g.gate, class |-> g.class, token |-> TokenState(g)]
<1>2. UNCHANGED <<settings, record, goal, hub, experts, store, counts, history>>
  BY DEF Verdict
<1>3. key \in Keys /\ key \in log.validated /\ tick.d \in DecisionType
  BY <1>1, DecidedMoves DEF TickIsOnRecord
<1>4. v \in [key : Keys, gate : Gates, class : Classes, token : {"none", "issued", "invalidated"}]
      /\ v.key = key /\ v.gate = g.gate
  <2>1. TokenState(g) \in {"none", "issued", "invalidated"}
    BY DEF TokenState
  <2>2. g \in [gate : Gates, class : Classes, token : BOOLEAN]
    BY <1>3 DEF DecisionType
  <2> HIDE DEF g, key
  <2> QED BY <1>3, <2>1, <2>2
<1>5. IsLog(Logged(log)) /\ Logged(log).proposed = log.proposed
      /\ Logged(log).validated = log.validated /\ Logged(log).verdicts = log.verdicts
      /\ Logged(log).commands = log.commands /\ Logged(log).noted = log.noted
  BY LoggedIsALog
<1> DEFINE l == Logged(log)
<1>6. log' = [l EXCEPT !.verdicts = log.verdicts \cup {v}]
  BY <1>5 DEF Verdict
<1> HIDE DEF l, v
<1>7. /\ log'.proposed = log.proposed /\ log'.validated = log.validated
      /\ log'.verdicts = log.verdicts \cup {v} /\ log'.commands = log.commands
      /\ log'.noted = log.noted
      /\ log' \in [cursor : Nat, proposed : {log'.proposed}, validated : SUBSET Keys,
            verdicts : SUBSET [key : Keys, gate : Gates, class : Classes,
                               token : {"none", "issued", "invalidated"}],
            noted : BOOLEAN, commands : SUBSET Keys]
  BY <1>4, <1>5, <1>6 DEF IsLog, l
<1>8. IsLog(log')
  BY <1>3, <1>4, <1>7 DEF IsLog
<1>9. tick' \in Decided /\ tick'.at = "put" /\ tick'.rec = tick.rec /\ tick'.d = tick.d
      /\ tick'.ready = tick.ready /\ tick'.healthy = tick.healthy /\ tick # Idle
  BY <1>1, DecidedMoves DEF Verdict, Late
<1>10. DecisionsTypeOK'
  BY <1>2, <1>8, <1>9
    DEF SurroundingsTypeOK, RecordTypeOK, StoreTypeOK, TickTypeOK, HistoryTypeOK
<1>11. TickIsCleared'
  BY <1>1, <1>2, <1>7, <1>9 DEF TickIsCleared, Late
<1>12. TickIsOnRecord'
  BY <1>3, <1>7, <1>9 DEF TickIsOnRecord
<1>13. LifecyclesAreWhole'
  <2>1. \A k \in DOMAIN log'.proposed : k \in log'.validated \/ k \in history'.cut
    BY <1>1, <1>2, <1>7 DEF LifecyclesAreWhole
  <2>2. ASSUME NEW k \in log'.validated, k.result = Automatic
        PROVE  k \in history'.blind \/ EligibleOnLog(k)'
    <3>1. CASE k = key
      <4>1. tick.d.result = Automatic
        BY <1>3, <2>2, <3>1, KeyIs
      <4>2. v.gate = "eligible" /\ v \in log'.verdicts /\ v.key = k
        BY <1>1, <1>4, <1>7, <3>1, <4>1 DEF TickIsCleared, Late
      <4> QED BY <4>2 DEF EligibleOnLog
    <3>2. CASE k # key
      <4>1. k \in history.blind \/ EligibleOnLog(k)
        BY <1>7, <2>2, <3>2 DEF LifecyclesAreWhole
      <4> QED BY <1>2, <1>7, <4>1 DEF EligibleOnLog
    <3> QED BY <3>1, <3>2
  <2> QED BY <2>1, <2>2 DEF LifecyclesAreWhole
<1>14. RunsWereCleared' /\ CommandsAreOnRecord' /\ OnlyACutWedges'
  BY <1>2, <1>7 DEF RunsWereCleared, CommandsAreOnRecord, OnlyACutWedges
<1> QED BY <1>10, <1>11, <1>12, <1>13, <1>14

LEMMA MergedFits ==
    ASSUME StoreTypeOK, NEW d \in DecisionType
    PROVE  /\ Merged(d) \in DecisionType
           /\ Key(Merged(d)) = Key(d) /\ Merged(d).result = d.result
           /\ Merged(d).source = d.source /\ Merged(d).intent = d.intent
           /\ Merged(d).action = d.action /\ Merged(d).governance = d.governance
<1>1. CASE Key(d) \notin DOMAIN store
  BY <1>1 DEF Merged
<1>2. CASE Key(d) \in DOMAIN store
  <2>1. PICK e \in DecisionType : e = store[Key(d)]
    BY <1>2 DEF StoreTypeOK
  <2>2. Merged(d) = [d EXCEPT !.validator = e.validator, !.release = e.release, !.trace = e.trace]
    BY <1>2, <2>1 DEF Merged
  <2> QED BY <2>1, <2>2 DEF DecisionType, Key
<1> QED BY <1>1, <1>2

LEMMA PutKeeps ==
    ASSUME DecisionsInv, Put
    PROVE  DecisionsInv'
<1> USE DEF DecisionsInv, DecisionsTypeOK
<1>1. tick \in Decided /\ tick.at = "put"
  BY TickShape DEF Put, Late
<1>2. PICK d \in DecisionType : d = tick.d
  BY <1>1, DecidedMoves
<1>3. PICK m \in DecisionType :
         /\ m = Merged(d) /\ Key(m) = Key(d) /\ m.result = d.result
         /\ m.source = d.source /\ m.intent = d.intent
         /\ m.action = d.action /\ m.governance = d.governance
  BY MergedFits
<1>4. PICK key \in Keys : key = Key(d) /\ key \in log.validated /\ key.result = d.result
  BY <1>1, <1>2, KeyIs DEF TickIsOnRecord
<1>5. /\ store' = Filed(store, key, m) /\ tick' = [tick EXCEPT !.at = "act", !.d = m]
      /\ UNCHANGED <<settings, record, goal, hub, experts, log, counts, history>>
  BY <1>2, <1>3, <1>4 DEF Put
<1>6. /\ FiledByKey(store') /\ DOMAIN store' = DOMAIN store \cup {key}
      /\ store'[key] = m /\ \A x \in DOMAIN store : x # key => store'[x] = store[x]
  <2>1. FiledByKey(store)
    BY DEF StoreTypeOK
  <2>2. /\ FiledByKey(Filed(store, key, m))
        /\ DOMAIN Filed(store, key, m) = DOMAIN store \cup {key}
    BY <2>1, FiledIsFiled
  <2>3. /\ Filed(store, key, m)[key] = m
        /\ \A x \in DOMAIN store : x # key => Filed(store, key, m)[x] = store[x]
    BY DEF Filed
  <2> QED BY <1>5, <2>2, <2>3
<1>7. StoreTypeOK'
  BY <1>3, <1>4, <1>6 DEF StoreTypeOK
<1>8. tick' \in Decided /\ tick'.at = "act" /\ tick'.rec = tick.rec /\ tick'.d = m
      /\ tick'.ready = tick.ready /\ tick'.healthy = tick.healthy /\ tick # Idle
  <2>1. /\ tick.rec \in Records /\ tick.ready \in Readiness /\ tick.healthy \in BOOLEAN
        /\ tick # Idle
    BY <1>1 DEF Decided, Idle
  <2>2. tick' = [at |-> "act", rec |-> tick.rec, d |-> m, ready |-> tick.ready,
                 healthy |-> tick.healthy]
    BY <1>1, <1>5 DEF Decided
  <2> QED BY <2>1, <2>2 DEF Decided
<1>9. DecisionsTypeOK'
  BY <1>5, <1>7, <1>8 DEF SurroundingsTypeOK, RecordTypeOK, TickTypeOK, HistoryTypeOK
<1>10. TickIsCleared'
  <2>1. ASSUME m.result = Automatic
        PROVE  /\ ClearedBy(m, tick.rec, tick.ready, tick.healthy, log.noted, settings.report)
               /\ m.governance.gate = "eligible"
    BY <1>1, <1>2, <1>3, <2>1 DEF TickIsCleared, ClearedBy, Late
  <2> QED BY <1>5, <1>8, <2>1 DEF TickIsCleared
<1>11. TickIsOnRecord'
  BY <1>3, <1>4, <1>5, <1>6, <1>8 DEF TickIsOnRecord
<1>12. LifecyclesAreWhole'
  BY <1>1, <1>5 DEF LifecyclesAreWhole, EligibleOnLog
<1>13. CommandsAreOnRecord'
  <2>1. \A k \in log.commands : k \in DOMAIN store' /\ store'[k].result = Automatic
    <3> SUFFICES ASSUME NEW k \in log.commands
                 PROVE  k \in DOMAIN store' /\ store'[k].result = Automatic
      OBVIOUS
    <3>1. k \in DOMAIN store /\ store[k].result = Automatic
      BY DEF CommandsAreOnRecord
    <3>2. CASE k = key
      <4>1. store[k] \in DecisionType /\ Key(store[k]) = k
        BY <3>1 DEF StoreTypeOK
      <4>2. key.result = Automatic
        BY <3>1, <3>2, <4>1, KeyIs
      <4> QED BY <1>3, <1>4, <1>6, <3>2, <4>2
    <3> QED BY <1>6, <3>1, <3>2
  <2> QED BY <1>4, <1>5, <1>6, <2>1 DEF CommandsAreOnRecord
<1>14. RunsWereCleared' /\ OnlyACutWedges'
  BY <1>5 DEF RunsWereCleared, OnlyACutWedges
<1> QED BY <1>9, <1>10, <1>11, <1>12, <1>13, <1>14

LEMMA ActKeeps ==
    ASSUME DecisionsInv, Act
    PROVE  DecisionsInv'
<1> USE DEF DecisionsInv, DecisionsTypeOK
<1>1. tick \in Decided /\ tick.at = "act"
  BY TickShape DEF Act, Late
<1>2. PICK d \in DecisionType : d = tick.d
  BY <1>1, DecidedMoves
<1> DEFINE key == Key(d)
<1>3. /\ tick' = Idle /\ Idle.at \notin Late /\ Idle.at # "judge"
      /\ UNCHANGED <<settings, record, goal, hub, experts, store, counts>>
  BY <1>1, DecidedMoves DEF Act
<1>4. key \in Keys /\ key \in log.validated /\ key \in DOMAIN store /\ key.result = d.result
  BY <1>1, <1>2, KeyIs DEF TickIsOnRecord
<1>5. TickTypeOK' /\ SurroundingsTypeOK' /\ RecordTypeOK' /\ StoreTypeOK'
  BY <1>3 DEF SurroundingsTypeOK, RecordTypeOK, StoreTypeOK, TickTypeOK
<1>6. TickIsCleared' /\ TickIsOnRecord'
  BY <1>3 DEF TickIsCleared, TickIsOnRecord, Late
<1>7. CASE UNCHANGED <<log, history>>
  <2>1. DecisionsTypeOK'
    BY <1>5, <1>7 DEF HistoryTypeOK
  <2>2. LifecyclesAreWhole'
    BY <1>1, <1>7 DEF LifecyclesAreWhole, EligibleOnLog
  <2>3. RunsWereCleared' /\ CommandsAreOnRecord' /\ OnlyACutWedges'
    BY <1>3, <1>7 DEF RunsWereCleared, CommandsAreOnRecord, OnlyACutWedges
  <2> QED BY <1>6, <2>1, <2>2, <2>3
<1>8. ASSUME MayRun(d),
             log' = [Logged(log) EXCEPT !.commands = @ \cup {key}],
             history' = [history EXCEPT !.runs = @ \cup
                  {[d |-> tick.d, rec |-> tick.rec, ready |-> tick.ready,
                    healthy |-> tick.healthy, noted |-> log.noted,
                    report |-> settings.report]}]
      PROVE  DecisionsInv'
  <2>1. d.result = Automatic
    BY <1>8 DEF MayRun
  <2>2. IsLog(Logged(log)) /\ Logged(log).proposed = log.proposed
        /\ Logged(log).validated = log.validated /\ Logged(log).verdicts = log.verdicts
        /\ Logged(log).commands = log.commands /\ Logged(log).noted = log.noted
    BY LoggedIsALog
  <2> DEFINE l == Logged(log)
             run == [d |-> tick.d, rec |-> tick.rec, ready |-> tick.ready,
                     healthy |-> tick.healthy, noted |-> log.noted, report |-> settings.report]
  <2>3. log' = [l EXCEPT !.commands = log.commands \cup {key}]
    BY <1>8, <2>2
  <2>4. /\ run \in Runs /\ run.d = tick.d /\ run.rec = tick.rec /\ run.ready = tick.ready
        /\ run.healthy = tick.healthy /\ run.noted = log.noted /\ run.report = settings.report
    <3>1. /\ tick.d \in DecisionType /\ tick.rec \in Records /\ tick.ready \in Readiness
          /\ tick.healthy \in BOOLEAN
      BY <1>1 DEF Decided
    <3>2. log.noted \in BOOLEAN /\ settings.report \in Reports \cup {"none"}
      BY DEF IsLog, SurroundingsTypeOK
    <3> QED BY <3>1, <3>2 DEF Runs
  <2>5. ClearedBy(run.d, run.rec, run.ready, run.healthy, run.noted, run.report)
    <3>1. ClearedBy(tick.d, tick.rec, tick.ready, tick.healthy, log.noted, settings.report)
      BY <1>1, <1>2, <2>1 DEF TickIsCleared, Late
    <3> HIDE DEF run
    <3> QED BY <2>4, <3>1
  <2> HIDE DEF l, key, run
  <2>6. /\ log'.proposed = log.proposed /\ log'.validated = log.validated
        /\ log'.verdicts = log.verdicts /\ log'.commands = log.commands \cup {key}
        /\ log' \in [cursor : Nat, proposed : {log'.proposed}, validated : SUBSET Keys,
              verdicts : SUBSET [key : Keys, gate : Gates, class : Classes,
                                 token : {"none", "issued", "invalidated"}],
              noted : BOOLEAN, commands : SUBSET Keys]
    BY <1>4, <2>2, <2>3 DEF IsLog, l
  <2>7. IsLog(log')
    BY <2>6 DEF IsLog
  <2>8. /\ HistoryTypeOK' /\ history'.runs = history.runs \cup {run}
        /\ history'.cut = history.cut /\ history'.blind = history.blind
        /\ history'.refused = history.refused
    <3>1. history' = [history EXCEPT !.runs = history.runs \cup {run}]
      BY <1>8 DEF run
    <3> QED BY <2>4, <3>1 DEF HistoryTypeOK
  <2>9. LifecyclesAreWhole'
    BY <1>1, <2>6, <2>8 DEF LifecyclesAreWhole, EligibleOnLog
  <2>10. RunsWereCleared'
    <3>1. \A r \in history'.runs : r \in history.runs \/ r = run
      BY <2>8
    <3> QED BY <2>5, <3>1 DEF RunsWereCleared
  <2>11. CommandsAreOnRecord'
    <3> SUFFICES ASSUME NEW k \in log'.commands
                 PROVE  /\ k \in log.validated
                        /\ k \in DOMAIN store /\ store[k].result = Automatic
                        /\ k \in history.blind \/ EligibleOnLog(k)
      BY <1>3, <2>6, <2>8 DEF CommandsAreOnRecord, EligibleOnLog
    <3>1. CASE k \in log.commands
      BY <3>1 DEF CommandsAreOnRecord, EligibleOnLog
    <3>2. CASE k = key
      <4>1. store[k] \in DecisionType /\ Key(store[k]) = k
        BY <1>4, <3>2 DEF StoreTypeOK, key
      <4>2. k.result = Automatic /\ k \in log.validated
        BY <1>4, <2>1, <3>2 DEF key
      <4>3. store[k].result = Automatic
        BY <4>1, <4>2, KeyIs
      <4>4. k \in history.blind \/ EligibleOnLog(k)
        BY <1>1, <4>2 DEF LifecyclesAreWhole
      <4> QED BY <1>4, <3>2, <4>2, <4>3, <4>4 DEF key
    <3> QED BY <2>6, <3>1, <3>2
  <2>12. OnlyACutWedges'
    BY <2>8 DEF OnlyACutWedges
  <2> QED BY <1>5, <1>6, <2>7, <2>8, <2>9, <2>10, <2>11, <2>12
<1> QED BY <1>2, <1>7, <1>8 DEF Act

LEMMA CutKeeps ==
    ASSUME DecisionsInv, Cut
    PROVE  DecisionsInv'
<1> USE DEF DecisionsInv, DecisionsTypeOK
<1>1. /\ tick' = Idle /\ Idle.at \notin Late /\ Idle.at # "judge"
      /\ counts' = [counts EXCEPT !.cuts = @ + 1]
      /\ UNCHANGED <<settings, record, goal, hub, experts, log, store>>
  BY DEF Cut, Idle, Late
<1>2. SurroundingsTypeOK' /\ RecordTypeOK' /\ StoreTypeOK' /\ TickTypeOK'
  <2>1. counts' \in [goals : Nat, outside : Nat, ticks : Nat, cuts : Nat]
    BY <1>1 DEF SurroundingsTypeOK
  <2> QED BY <1>1, <2>1 DEF SurroundingsTypeOK, RecordTypeOK, StoreTypeOK, TickTypeOK
<1>3. tick.at \in {"validate", "verdict"} => Key(tick.d) \in Keys
  BY TickShape, DecidedMoves DEF Late
<1> DEFINE cut   == IF tick.at = "validate" THEN history.cut \cup {Key(tick.d)} ELSE history.cut
           blind == IF tick.at = "verdict" THEN history.blind \cup {Key(tick.d)} ELSE history.blind
<1>4. history' = [history EXCEPT !.cut = cut, !.blind = blind]
  BY DEF Cut
<1>5. cut \in SUBSET Keys /\ blind \in SUBSET Keys
  BY <1>3 DEF HistoryTypeOK
<1>6. /\ history.cut \subseteq cut /\ history.blind \subseteq blind
      /\ tick.at = "validate" => Key(tick.d) \in cut
      /\ tick.at = "verdict" => Key(tick.d) \in blind
  OBVIOUS
<1> HIDE DEF cut, blind
<1>7. /\ HistoryTypeOK' /\ history'.cut = cut /\ history'.blind = blind
      /\ history'.runs = history.runs /\ history'.refused = history.refused
  BY <1>4, <1>5 DEF HistoryTypeOK
<1>8. TickIsCleared' /\ TickIsOnRecord'
  BY <1>1 DEF TickIsCleared, TickIsOnRecord, Late
<1>9. LifecyclesAreWhole'
  BY <1>1, <1>6, <1>7 DEF LifecyclesAreWhole, EligibleOnLog
<1>10. RunsWereCleared' /\ CommandsAreOnRecord' /\ OnlyACutWedges'
  BY <1>1, <1>6, <1>7 DEF RunsWereCleared, CommandsAreOnRecord, OnlyACutWedges
<1> QED BY <1>1, <1>2, <1>7, <1>8, <1>9, <1>10

(***************************************************************************)
(* The theorems.                                                           *)
(***************************************************************************)
LEMMA DecisionsStart == DecisionsInit => DecisionsInv
<1> SUFFICES ASSUME DecisionsInit PROVE DecisionsInv
  OBVIOUS
<1> USE DEF DecisionsInit
<1>1. tick = Idle /\ Idle.at = "idle"
  BY DEF Idle
<1>2. RecordTypeOK
  <2>1. PICK t \in TaskType : record = Recorded(1, t)
    BY TasksAssumption
  <2>2. 1 \in 1..MaxVersion
    BY BoundsAssumption
  <2> QED BY <2>1, <2>2, RecordedFits DEF RecordTypeOK
<1>3. SurroundingsTypeOK
  BY DEF SurroundingsTypeOK, Readiness
<1>4. DOMAIN log.proposed = {} /\ DOMAIN store = {}
  OBVIOUS
<1>5. IsLog(log) /\ StoreTypeOK
  BY DEF IsLog, StoreTypeOK, FiledByKey
<1>6. TickTypeOK /\ HistoryTypeOK
  BY DEF TickTypeOK, HistoryTypeOK
<1>7. TickIsCleared /\ TickIsOnRecord
  BY <1>1 DEF TickIsCleared, TickIsOnRecord, Late
<1>8. LifecyclesAreWhole
  BY <1>4 DEF LifecyclesAreWhole
<1>9. RunsWereCleared /\ CommandsAreOnRecord /\ OnlyACutWedges
  BY <1>4 DEF RunsWereCleared, CommandsAreOnRecord, OnlyACutWedges
<1> QED BY <1>2, <1>3, <1>5, <1>6, <1>7, <1>8, <1>9 DEF DecisionsInv, DecisionsTypeOK

LEMMA DecisionsStep == DecisionsInv /\ [Next]_vars => DecisionsInv'
<1> SUFFICES ASSUME DecisionsInv, [Next]_vars PROVE DecisionsInv'
  OBVIOUS
<1>1. CASE UNCHANGED vars
  BY <1>1 DEF vars, DecisionsInv, DecisionsTypeOK, SurroundingsTypeOK, RecordTypeOK,
      StoreTypeOK, TickTypeOK, HistoryTypeOK, TickIsCleared, TickIsOnRecord,
      LifecyclesAreWhole, EligibleOnLog, RunsWereCleared, CommandsAreOnRecord, OnlyACutWedges
<1>2. CASE Refresh \/ RefreshMissing
  BY <1>2, RefreshKeeps
<1>3. CASE SetGoal
  BY <1>3, SetGoalKeeps
<1>4. CASE HubChanges \/ ExpertChanges \/ Reconfigure
  BY <1>4, OutsideKeeps
<1>5. CASE Begin \/ Recall \/ Think \/ Answer
  BY <1>5, BeginKeeps, RecallKeeps, ThinkKeeps, AnswerKeeps
<1>6. CASE Judge \/ Propose \/ Validate \/ Verdict
  BY <1>6, JudgeKeeps, ProposeKeeps, ValidateKeeps, VerdictKeeps
<1>7. CASE Put \/ Act \/ Cut
  BY <1>7, PutKeeps, ActKeeps, CutKeeps
<1> QED BY <1>1, <1>2, <1>3, <1>4, <1>5, <1>6, <1>7 DEF Next

\* The decision loop keeps its invariant whatever the tasks, the provider's
\* answers, the configured reports, the experts and the bounds are.
THEOREM DecisionsInvariance == Spec => []DecisionsInv
<1> QED BY DecisionsStart, DecisionsStep, PTL DEF Spec

\* The types of everything the loop keeps; among them: a stored decision is
\* under its own key, and a tick never holds facts newer than the record.
THEOREM DecisionsTypeCorrect == Spec => []DecisionsTypeOK
<1>1. DecisionsInv => DecisionsTypeOK
  BY DEF DecisionsInv
<1> QED BY <1>1, DecisionsInvariance, PTL

\* What _maybe_auto_execute_decision hands to the executor was allowed by
\* brain, policy, both verdicts and the expert gate at one moment, although a
\* stored decision keeps verdicts of an earlier one.
THEOREM ExecutionsAreAllowed == Spec => []ExecutedWasAllowed
<1>1. DecisionsInv => ExecutedWasAllowed
  BY DEF DecisionsInv, RunsWereCleared, ClearedBy, ExecutedWasAllowed
<1> QED BY <1>1, DecisionsInvariance, PTL

\* A command on the log has its proposal, its validation, its stored decision
\* and, unless a tick was cut off there, its verdict.
THEOREM CommandsHaveARecord == Spec => []CommandsAreOnRecord
<1>1. DecisionsInv => CommandsAreOnRecord
  BY DEF DecisionsInv
<1> QED BY <1>1, DecisionsInvariance, PTL

\* Only a tick cut between decision_proposed and decision_validated leaves a
\* decision that later ticks are refused.
THEOREM WedgesComeFromCuts == Spec => []OnlyACutWedges
<1>1. DecisionsInv => OnlyACutWedges
  BY DEF DecisionsInv
<1> QED BY <1>1, DecisionsInvariance, PTL

=============================================================================
