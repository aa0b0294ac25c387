---------------------------- MODULE SessionFacts ----------------------------
(***************************************************************************)
(* What the session spine makes of a task: the facts it derives from the   *)
(* runtime's report, the pending approvals and the project's execution     *)
(* state, and the session projection that is persisted with them.  All of  *)
(* it is pure; the refresh that calls it is in Decisions.                  *)
(*                                                                         *)
(* A task is what one refresh reads: status and flag (pending_approval) as *)
(* the runtime reports them, missing (runtime_task_missing), project (its  *)
(* explicit execution state), asks (where an approval of this thread is    *)
(* pending), trouble (the analyser's signals), manual (the last activity   *)
(* at the keyboard is newer than the last progress), workspace (what the   *)
(* scan of its directory says against the last progress), idle (nothing    *)
(* for days) and cutOff (the last error is a disconnect).  Timestamps,     *)
(* thread ids and texts are abstracted into these.                         *)
(***************************************************************************)
EXTENDS Sequences

Statuses == {"running", "waiting_for_direction", "handoff_in_progress",
             "resuming", "paused", "completed", "failed"}
NonActive == {"paused", "stopped", "branch_transition_in_progress",
              "completed", "archived", "closed"}
ProjectStates == NonActive \cup {"active", "unknown"}
Signals == {"stuck", "failing", "critical"}

TaskType == [status  : Statuses,
             flag    : BOOLEAN,
             missing : BOOLEAN,
             project : ProjectStates,
             asks    : SUBSET {"runtime", "local"},
             trouble : SUBSET Signals,
             manual  : BOOLEAN,
             workspace : {"unknown", "quiet", "changed", "old", "gone"},
             idle    : BOOLEAN,
             cutOff  : BOOLEAN]

\* _task_with_workspace_manual_activity: a directory that changed after the
\* last progress counts as work at the keyboard.
Touched(t) == t.manual \/ t.workspace = "changed"

\* normalize_task_status: a reported approval hides every other status.
StatusOf(t) == IF t.flag THEN "waiting_for_approval" ELSE t.status

Terminal(t) == StatusOf(t) \in {"completed", "failed"}

(***************************************************************************)
(* The execution state.  A repository is what its state files say: whether *)
(* they name another project, whether any of their names targets this task *)
(* and the state words they hold, in the order they are looked at.         *)
(***************************************************************************)
ActiveWords == {"execute", "decompose", "design", "refine", "init",
                "initialized", "active", "running"}
RepoType == [other : BOOLEAN, targeted : BOOLEAN,
             words : Seq(ActiveWords \cup NonActive \cup {"close"})]

\* _normalize_project_execution_state: any inactive word before every active
\* one; files of another project say nothing against this one.
RepoState(repo) ==
    LET off(w) == w \in NonActive \cup {"close"}
        found  == SelectSeq(repo.words, off)
    IN  CASE repo.other -> "active"
          [] ~repo.other /\ found # <<>> -> IF Head(found) = "close" THEN "closed" ELSE Head(found)
          [] OTHER -> IF repo.words = <<>> THEN "unknown" ELSE "active"

\* _authoritative_project_execution_state.
Authoritative(repo) == IF repo.targeted THEN RepoState(repo) ELSE "unknown"

\* _task_with_authoritative_project_execution_state: the task's own word,
\* unless it has none or the repository is inactive against it.
Explicit(t, repo) ==
    LET truth == Authoritative(repo)
    IN  IF truth # "unknown"
           /\ (t.project = "unknown" \/ (truth \in NonActive /\ t.project \notin NonActive))
        THEN truth
        ELSE t.project

\* derive_project_execution_state_liveness_override.
Alive(t, state) ==
    IF /\ state \notin NonActive
       /\ StatusOf(t) \notin {"completed", "failed", "paused"}
       /\ \/ t.missing
          \/ t.workspace = "gone"
          \/ t.workspace = "old" /\ (~t.manual \/ t.idle)
          \/ t.idle /\ state = "active"
          \/ t.cutOff /\ (~Touched(t) \/ t.idle)
    THEN "paused"
    ELSE state

ExecutionState(t, repo) == Alive(t, Explicit(t, repo))

\* _merge_local_approvals: a canonical approval alone does not answer a
\* runtime that reports one of its own.
Asked(t) == "runtime" \in t.asks \/ ("local" \in t.asks /\ ~t.flag)

Suppressed(t) ==
    StatusOf(t) \in {"handoff_in_progress", "resuming", "paused", "waiting_for_direction"}

Troubles(t) ==
    LET stuck    == IF "stuck" \in t.trouble /\ ~Touched(t) THEN {"stuck_no_progress"} ELSE {}
        failing  == IF "failing" \in t.trouble THEN {"repeat_failure"} ELSE {}
        critical == IF "critical" \in t.trouble THEN {"context_critical"} ELSE {}
        found    == stuck \cup failing \cup critical
    IN  IF found = {} THEN {} ELSE found \cup {"recovery_available"}

ApprovalFacts == {"approval_pending", "awaiting_human_direction"}

\* build_fact_records; the link error has no record to be in.
FactsOf(t, asked, state) ==
    CASE t.missing                 -> {"project_not_active"}
      [] ~t.missing /\ Terminal(t) /\ ~asked -> {"task_completed"}
      [] ~t.missing /\ t.flag /\ ~asked -> {"approval_state_unavailable"}
      [] OTHER ->
            (IF asked THEN ApprovalFacts ELSE {}) \cup
            (CASE state \in NonActive -> {"project_not_active"}
               [] state \notin NonActive /\ Suppressed(t) -> {}
               [] OTHER -> Troubles(t))

Blocked(facts) == facts \cap {"project_not_active", "approval_state_unavailable"} # {}

\* build_session_projection.
SessionState(facts) ==
    CASE facts \cap ApprovalFacts # {} -> "awaiting_approval"
      [] facts \cap ApprovalFacts = {} /\ (Blocked(facts) \/
            facts \cap {"stuck_no_progress", "repeat_failure", "context_critical"} # {}) -> "blocked"
      [] OTHER -> "active"

\* _build_available_intents, those the orchestrator asks for.
Intents(t, asked, facts) ==
    (IF ~("task_completed" \in facts \/ (~asked /\ Terminal(t))) /\ ~Blocked(facts)
     THEN {"continue_session"} ELSE {}) \cup
    (IF ~Blocked(facts) /\ "recovery_available" \in facts THEN {"request_recovery"} ELSE {}) \cup
    (IF ~Blocked(facts) /\ "context_critical" \in facts THEN {"execute_recovery"} ELSE {})

\* _build_session_read_bundle: an inactive project drops its approvals and the
\* facts are derived again without them.
Bundle(t, repo) ==
    LET state == ExecutionState(t, repo)
        drop  == "project_not_active" \in FactsOf(t, Asked(t), state)
        asked == Asked(t) /\ ~drop
        facts == FactsOf(t, asked, state)
    IN  [facts |-> facts, asked |-> asked, state |-> SessionState(facts),
         intents |-> Intents(t, asked, facts), status |-> StatusOf(t)]

\* _task_from_persisted_record, for a project the runtime no longer has: its
\* facts come from the record, and whatever it was it is running again.
TaskOf(b) ==
    [status |-> IF b.state = "awaiting_approval" THEN "waiting_for_direction" ELSE "running",
     flag |-> FALSE, missing |-> TRUE, project |-> "unknown", asks |-> {},
     trouble |-> (IF "repeat_failure" \in b.facts THEN {"failing"} ELSE {}) \cup
                 (IF "context_critical" \in b.facts THEN {"critical"} ELSE {}) \cup
                 (IF "stuck_no_progress" \in b.facts THEN {"stuck"} ELSE {}),
     manual |-> FALSE, workspace |-> "unknown",
     idle |-> FALSE, cutOff |-> FALSE]

=============================================================================
