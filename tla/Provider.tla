------------------------------ MODULE Provider ------------------------------
(***************************************************************************)
(* The external model behind the brain: what it may send back, the retry   *)
(* of its one request, and how an answer of either schema becomes one of   *)
(* the canonical continuation decisions or a failure.  Texts, confidences  *)
(* and lists in an answer are left out.                                    *)
(***************************************************************************)
EXTENDS Sequences, Naturals

Canonical == {"continue_current_branch", "recover_current_branch",
              "branch_complete_switch", "await_human", "project_complete", "blocked"}

\* _CONTINUATION_DECISION_ALIASES.
Aliases(word) ==
    CASE word \in {"continue", "continue_branch", "proceed", "propose_execute"} ->
            "continue_current_branch"
      [] word \in {"recover", "recover_and_proceed", "execute_recovery", "propose_recovery",
                   "route_to_recovery", "request_recovery", "recover_branch"} ->
            "recover_current_branch"
      [] word \in {"switch_branch", "branch_switch", "switch_to_next_branch",
                   "move_to_next_branch", "switch_branch_with_recovery_attempt"} ->
            "branch_complete_switch"
      [] word \in {"request_approval", "require_approval", "approval_required",
                   "await_approval", "awaiting_approval", "human_approval",
                   "request_human_approval"} -> "await_human"
      [] word \in {"complete", "candidate_complete", "close_session"} -> "project_complete"
      [] OTHER -> word

(***************************************************************************)
(* A reply: an HTTP status other than success, a request that got none, or *)
(* content.  Content is text without a JSON object, an object with one of  *)
(* the forbidden keys, or an object of the v3 or of the legacy v2 schema.  *)
(***************************************************************************)
IsContent(r) == r.form \in {"text", "forbidden", "v3", "v2"}

\* _retryable_status_code, and the request errors.
Retryable(r) ==
    \/ r.form = "status" /\ r.code \in {408, 409, 425, 429, 500, 502, 503, 504}
    \/ r.form \in {"timeout", "refused"}

\* decide: two attempts, the second only after an error worth retrying.
Final(first, second) == IF Retryable(first) THEN second ELSE first

\* _normalize_provider_decision_payload: a refusal that speaks of recovery is
\* one; any other unknown word is not of the schema.
Continuation(word, routing) ==
    CASE word \in {"block", "blocked"} /\ routing = "recovery" -> "recover_current_branch"
      [] word = "block" /\ routing # "recovery" -> "blocked"
      [] OTHER -> IF Aliases(word) \in Canonical THEN Aliases(word) ELSE "invalid"

\* _legacy_continuation_decision.
Legacy(session, advice) ==
    CASE session \in {"complete", "candidate_complete"} -> "project_complete"
      [] session \in {"need_recovery", "handoff_to_new_session"} -> "recover_current_branch"
      [] session \in {"await_human", "blocked"} -> session
      [] OTHER -> IF advice \in {"auto_execute", "notify_then_execute"}
                  THEN "continue_current_branch" ELSE "blocked"

\* _validate_provider_decision: the v3 schema, else the v2 one.
Validated(r) ==
    CASE r.form = "v3" -> Continuation(r.word, r.routing)
      [] r.form = "v2" -> Legacy(r.session, r.advice)
      [] OTHER -> "invalid"

\* _extract_content and what evaluate_session makes of an exception: text with
\* no object in it is an unavailable provider, not an invalid answer.
Decoded(r) ==
    CASE r.form = "timeout" -> "timeout"
      [] r.form \in {"refused", "status", "text"} -> "unavailable"
      [] OTHER -> Validated(r)

=============================================================================
