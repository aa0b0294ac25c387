------------------------------ MODULE Recovery ------------------------------
(***************************************************************************)
(* The recovery of a session whose context is exhausted.  The caller reads *)
(* the task from the control agent, asks it for a handoff (a file) and for *)
(* a resume (the same thread again, or a new child), and then writes the   *)
(* whole transaction, record by record, into the Session Service.  There   *)
(* are two kinds of callers in the watchdog process: the resident          *)
(* orchestrator, which looks for an earlier recovery first, and the HTTP   *)
(* route and explicit actions, which do not.  Meanwhile the control agent  *)
(* goes on overwriting its tasks with what the runtime reports.            *)
(*                                                                         *)
(* Threads are numbered in the order in which the runtime creates them;    *)
(* time is in ticks, SecondTicks of them in a second: the recovery's own   *)
(* timestamps and the handoff file's name are in seconds, last_progress_at *)
(* is not.                                                                 *)
(***************************************************************************)
EXTENDS SessionLog, Sequences, FiniteSets

CONSTANTS
    Callers,       \* the calls that may be under way in the process
    Resident,      \* those of Callers that are the resident orchestrator
    MaxThread,     \* bound: threads the runtime creates
    MaxTime,       \* bound: the clock stops there
    SecondTicks,   \* ticks in a second
    Cooldown,      \* auto_recovery_cooldown_seconds, in ticks
    AutoResume,    \* recover_auto_resume
    Reports,       \* what the runtime reports of a thread: [status, pressure]
    Holds,         \* what else may forbid a recovery, see NoopReason
    MaxCalls,      \* bound: recoveries begun
    MaxEvents      \* bound: reports of the runtime, crashes and failed writes

ASSUME RecoveryConstants ==
    /\ MaxThread \in Nat /\ MaxTime \in Nat /\ SecondTicks \in Nat \ {0}
    /\ Cooldown \in Nat /\ MaxCalls \in Nat /\ MaxEvents \in Nat
    /\ Resident \subseteq Callers /\ AutoResume \in BOOLEAN
    /\ \A rep \in Reports : rep.status # "none"

VARIABLES
    tasks,     \* the control agent's task of each thread it knows
    current,   \* the project's current thread
    record,    \* the resident's snapshot of the current task
    caller,    \* the locals of each call
    now, calls, reports, faults

recoveryVars == <<tasks, current, record, caller, now, calls, reports, faults, cache, file>>
taskVars == <<tasks, current>>

Threads == 0..MaxThread
NoThread == MaxThread + 1
Second(t) == t - (t % SecondTicks)

(***************************************************************************)
(* Scripts: the records a call is about to write.  An item is a record     *)
(* without its timestamp; `fresh` says that the code reads the clock for   *)
(* it, otherwise it repeats the reading of the item before.                *)
(***************************************************************************)
Item(kind, step, tx, on, body, once, fresh) ==
    [key |-> <<kind, step, tx, on>>, body |-> body, once |-> once, fresh |-> fresh]

Event(step, tx, body, fresh)          == Item("event", step, tx, NoThread, body, FALSE, fresh)
OnChild(step, tx, child, body, fresh) == Item("event", step, tx, child, body, FALSE, fresh)
Status(step, tx, body)                == Item("status", step, tx, NoThread, body, FALSE, FALSE)
Once(step, tx, body)                  == Item("event", step, tx, NoThread, body, TRUE, FALSE)

NoTx == <<NoThread, 0>>
Terminal == {"completed", "failed_retryable"}

\* recovery_transaction_id: the thread the caller saw and the handoff file.
TxOf(c) == <<caller[c].seen.thread, caller[c].file>>

\* The content of a record: the packet, how the resume went, the child.
Body(packet, resume, child) == [packet |-> packet, resume |-> resume, child |-> child]

OpeningScript(tx, packet) ==
    LET body == Body(packet, "none", NoThread) IN <<
    Event("recovery_tx_started", tx, body, TRUE),
    Status("started", tx, body),
    Event("handoff_packet_frozen", tx, body, TRUE),
    Status("packet_frozen", tx, body),
    Once("identity_issued", tx, body) >>

\* Mutant: the parent is cooled before the lineage is committed.
ChildScriptCooledFirst(tx, packet, child) ==
    LET body == Body(packet, "child", child) IN <<
    OnChild("child_session_created", tx, child, body, TRUE),
    Status("child_created", tx, body),
    Event("parent_session_closed_or_cooled", tx, body, TRUE),
    Status("parent_cooling", tx, body),
    OnChild("lineage", tx, child, body, TRUE),
    Event("recovery_tx_completed", tx, body, TRUE),
    Status("completed", tx, body) >>

ChildScript(tx, packet, child) ==
    LET body == Body(packet, "child", child) IN <<
    OnChild("child_session_created", tx, child, body, TRUE),
    Status("child_created", tx, body),
    [Status("lineage_pending", tx, body) EXCEPT !.fresh = TRUE],
    OnChild("lineage", tx, child, body, TRUE),
    OnChild("lineage_committed", tx, child, body, FALSE),
    Status("lineage_committed", tx, body),
    Event("parent_session_closed_or_cooled", tx, body, TRUE),
    Status("parent_cooling", tx, body),
    Event("recovery_tx_completed", tx, body, TRUE),
    Once("identity_consumed", tx, body),
    Status("completed", tx, body) >>

\* Mutant: a failed resume leaves no terminal status.
PlainScriptWithoutFailure(tx, packet, resume) ==
    LET body == Body(packet, resume, NoThread) IN
    <<Event("recovery_tx_completed", tx, body, TRUE)>>
        \o IF resume = "error" THEN <<>> ELSE <<Status("completed", tx, body)>>

\* No child: the same thread went on, nobody resumed it, or the resume failed.
PlainScript(tx, packet, resume) ==
    LET body == Body(packet, resume, NoThread) IN
    IF resume = "error"
    THEN << [Once("identity_invalidated", tx, body) EXCEPT !.fresh = TRUE],
            Once("replay_invalidated", tx, body),
            Event("recovery_tx_completed", tx, body, FALSE),
            Status("failed_retryable", tx, body) >>
    ELSE << [Once("identity_consumed", tx, body) EXCEPT !.fresh = TRUE],
            Event("recovery_tx_completed", tx, body, FALSE),
            Status("completed", tx, body) >>

RecoveryScript(tx, packet, resume, child) ==
    OpeningScript(tx, packet) \o
        IF child # NoThread THEN ChildScript(tx, packet, child)
                            ELSE PlainScript(tx, packet, resume)

\* _record_recovery_suppressed; the key holds the task's status and the second.
SuppressedScript(reason, seen) ==
    LET id   == <<seen.status, Second(now)>>
        body == [reason |-> reason, tx |-> NoTx, progress |-> seen.progress]
    IN << Event("suppressed", id, body, TRUE),
          Once("gate_suppressed", <<"task", id, reason>>, body) >>
       \o IF reason \in {"project_not_active", "project_state_unavailable",
                         "pending_approval", "task_terminal"}
          THEN << Once("suppressed_identity_invalidated", id, body),
                  Once("suppressed_replay_invalidated", id, body) >>
          ELSE <<>>

(***************************************************************************)
(* What the log says of recoveries.                                        *)
(***************************************************************************)
\* The transactions' status records are one stream; the last one is what
\* list_recovery_transactions and max(log_seq) give.
InFlightReasons == {"recovery_in_flight", "cooldown_window_active"}

StreamOf(r) ==
    CASE r.key[1] = "status"                        -> <<"status">>
      [] r.key[2] = "recovery_dispatch_started"     -> <<"dispatch">>
      [] r.key[2] \in {"suppressed", "reentry_suppressed"} ->
           IF r.body.reason \in InFlightReasons THEN <<"in_flight">>
           ELSE <<r.body.reason, r.body.tx>>
      [] OTHER                                      -> <<"other">>

HasStatus    == HasLast(<<"status">>)
LatestStatus == Last(<<"status">>)

\* _assert_no_conflicting_active_recovery_transaction: only the latest counts.
ConflictsWithActive(tx) ==
    /\ HasStatus
    /\ LatestStatus.key[3] # tx
    /\ LatestStatus.key[2] \notin Terminal

\* _has_substantive_progress_after_same_thread_recovery: a person was at work
\* since, or there was a suppression and progress after it, or the summary is
\* not the packet that the recovery injected.
SubstantiveProgress(tx, manual, injected) ==
    LET suppressed == <<"same_thread_resume_without_substantive_progress", tx>> IN
    \/ manual
    \/ HasLast(suppressed) /\ record.progress > Last(suppressed).body.progress
    \/ ~injected

\* _recovery_reentry_suppression_details
ReentryReason(manual, injected) ==
    LET dispatched == HasLast(<<"dispatch">>)
        dispatch   == Last(<<"dispatch">>)
        undone     == dispatched /\ record.progress <= dispatch.at
    IN  IF ~HasStatus THEN IF undone THEN "recovery_in_flight" ELSE "none"
        ELSE IF \/ undone /\ dispatch.at > LatestStatus.at
                \/ LatestStatus.key[2] \notin Terminal
        THEN "recovery_in_flight"
        ELSE IF record.progress <= LatestStatus.at THEN "reentry_without_newer_progress"
        ELSE IF /\ LatestStatus.body.resume = "same"
                /\ ~SubstantiveProgress(LatestStatus.key[3], manual, injected)
        THEN "same_thread_resume_without_substantive_progress"
        ELSE "none"

\* _recovery_cooldown_suppression_details
CoolingDown ==
    IF HasStatus THEN now - LatestStatus.at < Cooldown
    ELSE HasLast(<<"in_flight">>) /\ now - Last(<<"in_flight">>).at < Cooldown

SuppressionReason(manual, injected) ==
    LET reentry == ReentryReason(manual, injected) IN
    IF reentry # "none" THEN reentry
    ELSE IF CoolingDown THEN "cooldown_window_active" ELSE "none"

-----------------------------------------------------------------------------
(***************************************************************************)
(* The control agent.                                                      *)
(***************************************************************************)
NoTask == [status |-> "none", pressure |-> "none", progress |-> 0]

\* merge_update: the write itself counts as progress.
MergeUpdate(status, pressure) ==
    tasks' = [tasks EXCEPT ![current] =
                 [status |-> status, pressure |-> pressure, progress |-> now]]

\* A bound: the clock and the runtime stand still while records are written.
NobodyWrites == \A c \in Callers : caller[c].pc # "write"

\* _sync_codex_threads, one thread of it; a paused task stays paused.
RuntimeReports(th, rep) ==
    /\ reports + faults < MaxEvents /\ NobodyWrites
    /\ tasks[th] # NoTask
    /\ LET status == IF tasks[th].status = "paused" /\ rep.status # "completed"
                     THEN "paused" ELSE rep.status
       IN tasks' = [tasks EXCEPT ![th] =
                       [status |-> status, pressure |-> rep.pressure, progress |-> now]]
    /\ current' = th
    /\ reports' = reports + 1
    /\ UNCHANGED <<record, caller, now, calls, faults, logVars>>

-----------------------------------------------------------------------------
(***************************************************************************)
(* The calls.                                                              *)
(***************************************************************************)
IdleCall == [pc |-> "idle", seen |-> [thread |-> NoThread, status |-> "none", pressure |-> "none", progress |-> 0],
             packet |-> 0, file |-> 0, parent |-> NoThread, resume |-> "none",
             child |-> NoThread, todo |-> <<>>, at |-> 0, then |-> "idle"]

End(c) == caller' = [caller EXCEPT ![c] = IdleCall]

WriteThen(todo, then) == [IdleCall EXCEPT !.pc = "write", !.todo = todo, !.then = then]

\* The orchestrator's snapshot of the session is refreshed (runtime.py).
RefreshRecord ==
    /\ \A c \in Resident : caller[c].pc = "idle"
    /\ record' = [pressure |-> tasks[current].pressure, progress |-> tasks[current].progress]
    /\ record' # record
    /\ UNCHANGED <<taskVars, caller, now, calls, reports, faults, logVars>>

\* The resident finds the context critical and an earlier recovery in its way.
SuppressReentry(c) ==
    /\ c \in Resident /\ caller[c].pc = "idle"
    /\ calls < MaxCalls /\ calls' = calls + 1
    /\ record.pressure = "critical"
    /\ \E manual, injected \in BOOLEAN :
          LET reason == SuppressionReason(manual, injected)
              tx == IF ~HasStatus THEN NoTx ELSE LatestStatus.key[3]
              id == <<tx, record.progress, reason,
                      IF ~HasStatus THEN "none" ELSE LatestStatus.key[2],
                      IF ~HasStatus THEN 0 ELSE LatestStatus.at>>
              body == [reason |-> reason, tx |-> tx, progress |-> record.progress]
          IN /\ reason # "none"
             /\ ~Known(<<"event", "reentry_suppressed", id, NoThread>>)
             /\ caller' = [caller EXCEPT ![c] = WriteThen(
                  << [Once("reentry_suppressed", id, body) EXCEPT !.fresh = TRUE],
                     Once("gate_suppressed", <<"reentry", id, reason>>, body) >>, "idle")]
    /\ UNCHANGED <<taskVars, record, now, reports, faults, logVars>>

\* perform_recovery_execution's guards, in the code's order.
NoopReason(seen, hold) ==
    IF hold # "none" THEN hold
    ELSE IF seen.status \in {"handoff_in_progress", "resuming"} THEN "recovery_in_flight"
    ELSE IF seen.status = "paused" THEN "paused"
    ELSE IF seen.status \in {"completed", "failed"} THEN "task_terminal"
    ELSE IF seen.pressure # "critical" THEN "context_not_critical"
    ELSE "none"

ReadTask(c) ==
    /\ caller[c].pc = "idle"
    /\ calls < MaxCalls /\ calls' = calls + 1
    /\ c \in Resident => /\ record.pressure = "critical"
                         /\ \E manual, injected \in BOOLEAN :
                               SuppressionReason(manual, injected) = "none"
    /\ \E hold \in Holds :
          LET seen   == [thread |-> current, status |-> tasks[current].status,
                         pressure |-> tasks[current].pressure, progress |-> tasks[current].progress]
              reason == NoopReason(seen, hold)
          IN /\ reason # "context_not_critical"
             /\ caller' =
                  [caller EXCEPT ![c] =
                     IF reason = "none"
                     THEN [WriteThen(<< [Once("recovery_dispatch_started",
                              <<seen.thread, seen.progress>>, seen)
                              EXCEPT !.fresh = TRUE] >>, "handoff")
                           EXCEPT !.seen = seen, !.packet = Second(now)]
                     ELSE WriteThen(SuppressedScript(reason, seen), "idle")]
    /\ UNCHANGED <<taskVars, record, now, reports, faults, logVars>>

\* trigger_handoff; the answer may be lost, and the request before it too.
Handoff(c) ==
    /\ caller[c].pc = "handoff"
    /\ MergeUpdate("handoff_in_progress", tasks[current].pressure)
    /\ caller' = [caller EXCEPT
           ![c].file = Second(now),
           ![c].pc = IF AutoResume THEN "resume" ELSE "check"]
    /\ UNCHANGED <<current, record, now, calls, reports, faults, logVars>>

HandoffFails(c) ==
    /\ caller[c].pc = "handoff"
    /\ \/ MergeUpdate("handoff_in_progress", tasks[current].pressure)
       \/ UNCHANGED tasks
    /\ End(c)
    /\ UNCHANGED <<current, record, now, calls, reports, faults, logVars>>

\* trigger_resume up to the call of the runtime.
StartResume(c) ==
    /\ caller[c].pc = "resume"
    /\ MergeUpdate("resuming", tasks[current].pressure)
    /\ caller' = [caller EXCEPT ![c].pc = "resuming", ![c].parent = current]
    /\ UNCHANGED <<current, record, now, calls, reports, faults, logVars>>

FreshThread == Cardinality({th \in Threads : tasks[th] # NoTask})

\* The runtime goes on with the parent's thread.
ResumeSameThread(c) ==
    /\ caller[c].pc = "resuming"
    /\ MergeUpdate("running", "medium")
    /\ \E lost \in BOOLEAN :
          caller' = [caller EXCEPT ![c].pc = "check",
                        ![c].resume = IF lost THEN "error" ELSE "same"]
    /\ UNCHANGED <<current, record, now, calls, reports, faults, logVars>>

\* The runtime answers with a new thread: the parent's task is paused.
ResumeInChild(c) ==
    /\ caller[c].pc = "resuming"
    /\ FreshThread <= MaxThread
    /\ tasks' = [tasks EXCEPT
           ![caller[c].parent] = [status |-> "paused", pressure |-> tasks[current].pressure,
                                  progress |-> tasks[current].progress],
           ![FreshThread] = [status |-> "running", pressure |-> "medium", progress |-> now]]
    /\ current' = FreshThread
    /\ \E lost \in BOOLEAN :
          caller' = [caller EXCEPT ![c].pc = "check",
                        ![c].resume = IF lost THEN "error" ELSE "child",
                        ![c].child = IF lost THEN NoThread ELSE FreshThread]
    /\ UNCHANGED <<record, now, calls, reports, faults, logVars>>

\* The runtime refuses, or cannot be reached before anything happened.
ResumeFails(c) ==
    /\ caller[c].pc = "resuming"
    /\ MergeUpdate("failed", tasks[current].pressure) \/ UNCHANGED tasks
    /\ caller' = [caller EXCEPT ![c].pc = "check", ![c].resume = "error"]
    /\ UNCHANGED <<current, record, now, calls, reports, faults, logVars>>

\* record_recovery_execution looks for an open transaction first.
CheckActive(c) ==
    /\ caller[c].pc = "check"
    /\ IF ConflictsWithActive(TxOf(c)) THEN End(c)
       ELSE caller' = [caller EXCEPT ![c] = WriteThen(
              RecoveryScript(TxOf(c), caller[c].packet, caller[c].resume, caller[c].child), "idle")]
    /\ UNCHANGED <<taskVars, record, now, calls, reports, faults, logVars>>

\* The record a call writes next.
NextRecordOf(c) ==
    LET item == Head(caller[c].todo)
        at   == IF item.fresh THEN Second(now) ELSE caller[c].at
    IN [key |-> item.key, at |-> at,
        body |-> IF item.key[2] = "identity_consumed"
                 THEN [packet |-> item.body.packet, resume |-> item.body.resume,
                       child |-> item.body.child, consumed |-> at]
                 ELSE item.body]

WriteRecord(c) ==
    /\ caller[c].pc = "write"
    /\ LET r == NextRecordOf(c) once == Head(caller[c].todo).once rest == Tail(caller[c].todo) IN
       IF Conflicting(r, once)
       THEN End(c) /\ UNCHANGED logVars
       ELSE /\ Write(r, StreamOf(r))
            /\ IF rest = <<>> /\ caller[c].then = "idle"
               THEN End(c)
               ELSE caller' = [caller EXCEPT ![c].todo = rest, ![c].at = r.at,
                        ![c].pc = IF rest = <<>> THEN caller[c].then ELSE "write"]
    /\ UNCHANGED <<taskVars, record, now, calls, reports, faults>>

WriteRecordRaises(c) ==
    /\ caller[c].pc = "write"
    /\ reports + faults < MaxEvents /\ faults' = faults + 1
    /\ WriteRaises(NextRecordOf(c), StreamOf(NextRecordOf(c)))
    /\ End(c)
    /\ UNCHANGED <<taskVars, record, now, calls, reports>>

\* The watchdog process dies and is started again.
Crash ==
    /\ reports + faults < MaxEvents /\ faults' = faults + 1
    /\ Reload
    /\ caller' = [c \in Callers |-> IdleCall]
    /\ UNCHANGED <<taskVars, record, now, calls, reports>>

Tick == /\ now < MaxTime /\ now' = now + 1
        /\ NobodyWrites
        /\ UNCHANGED <<taskVars, record, caller, calls, reports, faults, logVars>>

-----------------------------------------------------------------------------
RecoveryInit ==
    /\ LogInit
    /\ tasks = [th \in Threads |-> IF th = 0
           THEN [status |-> "running", pressure |-> "critical", progress |-> 0] ELSE NoTask]
    /\ current = 0
    /\ record = [pressure |-> "critical", progress |-> 0]
    /\ caller = [c \in Callers |-> IdleCall]
    /\ now = 0 /\ calls = 0 /\ reports = 0 /\ faults = 0

CallStep(c) ==
    \/ Handoff(c) \/ HandoffFails(c) \/ StartResume(c)
    \/ ResumeSameThread(c) \/ ResumeInChild(c) \/ ResumeFails(c)
    \/ CheckActive(c) \/ WriteRecord(c)

RecoveryNext ==
    \/ \E c \in Callers : SuppressReentry(c) \/ ReadTask(c) \/ CallStep(c) \/ WriteRecordRaises(c)
    \/ \E th \in Threads, rep \in Reports : RuntimeReports(th, rep)
    \/ RefreshRecord \/ Crash \/ Tick

RecoverySpec == RecoveryInit /\ [][RecoveryNext]_recoveryVars

-----------------------------------------------------------------------------
(***************************************************************************)
(* Properties.                                                             *)
(***************************************************************************)
\* Type invariant of the recovery model: the project's current thread exists,
\* nothing carries a time that has not come, the file lags behind the cache.
RecoveryTypeOK ==
    /\ current \in Threads /\ tasks[current] # NoTask
    /\ \A th \in Threads : tasks[th].progress <= now
    /\ record.progress <= now
    /\ file.entries \subseteq cache.entries
    /\ \A c \in Callers : caller[c].pc \in {"idle", "write", "handoff", "resume", "resuming", "check"}
    /\ now \in 0..MaxTime /\ calls \in 0..MaxCalls
    /\ reports \in Nat /\ faults \in Nat /\ reports + faults <= MaxEvents

StatusRecords == {r \in cache.entries : r.key[1] = "status"}
Transactions  == {r.key[3] : r \in StatusRecords}
Ended(tx)     == \E end \in Terminal : Known(<<"status", end, tx, NoThread>>)

\* What has to be in the file before a step of the transaction may be: the
\* canonical order of events and statuses.
Needs == [
    packet_frozen     |-> {<<"event", "recovery_tx_started">>, <<"event", "handoff_packet_frozen">>},
    child_created     |-> {<<"status", "packet_frozen">>, <<"event", "child_session_created">>},
    lineage_pending   |-> {<<"status", "child_created">>},
    lineage_committed |-> {<<"status", "lineage_pending">>, <<"event", "lineage">>,
                           <<"event", "lineage_committed">>},
    parent_cooling    |-> {<<"status", "lineage_committed">>,
                           <<"event", "parent_session_closed_or_cooled">>},
    completed         |-> {<<"status", "packet_frozen">>, <<"event", "recovery_tx_completed">>},
    failed_retryable  |-> {<<"status", "packet_frozen">>, <<"event", "recovery_tx_completed">>} ]

\* Whatever crashed, raised or ran into another call: a status in the file has
\* the steps before it in the file.  In particular a parent is never cooled
\* without a committed lineage.  (record_recovery_execution)
ChainInOrder ==
    \A r \in file.entries :
        r.key[1] = "status" /\ r.key[2] \in DOMAIN Needs =>
            \A need \in Needs[r.key[2]] :
                \E q \in file.entries :
                    q.key[1] = need[1] /\ q.key[2] = need[2] /\ q.key[3] = r.key[3]

\* Two calls that share a transaction, because their handoffs fell into one
\* second, never commit two lineages for it: the second call's child_created
\* status disagrees with the first one's and is refused.
OneLineagePerTransaction ==
    \A tx \in Transactions :
        Cardinality({r \in cache.entries : r.key[2] = "lineage" /\ r.key[3] = tx}) <= 1

OutcomeSteps == {"child_session_created", "identity_consumed", "identity_invalidated",
                 "recovery_tx_completed"}

WillEnd(c, tx) ==
    \E i \in DOMAIN caller[c].todo, end \in Terminal :
        caller[c].todo[i].key = <<"status", end, tx, NoThread>>

\* Two calls wrote different outcomes into the transaction.
OutcomesDisagree(tx) ==
    Cardinality({<<r.body.resume, r.body.child>> :
                    r \in {q \in cache.entries : /\ q.key[2] \in OutcomeSteps
                                                 /\ q.key[3] = tx}}) > 1

\* A transaction that is not ended, and that blocks every later recovery of the
\* session, is on its way to its end, or a crash or a failed write cut it off,
\* or two calls that shared it disagreed.
OpenIsOwned ==
    faults = 0 =>
        \A tx \in Transactions :
            Ended(tx) \/ OutcomesDisagree(tx) \/ \E c \in Callers : WillEnd(c, tx)

=============================================================================
