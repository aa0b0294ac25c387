--------------------------- MODULE FutureWorkers ----------------------------
(***************************************************************************)
(* The lifecycle of a future worker, kept as events of its parent session. *)
(* Every operation of FutureWorkerExecutionService first derives the state *)
(* of the worker from the events and refuses a transition the table does   *)
(* not allow, with an event of its own and a ValueError; it appends its    *)
(* event afterwards.  The two are separate accesses of the session store,  *)
(* and the callers are threads: the runtime that reports on a worker, the  *)
(* resident that carries out a decision, and recoveries.                   *)
(***************************************************************************)
EXTENDS Naturals, Sequences, SequencesExt, FiniteSets, Functions

CONSTANTS
    Workers,      \* worker_task_refs of the parent session
    Callers,      \* the threads that call the service
    Decision,     \* of these, the resident that carries out decisions
    Runtime,      \* and the worker runtime
    MaxReports    \* bound on the events of a worker before the runtime stops reporting

ASSUME FutureWorkersConstants ==
    /\ Decision \in Callers /\ Runtime \in Callers /\ Decision # Runtime
    /\ MaxReports \in Nat

VARIABLES
    wlog,         \* worker |-> its events, oldest first
    call,         \* caller |-> the transition it was allowed and has not written yet
    sweep,        \* caller |-> what it still has to write after its scan of the events
    overlapped    \* workers with an event that was written after another than it was checked against

workerVars == <<wlog, call, sweep, overlapped>>

Repeatable == {"heartbeat", "summary"}
Terminal   == {"failed", "cancelled", "consumed", "rejected"}
Lifecycle  == {"requested", "started", "completed"} \cup Repeatable \cup Terminal
Reports    == {"started", "completed", "failed", "cancelled"} \cup Repeatable

StateAfter(e) == IF e \in {"started"} \cup Repeatable THEN "running" ELSE e

\* A refusal is on record as well, but stands for no state.
LatestUpTo(log, n) == Max({0} \cup {i \in 1..n : log[i] # "transition_rejected"})
Latest(log)        == LatestUpTo(log, Len(log))

\* _current_worker_state, as of the first n events: that of the last of them
\* that stands for one.
StateAsOf(log, n) ==
    IF LatestUpTo(log, n) = 0 THEN "none" ELSE StateAfter(log[LatestUpTo(log, n)])
CurrentState(log) == StateAsOf(log, Len(log))

\* Mutant: a worker that has ended may still be cancelled.
AllowedAfterTheEnd(state) ==
    CASE state = "none"      -> {"requested"}
      [] state = "requested" -> {"started", "heartbeat", "failed", "cancelled"}
      [] state = "running"   -> Repeatable \cup {"completed", "failed", "cancelled"}
      [] state = "completed" -> {"consumed", "rejected"}
      [] OTHER               -> {"cancelled"}

Allowed(state) ==
    CASE state = "none"      -> {"requested"}
      [] state = "requested" -> {"started", "heartbeat", "failed", "cancelled"}
      [] state = "running"   -> Repeatable \cup {"completed", "failed", "cancelled"}
      [] state = "completed" -> {"consumed", "rejected"}
      [] OTHER               -> {}

NoCall == [worker |-> "none"]

Requested(w) == Contains(wlog[w], "requested")
Started(w)   == Contains(wlog[w], "started")

\* _assert_transition_allowed lets the call through.
Admits(w, e) == e \in Allowed(CurrentState(wlog[w]))

\* A worker that was never requested has no record of refusals either: the
\* lookup of the request event raises first.
Admit(c, w, e) ==
    /\ call[c] = NoCall
    /\ e = "requested" \/ Requested(w)
    /\ Admits(w, e)
    /\ e = "completed" => Started(w)
    /\ call' = [call EXCEPT ![c] = [worker |-> w, event |-> e,
                                    seen |-> Latest(wlog[w])]]
    /\ UNCHANGED <<wlog, overlapped>>

\* A heartbeat that precedes the start leaves a worker that can never be
\* reported as started, and therefore never as completed.
Refuse(c, w, e) ==
    /\ call[c] = NoCall
    /\ Requested(w)
    /\ ~Admits(w, e) \/ (e = "completed" /\ ~Started(w))
    /\ wlog' = IF Admits(w, e) THEN wlog
               ELSE [wlog EXCEPT ![w] = Append(@, "transition_rejected")]
    /\ UNCHANGED <<call, overlapped>>

\* The key of an event that may not be repeated is that of the one before,
\* and record_event raises a conflict.
WriteConflicts(c) ==
    LET e == call[c].event
    IN  e \notin Repeatable /\ Contains(wlog[call[c].worker], e)

\* _record_lifecycle_event.
WriteEvent(c) ==
    LET w == call[c].worker
    IN  /\ call[c] # NoCall
        /\ call' = [call EXCEPT ![c] = NoCall]
        /\ IF WriteConflicts(c)
           THEN UNCHANGED <<wlog, overlapped>>
           ELSE /\ wlog' = [wlog EXCEPT ![w] = Append(@, call[c].event)]
                /\ overlapped' = IF Latest(wlog[w]) = call[c].seen
                                 THEN overlapped ELSE overlapped \cup {w}

-----------------------------------------------------------------------------

\* record_started, record_heartbeat, record_summary_published,
\* record_completed, record_failed and record_cancelled.
RuntimeReports(w, e) ==
    /\ e \in Reports
    /\ Len(wlog[w]) < MaxReports
    /\ Admit(Runtime, w, e) \/ Refuse(Runtime, w, e)
    /\ UNCHANGED sweep

\* _materialize_future_worker_requests skips the requests it finds on record.
DecisionRequests(w) ==
    /\ sweep[Decision] = {}
    /\ ~Requested(w)
    /\ Admit(Decision, w, "requested")
    /\ UNCHANGED sweep

\* _future_worker_state_event leaves out what repeats and what was refused.
LastStateEvent(log) ==
    LET t == SelectSeq(log, LAMBDA e : e \in Lifecycle \ Repeatable)
    IN  IF t = <<>> THEN "none" ELSE Last(t)

\* The results the decision will consume, as of one reading of the events.
DecisionScans ==
    LET done == {w \in Workers : LastStateEvent(wlog[w]) = "completed"}
    IN  /\ sweep[Decision] = {} /\ call[Decision] = NoCall
        /\ done # {}
        /\ sweep' = [sweep EXCEPT ![Decision] = {<<w, "consumed">> : w \in done}]
        /\ UNCHANGED <<wlog, call, overlapped>>

\* One worker of the sweep.  An exception ends the sweep.
SweepNext(c) ==
    \E x \in sweep[c] :
        \/ Admit(c, x[1], x[2]) /\ sweep' = [sweep EXCEPT ![c] = @ \ {x}]
        \/ Refuse(c, x[1], x[2]) /\ sweep' = [sweep EXCEPT ![c] = {}]

CallerWrites(c) ==
    /\ WriteEvent(c)
    /\ sweep' = IF WriteConflicts(c) THEN [sweep EXCEPT ![c] = {}] ELSE sweep

WorkersInit ==
    /\ wlog = [w \in Workers |-> <<>>]
    /\ call = [c \in Callers |-> NoCall]
    /\ sweep = [c \in Callers |-> {}]
    /\ overlapped = {}

WorkersNext ==
    \/ \E w \in Workers, e \in Reports : RuntimeReports(w, e)
    \/ \E w \in Workers : DecisionRequests(w)
    \/ DecisionScans
    \/ SweepNext(Decision)
    \/ \E c \in {Decision, Runtime} : CallerWrites(c)

-----------------------------------------------------------------------------

WorkersTypeOK ==
    /\ wlog \in [Workers -> Seq(Lifecycle \cup {"transition_rejected"})]
    /\ call \in [Callers -> [worker : Workers, event : Lifecycle, seen : Nat] \cup {NoCall}]
    /\ sweep \in [Callers -> SUBSET (Workers \X Lifecycle)]
    /\ overlapped \subseteq Workers

\* The lifecycle of a worker goes along the table: nothing follows its end,
\* and a result is consumed or rejected, never both, whatever the threads
\* and recoveries do, as long as no event of the worker was written between
\* the check of a transition and the append of its event.
LifecycleInOrder ==
    \A w \in Workers \ overlapped : \A j \in 1..Len(wlog[w]) :
        LET log == wlog[w]
        IN  log[j] # "transition_rejected" =>
                /\ log[j] \in Allowed(StateAsOf(log, j - 1))
                /\ \A i \in 1..(j - 1) : log[i] \notin Terminal
                /\ log[j] = "completed" => \E i \in 1..(j - 1) : log[i] = "started"

=============================================================================
