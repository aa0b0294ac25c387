----------------------------- MODULE MemoryIngest -----------------------------
(***************************************************************************)
(* The asynchronous ingest of session events into the Memory Hub: the      *)
(* Session Service's listener (MemoryIngestEnqueuer), the durable queue    *)
(* (MemoryIngestQueueStore), the drains of MemoryIngestWorker and the      *)
(* startup recovery of interrupted records.                                *)
(*                                                                         *)
(* The queue store keeps its last read of the file as a cache and changes  *)
(* that object before it writes the file, so a write that raises leaves    *)
(* the change in the cache: it is visible at once, reaches the file with   *)
(* the next write that succeeds, and is lost if the process dies first.    *)
(*                                                                         *)
(* At startup recover_inflight, the startup drain and the ingest loop are  *)
(* started one after the other, but the first two are awaited for 10 ms    *)
(* only: all three may run at the same time.                               *)
(*                                                                         *)
(* The clock and the retry times stop at MaxTime, where everything is due. *)
(***************************************************************************)
EXTENDS Integers, FiniteSets

CONSTANTS
    Events,         \* session events
    GoalEvents,     \* those that carry a goal for the resident memory
    Drains,         \* drains that may run at the same time
    Loop,           \* the drain of _run_memory_ingest_loop; the others run once
    NoRecord,       \* the queue has no entry
    MaxAttempts,    \* memory_ingest_max_attempts
    Backoff,        \* memory_ingest_initial_backoff_seconds
    MaxTime,        \* bound: the clock
    MaxFaults       \* bound: crashes and failed writes

ASSUME EventsAssumption == GoalEvents \subseteq Events /\ IsFiniteSet(Events)
ASSUME DrainsAssumption == Loop \in Drains /\ IsFiniteSet(Drains)
ASSUME IngestBoundsAssumption ==
    /\ MaxAttempts \in Nat \ {0} /\ Backoff \in Nat
    /\ MaxTime \in Nat /\ MaxFaults \in Nat

VARIABLES
    recorded,       \* events in the Session Service
    listening,      \* events whose listener has not run yet
    failures,       \* events in MemoryIngestEnqueueFailureStore
    queue,          \* queue[e]: the record of e in the store's cache, or NoRecord
    disk,           \* disk[e]: the record of e in the queue's file
    recovery,       \* whether this process still has to run recover_inflight
    drain,          \* drain[d]: where drain d is in process_next
    archive,        \* events in the hub's session archive
    resident,       \* the event whose goal is the resident "goal.current"
    clock,
    faults,
    tries,          \* tries[e]: calls of ingest_session_event for e
    stolen,         \* events recovered while a drain was at work on them
    overlapped,     \* events claimed or worked on while two drains were busy
    abandoned       \* events whose claim raised, in this process

queueVars == <<queue, disk>>
hubVars == <<archive, resident>>
historyVars == <<tries, stolen, overlapped, abandoned>>
ingestVars == <<recorded, listening, failures, queueVars, recovery, drain, hubVars,
                clock, faults, historyVars>>

-----------------------------------------------------------------------------
(* The queue store                                                         *)

MemoryIngestQueueRecord ==
    [seq : Nat \ {0}, status : {"pending", "processing", "retrying", "processed", "failed"},
     attempts : Nat, retry_at : Int]

ASSUME NoRecordAssumption == NoRecord \notin MemoryIngestQueueRecord \cup Events

Queued(e) == queue[e] # NoRecord
HasStatus(e, status) == Queued(e) /\ queue[e].status = status

Fault == faults < MaxFaults /\ faults' = faults + 1

\* _write, after the cached object was changed to new.
WriteOk(new) == queue' = new /\ disk' = new /\ UNCHANGED faults
WriteRaises(new) == queue' = new /\ UNCHANGED disk /\ Fault

\* next_queue_seq: records are never removed.
NextQueueSeq == 1 + Cardinality({e \in Events : Queued(e)})

Capped(time) == IF time > MaxTime THEN MaxTime ELSE time

-----------------------------------------------------------------------------
(* Recording an event                                                      *)

\* SessionService._append_event: the event is durable (now, or since an earlier
\* call with the same content), then the listener is called.
RecordEvent(e) ==
    /\ e \notin listening
    /\ recorded' = recorded \cup {e}
    /\ listening' = listening \cup {e}
    /\ UNCHANGED <<failures, queueVars, recovery, drain, hubVars, clock, faults, historyVars>>

\* MemoryIngestEnqueuer.enqueue_event: the record is queued unless it is there
\* already; if the write raises, the failure is recorded (or that raises too)
\* and _append_event swallows the exception.
EnqueueEvent(e) ==
    LET new == [queue EXCEPT ![e] = [seq |-> NextQueueSeq, status |-> "pending",
                                     attempts |-> 0, retry_at |-> 0]]
    IN  /\ e \in listening
        /\ listening' = listening \ {e}
        /\ \/ Queued(e) /\ UNCHANGED <<queueVars, failures, faults>>
           \/ ~Queued(e) /\ WriteOk(new) /\ UNCHANGED failures
           \/ ~Queued(e) /\ WriteRaises(new) /\ failures' \in {failures, failures \cup {e}}
        /\ UNCHANGED <<recorded, recovery, drain, hubVars, clock, historyVars>>

-----------------------------------------------------------------------------
(* MemoryIngestWorker.process_next                                         *)

IdleDrain == [pc |-> "claim", env |-> NoRecord, attempts |-> 0, now |-> 0]

Busy(d) == drain[d].env # NoRecord

\* process_next is over; if it raised, a drain other than the loop's is too.
NextClaim(d) == drain' = [drain EXCEPT ![d] = IdleDrain]
DrainRaises(d) ==
    drain' = [drain EXCEPT ![d] = [IdleDrain EXCEPT !.pc = IF d = Loop THEN "claim" ELSE "done"]]

Claimable(e) ==
    /\ Queued(e)
    /\ \/ queue[e].status = "pending"
       \/ queue[e].status = "retrying" /\ queue[e].retry_at <= clock

\* A copy with the claim.
Claimed(rec) ==
    [seq |-> rec.seq, status |-> "processing", attempts |-> rec.attempts + 1, retry_at |-> 0]

\* Fault: any record that is due is taken.
ClaimNextUnordered(d, e) ==
    LET claimed == Claimed(queue[e])
        others  == {drain[x].env : x \in {y \in Drains \ {d} : Busy(y)}}
    IN  /\ drain[d].pc = "claim"
        /\ Claimable(e)
        /\ WriteOk([queue EXCEPT ![e] = claimed])
        /\ drain' = [drain EXCEPT ![d] = [pc |-> "archive", env |-> e,
                                          attempts |-> claimed.attempts, now |-> clock]]
        /\ overlapped' = overlapped \cup (IF others = {} THEN {} ELSE others \cup {e})
        /\ UNCHANGED <<recorded, listening, failures, recovery, hubVars, clock, tries, stolen,
                       abandoned>>

\* claim_next takes the oldest record that is due.
ClaimNext(d, e) ==
    LET claimed == Claimed(queue[e])
        new     == [queue EXCEPT ![e] = claimed]
        others  == {drain[x].env : x \in {y \in Drains \ {d} : Busy(y)}}
    IN  /\ drain[d].pc = "claim"
        /\ Claimable(e)
        /\ \A f \in Events : Claimable(f) => queue[e].seq <= queue[f].seq
        /\ \/ /\ WriteOk(new)
              /\ drain' = [drain EXCEPT ![d] = [pc |-> "archive", env |-> e,
                                                attempts |-> claimed.attempts, now |-> clock]]
              /\ overlapped' = overlapped \cup (IF others = {} THEN {} ELSE others \cup {e})
              /\ UNCHANGED abandoned
           \/ /\ WriteRaises(new)
              /\ DrainRaises(d)
              /\ abandoned' = abandoned \cup {e}
              /\ UNCHANGED overlapped
        /\ UNCHANGED <<recorded, listening, failures, recovery, hubVars, clock, tries, stolen>>

\* The startup drain finds nothing.
EndDrain(d) ==
    /\ d # Loop
    /\ drain[d].pc = "claim"
    /\ \A e \in Events : ~Claimable(e)
    /\ drain' = [drain EXCEPT ![d].pc = "done"]
    /\ UNCHANGED <<recorded, listening, failures, queueVars, recovery, hubVars, clock, faults,
                   historyVars>>

\* ingest_session_event, the archive entry (idempotent by its content), or an
\* exception before it is stored.
IngestArchive(d) ==
    LET e == drain[d].env
    IN  /\ drain[d].pc = "archive"
        /\ tries' = [tries EXCEPT ![e] = @ + 1]
        /\ \/ /\ archive' = archive \cup {e}
              /\ drain' = [drain EXCEPT ![d].pc = IF e \in GoalEvents THEN "goal" ELSE "processed"]
           \/ /\ drain' = [drain EXCEPT ![d].pc = "failed"]
              /\ UNCHANGED archive
        /\ UNCHANGED <<recorded, listening, failures, queueVars, recovery, resident, clock,
                       faults, stolen, overlapped, abandoned>>

\* ingest_session_event, the resident memory: the goal of this event replaces
\* whatever is there, or an exception.
IngestGoal(d) ==
    /\ drain[d].pc = "goal"
    /\ \/ resident' = drain[d].env /\ drain' = [drain EXCEPT ![d].pc = "processed"]
       \/ drain' = [drain EXCEPT ![d].pc = "failed"] /\ UNCHANGED resident
    /\ UNCHANGED <<recorded, listening, failures, queueVars, recovery, archive, clock, faults,
                   historyVars>>

\* A mark of the record, whatever its status is by now.
Mark(d, rec) ==
    LET new == [queue EXCEPT ![drain[d].env] = rec]
    IN  /\ \/ WriteOk(new) /\ NextClaim(d)
           \/ WriteRaises(new) /\ DrainRaises(d)
        /\ UNCHANGED <<recorded, listening, failures, recovery, hubVars, clock, historyVars>>

MarkProcessed(d) ==
    /\ drain[d].pc = "processed"
    /\ Mark(d, [queue[drain[d].env] EXCEPT !.status = "processed", !.retry_at = 0])

RetryAt(d) == Capped(drain[d].now + Backoff * 2^(drain[d].attempts - 1))

\* Faults: one attempt too many; an event that cannot be ingested counts as done.
MarkUnprocessedLate(d) ==
    /\ drain[d].pc = "failed"
    /\ Mark(d, IF drain[d].attempts > MaxAttempts
               THEN [queue[drain[d].env] EXCEPT !.status = "failed"]
               ELSE [queue[drain[d].env] EXCEPT !.status = "retrying", !.retry_at = RetryAt(d)])

MarkUnprocessedDone(d) ==
    /\ drain[d].pc = "failed"
    /\ Mark(d, IF drain[d].attempts >= MaxAttempts
               THEN [queue[drain[d].env] EXCEPT !.status = "processed"]
               ELSE [queue[drain[d].env] EXCEPT !.status = "retrying", !.retry_at = RetryAt(d)])

\* mark_failed once the attempts of the drain's own copy are used up, else
\* mark_retrying.
MarkUnprocessed(d) ==
    /\ drain[d].pc = "failed"
    /\ Mark(d, IF drain[d].attempts >= MaxAttempts
               THEN [queue[drain[d].env] EXCEPT !.status = "failed"]
               ELSE [queue[drain[d].env] EXCEPT !.status = "retrying", !.retry_at = RetryAt(d)])

-----------------------------------------------------------------------------
(* Startup, crashes and time                                               *)

\* Fault: nothing is put back.
RecoverInflightNone ==
    /\ recovery = "todo"
    /\ recovery' = "done"
    /\ UNCHANGED <<recorded, listening, failures, queueVars, drain, hubVars, clock, faults,
                   historyVars>>

\* recover_inflight, once per process: whatever is being processed goes back
\* to pending, whoever is at work on it.
RecoverInflight ==
    LET hit == {e \in Events : HasStatus(e, "processing")}
        new == [e \in Events |-> IF e \in hit THEN [queue[e] EXCEPT !.status = "pending",
                                                                    !.retry_at = 0]
                                 ELSE queue[e]]
    IN  /\ recovery = "todo"
        /\ recovery' = "done"
        /\ WriteOk(new) \/ (hit # {} /\ WriteRaises(new))
        /\ stolen' = stolen \cup {e \in hit : \E d \in Drains : drain[d].env = e}
        /\ abandoned' = abandoned \ hit
        /\ UNCHANGED <<recorded, listening, failures, drain, hubVars, clock, tries, overlapped>>

\* The process dies and is started again.
Crash ==
    /\ Fault
    /\ queue' = disk
    /\ listening' = {}
    /\ recovery' = "todo"
    /\ drain' = [d \in Drains |-> IdleDrain]
    /\ abandoned' = {}
    /\ UNCHANGED <<recorded, failures, disk, hubVars, clock, tries, stolen, overlapped>>

ClockTick ==
    /\ clock < MaxTime
    /\ clock' = clock + 1
    /\ UNCHANGED <<recorded, listening, failures, queueVars, recovery, drain, hubVars, faults,
                   historyVars>>

-----------------------------------------------------------------------------
(* Specification                                                           *)

IngestInit ==
    /\ recorded = {} /\ listening = {} /\ failures = {}
    /\ queue = [e \in Events |-> NoRecord] /\ disk = queue
    /\ recovery = "todo" /\ drain = [d \in Drains |-> IdleDrain]
    /\ archive = {} /\ resident = NoRecord
    /\ clock = 0 /\ faults = 0
    /\ tries = [e \in Events |-> 0] /\ stolen = {} /\ overlapped = {} /\ abandoned = {}

DrainStep(d) ==
    \/ (\E e \in Events : ClaimNext(d, e)) \/ EndDrain(d)
    \/ IngestArchive(d) \/ IngestGoal(d) \/ MarkProcessed(d) \/ MarkUnprocessed(d)

IngestNext ==
    \/ \E e \in Events : RecordEvent(e) \/ EnqueueEvent(e)
    \/ \E d \in Drains : DrainStep(d)
    \/ RecoverInflight \/ Crash \/ ClockTick

IngestSpec == IngestInit /\ [][IngestNext]_ingestVars

-----------------------------------------------------------------------------
(* Properties                                                              *)

QueueTypeOK ==
    /\ queue \in [Events -> MemoryIngestQueueRecord \cup {NoRecord}]
    /\ disk \in [Events -> MemoryIngestQueueRecord \cup {NoRecord}]

DrainTypeOK ==
    drain \in [Drains -> [pc : {"claim", "archive", "goal", "processed", "failed", "done"},
                          env : Events \cup {NoRecord}, attempts : Nat, now : 0..MaxTime]]

RecordingTypeOK ==
    /\ recorded \subseteq Events /\ listening \subseteq recorded /\ failures \subseteq recorded
    /\ archive \subseteq recorded /\ resident \in GoalEvents \cup {NoRecord}

HistoryTypeOK ==
    /\ recovery \in {"todo", "done"} /\ clock \in 0..MaxTime /\ faults \in 0..MaxFaults
    /\ tries \in [Events -> Nat] /\ stolen \subseteq Events
    /\ overlapped \subseteq Events /\ abandoned \subseteq Events

\* Every variable has its type.
IngestTypeOK == QueueTypeOK /\ DrainTypeOK /\ RecordingTypeOK /\ HistoryTypeOK

\* What the queue reports as processed, in the cache or in the file, is in the
\* archive, although a record is marked by whoever comes last, recovered under
\* a drain's feet, and reaches the file with some later write.
ProcessedIsArchived ==
    \A e \in Events : \A rec \in {queue[e], disk[e]} :
        rec # NoRecord /\ rec.status = "processed" => e \in archive

\* The hub is asked to ingest an event at most MaxAttempts times, and once more
\* for each crash or failed write and for each time a drain's work was
\* recovered under its feet.
TriesWithinBudget ==
    \A e \in Events :
        tries[e] <= MaxAttempts + faults + (IF e \in stolen THEN 1 ELSE 0)

\* The resident goal is that of an earlier event than the last one ingested only
\* if the earlier event had to be tried again or two drains ran together.
GoalLagsOnlyBehindRetries ==
    \A e \in GoalEvents :
        (HasStatus(e, "processed") /\ resident # NoRecord)
        => \/ queue[resident].seq >= queue[e].seq
           \/ queue[resident].attempts > 1
           \/ resident \in overlapped

\* No event is stuck in processing: a drain has it in hand, the recovery of this
\* start is still to come, or its claim raised (that record is worked on by
\* nobody until the next start).
ProcessingIsOwned ==
    \A e \in Events : HasStatus(e, "processing") =>
        \/ \E d \in Drains : drain[d].env = e
        \/ recovery = "todo"
        \/ e \in abandoned
=============================================================================
