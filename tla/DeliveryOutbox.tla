---------------------------- MODULE DeliveryOutbox ----------------------------
(***************************************************************************)
(* DeliveryOutboxStore and the four parties that write to it: whoever      *)
(* enqueues or supersedes envelopes, the DeliveryWorker that drains the    *)
(* outbox, the operator's requeue endpoint, and the recovery that reissues *)
(* an interaction to a child session.                                      *)
(*                                                                         *)
(* Every operation of the store is atomic (thread lock, file lock, rename) *)
(* but the worker and the recovery read a record in one operation and      *)
(* write their modified copy back in another: a step here is one store     *)
(* operation, one session event or one call of the delivery client.  The   *)
(* two tables of the file (decision_outbox, delivery_outbox) are always    *)
(* written together and are one variable.                                  *)
(*                                                                         *)
(* The clock and the retry times stop at MaxTime, where everything is due: *)
(* only "due or not" matters.                                              *)
(***************************************************************************)
EXTENDS Integers, Sequences, FiniteSets

CONSTANTS
    Envelopes,      \* envelope identifiers
    Kind,           \* Kind[e]: "decision", "approval" or "notification"
    Session,        \* Session[e]: the session of e
    Batches,        \* the lists of envelopes enqueued together
    Reissue,        \* Reissue[e]: the identifier "e:recovery", where bounded in
    Snapshots,      \* fact snapshot numbers
    Contents,       \* what an envelope's payload may say
    NoRecord,       \* the outbox has no entry
    QuietSeconds,   \* local_manual_activity_quiet_window_seconds
    MaxAttempts,    \* delivery_max_attempts
    Backoff,        \* delivery_initial_backoff_seconds
    MaxTime,        \* bound: the clock
    MaxResets,      \* bound: refreshes and requeues of one envelope
    MaxFaults       \* bound: crashes and raising steps

ASSUME KindAssumption == Kind \in [Envelopes -> {"decision", "approval", "notification"}]
ASSUME BatchesAssumption ==
    \A b \in Batches : /\ b \in Seq(Envelopes)
                       /\ \A i, j \in 1..Len(b) : b[i] = b[j] => i = j
ASSUME ReissueAssumption ==
    /\ DOMAIN Reissue \subseteq Envelopes
    /\ \A e \in DOMAIN Reissue : Reissue[e] \in Envelopes /\ Kind[Reissue[e]] = Kind[e]
    /\ \A e, f \in DOMAIN Reissue : Reissue[e] = Reissue[f] => e = f
\* Nobody but a recovery makes a reissued envelope.
ASSUME BatchesReissueNothing ==
    \A e \in DOMAIN Reissue, b \in Batches : \A i \in 1..Len(b) : b[i] # Reissue[e]
ASSUME SnapshotsAssumption == Snapshots \subseteq Nat
ASSUME AttemptsAssumption == MaxAttempts \in Nat \ {0}
ASSUME DeliveryBoundsAssumption ==
    /\ Backoff \in Nat /\ QuietSeconds \in Nat /\ MaxTime \in Nat
    /\ MaxResets \in Nat /\ MaxFaults \in Nat

VARIABLES
    outbox,         \* outbox[e]: the record of e, or NoRecord
    nextSeq,        \* next_outbox_seq
    worker,         \* the DeliveryWorker's drain
    reissuer,       \* the recovery's pass over the interactions
    events,         \* the notification events in the Session Service
    contexts,       \* envelopes whose interaction_context_superseded is on record
    clock,
    quietUntil,     \* end of the quiet window after local manual activity
    faults,
    accepted,       \* <<e, content>> the receiver accepted
    sends,          \* sends[e]: calls of the delivery client for e
    resets,         \* resets[e]: refreshes and requeues of e
    fresh           \* envelopes (re)activated since the worker's last pick

storeVars == <<outbox, nextSeq>>
historyVars == <<accepted, sends, resets, fresh>>
envVars == <<clock, quietUntil, faults>>
deliveryVars == <<storeVars, worker, reissuer, events, contexts, envVars, historyVars>>

-----------------------------------------------------------------------------
(* Records                                                                 *)

\* retry_at is 0 for "no next_retry_at"; failure tells the failure codes apart
\* by what the code does with them.
DeliveryOutboxRecord ==
    [seq : Nat, snapshot : Snapshots, content : Contents,
     status : {"pending", "retrying", "delivered", "delivery_failed", "superseded"},
     attempt : Nat, retry_at : Int,
     failure : {"none", "transport", "other", "manual"}]

NewRecord(seq, snapshot, content) ==
    [seq |-> seq, snapshot |-> snapshot, content |-> content, status |-> "pending",
     attempt |-> 0, retry_at |-> 0, failure |-> "none"]

\* A copy with what a step has made of the delivery.
Marked(rec, status, retry_at, failure) ==
    [rec EXCEPT !.status = status, !.retry_at = retry_at, !.failure = failure]

Present(e) == outbox[e] # NoRecord
Waiting(e) == Present(e) /\ outbox[e].status \in {"pending", "retrying"}

ASSUME NoRecordAssumption == NoRecord \notin DeliveryOutboxRecord

\* update_delivery_record: the record is overwritten by the caller's copy.
UpdateDeliveryRecord(e, rec) ==
    /\ outbox' = [outbox EXCEPT ![e] = rec]
    /\ nextSeq' = IF rec.seq + 1 > nextSeq THEN rec.seq + 1 ELSE nextSeq

Fault == faults < MaxFaults /\ faults' = faults + 1

Capped(time) == IF time > MaxTime THEN MaxTime ELSE time

-----------------------------------------------------------------------------
(* The store's other operations                                            *)

\* Fault: a delivered or superseded approval is refreshed too.
RefreshesAlways(e, snapshot, content) ==
    /\ snapshot >= outbox[e].snapshot
    /\ <<snapshot, content>> # <<outbox[e].snapshot, outbox[e].content>>

\* _refresh_existing_record: whether the envelope replaces the record's
\* content and puts it back to pending.
Refreshes(e, snapshot, content) ==
    /\ snapshot >= outbox[e].snapshot
    /\ ~(Kind[e] = "approval" /\ outbox[e].status \in {"delivered", "superseded"})
    /\ <<snapshot, content>> # <<outbox[e].snapshot, outbox[e].content>>

\* The sequence number the i-th envelope of the batch gets if it is new: the
\* new ones before it have theirs.
NewBefore(batch, i) == {j \in 1..(i - 1) : ~Present(batch[j])}
BatchSeq(batch, i) == nextSeq + Cardinality(NewBefore(batch, i))

EnqueueEnvelopes(batch, snapshot, content) ==
    LET index(e)  == CHOOSE i \in 1..Len(batch) : batch[i] = e
        members   == {batch[i] : i \in 1..Len(batch)}
        new       == {e \in members : ~Present(e)}
        refreshed == {e \in members \ new : Refreshes(e, snapshot, content)}
    IN  /\ new \cup refreshed # {}
        /\ \A e \in refreshed : resets[e] < MaxResets
        /\ outbox' = [e \in Envelopes |->
               IF e \in new THEN NewRecord(BatchSeq(batch, index(e)), snapshot, content)
               ELSE IF e \in refreshed THEN NewRecord(outbox[e].seq, snapshot, content)
               ELSE outbox[e]]
        /\ nextSeq' = BatchSeq(batch, Len(batch) + 1)
        /\ resets' = [e \in Envelopes |-> IF e \in refreshed THEN resets[e] + 1 ELSE resets[e]]
        /\ fresh' = fresh \cup new \cup refreshed
        /\ UNCHANGED <<worker, reissuer, events, contexts, envVars, accepted, sends>>

\* supersede_records: the approvals behind these envelopes are no longer
\* pending.
SupersedeRecords(S) ==
    LET hit == {e \in S : Present(e) /\ outbox[e].status \notin {"delivered", "superseded"}}
    IN  /\ hit # {}
        /\ outbox' = [e \in Envelopes |->
               IF e \in hit THEN Marked(outbox[e], "superseded", 0, "none") ELSE outbox[e]]
        /\ UNCHANGED <<nextSeq, worker, reissuer, events, contexts, envVars, historyVars>>

\* requeue_transport_failures.
RequeueTransportFailures ==
    LET hit == {e \in Envelopes : /\ Present(e) /\ outbox[e].status = "delivery_failed"
                                  /\ outbox[e].failure = "transport"}
    IN  /\ hit # {}
        /\ \A e \in hit : resets[e] < MaxResets
        /\ outbox' = [e \in Envelopes |->
               IF e \in hit THEN NewRecord(outbox[e].seq, outbox[e].snapshot, outbox[e].content)
               ELSE outbox[e]]
        /\ resets' = [e \in Envelopes |-> IF e \in hit THEN resets[e] + 1 ELSE resets[e]]
        /\ fresh' = fresh \cup hit
        /\ UNCHANGED <<nextSeq, worker, reissuer, events, contexts, envVars, accepted, sends>>

-----------------------------------------------------------------------------
(* The worker: process_next_ready, again and again until nothing is ready  *)

IdleWorker == [pc |-> "idle", now |-> 0, env |-> NoRecord, rec |-> NoRecord, result |-> "none"]

Before(e, f) ==
    /\ Session[e] = Session[f]
    /\ \/ outbox[e].snapshot < outbox[f].snapshot
       \/ outbox[e].snapshot = outbox[f].snapshot /\ outbox[e].seq < outbox[f].seq

Due(e, now) == outbox[e].retry_at <= now

\* Fault: whatever is due is sent.
NextReadyUnordered(e, now) == Waiting(e) /\ Due(e, now)

\* _next_ready_record: in a session, a record that is not due holds back the
\* ones behind it, unless it waits for the end of local manual activity.
\* Which session is served first is left open.
NextReady(e, now) ==
    /\ Waiting(e) /\ Due(e, now)
    /\ \A f \in Envelopes :
          Waiting(f) /\ Before(f, e) => ~Due(f, now) /\ outbox[f].failure = "manual"

Working(e, rec, label) ==
    worker' = [worker EXCEPT !.pc = label, !.env = e, !.rec = rec]

\* Done with the record: on to the next.
NextPick == worker' = [worker EXCEPT !.pc = "pick", !.env = NoRecord, !.rec = NoRecord,
                                     !.result = "none"]

\* _drain_delivery_outbox reads the clock once.
BeginDrain ==
    /\ worker.pc = "idle"
    /\ \E e \in Envelopes : NextReady(e, clock)
    /\ worker' = [worker EXCEPT !.pc = "pick", !.now = clock]
    /\ UNCHANGED <<storeVars, reissuer, events, contexts, envVars, historyVars>>

PickRecord ==
    /\ worker.pc = "pick"
    /\ \/ \E e \in Envelopes : NextReady(e, worker.now) /\ Working(e, outbox[e], "picked")
       \/ (\A e \in Envelopes : ~NextReady(e, worker.now)) /\ worker' = IdleWorker
    /\ fresh' = {}
    /\ UNCHANGED <<storeVars, reissuer, events, contexts, envVars, accepted, sends, resets>>

\* The fingerprint of another record: session, kind and content.
SameFingerprint(f, e, content) ==
    Session[f] = Session[e] /\ Kind[f] = Kind[e] /\ outbox[f].content = content

\* Another record with the same fingerprint was delivered.
HasDelivered(e, content) ==
    \E f \in Envelopes \ {e} :
        Present(f) /\ outbox[f].status = "delivered" /\ SameFingerprint(f, e, content)

\* The record is given up without being sent.
GiveUp ==
    /\ UpdateDeliveryRecord(worker.env, Marked(worker.rec, "delivery_failed", 0, "other"))
    /\ NextPick
    /\ UNCHANGED <<reissuer, events, contexts, envVars, historyVars>>

\* Before its route is resolved: a stale progress summary, an inactive project,
\* or a kind the notification policy holds back.
SuppressRecord == worker.pc = "picked" /\ GiveUp

\* After it: the duplicate of a notice that was delivered.
SuppressDuplicate ==
    worker.pc = "routed" /\ HasDelivered(worker.env, worker.rec.content) /\ GiveUp

\* _apply_local_manual_activity_deferral, for notifications only.
DeferRecord ==
    LET rec == Marked(worker.rec, "retrying", quietUntil, "manual")
    IN  /\ worker.pc = "picked"
        /\ Kind[worker.env] = "notification"
        /\ quietUntil > worker.now
        /\ UpdateDeliveryRecord(worker.env, rec)
        /\ Working(worker.env, rec, "requeued")
        /\ UNCHANGED <<reissuer, events, contexts, envVars, historyVars>>

\* _apply_dynamic_delivery_route writes the record back if it found a new
\* route.  Decisions never get here (notification policy).
RouteRecord ==
    /\ worker.pc = "picked"
    /\ Kind[worker.env] # "decision"
    /\ ~(Kind[worker.env] = "notification" /\ quietUntil > worker.now)
    /\ UpdateDeliveryRecord(worker.env, worker.rec) \/ UNCHANGED storeVars
    /\ worker' = [worker EXCEPT !.pc = "routed"]
    /\ UNCHANGED <<reissuer, events, contexts, envVars, historyVars>>

\* A notification event; key is what its correlation id adds to the envelope.
Event(type, key, body) == [type |-> type, env |-> worker.env, key |-> key, body |-> body]

\* record_event_once: an event known under the key must be the same.
Known(ev) == \E old \in events : old.type = ev.type /\ old.env = ev.env /\ old.key = ev.key
Conflict(ev) == Known(ev) /\ ev \notin events

\* The event is on record and the worker goes on at `label`, or record_event_once
\* raises and the drain is over.
RecordEvent(ev, label) ==
    /\ IF Conflict(ev) THEN worker' = IdleWorker /\ UNCHANGED events
       ELSE /\ events' = events \cup {ev}
            /\ IF label = "pick" THEN NextPick ELSE worker' = [worker EXCEPT !.pc = label]
    /\ UNCHANGED <<storeVars, reissuer, contexts, envVars, historyVars>>

\* _record_notification_announced: the key is a digest of the body.
AnnounceRecord ==
    /\ worker.pc = "routed"
    /\ IF Kind[worker.env] = "notification"
       THEN RecordEvent(Event("announced", worker.rec.content, worker.rec.content), "send")
       ELSE /\ worker' = [worker EXCEPT !.pc = "send"]
            /\ UNCHANGED <<storeVars, reissuer, events, contexts, envVars, historyVars>>

\* deliver_record: delivered; retryable failures (of which the receiver may
\* have accepted the message all the same); final failures.
Results == {"delivered", "retry_transport", "retry_protocol", "failed_transport", "failed"}

DeliverRecord ==
    /\ worker.pc = "send"
    /\ \E result \in Results :
          /\ worker' = [worker EXCEPT !.pc = "commit", !.result = result]
          /\ accepted' \in {a \in {accepted, accepted \cup {<<worker.env, worker.rec.content>>}} :
                /\ result = "delivered" => <<worker.env, worker.rec.content>> \in a
                /\ result \in {"failed_transport", "failed"} => a = accepted}
    /\ sends' = [sends EXCEPT ![worker.env] = @ + 1]
    /\ UNCHANGED <<storeVars, reissuer, events, contexts, envVars, resets, fresh>>

RetryAt(attempt) ==
    Capped(worker.now + Backoff * 2^(attempt - 1))

FailureOf(result) ==
    IF result \in {"retry_transport", "failed_transport"} THEN "transport"
    ELSE IF result = "delivered" THEN "none" ELSE "other"

\* Faults: one attempt too many; an incomplete answer counts as delivered.
OutcomeOneMore(rec, result) ==
    LET attempt == rec.attempt + 1
        retry   == result \in {"retry_transport", "retry_protocol"} /\ attempt <= MaxAttempts
    IN  Marked([rec EXCEPT !.attempt = attempt],
               IF result = "delivered" THEN "delivered"
               ELSE IF retry THEN "retrying" ELSE "delivery_failed",
               IF retry THEN RetryAt(attempt) ELSE 0, FailureOf(result))

OutcomeLenient(rec, result) ==
    Marked([rec EXCEPT !.attempt = @ + 1],
           IF result \in {"delivered", "retry_protocol"} THEN "delivered" ELSE "delivery_failed",
           0, "none")

\* The copy of the record the worker writes back: delivered, retrying, or
\* delivery_failed (also when the attempts are used up).
Outcome(rec, result) ==
    LET attempt == rec.attempt + 1
        retry   == result \in {"retry_transport", "retry_protocol"} /\ attempt < MaxAttempts
    IN  Marked([rec EXCEPT !.attempt = attempt],
               IF result = "delivered" THEN "delivered"
               ELSE IF retry THEN "retrying" ELSE "delivery_failed",
               IF retry THEN RetryAt(attempt) ELSE 0, FailureOf(result))

CommitResult ==
    LET rec == Outcome(worker.rec, worker.result)
    IN  /\ worker.pc = "commit"
        /\ UpdateDeliveryRecord(worker.env, rec)
        /\ IF Kind[worker.env] = "notification" THEN Working(worker.env, rec, "record")
                                                ELSE NextPick
        /\ UNCHANGED <<reissuer, events, contexts, envVars, historyVars>>

\* _record_notification_delivery_result: the key is the attempt (the receipt's
\* event follows, under a key of its own).
RecordDeliveryResult ==
    /\ worker.pc = "record"
    /\ RecordEvent(Event(IF worker.result = "delivered" THEN "succeeded" ELSE "failed",
                         worker.rec.attempt, <<worker.rec.content, worker.result>>),
                   IF worker.rec.status = "retrying" THEN "requeued" ELSE "pick")

\* _record_notification_requeued: the key is the retry time.
RecordRequeued ==
    /\ worker.pc = "requeued"
    /\ RecordEvent(Event("requeued", worker.rec.retry_at,
                         <<worker.rec.content, worker.rec.attempt, worker.rec.failure>>), "pick")

\* Fault: an exception ends the delivery loop.
WorkerFaultFatal ==
    /\ worker.pc # "idle"
    /\ Fault
    /\ worker' = [IdleWorker EXCEPT !.pc = "dead"]
    /\ UNCHANGED <<storeVars, reissuer, events, contexts, clock, quietUntil, historyVars>>

\* The process dies, or a step raises: the drain is over.
WorkerFault ==
    /\ worker.pc # "idle"
    /\ Fault
    /\ worker' = IdleWorker
    /\ UNCHANGED <<storeVars, reissuer, events, contexts, clock, quietUntil, historyVars>>

-----------------------------------------------------------------------------
(* The recovery: _supersede_stale_interactions_for_recovery                *)

IdleReissuer == [pc |-> "idle", copy |-> <<>>, todo |-> {}, env |-> NoRecord, seq |-> 0]

\* list_records; of each interaction family the record with the highest
\* sequence number, unless it was superseded or given up.
StartReissue ==
    LET todo == {e \in DOMAIN Reissue :
                    /\ Present(e)
                    /\ Present(Reissue[e]) => outbox[Reissue[e]].seq < outbox[e].seq
                    /\ outbox[e].status \notin {"superseded", "delivery_failed"}}
    IN  /\ reissuer.pc = "idle"
        /\ todo # {}
        /\ reissuer' = [reissuer EXCEPT !.pc = "context", !.copy = outbox, !.todo = todo]
        /\ UNCHANGED <<storeVars, worker, events, contexts, envVars, historyVars>>

\* interaction_context_superseded is recorded: it names Reissue[e] as active.
SupersedeContext(e) ==
    /\ reissuer.pc = "context"
    /\ e \in reissuer.todo
    /\ contexts' = contexts \cup {e}
    /\ reissuer' = [reissuer EXCEPT !.pc = "old", !.env = e]
    /\ UNCHANGED <<storeVars, worker, events, envVars, historyVars>>

SupersedeOld ==
    /\ reissuer.pc = "old"
    /\ UpdateDeliveryRecord(reissuer.env,
           [reissuer.copy[reissuer.env] EXCEPT !.status = "superseded"])
    /\ reissuer' = [reissuer EXCEPT !.pc = "reserve"]
    /\ UNCHANGED <<worker, events, contexts, envVars, historyVars>>

\* Fault: the number is read and not reserved.
ReserveOutboxSeqRead ==
    /\ reissuer.pc = "reserve"
    /\ reissuer' = [reissuer EXCEPT !.pc = "new", !.seq = nextSeq]
    /\ UNCHANGED <<storeVars, worker, events, contexts, envVars, historyVars>>

\* reserve_outbox_seq.
ReserveOutboxSeq ==
    /\ reissuer.pc = "reserve"
    /\ reissuer' = [reissuer EXCEPT !.pc = "new", !.seq = nextSeq]
    /\ nextSeq' = nextSeq + 1
    /\ UNCHANGED <<outbox, worker, events, contexts, envVars, historyVars>>

WriteReissued ==
    LET old  == reissuer.copy[reissuer.env]
        e    == Reissue[reissuer.env]
        left == reissuer.todo \ {reissuer.env}
    IN  /\ reissuer.pc = "new"
        /\ UpdateDeliveryRecord(e, NewRecord(reissuer.seq, old.snapshot, old.content))
        /\ fresh' = fresh \cup {e}
        /\ reissuer' = IF left = {} THEN IdleReissuer
                       ELSE [reissuer EXCEPT !.pc = "context", !.todo = left,
                                             !.env = NoRecord, !.seq = 0]
        /\ UNCHANGED <<worker, events, contexts, envVars, accepted, sends, resets>>

\* The process dies or a step raises in the middle of the pass.
ReissuerFault ==
    /\ reissuer.pc # "idle"
    /\ Fault
    /\ reissuer' = IdleReissuer
    /\ UNCHANGED <<storeVars, worker, events, contexts, clock, quietUntil, historyVars>>

-----------------------------------------------------------------------------
(* The environment                                                         *)

ClockTick ==
    /\ clock < MaxTime
    /\ clock' = clock + 1
    /\ UNCHANGED <<storeVars, worker, reissuer, events, contexts, quietUntil, faults, historyVars>>

\* Somebody works in the session by hand.
ManualActivity ==
    /\ Capped(clock + QuietSeconds) > quietUntil
    /\ quietUntil' = Capped(clock + QuietSeconds)
    /\ UNCHANGED <<storeVars, worker, reissuer, events, contexts, clock, faults, historyVars>>

-----------------------------------------------------------------------------
(* Specification                                                           *)

DeliveryInit ==
    /\ outbox = [e \in Envelopes |-> NoRecord] /\ nextSeq = 1
    /\ worker = IdleWorker /\ reissuer = IdleReissuer
    /\ events = {} /\ contexts = {} /\ accepted = {} /\ fresh = {}
    /\ clock = 0 /\ quietUntil = 0 /\ faults = 0
    /\ sends = [e \in Envelopes |-> 0] /\ resets = [e \in Envelopes |-> 0]

WorkerStep ==
    \/ BeginDrain \/ PickRecord \/ SuppressRecord \/ SuppressDuplicate
    \/ DeferRecord \/ RouteRecord
    \/ AnnounceRecord \/ DeliverRecord \/ CommitResult \/ RecordDeliveryResult
    \/ RecordRequeued

ReissueStep ==
    \/ StartReissue \/ (\E e \in Envelopes : SupersedeContext(e)) \/ SupersedeOld
    \/ ReserveOutboxSeq \/ WriteReissued

DeliveryNext ==
    \/ \E batch \in Batches, snapshot \in Snapshots, content \in Contents :
           EnqueueEnvelopes(batch, snapshot, content)
    \/ \E e \in Envelopes : Kind[e] = "approval" /\ SupersedeRecords({e})
    \/ RequeueTransportFailures
    \/ WorkerStep \/ WorkerFault
    \/ ReissueStep \/ ReissuerFault
    \/ ClockTick \/ ManualActivity

\* The delivery loop drains the outbox again and again, and time passes;
\* nothing makes a recovery, a fault or a caller of the store act.
DeliverySpec ==
    /\ DeliveryInit /\ [][DeliveryNext]_deliveryVars
    /\ WF_deliveryVars(WorkerStep) /\ WF_deliveryVars(ClockTick)

-----------------------------------------------------------------------------
(* Properties                                                              *)

StoreTypeOK ==
    /\ outbox \in [Envelopes -> DeliveryOutboxRecord \cup {NoRecord}]
    /\ nextSeq \in Nat \ {0}

WorkerTypeOK ==
    /\ worker \in [pc : {"idle", "pick", "picked", "routed", "send", "commit", "record", "requeued"},
                   now : 0..MaxTime, env : Envelopes \cup {NoRecord},
                   rec : DeliveryOutboxRecord \cup {NoRecord}, result : Results \cup {"none"}]
    /\ worker.pc \notin {"idle", "pick"} =>
           worker.env \in Envelopes /\ worker.rec \in DeliveryOutboxRecord
    /\ worker.pc = "commit" => worker.result \in Results

ReissuerTypeOK ==
    /\ reissuer \in [pc : {"idle", "context", "old", "reserve", "new"}, copy : {reissuer.copy},
                     todo : SUBSET DOMAIN Reissue, env : Envelopes \cup {NoRecord}, seq : Nat]
    /\ reissuer.pc # "idle" => reissuer.copy \in [Envelopes -> DeliveryOutboxRecord \cup {NoRecord}]
    /\ reissuer.pc \in {"old", "reserve", "new"} => reissuer.env \in reissuer.todo

HistoryTypeOK ==
    /\ \A ev \in events : ev.env \in Envelopes
    /\ contexts \subseteq DOMAIN Reissue
    /\ clock \in 0..MaxTime /\ quietUntil \in 0..MaxTime /\ faults \in 0..MaxFaults
    /\ accepted \subseteq Envelopes \X Contents /\ fresh \subseteq Envelopes
    /\ sends \in [Envelopes -> Nat] /\ resets \in [Envelopes -> 0..MaxResets]

\* Every variable has its type.
DeliveryTypeOK == StoreTypeOK /\ WorkerTypeOK /\ ReissuerTypeOK /\ HistoryTypeOK

\* The order of delivery is total in every session: no two records ever share a
\* sequence number, and none has one that will be given out again, although
\* the worker and the recovery write back numbers they read or reserved long
\* before.
SequenceNumbersUnique ==
    /\ \A e \in Envelopes : Present(e) => outbox[e].seq < nextSeq
    /\ \A e, f \in Envelopes :
          Present(e) /\ Present(f) /\ outbox[e].seq = outbox[f].seq => e = f

\* The receiver is called at most MaxAttempts times for an envelope, once more
\* for each fault (a result that was not written back), and again that often
\* after each refresh or requeue, whoever overwrites the attempt count meanwhile.
SendsWithinBudget ==
    \A e \in Envelopes : sends[e] <= MaxAttempts * (1 + resets[e]) + faults

\* While the worker handles a record, whatever is due or in backoff ahead of it
\* in its session became so after the worker picked it: a failed envelope holds
\* back its session across retries, drains and restarts, and only a
\* notification deferred for local manual activity is overtaken.
InOrderUnlessDeferred ==
    worker.pc \in {"picked", "routed", "send"} =>
        \A f \in Envelopes \ (fresh \cup {worker.env}) :
            (/\ Waiting(f) /\ Session[f] = Session[worker.env]
             /\ \/ outbox[f].snapshot < worker.rec.snapshot
                \/ outbox[f].snapshot = worker.rec.snapshot /\ outbox[f].seq < worker.rec.seq)
            => outbox[f].failure = "manual" /\ ~Due(f, worker.now)

\* A record that says "delivered" holds the very content the receiver accepted,
\* even if the envelope was refreshed while it was being sent.
DeliveredWasAccepted ==
    \A e \in Envelopes :
        Present(e) /\ outbox[e].status = "delivered" => <<e, outbox[e].content>> \in accepted

\* A superseded approval comes back to life in one way only: the worker writes
\* back a copy it took before.  Neither a refresh nor a requeue revives it.
OnlyInFlightRevives ==
    [][\A e \in Envelopes :
          (/\ Kind[e] = "approval" /\ Present(e)
           /\ outbox[e].status = "superseded" /\ outbox'[e].status # "superseded")
          => worker.env = e]_deliveryVars

\* Every record that waits is delivered, given up or superseded in the end: no
\* backoff, deferral, crash or raising step leaves it waiting for ever.
RecordsSettle == \A e \in Envelopes : Waiting(e) ~> ~Waiting(e)

=============================================================================
