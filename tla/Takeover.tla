------------------------------ MODULE Takeover ------------------------------
(***************************************************************************)
(* What a recovery does with the parent session once its transaction is    *)
(* on record (Recovery models the transaction): the open interactions with *)
(* the user are superseded by successors, the future workers of the parent *)
(* are cancelled or their results rejected, and the child session adopts   *)
(* the goal contract the handoff packet names.  Each part is a series of   *)
(* separate accesses; an exception ends all that is left, and so does a    *)
(* crash.                                                                  *)
(***************************************************************************)
EXTENDS FutureWorkers, GoalContracts

CONSTANTS
    Recoverers,      \* threads that recover the session
    Families,        \* interaction families with a record in the delivery outbox
    MaxRecoveries,   \* bound on recoveries
    MaxCrashes       \* bound on restarts of the watchdog

ASSUME TakeoverConstants ==
    /\ Recoverers \subseteq Callers \ {Decision, Runtime}
    /\ MaxRecoveries \in Nat /\ MaxCrashes \in Nat

VARIABLES
    rec,         \* recoverer |-> how far its recovery is
    box,         \* family |-> the delivery status of its records, each the successor of the one before
    announced,   \* family |-> how many of its contexts the events call superseded
    cut,         \* families whose reissue a crash cut short
    adopted,     \* the contracts that child sessions adopted
    recoveries, crashes

ownVars == <<rec, box, announced, cut, adopted, recoveries, crashes>>
vars    == <<workerVars, goalVars, ownVars>>

NoRecovery == [step |-> "idle"]

\* _is_reissuable_recovery_interaction, of the record with the highest outbox_seq.
Reissuable(f) == Last(box[f]) \notin {"superseded", "delivery_failed"}

\* The transaction is recorded, and the outbox is read.  The packet was
\* written with the version the control agent had; child is whether the
\* resume gave a child session.
BeginTakeover(r, child) ==
    /\ rec[r] = NoRecovery
    /\ recoveries < MaxRecoveries
    /\ recoveries' = recoveries + 1
    /\ rec' = [rec EXCEPT ![r] =
           [step |-> "announce", id |-> recoveries + 1, packet |-> synced, child |-> child,
            stale |-> {<<f, Len(box[f])>> : f \in {g \in Families : Reissuable(g)}},
            now |-> <<>>, scanned |-> {}, hidden |-> {}, contract |-> 0]]
    /\ UNCHANGED <<workerVars, goalVars, box, announced, cut, adopted, crashes>>

\* The event that names the successor of the context.
AnnounceSuperseded(r) ==
    /\ rec[r].step = "announce"
    /\ \E x \in rec[r].stale :
           /\ announced' = [announced EXCEPT ![x[1]] = IF @ < x[2] THEN x[2] ELSE @]
           /\ rec' = [rec EXCEPT ![r].step = "supersede", ![r].now = x, ![r].stale = @ \ {x}]
    /\ UNCHANGED <<workerVars, goalVars, box, cut, adopted, recoveries, crashes>>

SupersedeRecord(r) ==
    /\ rec[r].step = "supersede"
    /\ box' = [box EXCEPT ![rec[r].now[1]][rec[r].now[2]] = "superseded"]
    /\ rec' = [rec EXCEPT ![r].step = "reissue"]
    /\ UNCHANGED <<workerVars, goalVars, announced, cut, adopted, recoveries, crashes>>

\* Mutant: the successor is written only when there is a child session to own it.
ReissueForChild(r) ==
    LET f == rec[r].now[1]
        i == rec[r].now[2] + 1
    IN  /\ rec[r].step = "reissue"
        /\ box' = IF ~rec[r].child THEN box
                  ELSE IF i \in DOMAIN box[f] THEN [box EXCEPT ![f][i] = "pending"]
                  ELSE [box EXCEPT ![f] = Append(@, "pending")]
        /\ rec' = [rec EXCEPT ![r].step = "announce", ![r].now = <<>>]
        /\ UNCHANGED <<workerVars, goalVars, announced, cut, adopted, recoveries, crashes>>

\* The successor's envelope id is the old one with a suffix, so a second
\* recovery that read the same records writes the same successor again.
ReissueRecord(r) ==
    LET f == rec[r].now[1]
        i == rec[r].now[2] + 1
    IN  /\ rec[r].step = "reissue"
        /\ box' = IF i \in DOMAIN box[f] THEN [box EXCEPT ![f][i] = "pending"]
                  ELSE [box EXCEPT ![f] = Append(@, "pending")]
        /\ rec' = [rec EXCEPT ![r].step = "announce", ![r].now = <<>>]
        /\ UNCHANGED <<workerVars, goalVars, announced, cut, adopted, recoveries, crashes>>

\* Mutant: a result that is waiting to be consumed is left alone.
VerdictSparesResults(log) ==
    IF Last(log) \in {"requested", "started"} \cup Repeatable THEN "cancelled" ELSE "none"

\* What the scan makes of the last event of a worker, whatever it is.
Verdict(log) ==
    CASE Last(log) \in {"requested", "started"} \cup Repeatable -> "cancelled"
      [] Last(log) = "completed"                                -> "rejected"
      [] OTHER                                                  -> "none"

\* Without a child session the recovery ends here.
ScanWorkers(r) ==
    LET known == {w \in Workers : Requested(w)}
    IN  /\ rec[r].step = "announce" /\ rec[r].stale = {}
        /\ IF rec[r].child
           THEN /\ sweep' = [sweep EXCEPT ![r] = {<<w, Verdict(wlog[w])>> :
                       w \in {v \in known : Verdict(wlog[v]) # "none"}}]
                /\ rec' = [rec EXCEPT ![r].step = "workers", ![r].scanned = known,
                       ![r].hidden = {w \in known : Last(wlog[w]) = "transition_rejected"}]
           ELSE rec' = [rec EXCEPT ![r] = NoRecovery] /\ UNCHANGED sweep
        /\ UNCHANGED <<wlog, call, overlapped, goalVars, box, announced, cut, adopted,
                       recoveries, crashes>>

\* A transition that is refused raises out of the recovery.
SettleWorker(r) ==
    /\ rec[r].step = "workers" /\ call[r] = NoCall
    /\ SweepNext(r)
    /\ rec' = IF call'[r] = NoCall THEN [rec EXCEPT ![r] = NoRecovery] ELSE rec
    /\ UNCHANGED <<goalVars, box, announced, cut, adopted, recoveries, crashes>>

SettleWorkerWrites(r) ==
    /\ CallerWrites(r)
    /\ rec' = IF WriteConflicts(r) THEN [rec EXCEPT ![r] = NoRecovery] ELSE rec
    /\ UNCHANGED <<goalVars, box, announced, cut, adopted, recoveries, crashes>>

\* Mutant: the child adopts whatever contract is current.
AdoptableAnyVersion(r) == TRUE

\* expected_version of adopt_contract_for_child_session.
Adoptable(r) == Version = rec[r].packet

\* A mismatch raises; a packet or a parent without a contract has nothing to adopt.
ReadContract(r) ==
    /\ rec[r].step = "workers" /\ sweep[r] = {} /\ call[r] = NoCall
    /\ rec' = [rec EXCEPT ![r] =
           IF rec[r].packet = 0 \/ Version = 0 \/ ~Adoptable(r)
           THEN NoRecovery ELSE [@ EXCEPT !.step = "adopt", !.contract = Version]]
    /\ UNCHANGED <<workerVars, goalVars, box, announced, cut, adopted, recoveries, crashes>>

AdoptContract(r) ==
    /\ rec[r].step = "adopt"
    /\ adopted' = adopted \cup {[id |-> rec[r].id, packet |-> rec[r].packet,
                                 goal |-> goals[rec[r].contract].by]}
    /\ rec' = [rec EXCEPT ![r] = NoRecovery]
    /\ UNCHANGED <<workerVars, goalVars, box, announced, cut, recoveries, crashes>>

-----------------------------------------------------------------------------

\* The delivery worker (DeliveryOutbox models it); a retry leaves a record pending.
Deliver(f, i, status) ==
    /\ i \in DOMAIN box[f] /\ box[f][i] = "pending"
    /\ box' = [box EXCEPT ![f][i] = status]
    /\ UNCHANGED <<workerVars, goalVars, rec, announced, cut, adopted, recoveries, crashes>>

MidReissue == {r \in Recoverers : rec[r].step \in {"supersede", "reissue"}}

\* The watchdog is restarted; the worker runtime only repeats its report.
Crash ==
    /\ crashes < MaxCrashes
    /\ crashes' = crashes + 1
    /\ cut' = cut \cup {rec[r].now[1] : r \in MidReissue}
    /\ rec' = [r \in Recoverers |-> NoRecovery]
    /\ call' = [c \in Callers |-> NoCall]
    /\ sweep' = [c \in Callers |-> {}]
    /\ MessagesLost
    /\ UNCHANGED <<wlog, overlapped, goals, synced, box, announced, adopted, recoveries>>

Init ==
    /\ WorkersInit /\ GoalsInit
    /\ rec = [r \in Recoverers |-> NoRecovery]
    /\ box = [f \in Families |-> <<"pending">>]
    /\ announced = [f \in Families |-> 0]
    /\ cut = {} /\ adopted = {} /\ recoveries = 0 /\ crashes = 0

RecovererSteps(r) ==
    \/ \E child \in BOOLEAN : BeginTakeover(r, child)
    \/ AnnounceSuperseded(r) \/ SupersedeRecord(r) \/ ReissueRecord(r)
    \/ ScanWorkers(r) \/ SettleWorker(r) \/ SettleWorkerWrites(r)
    \/ ReadContract(r) \/ AdoptContract(r)

\* Workers and goal messages share no state.  To keep the instances small,
\* each pauses while an operation of the other is open; a recovery
\* interleaves with both.
NoMessageOpen == \A m \in Messages : message[m].step \notin {"write", "sync"}
NoReportOpen  == /\ call[Decision] = NoCall /\ call[Runtime] = NoCall
                 /\ sweep[Decision] = {}

WorkerSteps == WorkersNext /\ UNCHANGED <<goalVars, ownVars>>
GoalSteps   == GoalsNext /\ UNCHANGED <<workerVars, ownVars>>

OtherSteps ==
    \/ \E r \in Recoverers : RecovererSteps(r)
    \/ \E f \in Families, i \in 1..(MaxRecoveries + 1), s \in {"delivered", "delivery_failed"} :
           Deliver(f, i, s)
    \/ Crash

Next ==
    \/ NoMessageOpen /\ WorkerSteps
    \/ NoReportOpen /\ GoalSteps
    \/ OtherSteps

Spec == Init /\ [][Next]_vars

-----------------------------------------------------------------------------

\* The types of all variables.
Interactions == Families \X Nat

RecoveryState ==
    [step : {"announce", "supersede", "reissue", "workers", "adopt"}, id : Nat, packet : Nat,
     child : BOOLEAN, stale : SUBSET Interactions, now : Interactions \cup {<<>>},
     scanned : SUBSET Workers, hidden : SUBSET Workers, contract : Nat]

TakeoverTypeOK ==
    /\ WorkersTypeOK /\ GoalsTypeOK
    /\ rec \in [Recoverers -> RecoveryState \cup {NoRecovery}]
    /\ box \in [Families -> Seq({"pending", "delivered", "delivery_failed", "superseded"})]
    /\ announced \in [Families -> Nat]
    /\ cut \subseteq Families
    /\ adopted \subseteq [id : Nat, packet : Nat, goal : Messages]
    /\ recoveries \in Nat /\ crashes \in Nat

\* When a recovery hands over to the child session, every worker the parent
\* had has ended: cancelled, rejected, or before that.  Left out are workers
\* whose last event was the refusal of another report, which the scan passes
\* over, and those with an event written against an outdated check.
WorkersHaveEnded ==
    \A r \in Recoverers : rec[r].step = "adopt" =>
        \A w \in rec[r].scanned \ (rec[r].hidden \cup overlapped) :
            CurrentState(wlog[w]) \in Terminal

\* The contract a child session adopts is, for ever, the goal that the
\* parent had under the version its handoff packet names, although goals
\* are revised and copied to the control agent while the recovery runs.
ChildGoalIsThePackets ==
    \A a \in adopted : a.packet \in 1..Len(goals) /\ goals[a.packet].by = a.goal

\* A context that the events call superseded has its successor in the
\* outbox, or a recovery is about to write it, unless a crash came in
\* between.
SupersededHasSuccessor ==
    \A f \in Families \ cut :
        \/ announced[f] < Len(box[f])
        \/ \E r \in MidReissue : rec[r].now[1] = f

=============================================================================
