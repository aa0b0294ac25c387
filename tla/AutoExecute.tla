----------------------------- MODULE AutoExecute -----------------------------
(***************************************************************************)
(* ResidentOrchestrator.orchestrate_all on the auto-execute path, composed *)
(* with the command lease store (CommandLeases), the action receipt store, *)
(* the auto-dispatch checkpoints and the delivery outbox.                  *)
(*                                                                         *)
(* A process runs one tick at a time (resident_orchestrator_run_lock).  A  *)
(* step is what happens between two writes that outlive the process, so a  *)
(* fault can strike between any two of them: the process dies and a new    *)
(* one starts, or an exception abandons the record.  With more than one    *)
(* process (an old one finishing its tick while its successor starts) only *)
(* the lease store is shared under a file lock.                            *)
(*                                                                         *)
(* A command stands for the decision its session record currently yields;  *)
(* when the record's facts move on, the command is no longer current.      *)
(*                                                                         *)
(* The clock stops at MaxTime, where every cooldown is over.               *)
(***************************************************************************)
EXTENDS CommandLeases

CONSTANTS
    Processes,          \* watchdog processes
    Orchestrator,       \* the worker id "resident_orchestrator"
    SessionOf,          \* SessionOf[c]: the session of command c
    CooldownSeconds,    \* auto_continue_cooldown_seconds
    MaxTime,            \* bound: the clock
    MaxFaults           \* bound: crashes and abandoned records

ASSUME OrchestratorAssumption == Orchestrator \in Workers
ASSUME SessionOfAssumption == SessionOf \in [Commands -> Sessions]
ASSUME TimeAssumption == CooldownSeconds \in Nat /\ MaxTime \in Nat /\ 0..MaxTime \subseteq Times
ASSUME FaultsAssumption == MaxFaults \in Nat

VARIABLES
    clock,          \* the wall clock
    faults,         \* faults so far
    proc,           \* proc[p]: where process p is in its tick
    current,        \* commands whose decision the session records still yield
    created,        \* commands with a command_created session event
    receipts,       \* receipts[c]: the stored result of c's action, or "none"
    effects,        \* effects[c]: how often the runtime carried out c's action
    dispatch,       \* dispatch[c]: the auto-dispatch checkpoint of c
    outbox          \* commands whose envelopes were enqueued for delivery

autoVars == <<clock, faults, proc, current, created, receipts, effects, dispatch, outbox>>
vars == <<leaseVars, autoVars>>

-----------------------------------------------------------------------------
(* Records                                                                 *)

NoDispatch == [status |-> "none", at |-> 0]

\* AutoExecuteCommandPlan and the other locals of a tick: now is read once, at
\* its start; todo are the session records still to visit; cmd, seq, result are
\* those of the record being handled.
IdleProc == [pc |-> "idle", now |-> 0, todo |-> {}, cmd |-> NoCommand, seq |-> 0,
             result |-> "none"]

Scanning(now, todo) == [pc |-> "scan", now |-> now, todo |-> todo, cmd |-> NoCommand,
                        seq |-> 0, result |-> "none"]

Goto(p, label) == proc' = [proc EXCEPT ![p].pc = label]

\* The record is done with (or abandoned): the tick goes on with the others.
NextRecord(p) ==
    proc' = [proc EXCEPT ![p] = Scanning(proc[p].now, proc[p].todo \ {proc[p].cmd})]

\* The last event written for every command that got one reached the Session
\* Service; otherwise the mirroring raised (or the process died).
MirrorCompleted ==
    \A c \in Commands : log'[c] # log[c] => log'[c][Len(log'[c])] \in mirrored'

Fault == faults < MaxFaults /\ faults' = faults + 1

-----------------------------------------------------------------------------
(* One tick                                                                *)

\* orchestrate_all: requeue expired leases, then visit the records.  A failed
\* requeue ends the tick.
StartTick(p) ==
    /\ proc[p].pc = "idle"
    /\ IF Expired(clock) = {} THEN UNCHANGED leaseVars ELSE ExpireAndRequeueExpired(clock)
    /\ \/ /\ MirrorCompleted
          /\ proc' = [proc EXCEPT ![p] = Scanning(clock, Commands)]
          /\ UNCHANGED faults
       \/ ~MirrorCompleted /\ Fault /\ UNCHANGED proc
    /\ UNCHANGED <<clock, current, created, receipts, effects, dispatch, outbox>>

EndTick(p) ==
    /\ proc[p].pc = "scan"
    /\ proc[p].todo = {}
    /\ proc' = [proc EXCEPT ![p].pc = "idle", ![p].now = 0]
    /\ UNCHANGED <<leaseVars, clock, faults, current, created, receipts, effects, dispatch, outbox>>

\* _auto_dispatch_cooldown_details: a dispatch that did not fail holds back the
\* next one until the cooldown is over.
CoolingDown(p, c) ==
    /\ CooldownSeconds > 0
    /\ dispatch[c].status \notin {"none", "failed"}
    /\ proc[p].now - dispatch[c].at < CooldownSeconds
    /\ proc[p].now < MaxTime

\* Fault: command_created is not recorded.
VisitRecordUnrecorded(p, c) ==
    /\ proc[p].pc = "scan"
    /\ c \in proc[p].todo
    /\ IF c \notin current \/ CoolingDown(p, c)
       THEN proc' = [proc EXCEPT ![p].todo = @ \ {c}]
       ELSE proc' = [proc EXCEPT ![p].pc = "plan", ![p].cmd = c]
    /\ UNCHANGED <<leaseVars, clock, faults, current, created, receipts, effects, dispatch, outbox>>

\* _orchestrate_record up to the decision: nothing to execute, or the
\* decision's events and command_created are on record.
VisitRecord(p, c) ==
    /\ proc[p].pc = "scan"
    /\ c \in proc[p].todo
    /\ IF c \notin current \/ CoolingDown(p, c)
       THEN /\ proc' = [proc EXCEPT ![p].todo = @ \ {c}]
            /\ UNCHANGED created
       ELSE /\ proc' = [proc EXCEPT ![p].pc = "plan", ![p].cmd = c]
            /\ created' = created \cup {c}
    /\ UNCHANGED <<leaseVars, clock, faults, current, receipts, effects, dispatch, outbox>>

\* Fault: the orchestrator's own claim is left to expire.
PlanCommandOnce(p) ==
    /\ proc[p].pc = "plan"
    /\ IF Claimable(proc[p].cmd, SessionOf[proc[p].cmd]) THEN Goto(p, "claim")
                                                         ELSE NextRecord(p)
    /\ UNCHANGED <<leaseVars, clock, faults, current, created, receipts, effects,
                   dispatch, outbox>>

\* _plan_auto_execute_command, the read: a free command is to be claimed, the
\* orchestrator's own claim renewed; anything else is left alone.
PlanCommand(p) ==
    LET c == proc[p].cmd
    IN  /\ proc[p].pc = "plan"
        /\ \/ /\ Claimable(c, SessionOf[c])
              /\ Goto(p, "claim")
           \/ /\ IsClaimed(c) /\ commands[c].worker = Orchestrator
              /\ proc' = [proc EXCEPT ![p].pc = "renew", ![p].seq = commands[c].claim_seq]
           \/ /\ ~Claimable(c, SessionOf[c])
              /\ ~(IsClaimed(c) /\ commands[c].worker = Orchestrator)
              /\ NextRecord(p)
        /\ UNCHANGED <<leaseVars, clock, faults, current, created, receipts, effects,
                       dispatch, outbox>>

\* _plan_auto_execute_command, the claim: on a lost race the command is not
\* executed (_recover_command_conflict_state).
ClaimPlanned(p) ==
    LET c == proc[p].cmd
    IN  /\ proc[p].pc = "claim"
        /\ IF Claimable(c, SessionOf[c])
           THEN /\ ClaimCommand(c, SessionOf[c], Orchestrator, proc[p].now)
                /\ \/ /\ MirrorCompleted /\ UNCHANGED faults
                      /\ proc' = [proc EXCEPT ![p].pc = "dispatch", ![p].seq = NextClaimSeq(c)]
                   \/ ~MirrorCompleted /\ Fault /\ NextRecord(p)
           ELSE NextRecord(p) /\ UNCHANGED <<leaseVars, faults>>
        /\ UNCHANGED <<clock, current, created, receipts, effects, dispatch, outbox>>

\* _plan_auto_execute_command, the renewal of the orchestrator's own claim:
\* the command is executed again.
RenewPlanned(p) ==
    LET c == proc[p].cmd
    IN  /\ proc[p].pc = "renew"
        /\ IF CurrentClaim(c, Orchestrator, proc[p].seq)
           THEN /\ RenewLease(c, Orchestrator, proc[p].seq, proc[p].now)
                /\ \/ MirrorCompleted /\ UNCHANGED faults /\ Goto(p, "dispatch")
                   \/ ~MirrorCompleted /\ Fault /\ NextRecord(p)
           ELSE NextRecord(p) /\ UNCHANGED <<leaseVars, faults>>
        /\ UNCHANGED <<clock, current, created, receipts, effects, dispatch, outbox>>

\* _record_auto_dispatch(status="claimed").
MarkDispatched(p) ==
    /\ proc[p].pc = "dispatch"
    /\ dispatch' = [dispatch EXCEPT ![proc[p].cmd] = [status |-> "claimed", at |-> proc[p].now]]
    /\ Goto(p, "execute")
    /\ UNCHANGED <<leaseVars, clock, faults, current, created, receipts, effects, outbox>>

\* execute_canonical_decision: ActionReceiptStore.create_or_get returns the
\* stored result, or calls the runtime.  The call completes; or it ends without
\* effect in some other result (noop, rejected, error); or it raises
\* SessionSpineUpstreamError, in which case the runtime may have acted or not.
Execute(p) ==
    LET c == proc[p].cmd
        done(result, label) ==
            proc' = [proc EXCEPT ![p].pc = label, ![p].result = result]
    IN  /\ proc[p].pc = "execute"
        /\ \/ /\ receipts[c] # "none"
              /\ done(receipts[c], "terminal")
              /\ UNCHANGED effects
           \/ /\ receipts[c] = "none"
              /\ \/ done("completed", "receipt") /\ effects' = [effects EXCEPT ![c] = @ + 1]
                 \/ done("other", "receipt") /\ UNCHANGED effects
                 \/ /\ done("upstream_error", "terminal")
                    /\ effects' \in {effects, [effects EXCEPT ![c] = @ + 1]}
        /\ UNCHANGED <<leaseVars, clock, faults, current, created, receipts, dispatch, outbox>>

\* create_or_get stores the result.
StoreReceipt(p) ==
    /\ proc[p].pc = "receipt"
    /\ receipts' = [receipts EXCEPT ![proc[p].cmd] = proc[p].result]
    /\ Goto(p, "terminal")
    /\ UNCHANGED <<leaseVars, clock, faults, current, created, effects, dispatch, outbox>>

ResultType(result) == IF result = "completed" THEN "command_executed" ELSE "command_failed"

\* _record_command_terminal_result: a stale claim raises, which abandons the
\* record.
RecordResult(p) ==
    LET c == proc[p].cmd
    IN  /\ proc[p].pc = "terminal"
        /\ IF CurrentClaim(c, Orchestrator, proc[p].seq)
           THEN /\ RecordTerminalResult(c, Orchestrator, proc[p].seq,
                                        ResultType(proc[p].result), proc[p].now)
                /\ \/ MirrorCompleted /\ UNCHANGED faults /\ Goto(p, "settle")
                   \/ ~MirrorCompleted /\ Fault /\ NextRecord(p)
           ELSE NextRecord(p) /\ UNCHANGED <<leaseVars, faults>>
        /\ UNCHANGED <<clock, current, created, receipts, effects, dispatch, outbox>>

\* Fault: nothing is announced once the record has moved on.
SettleDispatchCurrent(p) ==
    LET ok == proc[p].result = "completed"
    IN  /\ proc[p].pc = "settle"
        /\ dispatch' = [dispatch EXCEPT ![proc[p].cmd] =
               [status |-> IF ok THEN "completed" ELSE "failed", at |-> proc[p].now]]
        /\ IF ok /\ proc[p].cmd \in current THEN Goto(p, "enqueue") ELSE NextRecord(p)
        /\ UNCHANGED <<leaseVars, clock, faults, current, created, receipts, effects, outbox>>

\* _record_auto_dispatch(status="completed" or "failed").
SettleDispatch(p) ==
    LET ok == proc[p].result = "completed"
    IN  /\ proc[p].pc = "settle"
        /\ dispatch' = [dispatch EXCEPT ![proc[p].cmd] =
               [status |-> IF ok THEN "completed" ELSE "failed", at |-> proc[p].now]]
        /\ IF ok THEN Goto(p, "enqueue") ELSE NextRecord(p)
        /\ UNCHANGED <<leaseVars, clock, faults, current, created, receipts, effects, outbox>>

\* enqueue_envelopes(build_envelopes_for_decision(decision)).
EnqueueEnvelopes(p) ==
    /\ proc[p].pc = "enqueue"
    /\ outbox' = outbox \cup {proc[p].cmd}
    /\ NextRecord(p)
    /\ UNCHANGED <<leaseVars, clock, faults, current, created, receipts, effects, dispatch>>

-----------------------------------------------------------------------------
(* The environment                                                         *)

\* The process dies; its successor starts a tick of its own.
Crash(p) ==
    /\ proc[p].pc # "idle"
    /\ Fault
    /\ proc' = [proc EXCEPT ![p] = IdleProc]
    /\ UNCHANGED <<leaseVars, clock, current, created, receipts, effects, dispatch, outbox>>

\* An exception other than SessionSpineUpstreamError (a failed write of the
\* session log, the receipts, the checkpoints, the outbox) abandons the record.
AbandonRecord(p) ==
    /\ proc[p].pc \notin {"idle", "scan"}
    /\ Fault
    /\ NextRecord(p)
    /\ UNCHANGED <<leaseVars, clock, current, created, receipts, effects, dispatch, outbox>>

\* The session's facts change: its record yields another decision from now on.
RecordMovesOn(c) ==
    /\ c \in current
    /\ current' = current \ {c}
    /\ UNCHANGED <<leaseVars, clock, faults, proc, created, receipts, effects, dispatch, outbox>>

ClockTick ==
    /\ clock < MaxTime
    /\ clock' = clock + 1
    /\ UNCHANGED <<leaseVars, faults, proc, current, created, receipts, effects, dispatch, outbox>>

-----------------------------------------------------------------------------
(* Specification                                                           *)

AutoInit ==
    /\ LeaseInit
    /\ clock = 0 /\ faults = 0
    /\ proc = [p \in Processes |-> IdleProc]
    /\ current = Commands /\ created = {} /\ outbox = {}
    /\ receipts = [c \in Commands |-> "none"]
    /\ effects = [c \in Commands |-> 0]
    /\ dispatch = [c \in Commands |-> NoDispatch]

TickStep(p) ==
    \/ StartTick(p) \/ EndTick(p) \/ (\E c \in Commands : VisitRecord(p, c))
    \/ PlanCommand(p) \/ ClaimPlanned(p) \/ RenewPlanned(p) \/ MarkDispatched(p)
    \/ Execute(p) \/ StoreReceipt(p) \/ RecordResult(p) \/ SettleDispatch(p)
    \/ EnqueueEnvelopes(p)

AutoNext ==
    \/ \E p \in Processes : TickStep(p) \/ Crash(p) \/ AbandonRecord(p)
    \/ \E c \in Commands : RecordMovesOn(c)
    \/ ClockTick

\* The loop in main.py starts a tick again and again, a tick visits every
\* record, and time passes; nothing makes a fault or a change of facts happen.
AutoSpec ==
    /\ AutoInit /\ [][AutoNext]_vars
    /\ \A p \in Processes : WF_vars(TickStep(p))
    /\ WF_vars(ClockTick)

-----------------------------------------------------------------------------
(* Properties                                                              *)

Labels == {"idle", "scan", "plan", "claim", "renew", "dispatch", "execute", "receipt",
           "terminal", "settle", "enqueue"}

ProcState ==
    [pc : Labels, now : 0..MaxTime, todo : SUBSET Commands, cmd : Commands \cup {NoCommand},
     seq : Nat, result : {"none", "completed", "other", "upstream_error"}]

\* Every variable has its type.
AutoTypeOK ==
    /\ LeaseTypeOK
    /\ clock \in 0..MaxTime /\ faults \in 0..MaxFaults
    /\ proc \in [Processes -> ProcState]
    /\ current \subseteq Commands /\ created \subseteq Commands /\ outbox \subseteq Commands
    /\ receipts \in [Commands -> {"none", "completed", "other"}]
    /\ effects \in [Commands -> Nat]
    /\ dispatch \in [Commands -> [status : {"none", "claimed", "completed", "failed"},
                                  at : 0..MaxTime]]

\* MaxClaims is never what keeps the orchestrator from a claim.
ClaimsWithinBound ==
    \A p \in Processes : proc[p].pc = "claim" => NextClaimSeq(proc[p].cmd) <= MaxClaims

HasStatus(c, status) == commands[c] # NoCommand /\ commands[c].status = status

\* The write barrier: the runtime acts on a command only after command_created
\* was written to the Session Service and the command was claimed.
EffectsAreOnRecord ==
    \A c \in Commands : effects[c] > 0 => c \in created /\ log[c] # <<>>

\* One process: the runtime acts more than once on a command only if a fault
\* kept the receipt of the earlier action from being stored.
RepeatedOnlyAfterFault == \A c \in Commands : effects[c] <= 1 + faults

\* Every command gets an outcome, or its record moves on: no crash, lost mirror
\* write or expired lease leaves it claimed or requeued for ever.
CommandsSettle ==
    \A c \in Commands :
        <>(HasStatus(c, "executed") \/ HasStatus(c, "failed") \/ c \notin current)

\* Users are told of an executed command in the end, unless a fault
\* struck: after a crash between the outcome and enqueue_envelopes nobody
\* enqueues the notification again, since the command has its outcome.
NotifiedUnlessFault ==
    \A c \in Commands : HasStatus(c, "executed") ~> (c \in outbox \/ faults > 0)
=============================================================================
