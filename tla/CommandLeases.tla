---------------------------- MODULE CommandLeases ----------------------------
(***************************************************************************)
(* CommandLeaseStore: the durable table of command leases, its event log,  *)
(* and the copy of every event it sends to the Session Service.            *)
(*                                                                         *)
(* Every operation of the store runs under a thread lock and a file lock,  *)
(* rewrites the file atomically, and only then mirrors the new events one  *)
(* by one, so an operation is one action here; a crash or an exception     *)
(* after the rewrite may cut the mirroring short.  A call the store rejects *)
(* with ValueError changes nothing and is not a step.                      *)
(*                                                                         *)
(* Callers are arbitrary: any worker may present any claim number and any  *)
(* clock reading.  The one thing taken from the only production caller     *)
(* (ResidentOrchestrator) is that a lease ends a fixed time after the      *)
(* reading it was computed from.                                           *)
(***************************************************************************)
EXTENDS Integers, Sequences, FiniteSets

CONSTANTS
    Commands,       \* command identifiers
    Sessions,       \* session identifiers
    Workers,        \* worker identifiers
    Times,          \* clock readings, in ticks of one second
    LeaseSeconds,   \* length of a lease
    NoCommand,      \* "commands has no entry"
    MaxClaims,      \* bound: claims of one command
    MaxRenewals     \* bound: renewals of one command, over all its claims

ASSUME TimesAssumption == Times \subseteq Nat
ASSUME LeaseAssumption == LeaseSeconds \in Nat \ {0}
ASSUME BoundsAssumption == MaxClaims \in Nat /\ MaxRenewals \in Nat

VARIABLES
    commands,       \* commands[c]: the lease record of c, or NoCommand
    log,            \* log[c]: the events of c in the lease store's file
    mirrored        \* the lease events the Session Service holds

leaseVars == <<commands, log, mirrored>>

-----------------------------------------------------------------------------
(* Records                                                                 *)

TerminalTypes == {"command_executed", "command_failed"}

EventTypes == {"command_claimed", "command_lease_renewed",
               "command_claim_expired", "command_requeued"} \cup TerminalTypes

CommandLeaseState ==
    [session : Sessions, status : {"claimed", "requeued", "executed", "failed"},
     claim_seq : Nat, worker : Workers, lease_expires_at : Nat]

CommandLeaseEvent ==
    [command : Commands, session : Sessions, type : EventTypes, occurred_at : Nat,
     claim_seq : Nat, worker : Workers, lease_expires_at : Nat]

\* Fault: the event carries the time it was written instead of the lease's end.
LeaseEventWithoutExpiry(c, type, at, st) ==
    [command |-> c, session |-> st.session, type |-> type, occurred_at |-> at,
     claim_seq |-> st.claim_seq, worker |-> st.worker, lease_expires_at |-> at]

\* _append_event: the event that `type` writes for the record st.
LeaseEvent(c, type, at, st) ==
    [command |-> c, session |-> st.session, type |-> type, occurred_at |-> at,
     claim_seq |-> st.claim_seq, worker |-> st.worker,
     lease_expires_at |-> st.lease_expires_at]

\* Fault: the renewals of a claim share one key.
SessionKeyWithoutExpiry(e) == <<e.command, e.claim_seq, e.session, e.type>>

\* _session_correlation_id, with the session and the event type that the
\* Session Service adds to it to form its event id: the identity under which
\* an event is mirrored.  Renewals are told apart by the new expiry.
SessionKey(e) ==
    <<e.command, e.claim_seq, e.session, e.type,
      IF e.type = "command_lease_renewed" THEN e.lease_expires_at ELSE 0>>

\* The Session Service raises ValueError for a known key with other content.
ConflictsWith(e, f) == SessionKey(e) = SessionKey(f) /\ e # f
Mirrorable(e) == \A f \in mirrored : ~ConflictsWith(e, f)

\* _mirror_events_to_session_service for one event: mirrored, or lost to a
\* crash or an exception (a conflict is one).
MirrorOne(e) ==
    \/ Mirrorable(e) /\ mirrored' = mirrored \cup {e}
    \/ UNCHANGED mirrored

ASSUME NoCommandAssumption == NoCommand \notin CommandLeaseState

-----------------------------------------------------------------------------
(* Operations                                                              *)

IsClaimed(c) == commands[c] # NoCommand /\ commands[c].status = "claimed"

\* _require_current_claim.
CurrentClaim(c, w, n) ==
    /\ IsClaimed(c)
    /\ commands[c].worker = w
    /\ commands[c].claim_seq = n

\* Faults: a claimed command may be taken over; a failed one may be tried again.
ClaimableAtAnyTime(c, s) == commands[c] # NoCommand => commands[c].session = s

ClaimableAfterFailure(c, s) ==
    commands[c] # NoCommand =>
        commands[c].session = s /\ commands[c].status \in {"requeued", "failed"}

\* claim_command may take a command never seen, or a requeued one of the
\* same session.
Claimable(c, s) ==
    commands[c] # NoCommand => commands[c].session = s /\ commands[c].status = "requeued"

\* Fault: a requeued command is claimed under its old number.
NextClaimSeqReused(c) == IF commands[c] = NoCommand THEN 1 ELSE commands[c].claim_seq

NextClaimSeq(c) == IF commands[c] = NoCommand THEN 1 ELSE commands[c].claim_seq + 1

ClaimCommand(c, s, w, at) ==
    LET st == [session |-> s, status |-> "claimed", claim_seq |-> NextClaimSeq(c),
               worker |-> w, lease_expires_at |-> at + LeaseSeconds]
        e  == LeaseEvent(c, "command_claimed", at, st)
    IN  /\ Claimable(c, s)
        /\ NextClaimSeq(c) <= MaxClaims
        /\ commands' = [commands EXCEPT ![c] = st]
        /\ log' = [log EXCEPT ![c] = Append(@, e)]
        /\ MirrorOne(e)

Renewals(c) == {i \in 1..Len(log[c]) : log[c][i].type = "command_lease_renewed"}

\* renew_lease does not look at the clock: a lease past its expiry that
\* nobody requeued yet is renewed.
RenewLease(c, w, n, at) ==
    LET st == [commands[c] EXCEPT !.lease_expires_at = at + LeaseSeconds]
        e  == LeaseEvent(c, "command_lease_renewed", at, st)
    IN  /\ CurrentClaim(c, w, n)
        /\ commands' = [commands EXCEPT ![c] = st]
        /\ log' = [log EXCEPT ![c] = Append(@, e)]
        /\ MirrorOne(e)

Expired(at) == {c \in Commands : IsClaimed(c) /\ commands[c].lease_expires_at <= at}

ExpiryEvent(c, at)  == LeaseEvent(c, "command_claim_expired", at, commands[c])
RequeueEvent(c, at) == LeaseEvent(c, "command_requeued", at, commands[c])

\* expire_and_requeue_expired handles every expired lease in one rewrite.  Of
\* the events it then mirrors (two per command, command by command in the order
\* of their identifiers, which is left open) a prefix arrives: all of both for
\* the commands of `whole`, the first of the two for those of `half`.
ExpireAndRequeueExpired(at) ==
    /\ Expired(at) # {}
    /\ commands' = [c \in Commands |->
           IF c \in Expired(at) THEN [commands[c] EXCEPT !.status = "requeued"]
                                ELSE commands[c]]
    /\ log' = [c \in Commands |->
           IF c \in Expired(at)
           THEN Append(Append(log[c], ExpiryEvent(c, at)), RequeueEvent(c, at))
           ELSE log[c]]
    /\ \E whole \in SUBSET Expired(at) :
       \E half \in {{}} \cup {{c} : c \in Expired(at) \ whole} :
           LET batch == {ExpiryEvent(c, at) : c \in whole \cup half}
                            \cup {RequeueEvent(c, at) : c \in whole}
           IN  /\ \A e \in batch : Mirrorable(e)
               /\ mirrored' = mirrored \cup batch

RecordTerminalResult(c, w, n, type, at) ==
    LET st == [commands[c] EXCEPT !.status =
                   IF type = "command_executed" THEN "executed" ELSE "failed"]
        e  == LeaseEvent(c, type, at, st)
    IN  /\ CurrentClaim(c, w, n)
        /\ commands' = [commands EXCEPT ![c] = st]
        /\ log' = [log EXCEPT ![c] = Append(@, e)]
        /\ MirrorOne(e)

-----------------------------------------------------------------------------
(* Specification                                                           *)

LeaseInit ==
    /\ commands = [c \in Commands |-> NoCommand]
    /\ log = [c \in Commands |-> <<>>]
    /\ mirrored = {}

LeaseNext ==
    \/ \E c \in Commands, s \in Sessions, w \in Workers, at \in Times :
           ClaimCommand(c, s, w, at)
    \/ \E c \in Commands, w \in Workers, n \in 1..MaxClaims, at \in Times :
           Cardinality(Renewals(c)) < MaxRenewals /\ RenewLease(c, w, n, at)
    \/ \E at \in Times : ExpireAndRequeueExpired(at)
    \/ \E c \in Commands, w \in Workers, n \in 1..MaxClaims,
          type \in TerminalTypes, at \in Times :
           RecordTerminalResult(c, w, n, type, at)

LeaseSpec == LeaseInit /\ [][LeaseNext]_leaseVars

-----------------------------------------------------------------------------
(* Properties                                                              *)

\* Every variable has its type.
LeaseTypeOK ==
    /\ commands \in [Commands -> CommandLeaseState \cup {NoCommand}]
    /\ log \in [Commands -> Seq(CommandLeaseEvent)]
    /\ mirrored \subseteq CommandLeaseEvent

StatusAfter(type) ==
    IF type = "command_executed" THEN "executed"
    ELSE IF type = "command_failed" THEN "failed"
    ELSE IF type = "command_requeued" THEN "requeued"
    ELSE "claimed"

\* The lease table is what a replay of the event log gives: after a restart
\* the log alone tells who holds a command, under which claim and until when.
\* (Each of the four operations updates the table and the log separately.)
TableIsReplayOfLog ==
    \A c \in Commands :
        IF log[c] = <<>> THEN commands[c] = NoCommand
        ELSE LET e == log[c][Len(log[c])]
             IN  commands[c] = [session |-> e.session, status |-> StatusAfter(e.type),
                                claim_seq |-> e.claim_seq, worker |-> e.worker,
                                lease_expires_at |-> e.lease_expires_at]

\* One event may follow another in the canonical chain
\* claimed -> renewed* -> (expired -> requeued -> claimed ...) | executed | failed.
MayFollow(e, f) ==
    \/ /\ f.type = "command_claimed"
       /\ e.type = "command_requeued" /\ f.claim_seq = e.claim_seq + 1
    \/ /\ f.type = "command_requeued"
       /\ e.type = "command_claim_expired" /\ f.occurred_at = e.occurred_at
       /\ f.claim_seq = e.claim_seq /\ f.worker = e.worker
       /\ f.lease_expires_at = e.lease_expires_at
    \/ /\ f.type \notin {"command_claimed", "command_requeued"}
       /\ e.type \in {"command_claimed", "command_lease_renewed"}
       /\ f.claim_seq = e.claim_seq /\ f.worker = e.worker
       /\ f.type # "command_lease_renewed" => f.lease_expires_at = e.lease_expires_at

\* The events of a command form the canonical chain, all of one session,
\* whoever calls the store with whatever claim: a result or a renewal is
\* only ever recorded for the claim that is current.
CanonicalChain ==
    \A c \in Commands : \A i \in 1..Len(log[c]) :
        /\ log[c][i].command = c
        /\ log[c][i].session = log[c][1].session
        /\ IF i = 1 THEN log[c][i].type = "command_claimed" /\ log[c][i].claim_seq = 1
                    ELSE MayFollow(log[c][i - 1], log[c][i])

\* Once a claim was requeued, neither its renewal nor its result is ever
\* recorded: what comes later in the log belongs to a later claim.
LateResultsRejected ==
    \A c \in Commands : \A i, j \in 1..Len(log[c]) :
        (i < j /\ log[c][i].type = "command_requeued")
            => log[c][j].claim_seq > log[c][i].claim_seq

\* A command has one outcome, and it is the last event about it.
OutcomeIsLast ==
    \A c \in Commands : \A i \in 1..Len(log[c]) :
        log[c][i].type \in TerminalTypes => i = Len(log[c])

\* Two lease events mirrored under one key are the same event, so mirroring a
\* lease event never raises an idempotency conflict, over any number of
\* claims, renewals and requeues.  (A conflict would surface as ValueError
\* after the lease file was rewritten, which the orchestrator takes for a
\* lost claim.)
MirrorNeverConflicts ==
    \A c \in Commands : \A i, j \in 1..Len(log[c]) :
        ~ConflictsWith(log[c][i], log[c][j])

\* The Session Service never shows a lease event the lease store did not make
\* durable: the file is rewritten before anything is mirrored.
MirroredIsDurable ==
    \A e \in mirrored : \E i \in 1..Len(log[e.command]) : log[e.command][i] = e

\* The store implements exclusive, fenced, once-only commands.
Fenced == INSTANCE FencedCommand WITH
    token   <- [c \in Commands |-> IF commands[c] = NoCommand THEN 0
                                   ELSE commands[c].claim_seq],
    holder  <- [c \in Commands |-> IF IsClaimed(c) THEN {commands[c].worker} ELSE {}],
    outcome <- [c \in Commands |->
                   IF commands[c] # NoCommand /\ commands[c].status \in {"executed", "failed"}
                   THEN commands[c].status ELSE "none"]

ImplementsFencedCommand == Fenced!FencedSpec
=============================================================================
