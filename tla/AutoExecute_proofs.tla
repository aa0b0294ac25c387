-------------------------- MODULE AutoExecute_proofs --------------------------
(***************************************************************************)
(* Proofs about CommandLeases, for any commands, sessions, workers, clock  *)
(* readings, lease length and bounds, and about AutoExecute, whose         *)
(* orchestrator is one more caller of the lease store.                     *)
(*                                                                         *)
(* The inductive invariant of the store says that the table is the replay  *)
(* of the log and that the log of each command is a GoodLog.  GoodLog is   *)
(* closed under appending an event that may follow the last one            *)
(* (GoodLogAppend), and each operation appends one or two such events.     *)
(*                                                                         *)
(* A process of the orchestrator carries through its tick what it has read *)
(* and written: its command is on record, claimed before it is executed    *)
(* and, as long as no other process expires leases, still claimed when the *)
(* outcome is recorded.                                                    *)
(***************************************************************************)
EXTENDS AutoExecute, TLAPS

USE TimesAssumption, LeaseAssumption, BoundsAssumption, NoCommandAssumption

\* Events of one claim: the same worker throughout, and none after its expiry
\* but the requeue.
SameClaim(e, f) ==
    /\ f.worker = e.worker
    /\ e.type \in {"command_claimed", "command_lease_renewed", "command_claim_expired"}
    /\ f.type # "command_claimed"
    /\ e.type = "command_claim_expired" => f.type = "command_requeued"

\* What holds of any two events of a command, the second one later.
Ordered(e, f) ==
    /\ e.claim_seq <= f.claim_seq
    /\ e.type = "command_requeued" => e.claim_seq < f.claim_seq
    /\ e.type \notin TerminalTypes
    /\ e.claim_seq = f.claim_seq => SameClaim(e, f)

GoodEvent(c, s, e) ==
    /\ e.command = c
    /\ e.session = s[1].session
    /\ e.type = "command_lease_renewed" => e.lease_expires_at = e.occurred_at + LeaseSeconds

GoodLog(c, s) ==
    /\ s \in Seq(CommandLeaseEvent)
    /\ \A i \in 1..Len(s) : GoodEvent(c, s, s[i])
    /\ \A i \in 1..Len(s) :
          IF i = 1 THEN s[i].type = "command_claimed" /\ s[i].claim_seq = 1
                   ELSE MayFollow(s[i - 1], s[i])
    /\ \A i, j \in 1..Len(s) : i < j => Ordered(s[i], s[j])

LeaseInv ==
    /\ LeaseTypeOK
    /\ TableIsReplayOfLog
    /\ \A c \in Commands : GoodLog(c, log[c])
    /\ \A c \in Commands : log[c] # <<>> =>
          log[c][Len(log[c])].type # "command_claim_expired"
    /\ MirroredIsDurable

-----------------------------------------------------------------------------
\* An event that may follow e is ordered after everything e is ordered after.
LEMMA OrderedStep ==
    ASSUME NEW d \in CommandLeaseEvent, NEW e \in CommandLeaseEvent,
           NEW f \in CommandLeaseEvent,
           MayFollow(e, f),
           d = e \/ Ordered(d, e)
    PROVE  Ordered(d, f)
  BY SMTT(30) DEF CommandLeaseEvent, EventTypes, TerminalTypes, MayFollow, Ordered, SameClaim

\* The log stays good when it grows by an event that may follow its last one.
LEMMA GoodLogAppend ==
    ASSUME NEW c \in Commands, NEW s, GoodLog(c, s),
           NEW f \in CommandLeaseEvent,
           s # <<>> => MayFollow(s[Len(s)], f) /\ GoodEvent(c, s, f),
           s = <<>> => f.command = c /\ f.type = "command_claimed" /\ f.claim_seq = 1
    PROVE  GoodLog(c, Append(s, f))
<1> DEFINE t == Append(s, f)
           n == Len(s)
<1>1. s \in Seq(CommandLeaseEvent) /\ n \in Nat
  BY DEF GoodLog
<1>2. t \in Seq(CommandLeaseEvent) /\ Len(t) = n + 1 /\ t[n + 1] = f
  BY <1>1
<1>3. \A i \in 1..n : t[i] = s[i] /\ s[i] \in CommandLeaseEvent
  BY <1>1
<1>4. s = <<>> <=> n = 0
  BY <1>1
<1> HIDE DEF t, n
<1>5. \A i \in 1..n + 1 : GoodEvent(c, t, t[i])
  <2>1. CASE n = 0
    BY <2>1, <1>2, <1>4 DEF GoodEvent
  <2>2. CASE n # 0
    BY <2>2, <1>1, <1>2, <1>3, <1>4 DEF GoodEvent, GoodLog, n
  <2> QED BY <2>1, <2>2
<1>6. \A i \in 1..n + 1 :
         IF i = 1 THEN t[i].type = "command_claimed" /\ t[i].claim_seq = 1
                  ELSE MayFollow(t[i - 1], t[i])
  <2> SUFFICES ASSUME NEW i \in 1..n + 1
               PROVE  IF i = 1 THEN t[i].type = "command_claimed" /\ t[i].claim_seq = 1
                               ELSE MayFollow(t[i - 1], t[i])
    OBVIOUS
  <2>1. CASE i = n + 1 /\ n = 0
    BY <2>1, <1>2, <1>4
  <2>2. CASE i = n + 1 /\ n # 0
    <3>1. t[i] = f /\ i # 1 /\ i - 1 = n /\ n \in 1..n
      BY <2>2, <1>1, <1>2
    <3>2. t[i - 1] = s[Len(s)]
      BY <3>1, <1>3 DEF n
    <3> QED BY <3>1, <3>2, <2>2, <1>4
  <2>3. CASE i \in 1..n
    <3>1. t[i] = s[i] /\ (i # 1 => t[i - 1] = s[i - 1])
      BY <2>3, <1>1, <1>3
    <3> QED BY <3>1, <2>3 DEF GoodLog, n
  <2> QED BY <2>1, <2>2, <2>3, <1>1
<1>7. \A i, j \in 1..n + 1 : i < j => Ordered(t[i], t[j])
  <2> SUFFICES ASSUME NEW i \in 1..n + 1, NEW j \in 1..n + 1, i < j
               PROVE  Ordered(t[i], t[j])
    OBVIOUS
  <2>1. CASE j \in 1..n
    <3>1. i \in 1..n /\ t[i] = s[i] /\ t[j] = s[j]
      BY <2>1, <1>1, <1>3
    <3> QED BY <3>1, <2>1 DEF GoodLog, n
  <2>2. CASE j = n + 1
    <3>1. i \in 1..n /\ n \in 1..n /\ t[j] = f /\ t[i] = s[i] /\ n # 0
      BY <2>2, <1>1, <1>2, <1>3
    <3>2. MayFollow(s[n], f)
      BY <3>1, <1>4 DEF n
    <3>3. s[i] = s[n] \/ Ordered(s[i], s[n])
      BY <3>1, <1>1 DEF GoodLog, n
    <3>4. s[i] \in CommandLeaseEvent /\ s[n] \in CommandLeaseEvent
      BY <3>1, <1>3
    <3> QED BY <3>1, <3>2, <3>3, <3>4, OrderedStep
  <2> QED BY <2>1, <2>2, <1>1
<1> QED BY <1>2, <1>5, <1>6, <1>7 DEF GoodLog, t

\* The record of a command that was claimed is that of its last event.
LEMMA TableEntry ==
    ASSUME LeaseInv, NEW c \in Commands, commands[c] # NoCommand
    PROVE  LET e == log[c][Len(log[c])]
           IN  /\ log[c] # <<>>
               /\ Len(log[c]) \in 1..Len(log[c])
               /\ e \in CommandLeaseEvent
               /\ GoodEvent(c, log[c], e)
               /\ commands[c] \in CommandLeaseState
               /\ commands[c] = [session |-> e.session, status |-> StatusAfter(e.type),
                                 claim_seq |-> e.claim_seq, worker |-> e.worker,
                                 lease_expires_at |-> e.lease_expires_at]
<1>1. log[c] # <<>> /\ log[c] \in Seq(CommandLeaseEvent)
  BY DEF LeaseInv, TableIsReplayOfLog, LeaseTypeOK
<1>2. Len(log[c]) \in 1..Len(log[c]) /\ log[c][Len(log[c])] \in CommandLeaseEvent
  BY <1>1
<1>3. GoodEvent(c, log[c], log[c][Len(log[c])])
  BY <1>2 DEF LeaseInv, GoodLog
<1>4. commands[c] \in CommandLeaseState
  BY DEF LeaseInv, LeaseTypeOK
<1> QED BY <1>1, <1>2, <1>3, <1>4 DEF LeaseInv, TableIsReplayOfLog

\* What one appended event does to the log of a command and to its record.
LEMMA OneEvent ==
    ASSUME LeaseInv, NEW c \in Commands, NEW st \in CommandLeaseState,
           NEW type \in EventTypes, NEW at \in Nat,
           commands[c] # NoCommand => st.session = commands[c].session,
           commands[c] = NoCommand \/ commands[c].status = "requeued"
               => type = "command_claimed" /\ st.claim_seq = NextClaimSeq(c),
           commands[c] # NoCommand /\ commands[c].status = "claimed"
               => /\ type \notin {"command_claimed", "command_requeued"}
                  /\ st.claim_seq = commands[c].claim_seq
                  /\ st.worker = commands[c].worker,
           commands[c] # NoCommand => commands[c].status \in {"claimed", "requeued"},
           commands[c] # NoCommand /\ type \notin {"command_claimed", "command_lease_renewed"}
               => st.lease_expires_at = commands[c].lease_expires_at,
           type = "command_lease_renewed" => st.lease_expires_at = at + LeaseSeconds
    PROVE  /\ LeaseEvent(c, type, at, st) \in CommandLeaseEvent
           /\ GoodLog(c, Append(log[c], LeaseEvent(c, type, at, st)))
<1> DEFINE f == LeaseEvent(c, type, at, st)
           e == log[c][Len(log[c])]
<1>1. f \in CommandLeaseEvent
  BY DEF LeaseEvent, CommandLeaseEvent, CommandLeaseState
<1>2. GoodLog(c, log[c])
  BY DEF LeaseInv
<1>3. log[c] = <<>> => f.command = c /\ f.type = "command_claimed" /\ f.claim_seq = 1
  BY DEF LeaseInv, TableIsReplayOfLog, LeaseEvent, NextClaimSeq
<1>4. ASSUME log[c] # <<>> PROVE MayFollow(e, f) /\ GoodEvent(c, log[c], f)
  <2>1. commands[c] # NoCommand
    <3>1. log[c] \in Seq(CommandLeaseEvent) /\ log[c] # <<>>
      BY <1>4 DEF LeaseInv, LeaseTypeOK
    <3>2. e \in CommandLeaseEvent
      BY <3>1
    <3>3. [session |-> e.session, status |-> StatusAfter(e.type), claim_seq |-> e.claim_seq,
           worker |-> e.worker, lease_expires_at |-> e.lease_expires_at] \in CommandLeaseState
      BY <3>2 DEF CommandLeaseState, CommandLeaseEvent, StatusAfter
    <3> QED BY <1>4, <3>3 DEF LeaseInv, TableIsReplayOfLog
  <2>2. /\ e \in CommandLeaseEvent /\ GoodEvent(c, log[c], e)
        /\ commands[c] \in CommandLeaseState
        /\ commands[c] = [session |-> e.session, status |-> StatusAfter(e.type),
                          claim_seq |-> e.claim_seq, worker |-> e.worker,
                          lease_expires_at |-> e.lease_expires_at]
    BY <2>1, TableEntry
  <2>3. e.type # "command_claim_expired"
    BY <1>4 DEF LeaseInv
  <2> HIDE DEF e
  <2>4. GoodEvent(c, log[c], f)
    BY <2>1, <2>2 DEF GoodEvent, LeaseEvent
  <2>5. CASE commands[c].status = "requeued"
    <3>1. e.type = "command_requeued"
      BY <2>2, <2>5 DEF StatusAfter, EventTypes, TerminalTypes, CommandLeaseEvent
    <3>2. f.type = "command_claimed" /\ f.claim_seq = e.claim_seq + 1
      BY <2>1, <2>2, <2>5 DEF LeaseEvent, NextClaimSeq
    <3> QED BY <3>1, <3>2, <2>4 DEF MayFollow
  <2>6. CASE commands[c].status = "claimed"
    <3>1. e.type \in {"command_claimed", "command_lease_renewed"}
      BY <2>2, <2>3, <2>6 DEF StatusAfter, EventTypes, TerminalTypes, CommandLeaseEvent
    <3>2. /\ f.type \notin {"command_claimed", "command_requeued"}
          /\ f.claim_seq = e.claim_seq /\ f.worker = e.worker
          /\ f.type # "command_lease_renewed" => f.lease_expires_at = e.lease_expires_at
      BY <2>1, <2>2, <2>6 DEF LeaseEvent
    <3> QED BY <3>1, <3>2, <2>4 DEF MayFollow
  <2> QED BY <2>1, <2>5, <2>6
<1> QED BY <1>1, <1>2, <1>3, <1>4, GoodLogAppend

\* An operation that writes record st and event f for c, and mirrors at most f,
\* keeps the invariant.
LEMMA OneEventStep ==
    ASSUME LeaseInv, NEW c \in Commands, NEW st \in CommandLeaseState,
           NEW type \in EventTypes \ {"command_claim_expired"}, NEW at \in Nat,
           st.status = StatusAfter(type),
           LeaseEvent(c, type, at, st) \in CommandLeaseEvent,
           GoodLog(c, Append(log[c], LeaseEvent(c, type, at, st))),
           commands' = [commands EXCEPT ![c] = st],
           log' = [log EXCEPT ![c] = Append(@, LeaseEvent(c, type, at, st))],
           MirrorOne(LeaseEvent(c, type, at, st))
    PROVE  LeaseInv'
<1> DEFINE f == LeaseEvent(c, type, at, st)
<1>1. f = [command |-> c, session |-> st.session, type |-> type, occurred_at |-> at,
           claim_seq |-> st.claim_seq, worker |-> st.worker,
           lease_expires_at |-> st.lease_expires_at]
  BY DEF LeaseEvent
<1>2. f \in CommandLeaseEvent /\ mirrored' \subseteq mirrored \cup {f}
  BY DEF MirrorOne
<1> HIDE DEF f
<1>3. /\ commands \in [Commands -> CommandLeaseState \cup {NoCommand}]
      /\ log \in [Commands -> Seq(CommandLeaseEvent)]
      /\ mirrored \subseteq CommandLeaseEvent
  BY DEF LeaseInv, LeaseTypeOK
<1>4. /\ log'[c] = Append(log[c], f) /\ commands'[c] = st
      /\ \A d \in Commands \ {c} : log'[d] = log[d] /\ commands'[d] = commands[d]
  BY <1>3 DEF f
<1>5. /\ log'[c] \in Seq(CommandLeaseEvent) /\ Len(log'[c]) = Len(log[c]) + 1
      /\ log'[c][Len(log'[c])] = f /\ log'[c] # <<>>
      /\ \A i \in 1..Len(log[c]) : log'[c][i] = log[c][i]
  BY <1>2, <1>3, <1>4
<1>6. LeaseTypeOK'
  BY <1>2, <1>3, <1>4, <1>5 DEF LeaseTypeOK
<1>7. TableIsReplayOfLog'
  <2> SUFFICES ASSUME NEW d \in Commands
               PROVE  IF log'[d] = <<>> THEN commands'[d] = NoCommand
                      ELSE LET e == log'[d][Len(log'[d])]
                           IN  commands'[d] = [session |-> e.session,
                                  status |-> StatusAfter(e.type),
                                  claim_seq |-> e.claim_seq, worker |-> e.worker,
                                  lease_expires_at |-> e.lease_expires_at]
    BY DEF TableIsReplayOfLog
  <2>1. CASE d = c
    <3>1. st = [session |-> f.session, status |-> StatusAfter(f.type),
                claim_seq |-> f.claim_seq, worker |-> f.worker,
                lease_expires_at |-> f.lease_expires_at]
      BY <1>1 DEF CommandLeaseState
    <3> QED BY <2>1, <3>1, <1>4, <1>5
  <2>2. CASE d # c
    BY <2>2, <1>4 DEF LeaseInv, TableIsReplayOfLog
  <2> QED BY <2>1, <2>2
<1>8. \A d \in Commands : GoodLog(d, log'[d])
  BY <1>4 DEF LeaseInv, f
<1>9. \A d \in Commands : log'[d] # <<>> => log'[d][Len(log'[d])].type # "command_claim_expired"
  BY <1>1, <1>4, <1>5 DEF LeaseInv
<1>10. MirroredIsDurable'
  <2> SUFFICES ASSUME NEW m \in mirrored'
               PROVE  \E i \in 1..Len(log'[m.command]) : log'[m.command][i] = m
    BY DEF MirroredIsDurable
  <2>1. CASE m \in mirrored
    <3>1. m.command \in Commands
      BY <2>1, <1>3 DEF CommandLeaseEvent
    <3>2. PICK i \in 1..Len(log[m.command]) : log[m.command][i] = m
      BY <2>1 DEF LeaseInv, MirroredIsDurable
    <3>3. i \in 1..Len(log'[m.command]) /\ log'[m.command][i] = m
      BY <3>1, <3>2, <1>3, <1>4, <1>5
    <3> QED BY <3>3
  <2>2. CASE m = f
    <3>1. m.command = c /\ Len(log'[c]) \in 1..Len(log'[c])
      BY <2>2, <1>1, <1>5
    <3> QED BY <3>1, <2>2, <1>5
  <2> QED BY <2>1, <2>2, <1>2
<1> QED BY <1>6, <1>7, <1>8, <1>9, <1>10 DEF LeaseInv

\* A claim is accepted only when the lease is free, so the claimed event may
\* follow the last event of its command.
LEMMA ClaimKeepsInv ==
    ASSUME LeaseInv, NEW c \in Commands, NEW s \in Sessions, NEW w \in Workers,
           NEW at \in Times, ClaimCommand(c, s, w, at)
    PROVE  LeaseInv'
<1> DEFINE st == [session |-> s, status |-> "claimed", claim_seq |-> NextClaimSeq(c),
                  worker |-> w, lease_expires_at |-> at + LeaseSeconds]
<1>1. commands[c] \in CommandLeaseState \cup {NoCommand}
  BY DEF LeaseInv, LeaseTypeOK
<1>2. NextClaimSeq(c) \in Nat
  BY <1>1 DEF NextClaimSeq, CommandLeaseState
<1>3. st \in CommandLeaseState /\ at \in Nat
  BY <1>2 DEF CommandLeaseState
<1>4. "command_claimed" \in EventTypes \ {"command_claim_expired"}
  BY DEF EventTypes
<1>5. commands[c] # NoCommand => commands[c].session = s /\ commands[c].status = "requeued"
  BY DEF ClaimCommand, Claimable
<1>6. /\ LeaseEvent(c, "command_claimed", at, st) \in CommandLeaseEvent
      /\ GoodLog(c, Append(log[c], LeaseEvent(c, "command_claimed", at, st)))
  BY <1>3, <1>4, <1>5, OneEvent
<1>7. st.status = StatusAfter("command_claimed")
  BY DEF StatusAfter
<1>8. /\ commands' = [commands EXCEPT ![c] = st]
      /\ log' = [log EXCEPT ![c] = Append(@, LeaseEvent(c, "command_claimed", at, st))]
      /\ MirrorOne(LeaseEvent(c, "command_claimed", at, st))
  BY DEF ClaimCommand
<1> HIDE DEF st
<1> QED BY <1>3, <1>4, <1>6, <1>7, <1>8, OneEventStep

\* A renewal of the current claim keeps the invariant.
LEMMA RenewKeepsInv ==
    ASSUME LeaseInv, NEW c \in Commands, NEW w, NEW n, NEW at \in Times,
           RenewLease(c, w, n, at)
    PROVE  LeaseInv'
<1> DEFINE st == [commands[c] EXCEPT !.lease_expires_at = at + LeaseSeconds]
<1>1. commands[c] \in CommandLeaseState /\ commands[c] # NoCommand /\ commands[c].status = "claimed"
  BY DEF LeaseInv, LeaseTypeOK, RenewLease, CurrentClaim, IsClaimed
<1>2. st \in CommandLeaseState /\ at \in Nat
  BY <1>1 DEF CommandLeaseState
<1>3. /\ st.session = commands[c].session /\ st.claim_seq = commands[c].claim_seq
      /\ st.worker = commands[c].worker /\ st.status = "claimed"
      /\ st.lease_expires_at = at + LeaseSeconds
  BY <1>1 DEF CommandLeaseState
<1>4. /\ "command_lease_renewed" \in EventTypes \ {"command_claim_expired"}
      /\ st.status = StatusAfter("command_lease_renewed")
  BY <1>3 DEF EventTypes, StatusAfter
<1>5. /\ commands' = [commands EXCEPT ![c] = st]
      /\ log' = [log EXCEPT ![c] = Append(@, LeaseEvent(c, "command_lease_renewed", at, st))]
      /\ MirrorOne(LeaseEvent(c, "command_lease_renewed", at, st))
  BY DEF RenewLease
<1> HIDE DEF st
<1>6. /\ LeaseEvent(c, "command_lease_renewed", at, st) \in CommandLeaseEvent
      /\ GoodLog(c, Append(log[c], LeaseEvent(c, "command_lease_renewed", at, st)))
  BY <1>1, <1>2, <1>3, <1>4, OneEvent
<1> QED BY <1>2, <1>4, <1>5, <1>6, OneEventStep

\* An accepted terminal result ends the log of its command.
LEMMA TerminalKeepsInv ==
    ASSUME LeaseInv, NEW c \in Commands, NEW w, NEW n, NEW type \in TerminalTypes,
           NEW at \in Times, RecordTerminalResult(c, w, n, type, at)
    PROVE  LeaseInv'
<1> DEFINE st == [commands[c] EXCEPT !.status =
                      IF type = "command_executed" THEN "executed" ELSE "failed"]
<1>1. commands[c] \in CommandLeaseState /\ commands[c] # NoCommand /\ commands[c].status = "claimed"
  BY DEF LeaseInv, LeaseTypeOK, RecordTerminalResult, CurrentClaim, IsClaimed
<1>2. st \in CommandLeaseState /\ at \in Nat
  BY <1>1 DEF CommandLeaseState
<1>3. /\ st.session = commands[c].session /\ st.claim_seq = commands[c].claim_seq
      /\ st.worker = commands[c].worker
      /\ st.lease_expires_at = commands[c].lease_expires_at
      /\ st.status = StatusAfter(type)
  BY <1>1 DEF CommandLeaseState, TerminalTypes, StatusAfter
<1>4. type \in EventTypes \ {"command_claimed", "command_claim_expired", "command_requeued",
                              "command_lease_renewed"}
  BY DEF EventTypes, TerminalTypes
<1>5. /\ commands' = [commands EXCEPT ![c] = st]
      /\ log' = [log EXCEPT ![c] = Append(@, LeaseEvent(c, type, at, st))]
      /\ MirrorOne(LeaseEvent(c, type, at, st))
  BY DEF RecordTerminalResult
<1> HIDE DEF st
<1>6. /\ LeaseEvent(c, type, at, st) \in CommandLeaseEvent
      /\ GoodLog(c, Append(log[c], LeaseEvent(c, type, at, st)))
  BY <1>1, <1>2, <1>3, <1>4, OneEvent
<1> QED BY <1>2, <1>3, <1>4, <1>5, <1>6, OneEventStep

\* Expiry appends two events to the log of every expired command.
LEMMA ExpiryLog ==
    ASSUME LeaseInv, NEW at \in Nat, NEW c \in Expired(at)
    PROVE  /\ c \in Commands
           /\ commands[c] \in CommandLeaseState /\ commands[c].status = "claimed"
           /\ ExpiryEvent(c, at) \in CommandLeaseEvent
           /\ RequeueEvent(c, at) \in CommandLeaseEvent
           /\ GoodLog(c, Append(Append(log[c], ExpiryEvent(c, at)), RequeueEvent(c, at)))
<1>1. /\ c \in Commands /\ commands[c] # NoCommand /\ commands[c] \in CommandLeaseState
      /\ commands[c].status = "claimed"
  BY DEF Expired, IsClaimed, LeaseInv, LeaseTypeOK
<1>2. /\ ExpiryEvent(c, at) \in CommandLeaseEvent
      /\ GoodLog(c, Append(log[c], ExpiryEvent(c, at)))
  <2>1. "command_claim_expired" \in EventTypes
    BY DEF EventTypes
  <2> QED BY <1>1, <2>1, OneEvent DEF ExpiryEvent
<1> DEFINE t == Append(log[c], ExpiryEvent(c, at))
           f == RequeueEvent(c, at)
<1>3. f \in CommandLeaseEvent
  BY <1>1 DEF RequeueEvent, LeaseEvent, CommandLeaseEvent, CommandLeaseState, EventTypes
<1>4. log[c] \in Seq(CommandLeaseEvent)
  BY <1>1 DEF LeaseInv, LeaseTypeOK
<1>5. t # <<>> /\ t[Len(t)] = ExpiryEvent(c, at) /\ Len(t) \in 1..Len(t)
  BY <1>2, <1>4
<1>6. GoodEvent(c, t, ExpiryEvent(c, at))
  BY <1>2, <1>5 DEF GoodLog
<1> HIDE DEF t
<1>7. MayFollow(t[Len(t)], f) /\ GoodEvent(c, t, f)
  BY <1>5, <1>6 DEF MayFollow, GoodEvent, ExpiryEvent, RequeueEvent, LeaseEvent
<1>8. GoodLog(c, Append(t, f))
  BY <1>1, <1>2, <1>3, <1>5, <1>7, GoodLogAppend DEF t
<1> QED BY <1>1, <1>2, <1>3, <1>8 DEF t

\* One rewrite that expires and requeues several leases, and mirrors any prefix
\* of their events, keeps the invariant.
LEMMA ExpireKeepsInv ==
    ASSUME LeaseInv, NEW at \in Times, ExpireAndRequeueExpired(at)
    PROVE  LeaseInv'
<1> DEFINE X == Expired(at)
           E(c) == ExpiryEvent(c, at)
           R(c) == RequeueEvent(c, at)
<1>1. at \in Nat
  OBVIOUS
<1>2. \A c \in X : /\ c \in Commands /\ commands[c] \in CommandLeaseState
                   /\ E(c) \in CommandLeaseEvent /\ R(c) \in CommandLeaseEvent
                   /\ GoodLog(c, Append(Append(log[c], E(c)), R(c)))
  BY <1>1, ExpiryLog
<1>3. \A c \in X : /\ E(c).command = c /\ R(c).command = c
                   /\ R(c).type = "command_requeued"
                   /\ R(c).session = commands[c].session
                   /\ R(c).claim_seq = commands[c].claim_seq
                   /\ R(c).worker = commands[c].worker
                   /\ R(c).lease_expires_at = commands[c].lease_expires_at
  BY DEF ExpiryEvent, RequeueEvent, LeaseEvent
<1>4. /\ commands' = [c \in Commands |->
             IF c \in X THEN [commands[c] EXCEPT !.status = "requeued"] ELSE commands[c]]
      /\ log' = [c \in Commands |->
             IF c \in X THEN Append(Append(log[c], E(c)), R(c)) ELSE log[c]]
      /\ \A m \in mirrored' : m \in mirrored \/ \E c \in X : m = E(c) \/ m = R(c)
  BY DEF ExpireAndRequeueExpired
<1> HIDE DEF X, E, R
<1>5. /\ commands \in [Commands -> CommandLeaseState \cup {NoCommand}]
      /\ log \in [Commands -> Seq(CommandLeaseEvent)]
      /\ mirrored \subseteq CommandLeaseEvent
  BY DEF LeaseInv, LeaseTypeOK
<1>6. ASSUME NEW c \in X
      PROVE  /\ c \in Commands
             /\ commands'[c] = [commands[c] EXCEPT !.status = "requeued"]
             /\ commands'[c] \in CommandLeaseState
             /\ log'[c] = Append(Append(log[c], E(c)), R(c))
             /\ log'[c] \in Seq(CommandLeaseEvent)
             /\ Len(log'[c]) = Len(log[c]) + 2 /\ Len(log[c]) \in Nat
             /\ log'[c][Len(log[c]) + 1] = E(c) /\ log'[c][Len(log[c]) + 2] = R(c)
             /\ log'[c] # <<>> /\ log'[c][Len(log'[c])] = R(c)
             /\ Len(log[c]) + 1 \in 1..Len(log'[c]) /\ Len(log[c]) + 2 \in 1..Len(log'[c])
             /\ \A i \in 1..Len(log[c]) : log'[c][i] = log[c][i] /\ i \in 1..Len(log'[c])
  <2>1. c \in Commands /\ commands[c] \in CommandLeaseState
    BY <1>2, <1>6
  <2>2. /\ commands'[c] = [commands[c] EXCEPT !.status = "requeued"]
        /\ log'[c] = Append(Append(log[c], E(c)), R(c))
    BY <2>1, <1>4, <1>6
  <2>3. commands'[c] \in CommandLeaseState
    BY <2>1, <2>2 DEF CommandLeaseState
  <2>4. log[c] \in Seq(CommandLeaseEvent) /\ E(c) \in CommandLeaseEvent /\ R(c) \in CommandLeaseEvent
    BY <2>1, <1>2, <1>5, <1>6
  <2>5. Append(log[c], E(c)) \in Seq(CommandLeaseEvent)
    BY <2>4
  <2> QED BY <2>1, <2>2, <2>3, <2>4, <2>5
<1>7. \A c \in Commands \ X : commands'[c] = commands[c] /\ log'[c] = log[c]
  BY <1>4
<1>8. LeaseTypeOK'
  <2>1. \A c \in Commands : commands'[c] \in CommandLeaseState \cup {NoCommand}
    BY <1>5, <1>6, <1>7
  <2>2. \A c \in Commands : log'[c] \in Seq(CommandLeaseEvent)
    BY <1>5, <1>6, <1>7
  <2>3. mirrored' \subseteq CommandLeaseEvent
    BY <1>2, <1>4, <1>5
  <2> QED BY <1>4, <2>1, <2>2, <2>3 DEF LeaseTypeOK
<1>9. TableIsReplayOfLog'
  <2> SUFFICES ASSUME NEW d \in Commands
               PROVE  IF log'[d] = <<>> THEN commands'[d] = NoCommand
                      ELSE LET e == log'[d][Len(log'[d])]
                           IN  commands'[d] = [session |-> e.session,
                                  status |-> StatusAfter(e.type),
                                  claim_seq |-> e.claim_seq, worker |-> e.worker,
                                  lease_expires_at |-> e.lease_expires_at]
    BY DEF TableIsReplayOfLog
  <2>1. CASE d \in X
    <3>1. log'[d] # <<>> /\ log'[d][Len(log'[d])] = R(d)
      BY <2>1, <1>6
    <3>2. commands[d] \in CommandLeaseState
      BY <2>1, <1>2
    <3>3. [commands[d] EXCEPT !.status = "requeued"] =
             [session |-> R(d).session, status |-> StatusAfter(R(d).type),
              claim_seq |-> R(d).claim_seq, worker |-> R(d).worker,
              lease_expires_at |-> R(d).lease_expires_at]
      BY <2>1, <3>2, <1>3 DEF CommandLeaseState, StatusAfter
    <3> QED BY <2>1, <3>1, <3>3, <1>6
  <2>2. CASE d \notin X
    BY <2>2, <1>7 DEF LeaseInv, TableIsReplayOfLog
  <2> QED BY <2>1, <2>2
<1>10. \A d \in Commands : GoodLog(d, log'[d])
  BY <1>2, <1>6, <1>7 DEF LeaseInv
<1>11. \A d \in Commands : log'[d] # <<>> =>
          log'[d][Len(log'[d])].type # "command_claim_expired"
  <2> TAKE d \in Commands
  <2>1. CASE d \in X
    BY <2>1, <1>3, <1>6
  <2>2. CASE d \notin X
    BY <2>2, <1>7 DEF LeaseInv
  <2> QED BY <2>1, <2>2
<1>12. MirroredIsDurable'
  <2> SUFFICES ASSUME NEW m \in mirrored'
               PROVE  \E i \in 1..Len(log'[m.command]) : log'[m.command][i] = m
    BY DEF MirroredIsDurable
  <2>1. CASE m \in mirrored
    <3>1. m.command \in Commands
      BY <2>1, <1>5 DEF CommandLeaseEvent
    <3>2. PICK i \in 1..Len(log[m.command]) : log[m.command][i] = m
      BY <2>1 DEF LeaseInv, MirroredIsDurable
    <3>3. CASE m.command \in X
      BY <3>2, <3>3, <1>6
    <3>4. CASE m.command \notin X
      BY <3>1, <3>2, <3>4, <1>7
    <3> QED BY <3>3, <3>4
  <2>2. CASE \E c \in X : m = E(c) \/ m = R(c)
    <3>1. PICK c \in X : m = E(c) \/ m = R(c)
      BY <2>2
    <3>2. /\ m.command = c
          /\ Len(log[c]) + 1 \in 1..Len(log'[c]) /\ Len(log[c]) + 2 \in 1..Len(log'[c])
          /\ log'[c][Len(log[c]) + 1] = E(c) /\ log'[c][Len(log[c]) + 2] = R(c)
      BY <3>1, <1>3, <1>6
    <3> QED BY <3>1, <3>2
  <2> QED BY <2>1, <2>2, <1>4
<1> QED BY <1>8, <1>9, <1>10, <1>11, <1>12 DEF LeaseInv

-----------------------------------------------------------------------------
LEMMA LeaseInitInv == ASSUME LeaseInit PROVE LeaseInv
<1>1. LeaseTypeOK
  BY DEF LeaseInit, LeaseTypeOK
<1>2. TableIsReplayOfLog /\ MirroredIsDurable
  BY DEF LeaseInit, TableIsReplayOfLog, MirroredIsDurable
<1>3. \A c \in Commands : log[c] = <<>>
  BY DEF LeaseInit
<1>4. \A c \in Commands : GoodLog(c, log[c])
  <2>1. /\ <<>> \in Seq(CommandLeaseEvent)
        /\ \A i \in 1..Len(<<>>) : FALSE
    OBVIOUS
  <2>2. \A c \in Commands : GoodLog(c, <<>>)
    BY <2>1 DEF GoodLog
  <2> QED BY <1>3, <2>2
<1> QED BY <1>1, <1>2, <1>3, <1>4 DEF LeaseInv

LEMMA LeaseStutterKeepsInv == ASSUME LeaseInv, UNCHANGED leaseVars PROVE LeaseInv'
  BY DEF leaseVars, LeaseInv, LeaseTypeOK, TableIsReplayOfLog, MirroredIsDurable,
         GoodLog, GoodEvent

\* LeaseInv holds initially and every operation of the lease store keeps it,
\* whoever calls it with whatever claim number and clock reading.
THEOREM LeaseInvariance == LeaseSpec => []LeaseInv
<1>1. LeaseInit => LeaseInv
  BY LeaseInitInv
<1>2. LeaseInv /\ [LeaseNext]_leaseVars => LeaseInv'
  <2> SUFFICES ASSUME LeaseInv, [LeaseNext]_leaseVars PROVE LeaseInv'
    OBVIOUS
  <2>1. ASSUME NEW c \in Commands, NEW s \in Sessions, NEW w \in Workers, NEW at \in Times,
               ClaimCommand(c, s, w, at)
        PROVE  LeaseInv'
    BY <2>1, ClaimKeepsInv
  <2>2. ASSUME NEW c \in Commands, NEW w \in Workers, NEW n \in 1..MaxClaims, NEW at \in Times,
               RenewLease(c, w, n, at)
        PROVE  LeaseInv'
    BY <2>2, RenewKeepsInv
  <2>3. ASSUME NEW at \in Times, ExpireAndRequeueExpired(at)
        PROVE  LeaseInv'
    BY <2>3, ExpireKeepsInv
  <2>4. ASSUME NEW c \in Commands, NEW w \in Workers, NEW n \in 1..MaxClaims,
               NEW type \in TerminalTypes, NEW at \in Times,
               RecordTerminalResult(c, w, n, type, at)
        PROVE  LeaseInv'
    BY <2>4, TerminalKeepsInv
  <2>5. CASE UNCHANGED leaseVars
    BY <2>5, LeaseStutterKeepsInv
  <2> QED BY <2>1, <2>2, <2>3, <2>4, <2>5 DEF LeaseNext
<1> QED BY <1>1, <1>2, PTL DEF LeaseSpec

\* An event is determined by its fields.
LEMMA EventFields ==
    ASSUME NEW e \in CommandLeaseEvent
    PROVE  e = [command |-> e.command, session |-> e.session, type |-> e.type,
                occurred_at |-> e.occurred_at, claim_seq |-> e.claim_seq,
                worker |-> e.worker, lease_expires_at |-> e.lease_expires_at]
  BY DEF CommandLeaseEvent

\* What GoodLog says, as the properties the runs check.
LEMMA LeaseInvImplies ==
    LeaseInv => /\ CanonicalChain /\ LateResultsRejected
                /\ OutcomeIsLast /\ MirrorNeverConflicts
<1> SUFFICES ASSUME LeaseInv
             PROVE  /\ CanonicalChain /\ LateResultsRejected
                    /\ OutcomeIsLast /\ MirrorNeverConflicts
  OBVIOUS
<1>1. \A c \in Commands : /\ log[c] \in Seq(CommandLeaseEvent) /\ Len(log[c]) \in Nat
                          /\ \A i \in 1..Len(log[c]) : log[c][i] \in CommandLeaseEvent
  BY DEF LeaseInv, LeaseTypeOK
<1>2. CanonicalChain
  BY DEF LeaseInv, GoodLog, GoodEvent, CanonicalChain
<1>3. ASSUME NEW c \in Commands, NEW i \in 1..Len(log[c]), NEW j \in 1..Len(log[c]), i < j
      PROVE  Ordered(log[c][i], log[c][j])
  BY <1>3 DEF LeaseInv, GoodLog
<1>4. LateResultsRejected
  <2> SUFFICES ASSUME NEW c \in Commands, NEW i \in 1..Len(log[c]), NEW j \in 1..Len(log[c]),
                      i < j, log[c][i].type = "command_requeued"
               PROVE  log[c][j].claim_seq > log[c][i].claim_seq
    BY DEF LateResultsRejected
  <2>1. log[c][i] \in CommandLeaseEvent /\ log[c][j] \in CommandLeaseEvent
    BY <1>1
  <2> QED BY <2>1, <1>3 DEF Ordered, CommandLeaseEvent
<1>5. OutcomeIsLast
  <2> SUFFICES ASSUME NEW c \in Commands, NEW i \in 1..Len(log[c]),
                      log[c][i].type \in TerminalTypes
               PROVE  i = Len(log[c])
    BY DEF OutcomeIsLast
  <2>1. CASE i < Len(log[c])
    <3>1. Len(log[c]) \in 1..Len(log[c])
      BY <2>1, <1>1
    <3> QED BY <2>1, <3>1, <1>3 DEF Ordered
  <2> QED BY <2>1, <1>1
<1>6. MirrorNeverConflicts
  <2> SUFFICES ASSUME NEW c \in Commands, NEW i \in 1..Len(log[c]), NEW j \in 1..Len(log[c]),
                      i < j, SessionKey(log[c][i]) = SessionKey(log[c][j])
               PROVE  log[c][i] = log[c][j]
    BY <1>1 DEF MirrorNeverConflicts, ConflictsWith
  <2> DEFINE e == log[c][i]
             f == log[c][j]
  <2>1. e \in CommandLeaseEvent /\ f \in CommandLeaseEvent
    BY <1>1
  <2>2. Ordered(e, f)
    BY <1>3
  <2>3. GoodEvent(c, log[c], e) /\ GoodEvent(c, log[c], f)
    BY DEF LeaseInv, GoodLog
  <2> HIDE DEF e, f
  <2>4. e.claim_seq = f.claim_seq /\ e.type = f.type /\ e.session = f.session
    BY DEF SessionKey, e, f
  <2>5. e.type = "command_lease_renewed" /\ e.worker = f.worker
    BY <2>1, <2>2, <2>4 DEF Ordered, SameClaim, CommandLeaseEvent
  <2>6. e.lease_expires_at = f.lease_expires_at
    BY <2>4, <2>5 DEF SessionKey, e, f
  <2>7. e.occurred_at = f.occurred_at /\ e.command = f.command
    BY <2>1, <2>3, <2>4, <2>5, <2>6 DEF GoodEvent, CommandLeaseEvent
  <2>8. e = f
    BY <2>1, <2>4, <2>5, <2>6, <2>7, EventFields
  <2> QED BY <2>8 DEF e, f
<1> QED BY <1>2, <1>4, <1>5, <1>6

\* Every variable of the lease store keeps its type.
THEOREM LeaseTypeCorrect == LeaseSpec => []LeaseTypeOK
  BY LeaseInvariance, PTL DEF LeaseInv

\* The lease table can always be rebuilt from the event log.
THEOREM TableReplays == LeaseSpec => []TableIsReplayOfLog
  BY LeaseInvariance, PTL DEF LeaseInv

\* The events of a command always form the canonical chain.
THEOREM ChainIsCanonical == LeaseSpec => []CanonicalChain
  BY LeaseInvariance, LeaseInvImplies, PTL

\* The result of a claim that was requeued is never recorded.
THEOREM LateResultsAreRejected == LeaseSpec => []LateResultsRejected
  BY LeaseInvariance, LeaseInvImplies, PTL

\* A command has at most one outcome, and nothing is recorded after it.
THEOREM OutcomeIsFinal == LeaseSpec => []OutcomeIsLast
  BY LeaseInvariance, LeaseInvImplies, PTL

\* Mirroring a lease event to the Session Service never meets another event
\* under the same idempotency key.
THEOREM MirrorIsConflictFree == LeaseSpec => []MirrorNeverConflicts
  BY LeaseInvariance, LeaseInvImplies, PTL

\* What the Session Service shows of a lease is in the lease store's file.
THEOREM MirroredEventsAreDurable == LeaseSpec => []MirroredIsDurable
  BY LeaseInvariance, PTL DEF LeaseInv

-----------------------------------------------------------------------------
(* Refinement of FencedCommand                                             *)

\* The lease store implements exclusive, fenced, once-only commands: each of its
\* steps is a grant, a revocation, a decision or no change of the abstract state.
THEOREM LeasesImplementFencedCommand == LeaseSpec => ImplementsFencedCommand
<1>1. LeaseInit => Fenced!FencedInit
  BY DEF LeaseInit, Fenced!FencedInit, IsClaimed
<1>2. LeaseInv /\ [LeaseNext]_leaseVars => [Fenced!FencedNext]_(Fenced!fencedVars)
  <2> SUFFICES ASSUME LeaseInv, [LeaseNext]_leaseVars
               PROVE  [Fenced!FencedNext]_(Fenced!fencedVars)
    OBVIOUS
  <2>0. commands \in [Commands -> CommandLeaseState \cup {NoCommand}]
    BY DEF LeaseInv, LeaseTypeOK
  <2>1. ASSUME NEW c \in Commands, NEW s \in Sessions, NEW w \in Workers, NEW at \in Times,
               ClaimCommand(c, s, w, at)
        PROVE  Fenced!Grant(c, w)
    <3> DEFINE st == [session |-> s, status |-> "claimed", claim_seq |-> NextClaimSeq(c),
                      worker |-> w, lease_expires_at |-> at + LeaseSeconds]
    <3>1. /\ commands' = [commands EXCEPT ![c] = st]
          /\ commands[c] # NoCommand => commands[c].status = "requeued"
      BY <2>1 DEF ClaimCommand, Claimable
    <3>2. st \in CommandLeaseState
      <4>1. NextClaimSeq(c) \in Nat
        BY <2>0 DEF NextClaimSeq, CommandLeaseState
      <4> QED BY <4>1 DEF CommandLeaseState
    <3>3. /\ st # NoCommand /\ st.status = "claimed" /\ st.worker = w
          /\ st.claim_seq = IF commands[c] = NoCommand THEN 1 ELSE commands[c].claim_seq + 1
      BY <3>2 DEF NextClaimSeq
    <3> HIDE DEF st
    <3>4. commands'[c] = st /\ \A d \in Commands \ {c} : commands'[d] = commands[d]
      BY <2>0, <3>1
    <3>5. /\ ~IsClaimed(c) /\ IsClaimed(c)' /\ commands'[c].worker = w
          /\ \A d \in Commands \ {c} : IsClaimed(d)' <=> IsClaimed(d)
      BY <3>1, <3>3, <3>4 DEF IsClaimed
    <3>6. commands[c] # NoCommand => commands[c].claim_seq \in Nat
      BY <2>0 DEF CommandLeaseState
    <3>7. [d \in Commands |-> IF commands[d] = NoCommand THEN 0 ELSE commands[d].claim_seq]'
             = [[d \in Commands |-> IF commands[d] = NoCommand THEN 0
                                    ELSE commands[d].claim_seq] EXCEPT ![c] = @ + 1]
      <4> DEFINE g == [d \in Commands |-> IF commands[d] = NoCommand THEN 0
                                          ELSE commands[d].claim_seq]
                 h == [d \in Commands |-> IF commands'[d] = NoCommand THEN 0
                                          ELSE commands'[d].claim_seq]
      <4>1. h[c] = g[c] + 1
        BY <3>3, <3>4, <3>6
      <4>2. \A d \in Commands \ {c} : h[d] = g[d]
        BY <3>4
      <4>3. /\ h = [d \in Commands |-> h[d]]
            /\ [g EXCEPT ![c] = @ + 1] = [d \in Commands |-> IF d = c THEN g[c] + 1 ELSE g[d]]
        OBVIOUS
      <4> HIDE DEF g, h
      <4>4. h = [g EXCEPT ![c] = @ + 1]
        BY <4>1, <4>2, <4>3
      <4> QED BY <4>4 DEF g, h
    <3>8. [d \in Commands |-> IF IsClaimed(d) THEN {commands[d].worker} ELSE {}]'
             = [[d \in Commands |-> IF IsClaimed(d) THEN {commands[d].worker} ELSE {}]
                   EXCEPT ![c] = {w}]
      BY <3>4, <3>5
    <3>9. UNCHANGED [d \in Commands |->
                IF commands[d] # NoCommand /\ commands[d].status \in {"executed", "failed"}
                THEN commands[d].status ELSE "none"]
      BY <3>1, <3>3, <3>4
    <3> QED BY <3>1, <3>5, <3>7, <3>8, <3>9 DEF Fenced!Grant
  <2>2. ASSUME NEW c \in Commands, NEW w \in Workers, NEW n \in 1..MaxClaims, NEW at \in Times,
               RenewLease(c, w, n, at)
        PROVE  UNCHANGED Fenced!fencedVars
    <3> DEFINE st == [commands[c] EXCEPT !.lease_expires_at = at + LeaseSeconds]
    <3>1. /\ commands' = [commands EXCEPT ![c] = st]
          /\ commands[c] # NoCommand /\ commands[c].status = "claimed"
      BY <2>2 DEF RenewLease, CurrentClaim, IsClaimed
    <3>2. commands[c] \in CommandLeaseState
      BY <2>0, <3>1
    <3>3. /\ st \in CommandLeaseState /\ st.status = "claimed"
          /\ st.worker = commands[c].worker /\ st.claim_seq = commands[c].claim_seq
      BY <3>2, <3>1 DEF CommandLeaseState
    <3> HIDE DEF st
    <3> QED BY <2>0, <3>1, <3>2, <3>3 DEF Fenced!fencedVars, IsClaimed
  <2>3. ASSUME NEW at \in Times, ExpireAndRequeueExpired(at)
        PROVE  \E X \in SUBSET Commands : Fenced!Revoke(X)
    <3>0. PICK X \in SUBSET Commands : X = Expired(at)
      BY DEF Expired
    <3>1. \A c \in Expired(at) : /\ c \in Commands /\ commands[c] \in CommandLeaseState
                                 /\ commands[c].status = "claimed" /\ commands[c] # NoCommand
      BY <2>0 DEF Expired, IsClaimed
    <3>2. commands' = [c \in Commands |->
             IF c \in Expired(at) THEN [commands[c] EXCEPT !.status = "requeued"]
                                  ELSE commands[c]]
      BY <2>3 DEF ExpireAndRequeueExpired
    <3>3. \A c \in Expired(at) :
             /\ commands'[c] # NoCommand /\ commands'[c].status = "requeued"
             /\ commands'[c].claim_seq = commands[c].claim_seq
      <4> SUFFICES ASSUME NEW c \in Expired(at)
                   PROVE  /\ commands'[c] # NoCommand /\ commands'[c].status = "requeued"
                          /\ commands'[c].claim_seq = commands[c].claim_seq
        OBVIOUS
      <4>1. commands'[c] = [commands[c] EXCEPT !.status = "requeued"]
        BY <3>1, <3>2
      <4>2. commands'[c] \in CommandLeaseState
        BY <3>1, <4>1 DEF CommandLeaseState
      <4>3. commands'[c].status = "requeued" /\ commands'[c].claim_seq = commands[c].claim_seq
        BY <3>1, <4>1 DEF CommandLeaseState
      <4> QED BY <4>2, <4>3
    <3>4. \A c \in Commands \ Expired(at) : commands'[c] = commands[c]
      BY <3>2
    <3>5. \A c \in Expired(at) : IsClaimed(c)
      BY DEF Expired
    <3>6. Fenced!Revoke(X)
      BY <3>0, <3>1, <3>3, <3>4, <3>5 DEF Fenced!Revoke, IsClaimed
    <3> QED BY <3>6
  <2>4. ASSUME NEW c \in Commands, NEW w \in Workers, NEW n \in 1..MaxClaims,
               NEW type \in TerminalTypes, NEW at \in Times,
               RecordTerminalResult(c, w, n, type, at)
        PROVE  Fenced!FencedNext
    <3> DEFINE r == IF type = "command_executed" THEN "executed" ELSE "failed"
               st == [commands[c] EXCEPT !.status = r]
    <3>1. /\ commands' = [commands EXCEPT ![c] = st]
          /\ commands[c] # NoCommand /\ commands[c].status = "claimed"
          /\ commands[c].worker = w /\ commands[c].claim_seq = n
      BY <2>4 DEF RecordTerminalResult, CurrentClaim, IsClaimed
    <3>2. commands[c] \in CommandLeaseState
      BY <2>0, <3>1
    <3>3. r \in {"executed", "failed"}
      OBVIOUS
    <3> HIDE DEF r
    <3>4. st \in CommandLeaseState /\ st.status = r /\ st.claim_seq = commands[c].claim_seq
      BY <3>2, <3>3 DEF CommandLeaseState
    <3> HIDE DEF st
    <3>5. Fenced!Decide(c, w, n, r)
      BY <2>0, <3>1, <3>2, <3>3, <3>4 DEF Fenced!Decide, IsClaimed
    <3>6. n = [d \in Commands |-> IF commands[d] = NoCommand THEN 0
                                  ELSE commands[d].claim_seq][c]
      BY <3>1
    <3> QED BY <3>3, <3>5, <3>6 DEF Fenced!FencedNext
  <2>5. CASE UNCHANGED leaseVars
    BY <2>5 DEF leaseVars, Fenced!fencedVars, IsClaimed
  <2>6. ASSUME NEW at \in Times, ExpireAndRequeueExpired(at)
        PROVE  Fenced!FencedNext
    BY <2>3, <2>6 DEF Fenced!FencedNext
  <2>7. ASSUME NEW c \in Commands, NEW s \in Sessions, NEW w \in Workers, NEW at \in Times,
               ClaimCommand(c, s, w, at)
        PROVE  Fenced!FencedNext
    BY <2>1, <2>7 DEF Fenced!FencedNext
  <2> QED BY <2>2, <2>4, <2>5, <2>6, <2>7 DEF LeaseNext
<1> QED BY <1>1, <1>2, LeaseInvariance, PTL DEF LeaseSpec, ImplementsFencedCommand, Fenced!FencedSpec

-----------------------------------------------------------------------------
(***************************************************************************)
(* The orchestrator.                                                       *)
(***************************************************************************)
Planned == {"plan", "claim", "renew", "dispatch", "execute", "receipt", "terminal", "settle",
            "enqueue"}
Leased == {"renew", "dispatch", "execute", "receipt", "terminal", "settle", "enqueue"}

\* What a process knows of the command in its hands.
ProcHolds(p) ==
    /\ proc[p].pc \in Planned => proc[p].cmd \in created
    /\ proc[p].pc \in Leased => commands[proc[p].cmd] # NoCommand
    /\ proc[p].pc = "receipt" => proc[p].result \in {"completed", "other"}

ProcsHold == \A p \in Processes : ProcHolds(p)

EffectsAreClaimed ==
    \A c \in Commands : effects[c] > 0 => c \in created /\ commands[c] # NoCommand

AutoInv == AutoTypeOK /\ LeaseInv /\ ProcsHold /\ EffectsAreClaimed

\* No record of a command is ever lost.
Keeps ==
    /\ \A c \in Commands : commands[c] # NoCommand => commands'[c] # NoCommand
    /\ created \subseteq created' /\ created' \subseteq Commands

\* What the lease store does to the table, apart from the mirroring.
SetsLease(c, st) == commands' = [commands EXCEPT ![c] = st]

(***************************************************************************)
(* The lease table.                                                        *)
(***************************************************************************)
LEMMA StateIsNotNone == NoCommand \notin CommandLeaseState
  BY NoCommandAssumption

LEMMA TableSet ==
    ASSUME LeaseTypeOK, NEW c \in Commands, NEW st \in CommandLeaseState, SetsLease(c, st)
    PROVE  /\ commands'[c] = st /\ commands'[c] # NoCommand
           /\ \A d \in Commands \ {c} : commands'[d] = commands[d]
           /\ \A d \in Commands : commands[d] # NoCommand => commands'[d] # NoCommand
<1>1. commands'[c] = st /\ \A d \in Commands \ {c} : commands'[d] = commands[d]
  BY DEF SetsLease, LeaseTypeOK
<1> QED BY <1>1, StateIsNotNone

LEMMA ClaimSets ==
    ASSUME LeaseTypeOK, NEW c \in Commands, NEW s \in Sessions, NEW w \in Workers,
           NEW at \in Nat, ClaimCommand(c, s, w, at)
    PROVE  \E st \in CommandLeaseState :
              /\ SetsLease(c, st) /\ st.status = "claimed" /\ st.worker = w
              /\ st.claim_seq = NextClaimSeq(c)
<1>1. NextClaimSeq(c) \in Nat
  BY DEF LeaseTypeOK, NextClaimSeq, CommandLeaseState
<1>2. PICK k \in Nat : k = at + LeaseSeconds
  BY LeaseAssumption
<1>3. PICK st : st = [session |-> s, status |-> "claimed", claim_seq |-> NextClaimSeq(c),
                      worker |-> w, lease_expires_at |-> k]
  OBVIOUS
<1>4. st \in CommandLeaseState
  BY <1>1, <1>3 DEF CommandLeaseState
<1>5. SetsLease(c, st)
  BY <1>2, <1>3 DEF ClaimCommand, SetsLease
<1> QED BY <1>3, <1>4, <1>5

LEMMA RenewSets ==
    ASSUME LeaseTypeOK, NEW c \in Commands, NEW w, NEW n, NEW at \in Nat, RenewLease(c, w, n, at)
    PROVE  \E st \in CommandLeaseState :
              /\ SetsLease(c, st) /\ st.status = "claimed" /\ st.worker = w /\ st.claim_seq = n
<1>1. PICK r \in CommandLeaseState :
          r = commands[c] /\ r.status = "claimed" /\ r.worker = w /\ r.claim_seq = n
  BY DEF LeaseTypeOK, RenewLease, CurrentClaim, IsClaimed
<1>2. PICK k \in Nat : k = at + LeaseSeconds
  BY LeaseAssumption
<1>3. PICK st : st = [r EXCEPT !.lease_expires_at = k]
  OBVIOUS
<1>4. /\ st \in CommandLeaseState /\ st.status = r.status /\ st.worker = r.worker
      /\ st.claim_seq = r.claim_seq
  BY <1>3 DEF CommandLeaseState
<1>5. SetsLease(c, st)
  BY <1>1, <1>2, <1>3 DEF RenewLease, SetsLease
<1> QED BY <1>1, <1>4, <1>5

LEMMA ResultSets ==
    ASSUME LeaseTypeOK, NEW c \in Commands, NEW w, NEW n, NEW type, NEW at,
           RecordTerminalResult(c, w, n, type, at)
    PROVE  \E st \in CommandLeaseState :
              SetsLease(c, st) /\ st.status \in {"executed", "failed"}
<1>1. PICK r \in CommandLeaseState : r = commands[c]
  BY DEF LeaseTypeOK, RecordTerminalResult, CurrentClaim, IsClaimed
<1>2. PICK v \in {"executed", "failed"} :
          v = IF type = "command_executed" THEN "executed" ELSE "failed"
  OBVIOUS
<1>3. PICK st : st = [r EXCEPT !.status = v]
  OBVIOUS
<1>4. st \in CommandLeaseState /\ st.status = v
  BY <1>3 DEF CommandLeaseState
<1>5. SetsLease(c, st)
  BY <1>1, <1>2, <1>3 DEF RecordTerminalResult, SetsLease
<1> QED BY <1>4, <1>5

LEMMA ExpireSets ==
    ASSUME LeaseTypeOK, NEW at, ExpireAndRequeueExpired(at), NEW c \in Commands
    PROVE  \/ commands'[c] = commands[c]
           \/ /\ IsClaimed(c) /\ commands'[c] \in CommandLeaseState
              /\ commands'[c].status = "requeued" /\ commands'[c] # NoCommand
<1>1. CASE c \notin Expired(at)
  BY <1>1 DEF ExpireAndRequeueExpired
<1>2. CASE c \in Expired(at)
  <2>1. PICK r \in CommandLeaseState : r = commands[c] /\ IsClaimed(c)
    BY <1>2 DEF LeaseTypeOK, Expired, IsClaimed
  <2>2. PICK st : st = [r EXCEPT !.status = "requeued"]
    OBVIOUS
  <2>3. st \in CommandLeaseState /\ st.status = "requeued"
    BY <2>2 DEF CommandLeaseState
  <2>4. commands'[c] = st
    BY <1>2, <2>1, <2>2 DEF ExpireAndRequeueExpired
  <2> QED BY <2>1, <2>3, <2>4, StateIsNotNone
<1> QED BY <1>1, <1>2
(***************************************************************************)
(* The steps.                                                              *)
(***************************************************************************)
LEMMA ScanningIsAState ==
    ASSUME NEW now \in 0..MaxTime, NEW todo \in SUBSET Commands
    PROVE  Scanning(now, todo) \in ProcState /\ Scanning(now, todo).pc = "scan"
  BY DEF Scanning, ProcState, Labels

LEMMA IdleIsAState == IdleProc \in ProcState /\ IdleProc.pc = "idle" /\ IdleProc.cmd = NoCommand
<1>1. 0 \in 0..MaxTime
  BY TimeAssumption
<1> QED BY <1>1 DEF IdleProc, ProcState, Labels

\* A process moves to v, the other processes stay.
LEMMA ProcMoves ==
    ASSUME AutoInv, Keeps, NEW p \in Processes, NEW v \in ProcState,
           proc' = [proc EXCEPT ![p] = v],
           v.pc \in Planned => v.cmd \in created',
           v.pc \in Leased => commands'[v.cmd] # NoCommand,
           v.pc = "receipt" => v.result \in {"completed", "other"}
    PROVE  /\ proc' \in [Processes -> ProcState] /\ ProcsHold' /\ proc'[p] = v
           /\ \A q \in Processes \ {p} : proc'[q] = proc[q]
<1>1. /\ proc' \in [Processes -> ProcState] /\ proc'[p] = v
      /\ \A q \in Processes \ {p} : proc'[q] = proc[q]
  BY DEF AutoInv, AutoTypeOK
<1>2. ProcHolds(p)'
  BY <1>1 DEF ProcHolds
<1>3. ASSUME NEW q \in Processes, q # p PROVE ProcHolds(q)'
  <2>1. ProcHolds(q) /\ proc'[q] = proc[q]
    BY <1>1, <1>3 DEF AutoInv, ProcsHold
  <2>2. proc[q].pc \in Leased => proc[q].pc \in Planned /\ proc[q].cmd \in Commands
    BY <2>1 DEF ProcHolds, Planned, Leased, AutoInv, AutoTypeOK
  <2> QED BY <2>1, <2>2 DEF ProcHolds, Keeps
<1> QED BY <1>1, <1>2, <1>3 DEF ProcsHold

\* The process is done with its record.
LEMMA NextRecordMoves ==
    ASSUME AutoInv, Keeps, NEW p \in Processes, NextRecord(p)
    PROVE  /\ proc' \in [Processes -> ProcState] /\ ProcsHold' /\ proc'[p].pc = "scan"
           /\ \A q \in Processes \ {p} : proc'[q] = proc[q]
<1>1. proc[p] \in ProcState
  BY DEF AutoInv, AutoTypeOK
<1>2. proc[p].now \in 0..MaxTime /\ proc[p].todo \ {proc[p].cmd} \in SUBSET Commands
  BY <1>1 DEF ProcState
<1>3. PICK v \in ProcState : v.pc = "scan" /\ proc' = [proc EXCEPT ![p] = v]
  BY <1>2, ScanningIsAState DEF NextRecord
<1> QED BY <1>3, ProcMoves DEF Planned, Leased

\* The process goes on with its command.
LEMMA GotoMoves ==
    ASSUME AutoInv, Keeps, NEW p \in Processes, NEW l \in Planned, Goto(p, l),
           proc[p].pc \in Planned,
           l \in Leased => commands'[proc[p].cmd] # NoCommand, l # "receipt"
    PROVE  /\ proc' \in [Processes -> ProcState] /\ ProcsHold' /\ proc'[p].pc = l
           /\ proc'[p].cmd = proc[p].cmd /\ proc'[p].seq = proc[p].seq
           /\ proc'[p].result = proc[p].result /\ proc'[p].now = proc[p].now
           /\ \A q \in Processes \ {p} : proc'[q] = proc[q]
<1>1. PICK u \in ProcState : u = proc[p]
  BY DEF AutoInv, AutoTypeOK
<1>2. PICK v : v = [u EXCEPT !.pc = l]
  OBVIOUS
<1>3. /\ v \in ProcState /\ v.pc = l /\ v.cmd = u.cmd /\ v.seq = u.seq /\ v.result = u.result
      /\ v.now = u.now
  BY <1>2 DEF ProcState, Planned, Labels
<1>4. proc' = [proc EXCEPT ![p] = v]
  BY <1>1, <1>2 DEF Goto
<1>5. v.cmd \in created'
  BY <1>1, <1>3 DEF AutoInv, ProcsHold, ProcHolds, Keeps
<1>6. /\ proc' \in [Processes -> ProcState] /\ ProcsHold' /\ proc'[p] = v
      /\ \A q \in Processes \ {p} : proc'[q] = proc[q]
  BY <1>1, <1>3, <1>4, <1>5, ProcMoves
<1> QED BY <1>1, <1>3, <1>6

\* No process moves.
LEMMA ProcsStay ==
    ASSUME AutoInv, Keeps, proc' = proc
    PROVE  proc' \in [Processes -> ProcState] /\ ProcsHold'
<1>1. ASSUME NEW q \in Processes PROVE ProcHolds(q)'
  <2>1. ProcHolds(q) /\ proc'[q] = proc[q]
    BY DEF AutoInv, ProcsHold
  <2>2. proc[q].pc \in Leased => proc[q].pc \in Planned /\ proc[q].cmd \in Commands
    BY <2>1 DEF ProcHolds, Planned, Leased, AutoInv, AutoTypeOK
  <2> QED BY <2>1, <2>2 DEF ProcHolds, Keeps
<1> QED BY <1>1 DEF ProcsHold, AutoInv, AutoTypeOK

LEMMA UnchangedKeeps ==
    ASSUME AutoInv, UNCHANGED <<leaseVars, created>> PROVE Keeps /\ LeaseInv'
  BY LeaseStutterKeepsInv DEF AutoInv, AutoTypeOK, Keeps, leaseVars

\* The rest of the types, in a step that keeps to them.
LEMMA RestIsTyped ==
    ASSUME AutoInv, LeaseInv', Keeps, proc' \in [Processes -> ProcState], ProcsHold',
           UNCHANGED <<clock, current, receipts, effects, dispatch, outbox>>,
           faults' = faults \/ Fault
    PROVE  AutoInv'
<1>1. faults' \in 0..MaxFaults
  BY FaultsAssumption DEF AutoInv, AutoTypeOK, Fault
<1>2. AutoTypeOK'
  BY <1>1 DEF AutoInv, AutoTypeOK, LeaseInv, Keeps
<1>3. EffectsAreClaimed'
  BY DEF AutoInv, EffectsAreClaimed, Keeps
<1> QED BY <1>2, <1>3 DEF AutoInv
LEMMA StartTickKeeps ==
    ASSUME AutoInv, NEW p \in Processes, StartTick(p) PROVE AutoInv'
<1>1. /\ UNCHANGED <<clock, current, created, receipts, effects, dispatch, outbox>>
      /\ IF Expired(clock) = {} THEN UNCHANGED leaseVars ELSE ExpireAndRequeueExpired(clock)
      /\ \/ proc' = [proc EXCEPT ![p] = Scanning(clock, Commands)] /\ UNCHANGED faults
         \/ Fault /\ UNCHANGED proc
  BY DEF StartTick
<1>2. clock \in 0..MaxTime /\ clock \in Times /\ LeaseTypeOK
  BY TimeAssumption DEF AutoInv, AutoTypeOK
<1>3. Keeps /\ LeaseInv'
  <2>1. CASE UNCHANGED leaseVars
    BY <1>1, <2>1, UnchangedKeeps
  <2>2. CASE ExpireAndRequeueExpired(clock)
    <3>1. LeaseInv'
      BY <1>2, <2>2, ExpireKeepsInv DEF AutoInv
    <3>2. \A c \in Commands : commands[c] # NoCommand => commands'[c] # NoCommand
      BY <1>2, <2>2, ExpireSets
    <3> QED BY <1>1, <3>1, <3>2 DEF Keeps, AutoInv, AutoTypeOK
  <2> QED BY <1>1, <2>1, <2>2
<1>4. proc' \in [Processes -> ProcState] /\ ProcsHold'
  <2>1. CASE proc' = proc
    BY <1>3, <2>1, ProcsStay
  <2>2. CASE proc' = [proc EXCEPT ![p] = Scanning(clock, Commands)]
    <3>1. PICK v \in ProcState : v = Scanning(clock, Commands) /\ v.pc = "scan"
      BY <1>2, ScanningIsAState
    <3>2. proc' = [proc EXCEPT ![p] = v]
      BY <2>2, <3>1
    <3> QED BY <1>3, <3>1, <3>2, ProcMoves DEF Planned, Leased
  <2> QED BY <1>1, <2>1, <2>2
<1> QED BY <1>1, <1>3, <1>4, RestIsTyped

LEMMA EndTickKeeps ==
    ASSUME AutoInv, NEW p \in Processes, EndTick(p) PROVE AutoInv'
<1>1. /\ UNCHANGED <<leaseVars, clock, faults, current, created, receipts, effects, dispatch,
                     outbox>>
      /\ proc' = [proc EXCEPT ![p].pc = "idle", ![p].now = 0]
  BY DEF EndTick
<1>2. Keeps /\ LeaseInv'
  BY <1>1, UnchangedKeeps
<1>3. PICK u \in ProcState : u = proc[p]
  BY DEF AutoInv, AutoTypeOK
<1>4. PICK n \in 0..MaxTime : n = 0
  BY TimeAssumption
<1>5. PICK v : v = [u EXCEPT !.pc = "idle", !.now = n]
  OBVIOUS
<1>6. v \in ProcState /\ v.pc = "idle"
  BY <1>5 DEF ProcState, Labels
<1>7. proc' = [proc EXCEPT ![p] = v]
  BY <1>1, <1>3, <1>4, <1>5
<1>8. proc' \in [Processes -> ProcState] /\ ProcsHold'
  BY <1>2, <1>6, <1>7, ProcMoves DEF Planned, Leased
<1> QED BY <1>1, <1>2, <1>8, RestIsTyped

LEMMA VisitRecordKeeps ==
    ASSUME AutoInv, NEW p \in Processes, NEW c \in Commands, VisitRecord(p, c) PROVE AutoInv'
<1>1. /\ UNCHANGED <<leaseVars, clock, faults, current, receipts, effects, dispatch, outbox>>
      /\ \/ proc' = [proc EXCEPT ![p].todo = @ \ {c}] /\ UNCHANGED created
         \/ /\ proc' = [proc EXCEPT ![p].pc = "plan", ![p].cmd = c]
            /\ created' = created \cup {c}
      /\ proc[p].pc = "scan"
  BY DEF VisitRecord
<1>2. Keeps /\ LeaseInv'
  BY <1>1, LeaseStutterKeepsInv DEF AutoInv, AutoTypeOK, Keeps, leaseVars
<1>3. PICK u \in ProcState : u = proc[p]
  BY DEF AutoInv, AutoTypeOK
<1>4. CASE proc' = [proc EXCEPT ![p].todo = @ \ {c}]
  <2>1. PICK v : v = [u EXCEPT !.todo = @ \ {c}]
    OBVIOUS
  <2>2. v \in ProcState /\ v.pc = "scan"
    BY <1>1, <1>3, <2>1 DEF ProcState
  <2>3. proc' = [proc EXCEPT ![p] = v]
    BY <1>3, <1>4, <2>1
  <2>4. proc' \in [Processes -> ProcState] /\ ProcsHold'
    BY <1>2, <2>2, <2>3, ProcMoves DEF Planned, Leased
  <2> QED BY <1>1, <1>2, <2>4, RestIsTyped
<1>5. CASE proc' = [proc EXCEPT ![p].pc = "plan", ![p].cmd = c] /\ created' = created \cup {c}
  <2>1. PICK v : v = [u EXCEPT !.pc = "plan", !.cmd = c]
    OBVIOUS
  <2>2. v \in ProcState /\ v.pc = "plan" /\ v.cmd = c
    BY <2>1 DEF ProcState, Labels
  <2>3. proc' = [proc EXCEPT ![p] = v]
    BY <1>3, <1>5, <2>1
  <2>4. proc' \in [Processes -> ProcState] /\ ProcsHold'
    BY <1>2, <1>5, <2>2, <2>3, ProcMoves DEF Planned, Leased
  <2> QED BY <1>1, <1>2, <2>4, RestIsTyped
<1> QED BY <1>1, <1>4, <1>5

LEMMA PlanCommandKeeps ==
    ASSUME AutoInv, NEW p \in Processes, PlanCommand(p) PROVE AutoInv'
<1> DEFINE c == proc[p].cmd
<1>1. /\ proc[p].pc = "plan"
      /\ UNCHANGED <<leaseVars, clock, faults, current, created, receipts, effects, dispatch,
                     outbox>>
      /\ \/ Goto(p, "claim")
         \/ /\ IsClaimed(c)
            /\ proc' = [proc EXCEPT ![p].pc = "renew", ![p].seq = commands[c].claim_seq]
         \/ NextRecord(p)
  BY DEF PlanCommand
<1>2. Keeps /\ LeaseInv'
  BY <1>1, UnchangedKeeps
<1>3. c \in created /\ c \in Commands
  BY <1>1 DEF AutoInv, AutoTypeOK, ProcsHold, ProcHolds, Planned
<1>4. proc' \in [Processes -> ProcState] /\ ProcsHold'
  <2>1. CASE Goto(p, "claim")
    BY <1>1, <1>2, <2>1, GotoMoves DEF Planned, Leased
  <2>2. CASE NextRecord(p)
    BY <1>2, <2>2, NextRecordMoves
  <2>3. CASE /\ IsClaimed(c)
             /\ proc' = [proc EXCEPT ![p].pc = "renew", ![p].seq = commands[c].claim_seq]
    <3>1. PICK u \in ProcState : u = proc[p]
      BY DEF AutoInv, AutoTypeOK
    <3>2. PICK n \in Nat : n = commands[c].claim_seq
      BY <1>3, <2>3 DEF IsClaimed, AutoInv, AutoTypeOK, LeaseTypeOK, CommandLeaseState
    <3>3. PICK v : v = [u EXCEPT !.pc = "renew", !.seq = n]
      OBVIOUS
    <3>4. v \in ProcState /\ v.pc = "renew" /\ v.cmd = u.cmd
      BY <3>3 DEF ProcState, Labels
    <3>5. proc' = [proc EXCEPT ![p] = v]
      BY <2>3, <3>1, <3>2, <3>3
    <3>6. commands'[c] # NoCommand /\ c \in created'
      BY <1>1, <1>3, <2>3 DEF IsClaimed, leaseVars
    <3> QED BY <1>2, <3>1, <3>4, <3>5, <3>6, ProcMoves
  <2> QED BY <1>1, <2>1, <2>2, <2>3
<1> QED BY <1>1, <1>2, <1>4, RestIsTyped

LEMMA ClaimPlannedKeeps ==
    ASSUME AutoInv, NEW p \in Processes, ClaimPlanned(p) PROVE AutoInv'
<1> DEFINE c == proc[p].cmd
<1>1. /\ proc[p].pc = "claim"
      /\ UNCHANGED <<clock, current, created, receipts, effects, dispatch, outbox>>
      /\ \/ /\ ClaimCommand(c, SessionOf[c], Orchestrator, proc[p].now)
            /\ \/ /\ UNCHANGED faults
                  /\ proc' = [proc EXCEPT ![p].pc = "dispatch", ![p].seq = NextClaimSeq(c)]
               \/ Fault /\ NextRecord(p)
         \/ NextRecord(p) /\ UNCHANGED <<leaseVars, faults>>
  BY DEF ClaimPlanned
<1>2. c \in created /\ c \in Commands /\ proc[p].now \in 0..MaxTime /\ LeaseTypeOK
  BY <1>1 DEF AutoInv, AutoTypeOK, ProcsHold, ProcHolds, Planned, ProcState
<1>3. SessionOf[c] \in Sessions /\ proc[p].now \in Times /\ proc[p].now \in Nat
  BY <1>2, SessionOfAssumption, TimeAssumption
<1>4. CASE NextRecord(p) /\ UNCHANGED <<leaseVars, faults>>
  <2>1. Keeps /\ LeaseInv'
    BY <1>1, <1>4, UnchangedKeeps
  <2> QED BY <1>1, <1>4, <2>1, NextRecordMoves, RestIsTyped
<1>5. CASE ClaimCommand(c, SessionOf[c], Orchestrator, proc[p].now)
  <2> HIDE DEF c
  <2>1. LeaseInv'
    BY <1>2, <1>3, <1>5, ClaimKeepsInv, OrchestratorAssumption DEF AutoInv
  <2>2. PICK st \in CommandLeaseState : SetsLease(c, st) /\ st.claim_seq = NextClaimSeq(c)
    BY <1>2, <1>3, <1>5, ClaimSets, OrchestratorAssumption
  <2>3. /\ commands'[c] # NoCommand
        /\ \A d \in Commands : commands[d] # NoCommand => commands'[d] # NoCommand
    BY <1>2, <2>2, TableSet
  <2>4. Keeps
    BY <1>1, <2>3 DEF Keeps, AutoInv, AutoTypeOK
  <2>5. CASE Fault /\ NextRecord(p)
    BY <1>1, <2>1, <2>4, <2>5, NextRecordMoves, RestIsTyped
  <2>6. CASE /\ UNCHANGED faults
             /\ proc' = [proc EXCEPT ![p].pc = "dispatch", ![p].seq = NextClaimSeq(c)]
    <3>1. PICK u \in ProcState : u = proc[p]
      BY DEF AutoInv, AutoTypeOK
    <3>2. PICK n \in Nat : n = NextClaimSeq(c)
      BY <2>2 DEF CommandLeaseState
    <3>3. PICK v : v = [u EXCEPT !.pc = "dispatch", !.seq = n]
      OBVIOUS
    <3>4. v \in ProcState /\ v.pc = "dispatch" /\ v.cmd = u.cmd
      BY <3>3 DEF ProcState, Labels
    <3>5. proc' = [proc EXCEPT ![p] = v]
      BY <2>6, <3>1, <3>2, <3>3
    <3>6. v.cmd \in created' /\ commands'[v.cmd] # NoCommand
      BY <1>1, <1>2, <2>3, <3>1, <3>4 DEF c
    <3>7. proc' \in [Processes -> ProcState] /\ ProcsHold'
      BY <2>4, <3>4, <3>5, <3>6, ProcMoves
    <3> QED BY <1>1, <2>1, <2>4, <2>6, <3>7, RestIsTyped
  <2> QED BY <1>1, <1>4, <2>5, <2>6 DEF c
<1> QED BY <1>1, <1>4, <1>5

LEMMA RenewPlannedKeeps ==
    ASSUME AutoInv, NEW p \in Processes, RenewPlanned(p) PROVE AutoInv'
<1> DEFINE c == proc[p].cmd
<1>1. /\ proc[p].pc = "renew"
      /\ UNCHANGED <<clock, current, created, receipts, effects, dispatch, outbox>>
      /\ \/ /\ RenewLease(c, Orchestrator, proc[p].seq, proc[p].now)
            /\ (UNCHANGED faults /\ Goto(p, "dispatch")) \/ (Fault /\ NextRecord(p))
         \/ NextRecord(p) /\ UNCHANGED <<leaseVars, faults>>
  BY DEF RenewPlanned
<1>2. c \in created /\ c \in Commands /\ proc[p].now \in 0..MaxTime /\ LeaseTypeOK
  BY <1>1 DEF AutoInv, AutoTypeOK, ProcsHold, ProcHolds, Planned, ProcState
<1>3. proc[p].now \in Times /\ proc[p].now \in Nat
  BY <1>2, TimeAssumption
<1>4. CASE NextRecord(p) /\ UNCHANGED <<leaseVars, faults>>
  <2>1. Keeps /\ LeaseInv'
    BY <1>1, <1>4, UnchangedKeeps
  <2> QED BY <1>1, <1>4, <2>1, NextRecordMoves, RestIsTyped
<1>5. CASE RenewLease(c, Orchestrator, proc[p].seq, proc[p].now)
  <2> HIDE DEF c
  <2>1. LeaseInv'
    BY <1>2, <1>3, <1>5, RenewKeepsInv DEF AutoInv
  <2>2. PICK st \in CommandLeaseState : SetsLease(c, st)
    BY <1>2, <1>3, <1>5, RenewSets
  <2>3. /\ commands'[c] # NoCommand
        /\ \A d \in Commands : commands[d] # NoCommand => commands'[d] # NoCommand
    BY <1>2, <2>2, TableSet
  <2>4. Keeps
    BY <1>1, <2>3 DEF Keeps, AutoInv, AutoTypeOK
  <2>5. CASE Fault /\ NextRecord(p)
    BY <1>1, <2>1, <2>4, <2>5, NextRecordMoves, RestIsTyped
  <2>6. CASE UNCHANGED faults /\ Goto(p, "dispatch")
    <3>1. proc' \in [Processes -> ProcState] /\ ProcsHold'
      BY <1>1, <2>3, <2>4, <2>6, GotoMoves DEF c, Planned, Leased
    <3> QED BY <1>1, <2>1, <2>4, <2>6, <3>1, RestIsTyped
  <2> QED BY <1>1, <1>4, <2>5, <2>6 DEF c
<1> QED BY <1>1, <1>4, <1>5
\* A step of a process that leaves the lease store alone.
LEMMA OwnStep ==
    ASSUME AutoInv, NEW p \in Processes, proc[p].pc \in Planned,
           UNCHANGED <<leaseVars, clock, current, created>>, faults' \in 0..MaxFaults,
           proc' \in [Processes -> ProcState], ProcsHold', outbox' \subseteq Commands,
           receipts' \in [Commands -> {"none", "completed", "other"}],
           effects' \in [Commands -> Nat], EffectsAreClaimed',
           dispatch' \in [Commands -> [status : {"none", "claimed", "completed", "failed"},
                                       at : 0..MaxTime]]
    PROVE  AutoInv'
<1>1. Keeps /\ LeaseInv'
  BY UnchangedKeeps
<1>2. AutoTypeOK'
  BY <1>1 DEF AutoInv, AutoTypeOK, LeaseInv
<1> QED BY <1>1, <1>2 DEF AutoInv

LEMMA InHand ==
    ASSUME AutoInv, NEW p \in Processes, proc[p].pc \in Planned
    PROVE  /\ proc[p] \in ProcState /\ proc[p].cmd \in created /\ proc[p].cmd \in Commands
           /\ proc[p].now \in 0..MaxTime
           /\ proc[p].pc \in Leased => commands[proc[p].cmd] # NoCommand
  BY DEF AutoInv, AutoTypeOK, ProcsHold, ProcHolds, ProcState

LEMMA DispatchKeeps ==
    ASSUME AutoInv, NEW p \in Processes, MarkDispatched(p) \/ SettleDispatch(p) PROVE AutoInv'
<1> DEFINE c == proc[p].cmd
<1>1. /\ proc[p].pc \in Leased
      /\ UNCHANGED <<leaseVars, clock, faults, current, created, receipts, effects, outbox>>
      /\ Goto(p, "execute") \/ Goto(p, "enqueue") \/ NextRecord(p)
  BY DEF MarkDispatched, SettleDispatch, Leased
<1>2. PICK s \in {"claimed", "completed", "failed"} :
          dispatch' = [dispatch EXCEPT ![c] = [status |-> s, at |-> proc[p].now]]
  BY DEF MarkDispatched, SettleDispatch
<1>3. proc[p].pc \in Planned
  BY <1>1 DEF Planned, Leased
<1>4. c \in Commands /\ proc[p].now \in 0..MaxTime /\ commands[c] # NoCommand
  BY <1>1, <1>3, InHand
<1>5. dispatch' \in [Commands -> [status : {"none", "claimed", "completed", "failed"},
                                  at : 0..MaxTime]]
  BY <1>2, <1>4 DEF AutoInv, AutoTypeOK
<1>6. Keeps /\ commands' = commands
  BY <1>1, UnchangedKeeps DEF leaseVars
<1>7. proc' \in [Processes -> ProcState] /\ ProcsHold'
  BY <1>1, <1>3, <1>4, <1>6, GotoMoves, NextRecordMoves DEF Planned, Leased
<1>8. EffectsAreClaimed'
  BY <1>1, <1>6 DEF AutoInv, EffectsAreClaimed
<1> QED BY <1>1, <1>3, <1>5, <1>7, <1>8, OwnStep DEF AutoInv, AutoTypeOK

\* What the runtime may have done.
LEMMA ExecuteSteps ==
    ASSUME AutoInv, NEW p \in Processes, Execute(p)
    PROVE  /\ proc[p].pc = "execute" /\ proc[p].cmd \in Commands
           /\ UNCHANGED <<leaseVars, clock, faults, current, created, receipts, dispatch, outbox>>
           /\ effects' \in [Commands -> Nat]
           /\ \A c \in Commands : c # proc[p].cmd => effects'[c] = effects[c]
           /\ effects'[proc[p].cmd] \in {effects[proc[p].cmd], effects[proc[p].cmd] + 1}
           /\ receipts[proc[p].cmd] # "none" => effects' = effects
           /\ proc'[p].pc \in {"receipt", "terminal"} /\ proc'[p].cmd = proc[p].cmd
           /\ proc'[p].seq = proc[p].seq
           /\ \A q \in Processes \ {p} : proc'[q] = proc[q]
           /\ proc' \in [Processes -> ProcState] /\ ProcsHold'
<1> DEFINE c == proc[p].cmd
<1>1. /\ proc[p].pc = "execute"
      /\ UNCHANGED <<leaseVars, clock, faults, current, created, receipts, dispatch, outbox>>
  BY DEF Execute
<1>2. /\ c \in Commands /\ c \in created /\ proc[p] \in ProcState /\ commands[c] # NoCommand
  BY <1>1, InHand DEF Planned, Leased
<1>3. effects' = effects \/ (receipts[c] = "none" /\ effects' = [effects EXCEPT ![c] = @ + 1])
  BY DEF Execute
<1>4. /\ effects' \in [Commands -> Nat] /\ effects'[c] \in {effects[c], effects[c] + 1}
      /\ \A d \in Commands : d # c => effects'[d] = effects[d]
      /\ receipts[c] # "none" => effects' = effects
  BY <1>2, <1>3 DEF AutoInv, AutoTypeOK
<1>5. PICK l \in {"receipt", "terminal"}, r \in {"completed", "other", "upstream_error"} :
          /\ proc' = [proc EXCEPT ![p].pc = l, ![p].result = r]
          /\ l = "receipt" => r \in {"completed", "other"}
  <2>1. CASE receipts[c] # "none"
    <3>1. receipts[c] \in {"completed", "other"}
      BY <1>2, <2>1 DEF AutoInv, AutoTypeOK
    <3> QED BY <2>1, <3>1 DEF Execute
  <2>2. CASE receipts[c] = "none"
    BY <2>2 DEF Execute
  <2> QED BY <2>1, <2>2
<1>6. PICK u \in ProcState : u = proc[p]
  BY <1>2
<1>7. PICK v : v = [u EXCEPT !.pc = l, !.result = r]
  OBVIOUS
<1>8. /\ v \in ProcState /\ v.pc = l /\ v.result = r /\ v.cmd = u.cmd /\ v.seq = u.seq
  BY <1>7 DEF ProcState, Labels
<1>9. proc' = [proc EXCEPT ![p] = v]
  BY <1>5, <1>6, <1>7
<1>10. Keeps /\ v.cmd \in created' /\ commands'[v.cmd] # NoCommand
  BY <1>1, <1>2, <1>6, <1>8, UnchangedKeeps DEF leaseVars
<1>11. /\ proc' \in [Processes -> ProcState] /\ ProcsHold' /\ proc'[p] = v
       /\ \A q \in Processes \ {p} : proc'[q] = proc[q]
  BY <1>5, <1>8, <1>9, <1>10, ProcMoves
<1> QED BY <1>1, <1>2, <1>4, <1>6, <1>8, <1>11

LEMMA ExecuteKeeps == ASSUME AutoInv, NEW p \in Processes, Execute(p) PROVE AutoInv'
<1> DEFINE c == proc[p].cmd
<1>1. proc[p].pc \in Planned /\ proc[p].pc \in Leased
  BY DEF Execute, Planned, Leased
<1>2. c \in created /\ commands[c] # NoCommand
  BY <1>1, InHand
<1>3. /\ UNCHANGED <<leaseVars, clock, faults, current, created, receipts, dispatch, outbox>>
      /\ effects' \in [Commands -> Nat]
      /\ \A d \in Commands : d # c => effects'[d] = effects[d]
      /\ proc' \in [Processes -> ProcState] /\ ProcsHold'
  BY ExecuteSteps
<1>4. EffectsAreClaimed'
  BY <1>2, <1>3 DEF AutoInv, EffectsAreClaimed, leaseVars
<1> QED BY <1>1, <1>3, <1>4, OwnStep DEF AutoInv, AutoTypeOK

LEMMA StoreReceiptKeeps ==
    ASSUME AutoInv, NEW p \in Processes, StoreReceipt(p)
    PROVE  AutoInv' /\ receipts'[proc[p].cmd] # "none"
<1> DEFINE c == proc[p].cmd
<1>1. /\ proc[p].pc = "receipt" /\ proc[p].pc \in Planned /\ proc[p].pc \in Leased
      /\ UNCHANGED <<leaseVars, clock, faults, current, created, effects, dispatch, outbox>>
      /\ receipts' = [receipts EXCEPT ![c] = proc[p].result] /\ Goto(p, "terminal")
  BY DEF StoreReceipt, Planned, Leased
<1>2. c \in Commands /\ commands[c] # NoCommand
  BY <1>1, InHand
<1>3. proc[p].result \in {"completed", "other"}
  BY <1>1 DEF AutoInv, ProcsHold, ProcHolds
<1>4. receipts' \in [Commands -> {"none", "completed", "other"}] /\ receipts'[c] # "none"
  BY <1>1, <1>2, <1>3 DEF AutoInv, AutoTypeOK
<1>5. Keeps /\ commands'[c] # NoCommand
  BY <1>1, <1>2, UnchangedKeeps DEF leaseVars
<1>6. proc' \in [Processes -> ProcState] /\ ProcsHold'
  BY <1>1, <1>5, GotoMoves DEF Planned
<1>7. EffectsAreClaimed'
  BY <1>1 DEF AutoInv, EffectsAreClaimed, leaseVars
<1> QED BY <1>1, <1>4, <1>6, <1>7, OwnStep DEF AutoInv, AutoTypeOK

LEMMA RecordResultKeeps == ASSUME AutoInv, NEW p \in Processes, RecordResult(p) PROVE AutoInv'
<1> DEFINE c == proc[p].cmd
           type == ResultType(proc[p].result)
<1>1. /\ proc[p].pc = "terminal" /\ proc[p].pc \in Planned
      /\ UNCHANGED <<clock, current, created, receipts, effects, dispatch, outbox>>
      /\ \/ /\ RecordTerminalResult(c, Orchestrator, proc[p].seq, type, proc[p].now)
            /\ (UNCHANGED faults /\ Goto(p, "settle")) \/ (Fault /\ NextRecord(p))
         \/ NextRecord(p) /\ UNCHANGED <<leaseVars, faults>>
  BY DEF RecordResult, Planned
<1>2. c \in Commands /\ proc[p].now \in 0..MaxTime /\ LeaseTypeOK
  BY <1>1, InHand DEF AutoInv, AutoTypeOK
<1>3. proc[p].now \in Times /\ type \in TerminalTypes
  BY <1>2, TimeAssumption DEF ResultType, TerminalTypes
<1>4. CASE NextRecord(p) /\ UNCHANGED <<leaseVars, faults>>
  <2>1. Keeps /\ LeaseInv'
    BY <1>1, <1>4, UnchangedKeeps
  <2> QED BY <1>1, <1>4, <2>1, NextRecordMoves, RestIsTyped
<1>5. CASE RecordTerminalResult(c, Orchestrator, proc[p].seq, type, proc[p].now)
  <2> HIDE DEF c, type
  <2>1. LeaseInv'
    BY <1>2, <1>3, <1>5, TerminalKeepsInv DEF AutoInv
  <2>2. PICK st \in CommandLeaseState : SetsLease(c, st)
    BY <1>2, <1>5, ResultSets
  <2>3. /\ commands'[c] # NoCommand
        /\ \A d \in Commands : commands[d] # NoCommand => commands'[d] # NoCommand
    BY <1>2, <2>2, TableSet
  <2>4. Keeps
    BY <1>1, <2>3 DEF Keeps, AutoInv, AutoTypeOK
  <2>5. CASE Fault /\ NextRecord(p)
    BY <1>1, <2>1, <2>4, <2>5, NextRecordMoves, RestIsTyped
  <2>6. CASE UNCHANGED faults /\ Goto(p, "settle")
    <3>1. proc' \in [Processes -> ProcState] /\ ProcsHold'
      BY <1>1, <2>3, <2>4, <2>6, GotoMoves DEF c, Planned, Leased
    <3> QED BY <1>1, <2>1, <2>4, <2>6, <3>1, RestIsTyped
  <2> QED BY <1>1, <1>4, <2>5, <2>6 DEF c, type
<1> QED BY <1>1, <1>4, <1>5

LEMMA EnqueueEnvelopesKeeps ==
    ASSUME AutoInv, NEW p \in Processes, EnqueueEnvelopes(p) PROVE AutoInv'
<1>1. /\ proc[p].pc \in Planned /\ NextRecord(p) /\ outbox' = outbox \cup {proc[p].cmd}
      /\ UNCHANGED <<leaseVars, clock, faults, current, created, receipts, effects, dispatch>>
  BY DEF EnqueueEnvelopes, Planned
<1>2. Keeps /\ commands' = commands
  BY <1>1, UnchangedKeeps DEF leaseVars
<1>3. proc' \in [Processes -> ProcState] /\ ProcsHold'
  BY <1>1, <1>2, NextRecordMoves
<1>4. outbox' \subseteq Commands
  BY <1>1, InHand DEF AutoInv, AutoTypeOK
<1>5. EffectsAreClaimed'
  BY <1>1, <1>2 DEF AutoInv, EffectsAreClaimed
<1> QED BY <1>1, <1>3, <1>4, <1>5, OwnStep DEF AutoInv, AutoTypeOK

LEMMA FaultKeeps ==
    ASSUME AutoInv, NEW p \in Processes, Crash(p) \/ AbandonRecord(p) PROVE AutoInv'
<1>1. /\ Fault
      /\ UNCHANGED <<leaseVars, clock, current, created, receipts, effects, dispatch, outbox>>
      /\ proc' = [proc EXCEPT ![p] = IdleProc] \/ NextRecord(p)
  BY DEF Crash, AbandonRecord
<1>2. Keeps /\ LeaseInv'
  BY <1>1, UnchangedKeeps
<1>3. CASE NextRecord(p)
  BY <1>1, <1>2, <1>3, NextRecordMoves, RestIsTyped
<1>4. CASE proc' = [proc EXCEPT ![p] = IdleProc]
  <2>1. proc' \in [Processes -> ProcState] /\ ProcsHold'
    BY <1>2, <1>4, IdleIsAState, ProcMoves DEF Planned, Leased
  <2> QED BY <1>1, <1>2, <2>1, RestIsTyped
<1> QED BY <1>1, <1>3, <1>4

LEMMA OutsideKeeps ==
    ASSUME AutoInv, (\E c \in Commands : RecordMovesOn(c)) \/ ClockTick \/ UNCHANGED vars
    PROVE  AutoInv'
<1>1. /\ UNCHANGED <<leaseVars, faults, proc, created, receipts, effects, dispatch, outbox>>
      /\ current' \subseteq current /\ clock' \in 0..MaxTime
  BY TimeAssumption DEF RecordMovesOn, ClockTick, vars, autoVars, AutoInv, AutoTypeOK
<1>2. Keeps /\ LeaseInv'
  BY <1>1, UnchangedKeeps
<1>3. proc' \in [Processes -> ProcState] /\ ProcsHold'
  BY <1>1, <1>2, ProcsStay
<1>4. AutoTypeOK'
  BY <1>1, <1>2 DEF AutoInv, AutoTypeOK, LeaseInv
<1>5. EffectsAreClaimed'
  BY <1>1 DEF AutoInv, EffectsAreClaimed, leaseVars
<1> QED BY <1>2, <1>3, <1>4, <1>5 DEF AutoInv

LEMMA AutoInitInv == ASSUME AutoInit PROVE AutoInv
<1>1. 0 \in 0..MaxTime /\ 0 \in 0..MaxFaults
  BY TimeAssumption, FaultsAssumption
<1>2. LeaseInv
  BY LeaseInitInv DEF AutoInit
<1>3. AutoTypeOK
  BY <1>1, <1>2, IdleIsAState DEF AutoInit, AutoTypeOK, LeaseInv, NoDispatch
<1>4. ProcsHold
  BY IdleIsAState DEF AutoInit, ProcsHold, ProcHolds, Planned, Leased
<1>5. EffectsAreClaimed
  BY DEF AutoInit, EffectsAreClaimed
<1> QED BY <1>2, <1>3, <1>4, <1>5 DEF AutoInv

LEMMA AutoStepKeeps == ASSUME AutoInv, [AutoNext]_vars PROVE AutoInv'
<1>1. ASSUME NEW p \in Processes, TickStep(p) PROVE AutoInv'
  BY <1>1, StartTickKeeps, EndTickKeeps, VisitRecordKeeps, PlanCommandKeeps,
     ClaimPlannedKeeps, RenewPlannedKeeps, DispatchKeeps, ExecuteKeeps, StoreReceiptKeeps,
     RecordResultKeeps, EnqueueEnvelopesKeeps DEF TickStep
<1> QED BY <1>1, FaultKeeps, OutsideKeeps DEF AutoNext

\* Every variable of the composition has its type, and the lease store's
\* invariant holds of the orchestrator's own use of it.
THEOREM AutoInvariance == AutoSpec => []AutoInv
  BY AutoInitInv, AutoStepKeeps, PTL DEF AutoSpec

\* Every variable of the orchestrator and of the stores it writes has its type.
THEOREM AutoTypeCorrect == AutoSpec => []AutoTypeOK
<1>1. AutoInv => AutoTypeOK
  BY DEF AutoInv
<1> QED BY <1>1, AutoInvariance, PTL

\* However ticks of several processes, crashes, abandoned records and lost mirror
\* writes interleave, execute_canonical_decision is only reached for a command
\* whose command_created event is written and whose claim is in the lease file.
THEOREM EffectsFollowTheRecord == AutoSpec => []EffectsAreOnRecord
<1>1. AutoInv => EffectsAreOnRecord
  <2> SUFFICES ASSUME AutoInv, NEW c \in Commands, effects[c] > 0
               PROVE  c \in created /\ log[c] # <<>>
    BY DEF EffectsAreOnRecord
  <2>1. c \in created /\ commands[c] # NoCommand
    BY DEF AutoInv, EffectsAreClaimed
  <2> QED BY <2>1 DEF AutoInv, LeaseInv, TableIsReplayOfLog
<1> QED BY <1>1, AutoInvariance, PTL
(***************************************************************************)
(* One process.  Only StartTick expires leases, so the claim a process     *)
(* executes under is still current when it records the outcome; an action  *)
(* without a receipt is followed by the outcome or by a fault.             *)
(***************************************************************************)
Settled(c) == commands[c] # NoCommand /\ commands[c].status \in {"executed", "failed"}
Acting(p, c) == proc[p].cmd = c /\ proc[p].pc \in {"receipt", "terminal"}
Acted(p, c) == receipts[c] # "none" \/ Settled(c) \/ Acting(p, c)

ClaimIsHeld(p) ==
    proc[p].pc \in {"dispatch", "execute", "receipt", "terminal"}
    => CurrentClaim(proc[p].cmd, Orchestrator, proc[p].seq)

ActsOnce(p) == \A c \in Commands : effects[c] <= faults + (IF Acted(p, c) THEN 1 ELSE 0)

OneProcessInv(p) == ClaimIsHeld(p) /\ ActsOnce(p)

LEMMA GotoAfter ==
    ASSUME AutoInv, NEW p \in Processes, NEW l, Goto(p, l)
    PROVE  proc'[p].pc = l /\ proc'[p].cmd = proc[p].cmd /\ proc'[p].seq = proc[p].seq
<1>1. PICK u \in ProcState : u = proc[p]
  BY DEF AutoInv, AutoTypeOK
<1>2. proc'[p] = [u EXCEPT !.pc = l]
  BY <1>1 DEF Goto, AutoInv, AutoTypeOK
<1> QED BY <1>1, <1>2 DEF ProcState

LEMMA NextRecordAfter ==
    ASSUME AutoInv, NEW p \in Processes, NextRecord(p) PROVE proc'[p].pc = "scan"
  BY DEF NextRecord, Scanning, AutoInv, AutoTypeOK

\* The lease store never changes a settled command.
LEMMA OneLeaseSettles ==
    ASSUME AutoInv, NEW d \in Commands, NEW st \in CommandLeaseState, SetsLease(d, st), ~Settled(d)
    PROVE  \A c \in Commands : Settled(c) => Settled(c)'
  BY TableSet DEF AutoInv, AutoTypeOK, Settled

\* The account of a step in which the runtime does nothing.
LEMMA ActsOnceStays ==
    ASSUME AutoInv, AutoInv', NEW p, ActsOnce(p), effects' = effects, receipts' = receipts,
           \A c \in Commands : Settled(c) => Settled(c)',
           \/ /\ faults' >= faults
              /\ \A c \in Commands : Acting(p, c) => Acted(p, c)'
           \/ faults' = faults + 1
    PROVE  ActsOnce(p)'
<1> SUFFICES ASSUME NEW c \in Commands
             PROVE  effects[c] <= faults' + (IF Acted(p, c)' THEN 1 ELSE 0)
  BY DEF ActsOnce
<1>1. effects[c] \in Nat /\ faults \in Nat /\ faults' \in Nat
  BY DEF AutoInv, AutoTypeOK
<1>2. effects[c] <= faults + (IF Acted(p, c) THEN 1 ELSE 0)
  BY DEF ActsOnce
<1>3. CASE faults' = faults + 1
  BY <1>1, <1>2, <1>3
<1>4. CASE faults' >= faults /\ \A d \in Commands : Acting(p, d) => Acted(p, d)'
  <2>1. Acted(p, c) => Acted(p, c)'
    BY <1>4 DEF Acted
  <2> QED BY <1>1, <1>2, <1>4, <2>1
<1> QED BY <1>3, <1>4

\* A step of the process that neither begins nor ends an action.
LEMMA QuietProcess ==
    ASSUME AutoInv, AutoInv', NEW p, ActsOnce(p),
           UNCHANGED <<effects, receipts, faults>>,
           \A c \in Commands : Settled(c) => Settled(c)',
           proc[p].pc \notin {"receipt", "terminal"}
    PROVE  ActsOnce(p)'
<1>1. faults' >= faults
  BY DEF AutoInv, AutoTypeOK
<1>2. \A c \in Commands : ~Acting(p, c)
  BY DEF Acting
<1> QED BY <1>1, <1>2, ActsOnceStays

LEMMA TableStays ==
    ASSUME commands' = commands PROVE \A c \in Commands : Settled(c) => Settled(c)'
  BY DEF Settled

LEMMA OneProcessTick ==
    ASSUME AutoInv, AutoInv', NEW p \in Processes, OneProcessInv(p),
           \/ StartTick(p) \/ EndTick(p) \/ (\E c \in Commands : VisitRecord(p, c))
           \/ PlanCommand(p) \/ SettleDispatch(p) \/ EnqueueEnvelopes(p)
    PROVE  OneProcessInv(p)'
<1>1. proc[p] \in ProcState /\ LeaseTypeOK
  BY DEF AutoInv, AutoTypeOK
<1>2. /\ proc[p].pc \notin {"receipt", "terminal"} /\ UNCHANGED <<effects, receipts>>
      /\ faults' = faults \/ faults' = faults + 1
  BY DEF StartTick, EndTick, VisitRecord, PlanCommand, SettleDispatch, EnqueueEnvelopes, Fault
<1>3. proc'[p].pc \notin {"dispatch", "execute", "receipt", "terminal"}
  <2>1. CASE StartTick(p)
    BY <1>1, <2>1 DEF StartTick, Scanning, AutoInv, AutoTypeOK
  <2>2. CASE EndTick(p)
    BY <1>1, <2>2 DEF EndTick, AutoInv, AutoTypeOK, ProcState
  <2>3. ASSUME NEW c \in Commands, VisitRecord(p, c)
        PROVE  proc'[p].pc \notin {"dispatch", "execute", "receipt", "terminal"}
    BY <1>1, <2>3 DEF VisitRecord, AutoInv, AutoTypeOK, ProcState
  <2>4. CASE PlanCommand(p)
    <3>1. \/ Goto(p, "claim") \/ NextRecord(p)
          \/ proc' = [proc EXCEPT ![p].pc = "renew", ![p].seq = commands[proc[p].cmd].claim_seq]
      BY <2>4 DEF PlanCommand
    <3> QED BY <1>1, <3>1, GotoAfter, NextRecordAfter DEF AutoInv, AutoTypeOK, ProcState
  <2>5. CASE SettleDispatch(p) \/ EnqueueEnvelopes(p)
    BY <2>5, GotoAfter, NextRecordAfter DEF SettleDispatch, EnqueueEnvelopes
  <2> QED BY <2>1, <2>2, <2>3, <2>4, <2>5
<1>4. \A c \in Commands : Settled(c) => Settled(c)'
  <2>1. CASE StartTick(p) /\ Expired(clock) # {}
    <3>1. ExpireAndRequeueExpired(clock)
      BY <2>1 DEF StartTick
    <3> QED BY <1>1, <3>1, ExpireSets DEF Settled, IsClaimed
  <2>2. CASE ~(StartTick(p) /\ Expired(clock) # {})
    <3>1. commands' = commands
      BY <2>2 DEF StartTick, EndTick, VisitRecord, PlanCommand, SettleDispatch, EnqueueEnvelopes,
                  leaseVars
    <3> QED BY <3>1, TableStays
  <2> QED BY <2>1, <2>2
<1>5. ActsOnce(p)'
  <2>1. \A c \in Commands : ~Acting(p, c)
    BY <1>2 DEF Acting
  <2>2. faults' >= faults
    BY <1>2 DEF AutoInv, AutoTypeOK
  <2> QED BY <1>2, <1>4, <2>1, <2>2, ActsOnceStays DEF OneProcessInv
<1> QED BY <1>3, <1>5 DEF OneProcessInv, ClaimIsHeld

LEMMA OneProcessClaims ==
    ASSUME AutoInv, AutoInv', NEW p \in Processes, OneProcessInv(p),
           ClaimPlanned(p) \/ RenewPlanned(p)
    PROVE  OneProcessInv(p)'
<1> DEFINE c == proc[p].cmd
<1>1. /\ proc[p].pc \in {"claim", "renew"} /\ UNCHANGED <<effects, receipts>>
      /\ faults' = faults \/ faults' = faults + 1
  BY DEF ClaimPlanned, RenewPlanned, Fault
<1>2. c \in Commands /\ proc[p] \in ProcState /\ proc[p].now \in 0..MaxTime /\ LeaseTypeOK
  BY <1>1, InHand DEF Planned, AutoInv, AutoTypeOK
<1>3. SessionOf[c] \in Sessions /\ proc[p].now \in Nat
  BY <1>2, SessionOfAssumption
<1>4. \/ commands' = commands /\ NextRecord(p)
      \/ \E st \in CommandLeaseState, n \in Nat :
            /\ SetsLease(c, st) /\ ~Settled(c)
            /\ st.status = "claimed" /\ st.worker = Orchestrator /\ st.claim_seq = n
            /\ \/ NextRecord(p)
               \/ proc'[p].cmd = c /\ proc'[p].seq = n
  <2>1. CASE commands' = commands /\ NextRecord(p)
    BY <2>1
  <2>2. CASE ClaimPlanned(p) /\ ClaimCommand(c, SessionOf[c], Orchestrator, proc[p].now)
    <3>1. PICK st \in CommandLeaseState :
              /\ SetsLease(c, st) /\ st.status = "claimed" /\ st.worker = Orchestrator
              /\ st.claim_seq = NextClaimSeq(c)
      BY <1>2, <1>3, <2>2, ClaimSets, OrchestratorAssumption
    <3>2. PICK n \in Nat : n = st.claim_seq
      BY DEF CommandLeaseState
    <3>3. ~Settled(c)
      BY <2>2 DEF ClaimCommand, Claimable, Settled
    <3>4. CASE proc' = [proc EXCEPT ![p].pc = "dispatch", ![p].seq = NextClaimSeq(c)]
      <4>1. PICK u \in ProcState : u = proc[p]
        BY <1>2
      <4>2. proc'[p] = [u EXCEPT !.pc = "dispatch", !.seq = n]
        BY <3>1, <3>2, <3>4, <4>1 DEF AutoInv, AutoTypeOK
      <4>3. proc'[p].cmd = c /\ proc'[p].seq = n
        BY <4>1, <4>2 DEF ProcState
      <4> QED BY <3>1, <3>2, <3>3, <4>3
    <3>5. CASE NextRecord(p)
      BY <3>1, <3>2, <3>3, <3>5
    <3> QED BY <2>2, <3>4, <3>5 DEF ClaimPlanned, ClaimCommand
  <2>3. CASE RenewPlanned(p) /\ RenewLease(c, Orchestrator, proc[p].seq, proc[p].now)
    <3>1. PICK st \in CommandLeaseState :
              /\ SetsLease(c, st) /\ st.status = "claimed" /\ st.worker = Orchestrator
              /\ st.claim_seq = proc[p].seq
      BY <1>2, <1>3, <2>3, RenewSets
    <3>2. PICK n \in Nat : n = st.claim_seq
      BY DEF CommandLeaseState
    <3>3. ~Settled(c)
      BY <2>3 DEF RenewLease, CurrentClaim, IsClaimed, Settled
    <3>4. NextRecord(p) \/ Goto(p, "dispatch")
      BY <2>3 DEF RenewPlanned
    <3>5. NextRecord(p) \/ (proc'[p].cmd = c /\ proc'[p].seq = n)
      BY <3>1, <3>2, <3>4, GotoAfter
    <3> QED BY <3>1, <3>2, <3>3, <3>5
  <2> QED BY <2>1, <2>2, <2>3 DEF ClaimPlanned, RenewPlanned, leaseVars
<1>5. \A d \in Commands : Settled(d) => Settled(d)'
  BY <1>2, <1>4, TableStays, OneLeaseSettles
<1>6. ActsOnce(p)'
  <2>1. \A d \in Commands : ~Acting(p, d)
    BY <1>1 DEF Acting
  <2>2. faults' >= faults
    BY <1>1 DEF AutoInv, AutoTypeOK
  <2> QED BY <1>1, <1>5, <2>1, <2>2, ActsOnceStays DEF OneProcessInv
<1>7. ClaimIsHeld(p)'
  <2>1. CASE NextRecord(p)
    BY <2>1, NextRecordAfter DEF ClaimIsHeld
  <2>2. CASE ~NextRecord(p)
    <3>1. PICK st \in CommandLeaseState :
              /\ SetsLease(c, st) /\ st.status = "claimed" /\ st.worker = Orchestrator
              /\ proc'[p].cmd = c /\ proc'[p].seq = st.claim_seq
      BY <1>4, <2>2
    <3>2. commands'[c] = st /\ st # NoCommand
      BY <1>2, <3>1, TableSet, StateIsNotNone
    <3> QED BY <3>1, <3>2 DEF ClaimIsHeld, CurrentClaim, IsClaimed
  <2> QED BY <2>1, <2>2
<1> QED BY <1>6, <1>7 DEF OneProcessInv
LEMMA OneProcessDispatches ==
    ASSUME AutoInv, AutoInv', NEW p \in Processes, OneProcessInv(p), MarkDispatched(p)
    PROVE  OneProcessInv(p)'
<1>1. /\ proc[p].pc = "dispatch" /\ Goto(p, "execute") /\ UNCHANGED <<effects, receipts, faults>>
      /\ commands' = commands
  BY DEF MarkDispatched, leaseVars
<1>2. ActsOnce(p)'
  BY <1>1, TableStays, QuietProcess DEF OneProcessInv
<1>3. /\ CurrentClaim(proc[p].cmd, Orchestrator, proc[p].seq)
      /\ proc'[p].cmd = proc[p].cmd /\ proc'[p].seq = proc[p].seq
  BY <1>1, GotoAfter DEF OneProcessInv, ClaimIsHeld
<1> QED BY <1>1, <1>2, <1>3 DEF OneProcessInv, ClaimIsHeld, CurrentClaim, IsClaimed

\* The runtime acts where nothing accounted for an action before.
LEMMA OneProcessExecutes ==
    ASSUME AutoInv, AutoInv', NEW p \in Processes, OneProcessInv(p), Execute(p)
    PROVE  OneProcessInv(p)'
<1> DEFINE c == proc[p].cmd
<1>1. /\ proc[p].pc = "execute" /\ c \in Commands
      /\ UNCHANGED <<leaseVars, faults, receipts>>
      /\ \A d \in Commands : d # c => effects'[d] = effects[d]
      /\ effects'[c] \in {effects[c], effects[c] + 1}
      /\ receipts[c] # "none" => effects' = effects
      /\ proc'[p].pc \in {"receipt", "terminal"} /\ proc'[p].cmd = c
      /\ proc'[p].seq = proc[p].seq
  BY ExecuteSteps
<1>2. CurrentClaim(c, Orchestrator, proc[p].seq)
  BY <1>1 DEF OneProcessInv, ClaimIsHeld
<1>3. ClaimIsHeld(p)'
  BY <1>1, <1>2 DEF ClaimIsHeld, CurrentClaim, IsClaimed, leaseVars
<1>4. ASSUME NEW d \in Commands
      PROVE  effects'[d] <= faults' + (IF Acted(p, d)' THEN 1 ELSE 0)
  <2>1. /\ effects[d] \in Nat /\ faults \in Nat /\ faults' = faults
        /\ effects[d] <= faults + (IF Acted(p, d) THEN 1 ELSE 0)
    BY <1>1 DEF AutoInv, AutoTypeOK, OneProcessInv, ActsOnce
  <2>2. CASE d # c
    <3>1. effects'[d] = effects[d]
      BY <1>1, <2>2
    <3>2. Acted(p, d) => Acted(p, d)'
      BY <1>1, <2>2 DEF Acted, Acting, Settled, leaseVars
    <3> QED BY <2>1, <3>1, <3>2
  <2>3. CASE d = c
    <3>1. Acted(p, d)'
      BY <1>1, <2>3 DEF Acted, Acting
    <3>2. CASE effects'[d] = effects[d]
      BY <2>1, <3>1, <3>2
    <3>3. CASE effects'[d] # effects[d]
      <4>1. receipts[d] = "none" /\ effects'[d] = effects[d] + 1
        BY <1>1, <2>3, <3>3
      <4>2. ~Acted(p, d)
        BY <1>1, <1>2, <2>3, <4>1 DEF Acted, Acting, Settled, CurrentClaim, IsClaimed
      <4> QED BY <2>1, <3>1, <4>1, <4>2
    <3> QED BY <3>2, <3>3
  <2> QED BY <2>2, <2>3
<1> QED BY <1>3, <1>4 DEF OneProcessInv, ActsOnce

LEMMA OneProcessStores ==
    ASSUME AutoInv, AutoInv', NEW p \in Processes, OneProcessInv(p), StoreReceipt(p)
    PROVE  OneProcessInv(p)'
<1> DEFINE c == proc[p].cmd
<1>1. /\ proc[p].pc = "receipt" /\ Goto(p, "terminal") /\ UNCHANGED <<leaseVars, effects, faults>>
      /\ receipts' = [receipts EXCEPT ![c] = proc[p].result]
  BY DEF StoreReceipt
<1>2. receipts'[c] # "none"
  BY StoreReceiptKeeps
<1>3. /\ proc'[p].pc = "terminal" /\ proc'[p].cmd = c /\ proc'[p].seq = proc[p].seq
      /\ CurrentClaim(c, Orchestrator, proc[p].seq)
  BY <1>1, GotoAfter DEF OneProcessInv, ClaimIsHeld
<1>4. ClaimIsHeld(p)'
  BY <1>1, <1>3 DEF ClaimIsHeld, CurrentClaim, IsClaimed, leaseVars
<1>5. ASSUME NEW d \in Commands
      PROVE  effects'[d] <= faults' + (IF Acted(p, d)' THEN 1 ELSE 0)
  <2>1. /\ effects[d] \in Nat /\ faults \in Nat /\ faults' = faults /\ effects'[d] = effects[d]
        /\ effects[d] <= faults + (IF Acted(p, d) THEN 1 ELSE 0)
    BY <1>1 DEF AutoInv, AutoTypeOK, OneProcessInv, ActsOnce
  <2>2. Acted(p, d) => Acted(p, d)'
    <3>1. CASE d = c
      BY <1>2, <3>1 DEF Acted
    <3>2. CASE d # c
      <4>1. receipts'[d] = receipts[d]
        BY <1>1, <3>2 DEF AutoInv, AutoTypeOK
      <4> QED BY <1>1, <1>3, <3>2, <4>1 DEF Acted, Acting, Settled, leaseVars
    <3> QED BY <3>1, <3>2
  <2> QED BY <2>1, <2>2
<1> QED BY <1>4, <1>5 DEF OneProcessInv, ActsOnce

\* The claim is still held, so the outcome is recorded.
LEMMA OneProcessRecords ==
    ASSUME AutoInv, AutoInv', NEW p \in Processes, OneProcessInv(p), RecordResult(p)
    PROVE  OneProcessInv(p)'
<1>0. PICK c : c = proc[p].cmd
  OBVIOUS
<1>1. proc[p].pc = "terminal" /\ CurrentClaim(c, Orchestrator, proc[p].seq)
  BY <1>0 DEF RecordResult, OneProcessInv, ClaimIsHeld
<1>2. /\ RecordTerminalResult(c, Orchestrator, proc[p].seq, ResultType(proc[p].result), proc[p].now)
      /\ UNCHANGED <<effects, receipts>>
      /\ \/ UNCHANGED faults /\ Goto(p, "settle")
         \/ Fault /\ NextRecord(p)
  BY <1>0, <1>1 DEF RecordResult
<1>3. c \in Commands /\ LeaseTypeOK
  BY <1>0, <1>1, InHand DEF Planned, AutoInv, AutoTypeOK
<1>4. PICK st \in CommandLeaseState : SetsLease(c, st) /\ st.status \in {"executed", "failed"}
  BY <1>2, <1>3, ResultSets
<1>5. ~Settled(c)
  BY <1>1 DEF CurrentClaim, IsClaimed, Settled
<1>6. \A d \in Commands : Settled(d) => Settled(d)'
  BY <1>3, <1>4, <1>5, OneLeaseSettles
<1>7. Settled(c)'
  <2>1. commands'[c] = st /\ st # NoCommand
    BY <1>3, <1>4, TableSet, StateIsNotNone
  <2> QED BY <1>4, <2>1 DEF Settled
<1>8. proc'[p].pc \in {"settle", "scan"}
  BY <1>2, GotoAfter, NextRecordAfter
<1>9. faults' >= faults
  BY <1>2 DEF AutoInv, AutoTypeOK, Fault
<1>10. \A d \in Commands : Acting(p, d) => Acted(p, d)'
  BY <1>0, <1>7 DEF Acting, Acted
<1>11. ActsOnce(p)'
  BY <1>2, <1>6, <1>9, <1>10, ActsOnceStays DEF OneProcessInv
<1> QED BY <1>8, <1>11 DEF OneProcessInv, ClaimIsHeld

LEMMA OneProcessFails ==
    ASSUME AutoInv, AutoInv', NEW p \in Processes, OneProcessInv(p), Crash(p) \/ AbandonRecord(p)
    PROVE  OneProcessInv(p)'
<1>1. /\ faults' = faults + 1 /\ UNCHANGED <<effects, receipts>> /\ commands' = commands
      /\ proc' = [proc EXCEPT ![p] = IdleProc] \/ NextRecord(p)
  BY DEF Crash, AbandonRecord, Fault, leaseVars
<1>2. proc'[p].pc \in {"idle", "scan"}
  BY <1>1, NextRecordAfter, IdleIsAState DEF AutoInv, AutoTypeOK
<1>3. ActsOnce(p)'
  BY <1>1, TableStays, ActsOnceStays DEF OneProcessInv
<1> QED BY <1>2, <1>3 DEF OneProcessInv, ClaimIsHeld

LEMMA OneProcessIdles ==
    ASSUME AutoInv, AutoInv', NEW p \in Processes, OneProcessInv(p),
           (\E c \in Commands : RecordMovesOn(c)) \/ ClockTick \/ UNCHANGED vars
    PROVE  OneProcessInv(p)'
<1>1. UNCHANGED <<leaseVars, proc, effects, receipts, faults>>
  BY DEF RecordMovesOn, ClockTick, vars, autoVars
<1>2. ClaimIsHeld(p)'
  BY <1>1 DEF OneProcessInv, ClaimIsHeld, CurrentClaim, IsClaimed, leaseVars
<1>3. ActsOnce(p)'
  BY <1>1 DEF OneProcessInv, ActsOnce, Acted, Acting, Settled, leaseVars
<1> QED BY <1>2, <1>3 DEF OneProcessInv

LEMMA OneProcessStep ==
    ASSUME AutoInv, AutoInv', NEW p, Processes = {p}, OneProcessInv(p), [AutoNext]_vars
    PROVE  OneProcessInv(p)'
<1>1. p \in Processes
  OBVIOUS
<1>2. ASSUME TickStep(p) PROVE OneProcessInv(p)'
  BY <1>1, <1>2, OneProcessTick, OneProcessClaims, OneProcessDispatches, OneProcessExecutes,
     OneProcessStores, OneProcessRecords DEF TickStep
<1>3. \/ TickStep(p) \/ Crash(p) \/ AbandonRecord(p)
      \/ (\E c \in Commands : RecordMovesOn(c)) \/ ClockTick \/ UNCHANGED vars
  BY DEF AutoNext
<1> QED BY <1>1, <1>2, <1>3, OneProcessFails, OneProcessIdles

LEMMA OneProcessInit ==
    ASSUME AutoInit, NEW p \in Processes PROVE OneProcessInv(p)
<1>1. ClaimIsHeld(p)
  BY IdleIsAState DEF AutoInit, ClaimIsHeld
<1>2. ActsOnce(p)
  BY DEF AutoInit, ActsOnce
<1> QED BY <1>1, <1>2 DEF OneProcessInv

\* With one process, the runtime carries out a command's action again only if a
\* fault came between the action and its receipt or its outcome: the receipt store
\* answers for the action that was stored, the outcome keeps the command from
\* being claimed again, and no lease expires while the process is at work.
THEOREM RepeatsNeedAFault ==
    ASSUME NEW CONSTANT p, Processes = {p}
    PROVE  AutoSpec => []RepeatedOnlyAfterFault
<1>1. AutoInit => OneProcessInv(p)
  BY OneProcessInit
<1>2. AutoInv /\ AutoInv' /\ OneProcessInv(p) /\ [AutoNext]_vars => OneProcessInv(p)'
  BY OneProcessStep
<1>3. AutoInv /\ OneProcessInv(p) => RepeatedOnlyAfterFault
  <2> SUFFICES ASSUME AutoInv, OneProcessInv(p), NEW c \in Commands
               PROVE  effects[c] <= 1 + faults
    BY DEF RepeatedOnlyAfterFault
  <2>1. effects[c] \in Nat /\ faults \in Nat
    BY DEF AutoInv, AutoTypeOK
  <2>2. effects[c] <= faults + (IF Acted(p, c) THEN 1 ELSE 0)
    BY DEF OneProcessInv, ActsOnce
  <2> QED BY <2>1, <2>2
<1> QED BY <1>1, <1>2, <1>3, AutoInvariance, PTL DEF AutoSpec

=============================================================================
