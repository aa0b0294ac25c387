--------------------------- MODULE SessionActions ---------------------------
(***************************************************************************)
(* The actions of the session spine: what the resident and the operators   *)
(* ask the runtime to do with a session, with the receipts that make a key *)
(* idempotent, the continuation identity that keeps two continuations of a *)
(* session apart, and the gate verdicts and branch switch tokens that are  *)
(* put on record.                                                          *)
(*                                                                         *)
(* Receipts are looked up, and the action is executed, under one lock of   *)
(* the process, so there is one call at a time; a request that the control *)
(* agent has begun to serve goes on when the call times out or the         *)
(* watchdog is killed.  The records go to the Session Service (SessionLog) *)
(* with record_event_once, which returns a known record and raises when    *)
(* its content differs.                                                    *)
(***************************************************************************)
EXTENDS SessionLog, FiniteSets, Functions

CONSTANTS
    Keys,         \* idempotency keys
    Kinds,        \* the kinds of action the keys are used for
    Threads,      \* native threads the session may be bound to
    MaxSeq,       \* bound on the session's snapshots
    MaxTroubles   \* bound on crashes, time-outs and raised calls

Continuing == {"continue", "resume", "force_handoff", "retry"}

ASSUME SessionActionsConstants ==
    /\ Kinds \subseteq Continuing \cup {"pause", "guidance", "switch", "summarize"}
    /\ MaxSeq \in Nat \ {0} /\ MaxTroubles \in Nat

VARIABLES
    snap,       \* the persisted session record
    asked,      \* key |-> its action: the kind, and the governance of a decision
    receipt,    \* key |-> the stored result
    call,       \* the action being executed
    aged,       \* identities whose last issue is older than the time to live
    troubles,   \* key |-> crashes, time-outs and exceptions of its calls
    orphans,    \* key |-> requests still served though their caller is gone
    got         \* key |-> how many times the runtime did what the key asks

actionVars == <<snap, asked, receipt, call, aged, troubles, orphans, got>>
vars       == <<logVars, actionVars>>

-----------------------------------------------------------------------------
(***************************************************************************)
(* The record that refresh_all keeps: a new sequence number for every      *)
(* change, a new fact version only when the facts change.  bar is "held"   *)
(* while an approval is pending or the project's state bars continuations, *)
(* "done" when the task is complete; evented: the project has session      *)
(* events, so that a read projects the task from them.                     *)
(***************************************************************************)
RefreshRecord(th, bar, evented) ==
    LET next == [snap EXCEPT !.thread = th, !.bar = bar, !.evented = evented]
    IN  /\ snap.seq < MaxSeq /\ next # snap
        /\ snap.evented => evented
        /\ snap' = [next EXCEPT !.seq = @ + 1, !.ver = IF bar # snap.bar THEN snap.seq + 1 ELSE @]
        /\ UNCHANGED <<asked, receipt, call, aged, troubles, orphans, got, logVars>>

\* What an action reads while there is a record: the task's own status is
\* not part of it.
ReadStatus == IF snap.evented THEN "running" ELSE "created"

\* validate_action_transition, on the statuses that are read
Allowed(kind, status) ==
    CASE kind \in {"force_handoff", "retry"} -> status = "running"
      [] kind = "resume"                     -> FALSE
      [] OTHER                               -> TRUE

\* Why an action is not dispatched, in the order of the checks.
Suppression(kind) ==
    IF kind \in Continuing /\ snap.bar = "held" THEN "held"
    ELSE IF kind = "continue" /\ snap.bar = "done" THEN "task_terminal"
    ELSE IF ~Allowed(kind, ReadStatus) THEN "not_allowed"
    ELSE "none"

ResultOf(reason) ==
    CASE reason = "held"        -> "blocked"
      [] reason = "not_allowed" -> "rejected"
      [] OTHER                  -> "noop"

-----------------------------------------------------------------------------
\* The identity is that of the session's thread and the decision class.
ClassOf(kind)  == IF kind = "continue" THEN "continue_current_branch" ELSE "recover_current_branch"
Identity(c)    == <<c.gov.thread, ClassOf(c.kind)>>
Governance     == [thread |-> snap.thread, ver |-> snap.ver, seq |-> snap.seq]

\* A gate verdict of a direct action is known by its snapshot version and
\* not by the action's key; the sequence number and the identity are content.
GateEvent(c, status, why) ==
    [key |-> <<"gate", status, c.kind, c.gov.ver, why, c.auto>>,
     body |-> <<c.gov.seq, c.gov.thread>>, at |-> 0]

IdentityEvent(c, state, why) ==
    [key |-> <<"identity", state, Identity(c), c.gov.ver, why, c.key>>,
     body |-> <<c.gov.seq, c.gov.thread>>, at |-> 0]

TokenEvent(c, state, why) ==
    [key |-> <<"token", state, c.key, c.gov.ver, why, c.key>>,
     body |-> <<c.gov.seq, c.gov.thread>>, at |-> 0]

\* What is left on record of a call's identity, or of its branch switch token.
SettleEvent(c, state, why) ==
    IF c.kind = "switch" THEN TokenEvent(c, state, why) ELSE IdentityEvent(c, state, why)

Stream(c)   == <<"identity", Identity(c)>>
Streamed(c) == IF c.kind = "switch" THEN <<"token", c.key>> ELSE Stream(c)
StateOf(r)  == r.key[2]
InFlight(c) == HasLast(Stream(c)) /\ StateOf(Last(Stream(c))) = "issued"

\* Mutant: every issue is taken to be stale.
IsAlwaysStale(c) == TRUE

\* _issued_continuation_identity_is_stale
IsStale(c) ==
    \/ Last(Stream(c)).key[4] # c.gov.ver
    \/ Last(Stream(c)).body # <<c.gov.seq, c.gov.thread>>
    \/ Identity(c) \in aged

-----------------------------------------------------------------------------
NoCall    == [key |-> "none", kind |-> "none", pc |-> "idle", auto |-> FALSE, why |-> "none",
              gov |-> [thread |-> "none", ver |-> 0, seq |-> 0]]
NotAsked  == [kind |-> "none", auto |-> FALSE, gov |-> NoCall.gov]

Trouble(k) == troubles' = [troubles EXCEPT ![k] = @ + 1]
CanFail    == FoldFunction(+, 0, troubles) < MaxTroubles

\* An operator names an action; the resident's decision carries the
\* governance of the snapshot it was made for, and issues the token of a
\* branch switch.
Ask(k, kind, auto) ==
    /\ asked[k] = NotAsked /\ snap.seq > 0
    /\ auto => kind \in {"continue", "guidance", "switch"}
    /\ kind = "switch" => auto
    /\ asked' = [asked EXCEPT ![k] = [kind |-> kind, auto |-> auto, gov |-> Governance]]
    /\ IF kind = "switch"
       THEN Write(TokenEvent([NoCall EXCEPT !.key = k, !.gov = Governance], "issued", "none"), <<"token", k>>)
       ELSE UNCHANGED logVars
    /\ UNCHANGED <<snap, receipt, call, aged, troubles, orphans, got>>

\* The call that a key leads to: the governance of the decision, or of now.
CallOf(k) == [NoCall EXCEPT !.key = k, !.kind = asked[k].kind, !.auto = asked[k].auto, !.pc = "send",
                            !.gov = IF asked[k].auto THEN asked[k].gov ELSE Governance]

\* Mutant: a stored receipt is not looked up.
MayStartAgain(k) == call = NoCall /\ asked[k] # NotAsked

MayStart(k) == call = NoCall /\ asked[k] # NotAsked /\ receipt[k] = "none"

Stores(k, result) == receipt' = [receipt EXCEPT ![k] = result]

\* The call raises: nothing is stored for the key, and the lock is free.
Raises(k) == CanFail /\ Trouble(k) /\ call' = NoCall /\ UNCHANGED receipt

SuppressedBy(c) ==
    IF Suppression(c.kind) # "none" THEN Suppression(c.kind)
    ELSE IF c.kind \in Continuing /\ InFlight(c) /\ ~IsStale(c) THEN "in_flight"
    ELSE "none"

\* The verdict is put on record, for the continuing kinds, and the result stored.
Suppress(k) ==
    LET c    == CallOf(k)
        why  == SuppressedBy(c)
        gate == GateEvent(c, "suppressed", why)
    IN  /\ MayStart(k) /\ why # "none"
        /\ IF c.kind \in Continuing /\ Conflicting(gate, TRUE)
           THEN Raises(k) /\ UNCHANGED logVars
           ELSE /\ Stores(k, ResultOf(why)) /\ UNCHANGED <<call, troubles>>
                /\ IF c.kind \in Continuing THEN Write(gate, <<"gate">>) ELSE UNCHANGED logVars
        /\ UNCHANGED <<snap, asked, aged, orphans, got>>

\* The arguments are not what the action needs: an error result, no record.
RefuseArguments(k) ==
    /\ MayStart(k) /\ asked[k].kind \in {"continue", "guidance"} /\ ~asked[k].auto
    /\ Suppression(asked[k].kind) = "none"
    /\ Stores(k, "error")
    /\ UNCHANGED <<snap, asked, call, aged, troubles, orphans, got, logVars>>

\* Nothing is asked of the runtime.
Summarize(k) ==
    /\ MayStart(k) /\ asked[k].kind = "summarize"
    /\ Stores(k, "completed")
    /\ UNCHANGED <<snap, asked, call, aged, troubles, orphans, got, logVars>>

\* Nothing to record before a pause or a guidance.
StartPlain(k) ==
    /\ MayStart(k) /\ asked[k].kind \notin Continuing \cup {"summarize"}
    /\ SuppressedBy(CallOf(k)) = "none"
    /\ call' = CallOf(k)
    /\ UNCHANGED <<snap, asked, receipt, aged, troubles, orphans, got, logVars>>

\* The preflight: a stale issue is invalidated, then the identity is issued.
InvalidateStale(k) ==
    LET c == CallOf(k)
        closed == IdentityEvent(c, "invalidated", "stale_entry")
    IN  /\ MayStart(k) /\ c.kind \in Continuing /\ SuppressedBy(c) = "none" /\ InFlight(c)
        /\ IF Conflicting(closed, TRUE)
           THEN Raises(k) /\ UNCHANGED logVars
           ELSE /\ Write(closed, Stream(c))
                /\ call' = [c EXCEPT !.pc = "issue"]
                /\ UNCHANGED <<receipt, troubles>>
        /\ UNCHANGED <<snap, asked, aged, orphans, got>>

Issue(c) ==
    LET issued == IdentityEvent(c, "issued", "none")
    IN  /\ IF Conflicting(issued, TRUE)
           THEN Raises(c.key) /\ UNCHANGED <<aged, logVars>>
           ELSE /\ Write(issued, Stream(c))
                /\ aged' = IF Known(issued.key) THEN aged ELSE aged \ {Identity(c)}
                /\ call' = [c EXCEPT !.pc = "send"]
                /\ UNCHANGED <<receipt, troubles>>
        /\ UNCHANGED <<snap, asked, orphans, got>>

IssueFirst(k) ==
    /\ MayStart(k) /\ asked[k].kind \in Continuing
    /\ SuppressedBy(CallOf(k)) = "none" /\ ~InFlight(CallOf(k))
    /\ Issue(CallOf(k))

\* What a continuing kind does up to its request, the preflight included.
Prepare(k) == Suppress(k) \/ InvalidateStale(k) \/ IssueFirst(k)

Continue(k)            == asked[k].kind = "continue" /\ Prepare(k)
ResumeSession(k)       == asked[k].kind = "resume" /\ Prepare(k)
ForceHandoffOrRetry(k) == asked[k].kind \in {"force_handoff", "retry"} /\ Prepare(k)

\* A guidance, also the one that makes a branch switch; a pause, which is
\* possible in every status that is read.
OperatorGuidance(k) == asked[k].kind \in {"guidance", "switch"} /\ StartPlain(k)
Pause(k)            == asked[k].kind = "pause" /\ StartPlain(k)

IssueAgain == call.pc = "issue" /\ Issue(call)

-----------------------------------------------------------------------------
(***************************************************************************)
(* The request to the control agent.  http_timeout_s is shorter than the   *)
(* bridge's own time-out: the handler goes on without its caller, and so   *)
(* it does when the watchdog is killed.                                    *)
(***************************************************************************)
Send ==
    /\ call.pc = "send"
    /\ call' = [call EXCEPT !.pc = "await"]
    /\ UNCHANGED <<snap, asked, receipt, aged, troubles, orphans, got, logVars>>

RuntimeDoes ==
    /\ call.pc = "await"
    /\ got' = [got EXCEPT ![call.key] = @ + 1]
    /\ call' = [call EXCEPT !.pc = "done"]
    /\ UNCHANGED <<snap, asked, receipt, aged, troubles, orphans, logVars>>

RuntimeAnswers ==
    /\ call.pc = "done"
    /\ call' = [call EXCEPT !.pc = "ok"]
    /\ UNCHANGED <<snap, asked, receipt, aged, troubles, orphans, got, logVars>>

\* The agent refuses, or its bridge fails, before or after the effect.
RuntimeFails(code) ==
    /\ call.pc \in {"await", "done"} /\ CanFail
    /\ Trouble(call.key)
    /\ call' = [call EXCEPT !.pc = "failed", !.why = code]
    /\ UNCHANGED <<snap, asked, receipt, aged, orphans, got, logVars>>

Abandoned(k) == IF call.pc = "await" THEN [orphans EXCEPT ![k] = @ + 1] ELSE orphans

TimeOut ==
    /\ call.pc \in {"await", "done"} /\ CanFail
    /\ Trouble(call.key)
    /\ orphans' = Abandoned(call.key)
    /\ call' = [call EXCEPT !.pc = "failed", !.why = "control_link_error"]
    /\ UNCHANGED <<snap, asked, receipt, aged, got, logVars>>

OrphanDone(k) ==
    /\ orphans[k] > 0
    /\ orphans' = [orphans EXCEPT ![k] = @ - 1]
    /\ got' = [got EXCEPT ![k] = @ + 1]
    /\ UNCHANGED <<snap, asked, receipt, call, aged, troubles, logVars>>

OrphanFails(k) ==
    /\ orphans[k] > 0
    /\ orphans' = [orphans EXCEPT ![k] = @ - 1]
    /\ UNCHANGED <<snap, asked, receipt, call, aged, troubles, got, logVars>>

-----------------------------------------------------------------------------

\* The identity or the token is invalidated and the error is raised.
Fails ==
    LET r == SettleEvent(call, "invalidated",
                         IF call.kind = "switch" THEN "control_link_error" ELSE call.why)
    IN  /\ call.pc = "failed"
        /\ IF call.kind \notin Continuing \cup {"switch"} \/ Conflicting(r, TRUE)
           THEN UNCHANGED logVars ELSE Write(r, Streamed(call))
        /\ call' = NoCall
        /\ UNCHANGED <<snap, asked, receipt, aged, troubles, orphans, got>>

\* The verdict of a direct action, recorded once the runtime has accepted;
\* that of a decision is on record already.
Gate ==
    LET gate == GateEvent(call, "eligible", "none")
    IN  /\ call.pc = "ok" /\ call.kind \in Continuing /\ ~call.auto
        /\ IF Conflicting(gate, TRUE)
           THEN Raises(call.key) /\ UNCHANGED logVars
           ELSE /\ Write(gate, <<"gate">>)
                /\ call' = [call EXCEPT !.pc = "consume"]
                /\ UNCHANGED <<troubles, receipt>>
        /\ UNCHANGED <<snap, asked, aged, orphans, got>>

\* Mutant: the record of the use is left out.
ConsumeNothing ==
    /\ call.pc \in {"ok", "consume"}
    /\ call' = [call EXCEPT !.pc = "store"]
    /\ UNCHANGED <<snap, asked, receipt, aged, troubles, orphans, got, logVars>>

\* consumed_at is content, so a second use by the same key conflicts.
Consume ==
    LET used == SettleEvent(call, "consumed", "none")
    IN  /\ \/ call.pc = "consume"
           \/ call.pc = "ok" /\ (call.kind \notin Continuing \/ call.auto)
        /\ IF call.kind \notin Continuing \cup {"switch"}
           THEN call' = [call EXCEPT !.pc = "store"] /\ UNCHANGED <<logVars, troubles, receipt>>
           ELSE IF Known(used.key)
           THEN Raises(call.key) /\ UNCHANGED logVars
           ELSE /\ Write(used, Streamed(call))
                /\ call' = [call EXCEPT !.pc = "store"]
                /\ UNCHANGED <<troubles, receipt>>
        /\ UNCHANGED <<snap, asked, aged, orphans, got>>

Store ==
    /\ call.pc = "store"
    /\ Stores(call.key, "completed")
    /\ call' = NoCall
    /\ UNCHANGED <<snap, asked, aged, troubles, orphans, got, logVars>>

\* The watchdog is killed; what it wrote is in the files.
Crash ==
    /\ call # NoCall /\ CanFail
    /\ Trouble(call.key)
    /\ orphans' = Abandoned(call.key)
    /\ call' = NoCall
    /\ UNCHANGED <<snap, asked, receipt, aged, got, logVars>>

\* The time to live has passed since the last issue.
Age(id) ==
    /\ id \notin aged /\ call = NoCall
    /\ HasLast(<<"identity", id>>) /\ StateOf(Last(<<"identity", id>>)) = "issued"
    /\ aged' = aged \cup {id}
    /\ UNCHANGED <<snap, asked, receipt, call, troubles, orphans, got, logVars>>

-----------------------------------------------------------------------------
Bars       == {"none", "held", "done"}
Identities == Threads \X {"continue_current_branch", "recover_current_branch"}

Init ==
    /\ LogInit
    /\ snap = [ver |-> 0, seq |-> 0, thread |-> "none", bar |-> "none", evented |-> FALSE]
    /\ asked = [k \in Keys |-> NotAsked]
    /\ receipt = [k \in Keys |-> "none"]
    /\ troubles = [k \in Keys |-> 0]
    /\ orphans = [k \in Keys |-> 0]
    /\ got = [k \in Keys |-> 0]
    /\ call = NoCall /\ aged = {}

Next ==
    \/ \E th \in Threads, bar \in Bars, evented \in BOOLEAN : RefreshRecord(th, bar, evented)
    \/ \E k \in Keys, kind \in Kinds, auto \in BOOLEAN : Ask(k, kind, auto)
    \/ \E k \in Keys : \/ Continue(k) \/ ResumeSession(k) \/ ForceHandoffOrRetry(k)
                       \/ OperatorGuidance(k) \/ Pause(k) \/ Summarize(k)
                       \/ RefuseArguments(k)
                       \/ OrphanDone(k) \/ OrphanFails(k)
    \/ IssueAgain \/ Send \/ RuntimeDoes \/ RuntimeAnswers \/ TimeOut
    \/ \E code \in {"control_link_error", "bridge_error"} : RuntimeFails(code)
    \/ Fails \/ Gate \/ Consume \/ Store \/ Crash
    \/ \E id \in Identities : Age(id)

Spec == Init /\ [][Next]_vars

-----------------------------------------------------------------------------
(***************************************************************************)
(* Properties                                                              *)
(***************************************************************************)

\* Every variable of the actions has its type.
Snapshots   == [thread : Threads \cup {"none"}, ver : 0..MaxSeq, seq : 0..MaxSeq]
ActionState == [key : Keys \cup {"none"}, kind : Kinds \cup {"none"}, auto : BOOLEAN,
                gov : Snapshots,
                pc : {"idle", "issue", "send", "await", "done", "failed", "ok", "consume", "store"},
                why : {"none", "control_link_error", "bridge_error"}]

ActionsTypeOK ==
    /\ snap \in [ver : 0..MaxSeq, seq : 0..MaxSeq, thread : Threads \cup {"none"},
                 bar : Bars, evented : BOOLEAN]
    /\ asked \in [Keys -> [kind : Kinds \cup {"none"}, auto : BOOLEAN, gov : Snapshots]]
    /\ receipt \in [Keys -> {"none", "completed", "noop", "blocked", "rejected", "error"}]
    /\ call \in ActionState
    /\ aged \subseteq Identities
    /\ troubles \in [Keys -> Nat] /\ orphans \in [Keys -> Nat] /\ got \in [Keys -> Nat]

\* The runtime does what a key asks at most once more than the key's calls
\* met with trouble: receipts, the lock and the identity together keep an
\* undisturbed key from being carried out twice, whatever else is asked for
\* and however the session moves meanwhile (execute_watchdog_action,
\* create_or_get, _preflight_continuation_identity_for_action).
SentTwiceOnlyAfterTrouble ==
    \A k \in Keys : got[k] + orphans[k] <= 1 + troubles[k]

\* While nothing is being executed, an identity whose last record is its
\* issue is that of a call that met with trouble: every other way out of a
\* continuation settles the identity it issued.
IssuedIsSettled ==
    call = NoCall =>
        \A id \in Identities :
            LET s == <<"identity", id>>
            IN  (HasLast(s) /\ StateOf(Last(s)) = "issued") => troubles[Last(s).key[6]] > 0

\* A continuation that is in doubt, issued and neither consumed nor
\* invalidated, holds back every other key of the same snapshot until it is
\* too old: the identity passes from one key's issue to another's only by
\* age or because the session has moved on.
InDoubtHoldsBack ==
    [][\A id \in Identities :
          LET s == <<"identity", id>>
          IN  (/\ HasLast(s) /\ StateOf(Last(s)) = "issued"
               /\ call = NoCall /\ id \notin aged
               /\ call' # NoCall /\ call'.kind \in Continuing /\ Identity(call') = id)
              => \/ call'.gov.ver # Last(s).key[4]
                 \/ call'.gov.seq # Last(s).body[1]
      ]_vars

=============================================================================
