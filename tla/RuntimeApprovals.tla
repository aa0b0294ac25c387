-------------------------- MODULE RuntimeApprovals --------------------------
(***************************************************************************)
(* The approvals of the control agent: a request of codex becomes a row of *)
(* the approvals store; it is answered at once when the risk policy allows *)
(* it, and otherwise by a decision that comes in over HTTP.  An answer is  *)
(* written to codex over stdio and awaited, so the handlers of several     *)
(* decisions, and of the request itself, interleave there and only there.  *)
(* The map of unanswered requests lives in memory; the rows and the flag   *)
(* pending_approval of the task are files.                                 *)
(***************************************************************************)
EXTENDS Naturals

CONSTANTS
    Requests,      \* the approval requests
    Callers,       \* who may call the decision endpoint at the same time
    Awaited,       \* the callers whose result matters to the caller
    MaxRestarts,   \* bound: restarts of the control agent
    MaxDecisions   \* bound: decisions that come in over HTTP

VARIABLES
    rows,        \* the approvals store, one row per request
    unanswered,  \* _pending_approvals: requests the bridge remembers
    answering,   \* requests whose automatic answer is being written
    sent,        \* the answers codex was sent, per request
    flag,        \* pending_approval of the task
    calls,       \* the decision handlers
    orphaned,    \* requests whose automatic answer a restart cut off
    restarts, decisions

runtimeVars == <<rows, unanswered, answering, sent, flag, calls, orphaned,
                 restarts, decisions>>

Answers == {"approve", "reject"}
NoRow == [status |-> "none", by |-> "nobody", callback |-> "none", bridged |-> FALSE]
NoCall == [pc |-> "idle", ok |-> FALSE, auto |-> FALSE]

\* A handler has ended with a result, which somebody waits for or nobody does.
Ended(c, call) == IF c \in Awaited THEN [call EXCEPT !.pc = "done"] ELSE NoCall

RuntimeInit ==
    /\ rows = [r \in Requests |-> NoRow]
    /\ unanswered = {} /\ answering = {} /\ orphaned = {}
    /\ sent = [r \in Requests |-> {}]
    /\ flag = FALSE
    /\ calls = [c \in Callers |-> NoCall]
    /\ restarts = 0 /\ decisions = 0

PolicyAuto(r) == rows[r].status = "approved" /\ rows[r].by = "policy-auto"
Deferred(r) == PolicyAuto(r) /\ rows[r].callback = "deferred"
Actionable(r) == rows[r].status = "pending" \/ Deferred(r)

\* A request of codex asks for permission, and the classifier wants a person.
IngestPending(r) ==
    /\ rows[r].status = "none"
    /\ rows' = [rows EXCEPT ![r] = [NoRow EXCEPT !.status = "pending", !.bridged = TRUE]]
    /\ unanswered' = unanswered \cup {r}
    /\ flag' = TRUE
    /\ UNCHANGED <<answering, sent, calls, orphaned, restarts, decisions>>

\* ... or lets it pass: the row is approved before codex is told.
IngestAuto(r) ==
    /\ rows[r].status = "none"
    /\ rows' = [rows EXCEPT ![r] = [NoRow EXCEPT !.status = "approved",
                                      !.by = "policy-auto", !.bridged = TRUE]]
    /\ unanswered' = unanswered \cup {r}
    /\ answering' = answering \cup {r}
    /\ UNCHANGED <<sent, flag, calls, orphaned, restarts, decisions>>

AutoAnswered(r) ==
    /\ r \in answering
    /\ answering' = answering \ {r}
    /\ sent' = [sent EXCEPT ![r] = @ \cup {"approve"}]
    /\ rows' = [rows EXCEPT ![r].callback = "delivered"]
    /\ unanswered' = unanswered \ {r}
    /\ UNCHANGED <<flag, calls, orphaned, restarts, decisions>>

\* Mutant: the failed automatic answer is not marked as deferred.
AutoAnswerForgotten(r) ==
    /\ r \in answering
    /\ answering' = answering \ {r}
    /\ flag' = TRUE
    /\ UNCHANGED <<rows, sent, unanswered, calls, orphaned, restarts, decisions>>

\* The write raises; it may have reached codex all the same.
AutoAnswerFails(r) ==
    /\ r \in answering
    /\ answering' = answering \ {r}
    /\ \E got \in SUBSET {"approve"} : sent' = [sent EXCEPT ![r] = @ \cup got]
    /\ rows' = [rows EXCEPT ![r].callback = "deferred"]
    /\ flag' = TRUE
    /\ UNCHANGED <<unanswered, calls, orphaned, restarts, decisions>>

\* The POST endpoint of the store: a row codex did not ask for.
CreateRequest(r) ==
    /\ rows[r].status = "none"
    /\ \E auto \in BOOLEAN :
          rows' = [rows EXCEPT ![r] =
                     IF auto THEN [NoRow EXCEPT !.status = "approved", !.by = "policy-auto"]
                             ELSE [NoRow EXCEPT !.status = "pending"]]
    /\ UNCHANGED <<unanswered, answering, sent, flag, calls, orphaned, restarts, decisions>>

\* What resolve_pending_approval can answer: what it remembers, or can restore.
Resolvable(r) == r \in unanswered \/ Actionable(r)

\* The decision endpoint up to the write to codex (it refuses, fails, goes to
\* write, or has nothing to write and decides the row at once).
Decided(r, d) == [rows[r] EXCEPT !.status = IF d = "approve" THEN "approved" ELSE "rejected",
                                 !.by = "operator"]

Decide(c, r, d) ==
    /\ calls[c].pc = "idle" /\ decisions < MaxDecisions
    /\ decisions' = decisions + 1
    /\ LET call(ok) == [pc |-> "sending", ok |-> ok, auto |-> PolicyAuto(r), req |-> r, decision |-> d]
           replay  == PolicyAuto(r) /\ d = "approve" /\ rows[r].bridged
           open    == rows[r].status = "pending"
           writes  == (replay \/ open) /\ rows[r].bridged
       IN  /\ calls' = [calls EXCEPT ![c] =
                 IF writes /\ Resolvable(r) THEN call(FALSE)
                 ELSE Ended(c, call(open /\ ~writes))]
           /\ rows' = IF open /\ ~writes THEN [rows EXCEPT ![r] = Decided(r, d)] ELSE rows
           /\ flag' = IF open /\ ~writes THEN FALSE ELSE flag
    /\ UNCHANGED <<unanswered, answering, sent, orphaned, restarts>>

\* The write came back: what the handler does to the end of the request.
AfterWrite(r, d, auto) ==
    /\ unanswered' = unanswered \ {r}
    /\ rows' = [rows EXCEPT ![r] =
          IF Deferred(r) THEN [@ EXCEPT !.callback = "delivered"]
          ELSE IF ~auto /\ @.status = "pending" THEN Decided(r, d) ELSE @]
    /\ flag' = IF Deferred(r) THEN flag /\ \E q \in Requests \ {r} : Actionable(q)
               ELSE IF ~auto /\ rows[r].status = "pending" THEN FALSE ELSE flag

Replied(c) ==
    /\ calls[c].pc = "sending"
    /\ LET r == calls[c].req
           d == calls[c].decision
       IN  /\ sent' = [sent EXCEPT ![r] = @ \cup {d}]
           /\ AfterWrite(r, d, calls[c].auto)
           /\ calls' = [calls EXCEPT ![c] =
                 Ended(c, [@ EXCEPT !.ok = calls[c].auto \/ rows[r].status = "pending"])]
    /\ UNCHANGED <<answering, orphaned, restarts, decisions>>

\* Mutant: the decision is recorded although the write raised.
ReplyFailsDecided(c) ==
    /\ calls[c].pc = "sending"
    /\ calls' = [calls EXCEPT ![c] = Ended(c, @)]
    /\ AfterWrite(calls[c].req, calls[c].decision, calls[c].auto)
    /\ UNCHANGED <<sent, answering, orphaned, restarts, decisions>>

\* The write raises (APPROVAL_CALLBACK_FAILED); the row stays as it was.
ReplyFails(c) ==
    /\ calls[c].pc = "sending"
    /\ calls' = [calls EXCEPT ![c] = Ended(c, @)]
    /\ \E got \in SUBSET {calls[c].decision} :
          sent' = [sent EXCEPT ![calls[c].req] = @ \cup got]
    /\ UNCHANGED <<rows, unanswered, answering, flag, orphaned, restarts, decisions>>

\* The control agent is restarted: memory and handlers are gone.  (One that
\* remembers nothing restarts unnoticed.)
RestartRuntime ==
    /\ restarts < MaxRestarts
    /\ unanswered \cup answering # {} \/ \E c \in Callers : calls[c].pc = "sending"
    /\ restarts' = restarts + 1
    /\ unanswered' = {} /\ answering' = {}
    /\ orphaned' = orphaned \cup answering
    /\ calls' = [c \in Callers |->
                   IF calls[c].pc = "sending" THEN Ended(c, calls[c]) ELSE calls[c]]
    /\ UNCHANGED <<rows, sent, flag, decisions>>

\* The caller takes the result, or is gone.
Leave(c) ==
    /\ calls[c].pc = "done"
    /\ calls' = [calls EXCEPT ![c] = NoCall]
    /\ UNCHANGED <<rows, unanswered, answering, sent, flag, orphaned, restarts, decisions>>

CodexStep(r) ==
    \/ IngestPending(r) \/ IngestAuto(r) \/ CreateRequest(r)
    \/ AutoAnswered(r) \/ AutoAnswerFails(r)

EndpointStep(c) == Replied(c) \/ ReplyFails(c)

-----------------------------------------------------------------------------

Rows == [status : {"none", "pending", "approved", "rejected"},
         by : {"nobody", "policy-auto", "operator"},
         callback : {"none", "deferred", "delivered"}, bridged : BOOLEAN]
Calls == {NoCall} \cup [pc : {"sending", "done"}, ok : BOOLEAN, auto : BOOLEAN,
                        req : Requests, decision : Answers]

\* The type of the control agent's state.
RuntimeTypeOK ==
    /\ rows \in [Requests -> Rows]
    /\ sent \in [Requests -> SUBSET Answers]
    /\ calls \in [Callers -> Calls]
    /\ unanswered \subseteq Requests /\ answering \subseteq Requests
    /\ orphaned \subseteq Requests /\ flag \in BOOLEAN

\* What the operator decided was told to codex: a row of codex that carries an
\* operator's decision was answered with that decision, whatever handlers
\* overlapped, whichever writes failed, and across restarts.
RecordedWasSent ==
    \A r \in Requests :
        rows[r].by = "operator" /\ rows[r].bridged =>
            (IF rows[r].status = "approved" THEN "approve" ELSE "reject") \in sent[r]

\* No request of codex is forgotten: it was answered, can still be answered, is
\* being answered, or its automatic answer was cut off by a restart (which the
\* store cannot tell from one that was delivered).
NothingForgotten ==
    \A r \in Requests :
        rows[r].bridged =>
            \/ sent[r] # {}
            \/ Actionable(r)
            \/ r \in answering \cup orphaned

=============================================================================
