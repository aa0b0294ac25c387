------------------------- MODULE ControlAgent_proofs -------------------------
(***************************************************************************)
(* Proofs about the two stores of the control agent: RuntimeApprovals,     *)
(* with CanonicalApprovals that follows it, and RuntimeTasks, for any      *)
(* requests, callers, threads, handlers and bounds.                        *)
(*                                                                         *)
(* RuntimeInv is inductive for the control agent's approvals alone,        *)
(* whoever calls its decision endpoint; a row that was approved or         *)
(* rejected stays so.  The watchdog's receipts, and the answer it works    *)
(* on, record what the runtime's rows say (AnswerInv), so its own records  *)
(* agree with them.                                                        *)
(*                                                                         *)
(* Of the tasks, TasksInv says that what a row remembers are messages of   *)
(* its thread, that a note of a service input is traced to the message it  *)
(* was made for, which it still explains unless a later input overtook it, *)
(* and that no note explains what is kept as manual activity.              *)
(***************************************************************************)
EXTENDS CanonicalApprovals, RuntimeTasks, SequenceTheorems, WellFoundedInduction, TLAPS

\* What a decision makes of a row.
Verdict(d) == IF d = "approve" THEN "approved" ELSE "rejected"

\* A handler that writes to codex has not succeeded yet, and replays an approval
\* of the policy or answers what was pending; one that succeeded is on record.
CallOK(c) ==
    /\ calls[c].pc = "sending" =>
          /\ calls[c].ok = FALSE
          /\ calls[c].auto => PolicyAuto(calls[c].req) /\ calls[c].decision = "approve"
    /\ calls[c].pc = "done" /\ calls[c].ok =>
          rows[calls[c].req].status = Verdict(calls[c].decision)

RuntimeInv ==
    /\ RuntimeTypeOK
    /\ \A r \in answering : PolicyAuto(r)
    /\ \A c \in Callers : CallOK(c)
    /\ RecordedWasSent
    /\ NothingForgotten

\* Every step the control agent can take, for any caller.
RuntimeStep ==
    \/ \E r \in Requests : CodexStep(r)
    \/ \E c \in Callers : EndpointStep(c)
    \/ RestartRuntime
    \/ \E c \in Callers, r \in Requests, d \in Answers : Decide(c, r, d)
    \/ \E c \in Callers : Leave(c)

\* A row that was answered stays answered, and with what it was answered.
Settled ==
    \A r \in Requests : rows[r].status \in {"approved", "rejected"} =>
        rows'[r].status = rows[r].status

\* No handler of the caller starts or is taken leave of.
SameCall(c) ==
    calls'[c].pc # "idle" =>
        /\ calls[c].pc # "idle"
        /\ calls'[c].req = calls[c].req
        /\ calls'[c].decision = calls[c].decision

\* The runtime has answered so.
RuntimeSays(a, act) == a \in Requests /\ rows[a].status = Verdict(act)

\* What the watchdog believes, the runtime's rows say: the receipts of its
\* decisions, the answer it works on, and hence its own records.
AnswerInv ==
    /\ answer.pc = "asked" =>
          /\ answer.copy.id \in Requests
          /\ calls["watchdog"].pc # "idle" =>
                calls["watchdog"].req = answer.copy.id /\ calls["watchdog"].decision = answer.act
    /\ answer.pc \in {"decided", "executed"} => RuntimeSays(answer.copy.id, answer.act)
    /\ \A act \in Answers, d \in Decisions :
          <<act, d>> \in receipts => RuntimeSays(IdOf(d), act)
    /\ AnswerIsTheRuntimes

ApprovalsInv == ApprovalsTypeOK /\ RuntimeInv /\ AnswerInv

-----------------------------------------------------------------------------
(* The control agent.                                                      *)

LEMMA RuntimeInitInv == RuntimeInit => RuntimeInv
<1> SUFFICES ASSUME RuntimeInit PROVE RuntimeInv
  OBVIOUS
<1>1. RuntimeTypeOK
  BY DEF RuntimeInit, RuntimeTypeOK, NoRow, NoCall, Rows, Calls, Answers
<1>2. (\A c \in Callers : calls[c].pc = "idle") /\ answering = {}
  BY DEF RuntimeInit, NoCall
<1>3. RecordedWasSent /\ NothingForgotten
  BY DEF RuntimeInit, NoRow, RecordedWasSent, NothingForgotten
<1> QED BY <1>1, <1>2, <1>3 DEF RuntimeInv, CallOK

\* What a handler leaves behind is nothing or the call itself, ended.
LEMMA EndedCall ==
    ASSUME NEW c, NEW call \in Calls, call.pc # "idle"
    PROVE  /\ Ended(c, call) \in Calls
           /\ Ended(c, call).pc # "sending"
           /\ Ended(c, call).pc # "idle" =>
                 /\ Ended(c, call).ok = call.ok
                 /\ Ended(c, call).req = call.req
                 /\ Ended(c, call).decision = call.decision
<1>1. call \in [pc : {"sending", "done"}, ok : BOOLEAN, auto : BOOLEAN, req : Requests, decision : Answers]
  BY DEF Calls, NoCall
<1>2. NoCall.pc = "idle" /\ NoCall \in Calls
  BY DEF NoCall, Calls
<1> DEFINE done == [call EXCEPT !.pc = "done"]
<1>3. /\ done \in Calls /\ done.pc = "done" /\ done.ok = call.ok
      /\ done.req = call.req /\ done.decision = call.decision
  BY <1>1 DEF Calls
<1> QED BY <1>2, <1>3 DEF Ended

\* A call that stays as it was keeps what is known of it, for no answered row
\* changes its answer.
LEMMA CallStaysOK ==
    ASSUME RuntimeInv, Settled, NEW c \in Callers, calls'[c] = calls[c],
           \A q \in Requests : PolicyAuto(q) => PolicyAuto(q)'
    PROVE  CallOK(c)'
<1>1. calls[c].pc # "idle" => calls[c].req \in Requests /\ calls[c].decision \in Answers
  BY DEF RuntimeInv, RuntimeTypeOK, Calls, NoCall
<1>2. CallOK(c)
  BY DEF RuntimeInv
<1> QED BY <1>1, <1>2 DEF CallOK, Settled, Verdict

\* A step that disturbs one row keeps the invariant when it keeps what is known
\* of that row and of the calls it changes.
LEMMA RowKeepsInv ==
    ASSUME RuntimeInv, RuntimeTypeOK', NEW r \in Requests, Settled,
           \A c \in Callers : calls'[c] = calls[c] \/ CallOK(c)',
           \A q \in Requests \ {r} : rows'[q] = rows[q] /\ sent'[q] = sent[q],
           PolicyAuto(r) => PolicyAuto(r)',
           answering' \subseteq answering \cup {r}, r \in answering' => PolicyAuto(r)',
           (rows[r].by = "operator" /\ rows[r].bridged)' =>
              (IF rows[r].status = "approved" THEN "approve" ELSE "reject")' \in sent'[r],
           rows'[r].bridged => \/ sent'[r] # {} \/ Actionable(r)'
                               \/ r \in (answering \cup orphaned)',
           (answering \cup orphaned) \ {r} \subseteq answering' \cup orphaned'
    PROVE  RuntimeInv'
<1>1. \A q \in Requests \ {r} : PolicyAuto(q)' <=> PolicyAuto(q)
  BY DEF PolicyAuto
<1>2. \A q \in Requests \ {r} : Actionable(q)' <=> Actionable(q)
  BY DEF Actionable, Deferred, PolicyAuto
<1>3. \A q \in answering' : PolicyAuto(q)'
  BY <1>1 DEF RuntimeInv, RuntimeTypeOK
<1>4. \A q \in Requests : PolicyAuto(q) => PolicyAuto(q)'
  BY <1>1
<1>5. \A c \in Callers : CallOK(c)'
  BY <1>4, CallStaysOK
<1>6. RecordedWasSent'
  BY DEF RuntimeInv, RecordedWasSent
<1>7. NothingForgotten'
  BY <1>2 DEF RuntimeInv, NothingForgotten
<1> QED BY <1>3, <1>5, <1>6, <1>7 DEF RuntimeInv

\* Codex asks, and the bridge answers what the policy allows.
LEMMA CodexKeepsInv ==
    ASSUME RuntimeInv, NEW r \in Requests, CodexStep(r)
    PROVE  RuntimeInv' /\ Settled /\ \A c \in Callers : SameCall(c)
<1> USE DEF RuntimeInv
<1>0. rows[r] \in Rows /\ RuntimeTypeOK
  BY DEF RuntimeTypeOK
<1>1. CASE IngestPending(r) \/ IngestAuto(r) \/ CreateRequest(r)
  <2>1. /\ rows[r].status = "none" /\ calls' = calls /\ sent' = sent /\ orphaned' = orphaned
        /\ ~PolicyAuto(r)
    BY <1>1 DEF IngestPending, IngestAuto, CreateRequest, PolicyAuto
  <2>2. PICK row : row \in Rows /\ row.by # "operator" /\ rows' = [rows EXCEPT ![r] = row]
    BY <1>1 DEF IngestPending, IngestAuto, CreateRequest, NoRow, Rows
  <2>3. rows' \in [Requests -> Rows] /\ rows'[r].by # "operator" /\ \A q \in Requests \ {r} : rows'[q] = rows[q]
    BY <2>2 DEF RuntimeTypeOK
  <2>4. Settled
    BY <2>1, <2>3 DEF Settled
  <2>5. RuntimeTypeOK'
    BY <2>1, <2>3, <1>1 DEF RuntimeTypeOK, IngestPending, IngestAuto, CreateRequest
  <2>6. answering \subseteq answering' /\ answering' \subseteq answering \cup {r}
    BY <1>1, <1>0 DEF IngestPending, IngestAuto, CreateRequest, RuntimeTypeOK
  <2>7. (r \in answering' => PolicyAuto(r)') /\ (rows'[r].bridged => Actionable(r)' \/ r \in answering')
    <3>1. CASE IngestPending(r)
      BY <3>1, <1>0, <2>1 DEF IngestPending, NoRow, Actionable, RuntimeTypeOK
    <3>2. CASE IngestAuto(r)
      BY <3>2, <1>0 DEF IngestAuto, NoRow, PolicyAuto, RuntimeTypeOK
    <3>3. CASE CreateRequest(r)
      BY <3>3, <1>0, <2>1 DEF CreateRequest, NoRow, PolicyAuto, RuntimeTypeOK
    <3> QED BY <3>1, <3>2, <3>3, <1>1
  <2> QED BY <2>1, <2>3, <2>4, <2>5, <2>6, <2>7, RowKeepsInv DEF SameCall
<1>2. CASE AutoAnswered(r) \/ AutoAnswerFails(r)
  <2>1. /\ PolicyAuto(r) /\ calls' = calls /\ orphaned' = orphaned /\ answering' = answering \ {r}
    BY <1>2 DEF AutoAnswered, AutoAnswerFails
  <2>2. PICK v \in {"delivered", "deferred"} :
           /\ rows' = [rows EXCEPT ![r].callback = v]
           /\ v = "delivered" => sent'[r] # {}
    BY <1>2, <1>0 DEF AutoAnswered, AutoAnswerFails, RuntimeTypeOK
  <2>3. /\ rows' \in [Requests -> Rows] /\ rows'[r].by = rows[r].by
        /\ rows'[r].status = rows[r].status /\ rows'[r].callback = v
        /\ \A q \in Requests \ {r} : rows'[q] = rows[q]
    BY <2>2 DEF RuntimeTypeOK, Rows
  <2>4. Settled
    BY <2>3 DEF Settled
  <2>5. PICK got \in SUBSET {"approve"} : sent' = [sent EXCEPT ![r] = @ \cup got]
    BY <1>2 DEF AutoAnswered, AutoAnswerFails
  <2>6. sent' \in [Requests -> SUBSET Answers] /\ \A q \in Requests \ {r} : sent'[q] = sent[q]
    BY <2>5 DEF RuntimeTypeOK, Answers
  <2>7. RuntimeTypeOK'
    BY <2>1, <2>3, <2>6, <1>2 DEF RuntimeTypeOK, AutoAnswered, AutoAnswerFails
  <2>8. PolicyAuto(r)' /\ rows'[r].by # "operator"
    BY <2>1, <2>3 DEF PolicyAuto
  <2>9. sent'[r] # {} \/ Actionable(r)'
    BY <2>2, <2>3, <2>8 DEF Actionable, Deferred
  <2> QED BY <2>1, <2>3, <2>4, <2>6, <2>7, <2>8, <2>9, RowKeepsInv DEF SameCall
<1> QED BY <1>1, <1>2 DEF CodexStep

\* The row that decides: what Decided and AfterWrite make of it.
LEMMA DecidedRow ==
    ASSUME RuntimeTypeOK, NEW r \in Requests, NEW d \in Answers
    PROVE  /\ Decided(r, d) \in Rows
           /\ Decided(r, d).status = Verdict(d)
           /\ Decided(r, d).by = "operator"
           /\ Decided(r, d).bridged = rows[r].bridged
           /\ (IF Decided(r, d).status = "approved" THEN "approve" ELSE "reject") = d
<1>1. rows[r] \in Rows
  BY DEF RuntimeTypeOK
<1> QED BY <1>1 DEF Decided, Rows, Verdict, Answers

\* A write to codex that comes back decides the row, or marks it delivered.
LEMMA RepliedKeepsInv ==
    ASSUME RuntimeInv, NEW c \in Callers, Replied(c)
    PROVE  RuntimeInv' /\ Settled /\ \A k \in Callers : SameCall(k)
<1>0. /\ calls[c] \in Calls /\ calls[c].pc = "sending" /\ RuntimeTypeOK
      /\ calls[c] \in [pc : {"sending", "done"}, ok : BOOLEAN, auto : BOOLEAN,
                       req : Requests, decision : Answers]
  BY DEF RuntimeInv, RuntimeTypeOK, Replied, Calls, NoCall
<1>1. PICK r \in Requests, d \in Answers : r = calls[c].req /\ d = calls[c].decision
  BY <1>0
<1>2. PICK b \in BOOLEAN : b = (calls[c].auto \/ rows[r].status = "pending")
  OBVIOUS
<1> DEFINE call == [calls[c] EXCEPT !.ok = b]
<1>20. /\ call \in Calls /\ call.pc = "sending" /\ call.req = r /\ call.decision = d
       /\ call.ok = b
  BY <1>0, <1>1 DEF Calls
<1>21. call = [calls[c] EXCEPT !.ok = calls[c].auto \/ rows[r].status = "pending"]
  BY <1>2
<1> HIDE DEF call
<1>3. /\ sent' = [sent EXCEPT ![r] = @ \cup {d}] /\ AfterWrite(r, d, calls[c].auto)
      /\ calls' = [calls EXCEPT ![c] = Ended(c, call)]
      /\ answering' = answering /\ orphaned' = orphaned
  BY <1>1, <1>21, <1>0 DEF Replied, RuntimeTypeOK
<1>4. /\ calls[c].auto => PolicyAuto(r) /\ d = "approve"
      /\ rows[r] \in Rows
  BY <1>0, <1>1 DEF RuntimeInv, CallOK, RuntimeTypeOK
<1>5. /\ calls'[c] = Ended(c, call) /\ calls' \in [Callers -> Calls]
      /\ \A k \in Callers \ {c} : calls'[k] = calls[k]
  BY <1>0, <1>20, <1>3, EndedCall DEF RuntimeTypeOK
<1>6. sent' \in [Requests -> SUBSET Answers] /\ d \in sent'[r] /\ sent[r] \subseteq sent'[r]
      /\ \A q \in Requests \ {r} : sent'[q] = sent[q]
  BY <1>0, <1>3 DEF RuntimeTypeOK
<1>7. PICK row :
                 /\ row \in Rows /\ rows' = [rows EXCEPT ![r] = row]
                 /\ \/ row.status = rows[r].status /\ row.by = rows[r].by /\ row.bridged = rows[r].bridged
                    \/ /\ ~calls[c].auto /\ rows[r].status = "pending"
                       /\ row = Decided(r, d)
                 /\ (rows[r].status = "pending" /\ ~calls[c].auto) => row = Decided(r, d)
  <2>1. CASE Deferred(r)
    <3>1. rows' = [rows EXCEPT ![r] = [rows[r] EXCEPT !.callback = "delivered"]]
      BY <1>3, <1>4, <1>0, <2>1 DEF AfterWrite, RuntimeTypeOK
    <3>2. rows[r].status # "pending"
      BY <2>1 DEF Deferred, PolicyAuto
    <3> QED BY <3>1, <3>2, <1>4 DEF Rows
  <2>2. CASE ~Deferred(r) /\ ~calls[c].auto /\ rows[r].status = "pending"
    <3>1. rows' = [rows EXCEPT ![r] = Decided(r, d)]
      BY <1>3, <1>4, <1>0, <2>2 DEF AfterWrite, RuntimeTypeOK
    <3> QED BY <3>1, <1>0, <2>2, DecidedRow
  <2>3. CASE ~Deferred(r) /\ ~(~calls[c].auto /\ rows[r].status = "pending")
    <3>1. rows' = [rows EXCEPT ![r] = rows[r]]
      BY <1>3, <1>4, <1>0, <2>3 DEF AfterWrite, RuntimeTypeOK
    <3> QED BY <3>1, <1>4, <2>3
  <2> QED BY <2>1, <2>2, <2>3
<1>8. rows' \in [Requests -> Rows] /\ rows'[r] = row /\ \A q \in Requests \ {r} : rows'[q] = rows[q]
  BY <1>0, <1>7 DEF RuntimeTypeOK
<1>9. Settled
  BY <1>7, <1>8 DEF Settled
<1>10. RuntimeTypeOK'
  BY <1>0, <1>3, <1>5, <1>6, <1>8 DEF RuntimeTypeOK, AfterWrite
<1>11. PolicyAuto(r) => PolicyAuto(r)'
  BY <1>7, <1>8 DEF PolicyAuto
<1>12. CallOK(c)'
  <2>1. calls'[c].pc # "sending" /\ (calls'[c].pc = "done" /\ calls'[c].ok =>
           calls'[c].req = r /\ calls'[c].decision = d /\ (calls[c].auto \/ rows[r].status = "pending"))
    <3>1. /\ calls'[c].pc # "sending"
          /\ calls'[c].pc # "idle" => calls'[c].req = r /\ calls'[c].decision = d /\ calls'[c].ok = b
      BY <1>20, <1>5, EndedCall
    <3> QED BY <3>1, <1>2
  <2>2. calls[c].auto => rows'[r].status = Verdict(d)
    BY <1>4, <1>11 DEF PolicyAuto, Verdict
  <2>3. ~calls[c].auto /\ rows[r].status = "pending" => rows'[r].status = Verdict(d)
    BY <1>0, <1>7, <1>8, DecidedRow
  <2> QED BY <2>1, <2>2, <2>3 DEF CallOK
<1>13. (rows[r].by = "operator" /\ rows[r].bridged)' =>
          (IF rows[r].status = "approved" THEN "approve" ELSE "reject")' \in sent'[r]
  <2>1. CASE row = Decided(r, d)
    BY <2>1, <1>0, <1>6, <1>8, DecidedRow
  <2>2. CASE row.status = rows[r].status /\ row.by = rows[r].by /\ row.bridged = rows[r].bridged
    BY <2>2, <1>0, <1>6, <1>8 DEF RuntimeInv, RecordedWasSent
  <2> QED BY <2>1, <2>2, <1>7
<1>14. \A k \in Callers : SameCall(k)
  BY <1>1, <1>20, <1>5, <1>0, EndedCall DEF SameCall
<1>15. r \in answering' => PolicyAuto(r)'
  BY <1>3, <1>11 DEF RuntimeInv
<1>16. RuntimeInv'
  BY <1>1, <1>3, <1>5, <1>6, <1>8, <1>9, <1>10, <1>11, <1>12, <1>13, <1>15, RowKeepsInv
<1> QED BY <1>9, <1>14, <1>16

\* A write that raises changes nothing but the call, and perhaps what codex saw.
LEMMA ReplyFailsKeepsInv ==
    ASSUME RuntimeInv, NEW c \in Callers, ReplyFails(c)
    PROVE  RuntimeInv' /\ Settled /\ \A k \in Callers : SameCall(k)
<1>0. /\ calls[c] \in Calls /\ calls[c].pc = "sending" /\ RuntimeTypeOK /\ calls[c].ok = FALSE
      /\ calls[c].req \in Requests /\ calls[c].decision \in Answers
  BY DEF RuntimeInv, RuntimeTypeOK, ReplyFails, Calls, NoCall, CallOK
<1>1. PICK r \in Requests, d \in Answers : r = calls[c].req /\ d = calls[c].decision
  BY <1>0
<1>2. /\ calls' = [calls EXCEPT ![c] = Ended(c, calls[c])] /\ rows' = rows
      /\ answering' = answering /\ orphaned' = orphaned
      /\ \E got \in SUBSET {d} : sent' = [sent EXCEPT ![r] = @ \cup got]
  BY <1>0, <1>1 DEF ReplyFails, RuntimeTypeOK
<1>3. /\ calls'[c] = Ended(c, calls[c]) /\ calls' \in [Callers -> Calls]
      /\ \A k \in Callers \ {c} : calls'[k] = calls[k]
  BY <1>0, <1>2, EndedCall DEF RuntimeTypeOK
<1>4. sent' \in [Requests -> SUBSET Answers] /\ sent[r] \subseteq sent'[r]
      /\ \A q \in Requests \ {r} : sent'[q] = sent[q]
  BY <1>0, <1>2 DEF RuntimeTypeOK
<1>5. RuntimeTypeOK'
  BY <1>0, <1>2, <1>3, <1>4 DEF RuntimeTypeOK, ReplyFails
<1>6. CallOK(c)'
  BY <1>0, <1>3, EndedCall DEF CallOK
<1>7. Settled
  BY <1>2 DEF Settled
<1>8. \A k \in Callers : SameCall(k)
  BY <1>0, <1>3, EndedCall DEF SameCall
<1>9. (PolicyAuto(r) => PolicyAuto(r)') /\ (r \in answering' => PolicyAuto(r)')
  BY <1>2 DEF PolicyAuto, RuntimeInv
<1>10. (rows[r].by = "operator" /\ rows[r].bridged)' =>
          (IF rows[r].status = "approved" THEN "approve" ELSE "reject")' \in sent'[r]
  BY <1>2, <1>4 DEF RuntimeInv, RecordedWasSent
<1>11. rows'[r].bridged => \/ sent'[r] # {} \/ Actionable(r)' \/ r \in (answering \cup orphaned)'
  BY <1>2, <1>4 DEF RuntimeInv, NothingForgotten, Actionable, Deferred, PolicyAuto
<1>12. RuntimeInv'
  BY <1>2, <1>3, <1>4, <1>5, <1>6, <1>7, <1>9, <1>10, <1>11, RowKeepsInv
<1> QED BY <1>7, <1>8, <1>12

\* The decision endpoint before its write: it decides a row that codex does not
\* wait for, or leaves the rows alone.
LEMMA DecideKeepsInv ==
    ASSUME RuntimeInv, NEW c \in Callers, NEW r \in Requests, NEW d \in Answers,
           Decide(c, r, d)
    PROVE  /\ RuntimeInv' /\ Settled
           /\ \A k \in Callers \ {c} : calls'[k] = calls[k]
           /\ calls'[c].pc # "idle" => calls'[c].req = r /\ calls'[c].decision = d
<1> DEFINE call(ok) == [pc |-> "sending", ok |-> ok, auto |-> PolicyAuto(r), req |-> r, decision |-> d]
           Goes == /\ PolicyAuto(r) => d = "approve"
                   /\ rows' = rows /\ calls' = [calls EXCEPT ![c] = call(FALSE)]
           Decides == /\ ~rows[r].bridged /\ rows[r].status = "pending"
                      /\ rows' = [rows EXCEPT ![r] = Decided(r, d)]
                      /\ calls' = [calls EXCEPT ![c] = Ended(c, call(TRUE))]
           Refuses == rows' = rows /\ calls' = [calls EXCEPT ![c] = Ended(c, call(FALSE))]
<1>0. RuntimeTypeOK /\ rows[r] \in Rows
  BY DEF RuntimeInv, RuntimeTypeOK
<1>1. sent' = sent /\ answering' = answering /\ orphaned' = orphaned
  BY DEF Decide
<1>2. Goes \/ Decides \/ Refuses
  <2> DEFINE open == rows[r].status = "pending"
             writes == ((PolicyAuto(r) /\ d = "approve" /\ rows[r].bridged) \/ open) /\ rows[r].bridged
  <2>1. CASE writes /\ Resolvable(r)
    BY <2>1 DEF Decide, PolicyAuto
  <2>2. CASE open /\ ~writes
    BY <2>2 DEF Decide
  <2>3. CASE ~(writes /\ Resolvable(r)) /\ ~(open /\ ~writes)
    BY <2>3 DEF Decide
  <2> QED BY <2>1, <2>2, <2>3
<1>3. /\ call(FALSE) \in Calls /\ call(FALSE).pc = "sending" /\ call(FALSE).ok = FALSE
      /\ call(FALSE).req = r /\ call(FALSE).decision = d
      /\ call(FALSE).auto => PolicyAuto(r)
  BY DEF Calls, PolicyAuto
<1>4. /\ call(TRUE) \in Calls /\ call(TRUE).pc = "sending"
      /\ call(TRUE).req = r /\ call(TRUE).decision = d
  BY DEF Calls, PolicyAuto
<1> HIDE DEF call
<1>5. PICK k \in Calls :
           /\ calls' = [calls EXCEPT ![c] = k]
           /\ k.pc # "idle" => k.req = r /\ k.decision = d
           /\ \/ Goes /\ k = call(FALSE)
              \/ Decides /\ k.pc # "sending"
              \/ Refuses /\ k.pc # "sending" /\ (k.pc = "done" => k.ok = FALSE)
  <2>1. CASE Goes
    BY <2>1, <1>3
  <2>2. CASE Decides
    BY <2>2, <1>4, EndedCall
  <2>3. CASE Refuses
    <3> DEFINE left == Ended(c, call(FALSE))
    <3>1. /\ left \in Calls /\ left.pc # "sending"
          /\ left.pc # "idle" => left.ok = FALSE /\ left.req = r /\ left.decision = d
      BY <1>3, EndedCall
    <3>2. calls' = [calls EXCEPT ![c] = left]
      BY <2>3
    <3> HIDE DEF left
    <3> QED BY <2>3, <3>1, <3>2
  <2> QED BY <1>2, <2>1, <2>2, <2>3
<1>6. /\ calls' \in [Callers -> Calls] /\ calls'[c] = k
      /\ \A j \in Callers \ {c} : calls'[j] = calls[j]
  BY <1>0, <1>5 DEF RuntimeTypeOK
<1>7. /\ rows' \in [Requests -> Rows] /\ \A q \in Requests \ {r} : rows'[q] = rows[q]
      /\ \/ rows' = rows
         \/ /\ ~rows'[r].bridged /\ rows'[r].status = Verdict(d)
            /\ rows'[r].by = "operator" /\ rows[r].status = "pending"
  <2>1. CASE rows' = rows
    BY <2>1, <1>0 DEF RuntimeTypeOK
  <2>2. CASE Decides
    BY <2>2, <1>0, DecidedRow DEF RuntimeTypeOK
  <2> QED BY <1>2, <2>1, <2>2
<1>8. RuntimeTypeOK'
  BY <1>0, <1>1, <1>6, <1>7 DEF RuntimeTypeOK, Decide
<1>9. Settled /\ (PolicyAuto(r) => PolicyAuto(r)')
  BY <1>7 DEF Settled, PolicyAuto
<1>10. CallOK(c)'
  <2>1. CASE Goes /\ k = call(FALSE)
    BY <2>1, <1>3, <1>6, <1>9 DEF CallOK
  <2>2. CASE Decides /\ k.pc # "sending"
    <3>1. rows'[r].status = Verdict(d)
      BY <2>2, <1>0, DecidedRow DEF RuntimeTypeOK
    <3> QED BY <2>2, <3>1, <1>5, <1>6 DEF CallOK
  <2>3. CASE Refuses /\ k.pc # "sending" /\ (k.pc = "done" => k.ok = FALSE)
    BY <2>3, <1>6 DEF CallOK
  <2> QED BY <1>5, <2>1, <2>2, <2>3
<1>11. /\ r \in answering' => PolicyAuto(r)'
       /\ (rows[r].by = "operator" /\ rows[r].bridged)' =>
             (IF rows[r].status = "approved" THEN "approve" ELSE "reject")' \in sent'[r]
       /\ rows'[r].bridged => \/ sent'[r] # {} \/ Actionable(r)' \/ r \in (answering \cup orphaned)'
  <2>1. CASE rows' = rows
    BY <2>1, <1>1, <1>9 DEF RuntimeInv, RecordedWasSent, NothingForgotten, Actionable, Deferred, PolicyAuto
  <2>2. CASE ~rows'[r].bridged
    BY <2>2, <1>1, <1>9 DEF RuntimeInv
  <2> QED BY <1>7, <2>1, <2>2
<1>12. RuntimeInv'
  BY <1>1, <1>6, <1>7, <1>8, <1>9, <1>10, <1>11, RowKeepsInv
<1> QED BY <1>5, <1>6, <1>9, <1>12

\* A restart ends the handlers and forgets what was under way; a caller leaves.
LEMMA RestartKeepsInv ==
    ASSUME RuntimeInv, RestartRuntime \/ \E c \in Callers : Leave(c)
    PROVE  RuntimeInv' /\ Settled
<1>0. RuntimeTypeOK
  BY DEF RuntimeInv
<1>1. /\ rows' = rows /\ sent' = sent /\ answering' \subseteq answering
      /\ answering \cup orphaned \subseteq answering' \cup orphaned'
      /\ Settled
  BY DEF RestartRuntime, Leave, Settled
<1>2. NoCall \in Calls /\ NoCall.pc = "idle"
  BY DEF NoCall, Calls
<1>3. \A c \in Callers : calls[c] \in Calls /\ CallOK(c)
  BY <1>0 DEF RuntimeInv, RuntimeTypeOK
<1>4. calls' \in [Callers -> Calls] /\ \A c \in Callers :
           \/ calls'[c] = calls[c] \/ calls'[c] = NoCall
           \/ calls[c].pc = "sending" /\ calls'[c] = Ended(c, calls[c])
  BY <1>0, <1>2, <1>3, EndedCall DEF RestartRuntime, Leave, RuntimeTypeOK
<1>5. RuntimeTypeOK'
  BY <1>0, <1>1, <1>4 DEF RuntimeTypeOK, RestartRuntime, Leave
<1>6. \A c \in Callers : CallOK(c)'
  <2> SUFFICES ASSUME NEW c \in Callers PROVE CallOK(c)'
    OBVIOUS
  <2>1. CASE calls'[c] = calls[c]
    BY <2>1, <1>1, <1>3 DEF CallOK, PolicyAuto
  <2>2. CASE calls'[c] = NoCall
    BY <2>2, <1>2 DEF CallOK
  <2>3. CASE calls[c].pc = "sending" /\ calls'[c] = Ended(c, calls[c])
    BY <2>3, <1>3, EndedCall DEF CallOK
  <2> QED BY <1>4, <2>1, <2>2, <2>3
<1>7. RecordedWasSent' /\ NothingForgotten' /\ \A r \in answering' : PolicyAuto(r)'
  BY <1>1 DEF RuntimeInv, RecordedWasSent, NothingForgotten, Actionable, Deferred, PolicyAuto
<1> QED BY <1>1, <1>5, <1>6, <1>7 DEF RuntimeInv

\* The invariant of the control agent survives whatever it does.
LEMMA RuntimeKeepsInv ==
    ASSUME RuntimeInv, RuntimeStep \/ UNCHANGED runtimeVars
    PROVE  RuntimeInv' /\ Settled
<1>1. CASE UNCHANGED runtimeVars
  BY <1>1 DEF runtimeVars, RuntimeInv, RuntimeTypeOK, Settled, CallOK, PolicyAuto,
              RecordedWasSent, NothingForgotten, Actionable, Deferred
<1>2. CASE RuntimeStep
  BY <1>2, CodexKeepsInv, RepliedKeepsInv, ReplyFailsKeepsInv, DecideKeepsInv, RestartKeepsInv
     DEF RuntimeStep, EndpointStep
<1> QED BY <1>1, <1>2

-----------------------------------------------------------------------------
(* The newest record.                                                      *)

Below == {ss \in Nat \X Nat : ss[1] < ss[2]}

\* A set of numbers that is not empty has a least one ...
LEMMA LeastNat ==
    ASSUME NEW S \in SUBSET Nat, S # {}
    PROVE  \E n \in S : \A m \in S : n <= m
<1>1. IsWellFoundedOn(Below, Nat)
  BY NatLessThanWellFounded DEF OpToRel, Below
<1>2. PICK n \in S : \A m \in S : <<m, n>> \notin Below
  BY <1>1, WFMin
<1>3. \A m \in Nat : <<m, n>> \in Below <=> m < n
  <2> SUFFICES ASSUME NEW m \in Nat PROVE <<m, n>> \in Below <=> m < n
    OBVIOUS
  <2>1. <<m, n>> \in Nat \X Nat /\ <<m, n>>[1] = m /\ <<m, n>>[2] = n
    OBVIOUS
  <2> QED BY <2>1 DEF Below
<1>4. \A m \in S : n <= m
  <2> SUFFICES ASSUME NEW m \in S PROVE n <= m
    OBVIOUS
  <2>1. ~(m < n)
    BY <1>2, <1>3
  <2> QED BY <2>1
<1> QED BY <1>4

\* ... and, when it is bounded, a greatest one.
LEMMA GreatestNat ==
    ASSUME NEW B \in Nat, NEW S \in SUBSET (0 .. B), S # {}
    PROVE  \E n \in S : \A m \in S : m <= n
<1> DEFINE T == {B - n : n \in S}
<1>1. T \in SUBSET Nat /\ T # {}
  OBVIOUS
<1> HIDE DEF T
<1>2. PICK t \in T : \A m \in T : t <= m
  BY <1>1, LeastNat
<1>3. PICK n \in S : t = B - n
  BY DEF T
<1>4. \A m \in S : B - n <= B - m
  BY <1>2, <1>3 DEF T
<1> QED BY <1>4

\* Of any open records there is a newest one.
LEMMA NewestIn ==
    ASSUME StoreTypeOK, NEW E \in SUBSET Open, E # {}
    PROVE  Newest(E) \in E
<1> DEFINE S == {store[e].decision.snap : e \in E}
<1>1. \A e \in E : e \in Envelopes /\ store[e] \in Records
  BY DEF StoreTypeOK, Open, IsOpen, Absent
<1>2. \A e \in E : store[e].decision.snap \in Snaps
  BY <1>1 DEF Records, Decisions, Decision
<1>3. MaxSnap \in Nat
  BY BoundsAssumption
<1>4. S \in SUBSET (0 .. MaxSnap) /\ S # {}
  BY <1>2, <1>3 DEF Snaps
<1> HIDE DEF S
<1>5. PICK n \in S : \A m \in S : m <= n
  BY <1>3, <1>4, GreatestNat
<1>6. PICK e \in E : store[e].decision.snap = n
  BY DEF S
<1>7. \A f \in E : store[f].decision.snap <= store[e].decision.snap
  BY <1>5, <1>6 DEF S
<1> QED BY <1>7 DEF Newest

-----------------------------------------------------------------------------
(* Records and envelopes.                                                  *)

\* Ids are told apart: an envelope that a decision hashes to is hashed from the
\* approval id that its record gets.
LEMMA RecordFits ==
    ASSUME NEW d \in Decisions, NEW g \in Goals
    PROVE  /\ Record(d, g) \in Records
           /\ Record(d, g).id = IdOf(d) /\ Record(d, g).decision = d
           /\ Record(d, g).status = "pending"
           /\ Envelope(d.id, d.snap) \in Envelopes
           /\ FitsUnder(Envelope(d.id, d.snap), Record(d, g))
<1>1. d.id \in Ids \cup {NoId} /\ d.snap \in Snaps
  BY DEF Decisions, Decision
<1>2. NoId \notin Ids
  BY IdsAssumption, PromptingAssumption DEF Ids, MadeUp, NoId
<1>3. IdOf(d) \in Ids
  BY <1>1 DEF IdOf, Ids
<1>4. /\ Record(d, g) = [status |-> "pending", id |-> IdOf(d), goal |-> g, decision |-> d]
      /\ Record(d, g) \in Records
  BY <1>3 DEF Record, IdOf, Records, Statuses
<1>5. CASE d.id = NoId
  <2>1. Envelope(d.id, d.snap) = <<"fields", d.snap>> /\ Envelope(NoId, d.snap) = <<"fields", d.snap>>
    BY <1>5 DEF Envelope
  <2>2. IdUnder(<<"fields", d.snap>>) = MadeUp(d.snap)
    BY DEF IdUnder
  <2> QED BY <1>1, <1>4, <1>5, <2>1, <2>2 DEF Envelopes, FitsUnder, IdOf
<1>6. CASE d.id # NoId
  <2>1. d.id \in Ids /\ Envelope(d.id, d.snap) = <<"id", d.id>> /\ Envelope(d.id, 1) = <<"id", d.id>>
    BY <1>1, <1>6 DEF Envelope
  <2>2. IdUnder(<<"id", d.id>>) = d.id
    BY DEF IdUnder
  <2> QED BY <1>1, <1>4, <1>6, <2>1, <2>2 DEF Envelopes, FitsUnder, IdOf
<1> QED BY <1>4, <1>5, <1>6

\* A closed record is the record but for its status.
LEMMA CloseRecord ==
    ASSUME NEW r \in Records, NEW s \in Statuses \ {"absent"}
    PROVE  LET n == [r EXCEPT !.status = s]
           IN  /\ n \in Records /\ n.status = s /\ n.id = r.id /\ n.decision = r.decision
               /\ n.goal = r.goal
  BY DEF Records

\* What put leaves under an envelope is what was there, or a pending record of
\* the decision that fits; and some record that fits is there under the one it used.
LEMMA PutFits ==
    ASSUME StoreTypeOK, NEW d \in Decisions, NEW g \in Goals
    PROVE  LET r == Record(d, g)
               e == Envelope(d.id, d.snap)
               at == IF Existing(r, e) = {} THEN e ELSE CHOOSE x \in Existing(r, e) : TRUE
           IN  /\ Put(r, e) \in [Envelopes -> {Absent} \cup Records]
               /\ \A f \in Envelopes :
                     \/ Put(r, e)[f] = store[f]
                     \/ /\ Put(r, e)[f] \in Records /\ FitsUnder(f, Put(r, e)[f])
                        /\ Put(r, e)[f].status = "pending" /\ Put(r, e)[f].decision = d
               /\ at \in Envelopes
               /\ Put(r, e)[at] \in Records
<1> DEFINE r == Record(d, g)
           e == Envelope(d.id, d.snap)
           at == IF Existing(r, e) = {} THEN e ELSE CHOOSE x \in Existing(r, e) : TRUE
<1>1. /\ r \in Records /\ r.id = IdOf(d) /\ r.decision = d /\ r.status = "pending"
      /\ e \in Envelopes /\ FitsUnder(e, r)
  BY RecordFits
<1>2. \A f \in Envelopes : store[f] = Absent \/ (store[f] \in Records /\ FitsUnder(f, store[f]))
  <2>1. \A x \in Records : x.status # "absent"
    BY DEF Records
  <2> QED BY <2>1 DEF StoreTypeOK
<1> HIDE DEF r, e
<1>3. CASE Existing(r, e) = {}
  <2>1. Put(r, e) = [store EXCEPT ![e] = r] /\ at = e
    BY <1>3 DEF Put
  <2>2. /\ Put(r, e) \in [Envelopes -> {Absent} \cup Records]
        /\ Put(r, e)[e] = r /\ \A f \in Envelopes \ {e} : Put(r, e)[f] = store[f]
    BY <1>1, <2>1 DEF StoreTypeOK
  <2> QED BY <1>1, <2>1, <2>2 DEF r, e
<1>4. CASE Existing(r, e) # {}
  <2>1. at \in Existing(r, e) /\ at = CHOOSE x \in Existing(r, e) : TRUE
    BY <1>4
  <2>2. at \in Envelopes /\ store[at] \in Records /\ FitsUnder(at, store[at]) /\ store[at].id = r.id
    <3>1. CASE store[e].status # "absent"
      <4>1. at = e
        BY <2>1, <3>1 DEF Existing
      <4>2. store[e] \in Records /\ FitsUnder(e, store[e])
        BY <1>1, <1>2, <3>1 DEF Absent
      <4> QED BY <4>1, <4>2, <1>1 DEF FitsUnder
    <3>2. CASE store[e].status = "absent"
      <4> DEFINE pending == {f \in Of(r.id) : IsOpen(f)}
      <4>1. pending # {} /\ at = Newest(pending)
        BY <2>1, <3>2 DEF Existing
      <4>2. pending \in SUBSET Open
        BY DEF Of, Open
      <4>3. at \in pending
        BY <4>1, <4>2, NewestIn
      <4> QED BY <4>3, <1>2 DEF Of, Absent
    <3> QED BY <3>1, <3>2
  <2> DEFINE n == [r EXCEPT !.id = store[at].id]
  <2>3. n \in Records /\ n.id = r.id /\ n.decision = d /\ n.status = "pending" /\ FitsUnder(at, n)
    <3>1. n \in Records /\ n.id = store[at].id /\ n.decision = r.decision /\ n.status = r.status
      BY <1>1, <2>2 DEF Records
    <3> QED BY <3>1, <1>1, <2>2 DEF FitsUnder
  <2>4. Put(r, e) = IF IsOpen(at) /\ store[at].decision.snap <= r.decision.snap
                    THEN [store EXCEPT ![at] = n] ELSE store
    BY <1>4, <2>1 DEF Put
  <2> HIDE DEF at, n
  <2>5. /\ Put(r, e) \in [Envelopes -> {Absent} \cup Records]
        /\ \A f \in Envelopes :
              \/ Put(r, e)[f] = store[f]
              \/ f = at /\ Put(r, e)[f] = n
        /\ Put(r, e)[at] \in {n, store[at]}
    BY <2>2, <2>3, <2>4 DEF StoreTypeOK
  <2> QED BY <2>2, <2>3, <2>5 DEF at, r, e
<1> QED BY <1>3, <1>4

-----------------------------------------------------------------------------
(* Steps of the watchdog.                                                  *)

\* The store keeps its records, or gets records that fit and answer nothing.
StoreStep ==
    /\ store' \in [Envelopes -> {Absent} \cup Records]
    /\ \A e \in Envelopes :
          \/ store'[e] = store[e]
          \/ /\ store'[e] \in Records /\ FitsUnder(e, store'[e])
             /\ store'[e].status \notin {"approved", "rejected"}

LEMMA StoreSame == StoreTypeOK /\ store' = store => StoreStep
  BY DEF StoreStep, StoreTypeOK

LEMMA StoreStepType == ASSUME StoreTypeOK, StoreStep PROVE StoreTypeOK'
  BY DEF StoreStep, StoreTypeOK

LEMMA SupersedeStep ==
    ASSUME StoreTypeOK, NEW E \in SUBSET Open, store' = Supersede(E)
    PROVE  StoreStep
<1>1. \A e \in E : e \in Envelopes /\ store[e] \in Records /\ FitsUnder(e, store[e])
  BY DEF StoreTypeOK, Open, IsOpen, Absent
<1>2. \A e \in E : /\ Closed(e, "superseded") \in Records
                   /\ Closed(e, "superseded").status = "superseded"
                   /\ FitsUnder(e, Closed(e, "superseded"))
  BY <1>1, CloseRecord DEF Closed, FitsUnder, Statuses
<1>3. \A e \in Envelopes : store'[e] = IF e \in E THEN Closed(e, "superseded") ELSE store[e]
  BY DEF Supersede
<1> QED BY <1>1, <1>2, <1>3 DEF StoreStep, StoreTypeOK, Supersede

\* A step that leaves the runtime, the answer and its receipts alone, and gives
\* no answer in the store.
LEMMA QuietKeepsInv ==
    ASSUME ApprovalsInv, UNCHANGED runtimeVars, StoreStep,
           UNCHANGED <<answer, receipts, responses, execs, torn>>,
           OrchTypeOK', ExpiryTypeOK',
           asked' \in [Ids -> SUBSET (Snaps \X Goals)],
           cards' \subseteq Envelopes \X Decisions,
           queue' \subseteq Requests, snap' \in Snaps, goal' \in Goals, released' \in 0 .. snap'
    PROVE  ApprovalsInv'
<1>1. RuntimeInv' /\ Settled
  BY RuntimeKeepsInv DEF ApprovalsInv
<1>2. StoreTypeOK'
  BY StoreStepType DEF ApprovalsInv, ApprovalsTypeOK
<1>3. AnswerTypeOK' /\ HistoryTypeOK'
  BY DEF ApprovalsInv, ApprovalsTypeOK, AnswerTypeOK, HistoryTypeOK
<1>4. ApprovalsTypeOK'
  BY <1>1, <1>2, <1>3 DEF ApprovalsTypeOK, RuntimeInv
<1>5. rows' = rows /\ calls' = calls
  BY DEF runtimeVars
<1>6. AnswerIsTheRuntimes'
  BY <1>5 DEF ApprovalsInv, AnswerInv, AnswerIsTheRuntimes, StoreStep
<1>7. AnswerInv'
  BY <1>5, <1>6 DEF ApprovalsInv, AnswerInv, RuntimeSays
<1> QED BY <1>1, <1>4, <1>7 DEF ApprovalsInv

\* A prompted id is the id of a record.
LEMMA TrustedIds ==
    ASSUME StoreTypeOK, NEW aged \in BOOLEAN
    PROVE  Overlay(aged) \subseteq Ids /\ Trusted(Overlay(aged), aged) \subseteq Ids
<1>1. \A e \in Open : store[e].id \in Ids
  BY DEF StoreTypeOK, Open, IsOpen, Absent, Records
<1>2. Prompted(aged) \subseteq Ids
  BY <1>1 DEF Prompted
<1>3. Overlay(aged) \subseteq Ids
  BY <1>2 DEF Overlay, Ids
<1> QED BY <1>2, <1>3 DEF Trusted

LEMMA TickDecidesKeepsInv ==
    ASSUME ApprovalsInv, NEW asks \in BOOLEAN, NEW aged \in BOOLEAN, TickDecides(asks, aged)
    PROVE  ApprovalsInv'
<1> USE DEF ApprovalsInv, ApprovalsTypeOK
<1>1. PICK id \in Ids \cup {NoId}, stale \in SUBSET Ids, pc \in {"prompt", "release"} :
         orch' = [pc |-> pc, decision |-> Decision(id, snap), goal |-> goal, stale |-> stale, copies |-> {}]
  BY TrustedIds DEF TickDecides
<1>2. OrchTypeOK'
  <2>1. Decision(id, snap) \in Decisions
    BY DEF Decisions
  <2>2. orch' \in TickStates /\ orch'.pc # "drifted"
    BY <1>1, <2>1 DEF TickStates
  <2> QED BY <2>2 DEF OrchTypeOK
<1>3. released' \in 0 .. snap
  BY BoundsAssumption DEF TickDecides, Snaps
<1>4. StoreStep
  BY StoreSame DEF TickDecides
<1> QED BY <1>2, <1>3, <1>4, QuietKeepsInv DEF TickDecides, ExpiryTypeOK, HistoryTypeOK

LEMMA TickReleasesKeepsInv ==
    ASSUME ApprovalsInv, TickReleases
    PROVE  ApprovalsInv'
<1> USE DEF ApprovalsInv, ApprovalsTypeOK
<1>1. StoreStep
  BY SupersedeStep DEF TickReleases, SupersededBy
<1>2. OrchTypeOK'
  BY DEF TickReleases, OrchTypeOK, Idle
<1> QED BY <1>1, <1>2, QuietKeepsInv DEF TickReleases, ExpiryTypeOK, HistoryTypeOK

\* The tick goes on, or is over.
LEMMA OrchMoves ==
    ASSUME OrchTypeOK, orch.pc # "idle"
    PROVE  /\ orch \in TickStates
           /\ orch' = Idle => OrchTypeOK'
           /\ orch' = [orch EXCEPT !.pc = "drift"] => OrchTypeOK'
           /\ orch' = [orch EXCEPT !.pc = "drift", !.copies = {}] => OrchTypeOK'
           /\ \A rest \in SUBSET Ids, copies \in SUBSET (Envelopes \X Records) :
                 /\ orch.pc = "drift" /\ orch' = [orch EXCEPT !.stale = rest] => OrchTypeOK'
                 /\ /\ \A c \in copies : FitsUnder(c[1], c[2])
                    /\ orch' = [orch EXCEPT !.pc = "drifted", !.stale = rest, !.copies = copies]
                    => OrchTypeOK'
<1>1. orch \in TickStates
  BY DEF OrchTypeOK, Idle
<1>2. orch' = Idle => OrchTypeOK'
  BY DEF OrchTypeOK, Idle
<1>3. orch' = [orch EXCEPT !.pc = "drift"] => OrchTypeOK'
  BY <1>1 DEF OrchTypeOK, TickStates
<1>4. ASSUME orch' = [orch EXCEPT !.pc = "drift", !.copies = {}] PROVE OrchTypeOK'
  <2>1. orch' \in TickStates /\ orch'.pc = "drift"
    BY <1>1, <1>4 DEF TickStates
  <2> QED BY <2>1 DEF OrchTypeOK
<1>5. ASSUME NEW rest \in SUBSET Ids, orch.pc = "drift", orch' = [orch EXCEPT !.stale = rest]
      PROVE  OrchTypeOK'
  <2>1. orch' \in TickStates /\ orch'.pc = "drift"
    BY <1>1, <1>5 DEF TickStates
  <2> QED BY <2>1 DEF OrchTypeOK
<1>6. ASSUME NEW rest \in SUBSET Ids, NEW copies \in SUBSET (Envelopes \X Records),
             \A c \in copies : FitsUnder(c[1], c[2]),
             orch' = [orch EXCEPT !.pc = "drifted", !.stale = rest, !.copies = copies]
      PROVE  OrchTypeOK'
  <2>1. orch' \in TickStates /\ orch'.copies = copies
    BY <1>1, <1>6 DEF TickStates
  <2> QED BY <2>1, <1>6 DEF OrchTypeOK
<1> QED BY <1>1, <1>2, <1>3, <1>4, <1>5, <1>6

LEMMA TickPromptsKeepsInv ==
    ASSUME ApprovalsInv, TickPrompts
    PROVE  ApprovalsInv'
<1> USE DEF ApprovalsInv, ApprovalsTypeOK
<1>0. OrchTypeOK /\ orch.pc = "prompt"
  BY DEF TickPrompts
<1>1. orch.decision \in Decisions /\ orch.goal \in Goals
  BY <1>0, OrchMoves DEF TickStates
<1> DEFINE r == Record(orch.decision, orch.goal)
           e == Envelope(orch.decision.id, orch.decision.snap)
           at == IF Existing(r, e) = {} THEN e ELSE CHOOSE x \in Existing(r, e) : TRUE
           kept == Put(r, e)[at]
<1>2. /\ Put(r, e) \in [Envelopes -> {Absent} \cup Records]
      /\ \A f \in Envelopes :
            \/ Put(r, e)[f] = store[f]
            \/ /\ Put(r, e)[f] \in Records /\ FitsUnder(f, Put(r, e)[f])
               /\ Put(r, e)[f].status = "pending" /\ Put(r, e)[f].decision = orch.decision
      /\ at \in Envelopes /\ kept \in Records
  BY <1>1, PutFits
<1>3. store' = Put(r, e)
  BY DEF TickPrompts
<1>4. asked' = asked \/ asked' = [asked EXCEPT ![kept.id] = {<<kept.decision.snap, kept.goal>>}]
  BY DEF TickPrompts
<1>5. cards' \subseteq cards \cup {<<at, kept.decision>>}
  BY DEF TickPrompts
<1>6. orch' = Idle \/ orch' = [orch EXCEPT !.pc = "drift"]
  BY DEF TickPrompts
<1> HIDE DEF r, e, at, kept
<1>7. StoreStep
  BY <1>2, <1>3 DEF StoreStep
<1>8. kept.id \in Ids /\ kept.decision \in Decisions /\ kept.decision.snap \in Snaps /\ kept.goal \in Goals
  BY <1>2 DEF Records, Decisions, Decision
<1>9. asked' \in [Ids -> SUBSET (Snaps \X Goals)]
  BY <1>4, <1>8 DEF HistoryTypeOK
<1>10. cards' \subseteq Envelopes \X Decisions
  BY <1>2, <1>5, <1>8 DEF HistoryTypeOK
<1>11. OrchTypeOK'
  BY <1>0, <1>6, OrchMoves
<1> QED BY <1>7, <1>9, <1>10, <1>11, QuietKeepsInv DEF TickPrompts, ExpiryTypeOK

LEMMA TickReadsStaleKeepsInv ==
    ASSUME ApprovalsInv, TickReadsStale
    PROVE  ApprovalsInv'
<1> USE DEF ApprovalsInv, ApprovalsTypeOK
<1>1. PICK a \in orch.stale :
         LET copies == {<<e, store[e]>> : e \in {x \in Of(a) : IsOpen(x)}}
             rest   == orch.stale \ {a}
         IN  orch' = IF copies # {} THEN [orch EXCEPT !.pc = "drifted", !.stale = rest, !.copies = copies]
                     ELSE IF rest = {} THEN Idle ELSE [orch EXCEPT !.stale = rest]
  BY DEF TickReadsStale
<1> DEFINE copies == {<<e, store[e]>> : e \in {x \in Of(a) : IsOpen(x)}}
           rest == orch.stale \ {a}
<1>2. \A x \in Of(a) : IsOpen(x) => x \in Envelopes /\ store[x] \in Records /\ FitsUnder(x, store[x])
  BY DEF StoreTypeOK, Of, IsOpen, Absent
<1>3. copies \in SUBSET (Envelopes \X Records) /\ \A c \in copies : FitsUnder(c[1], c[2])
  BY <1>2
<1>40. OrchTypeOK /\ orch.pc = "drift"
  BY DEF TickReadsStale
<1>4. rest \in SUBSET Ids
  BY <1>40, OrchMoves DEF TickStates
<1>5. \/ orch' = [orch EXCEPT !.pc = "drifted", !.stale = rest, !.copies = copies]
      \/ orch' = Idle \/ orch' = [orch EXCEPT !.stale = rest]
  BY <1>1
<1> HIDE DEF copies, rest
<1>6. OrchTypeOK'
  BY <1>3, <1>4, <1>40, <1>5, OrchMoves
<1>7. StoreStep
  BY StoreSame DEF TickReadsStale
<1> QED BY <1>6, <1>7, QuietKeepsInv DEF TickReadsStale, ExpiryTypeOK, HistoryTypeOK

LEMMA TickSupersedesStaleKeepsInv ==
    ASSUME ApprovalsInv, TickSupersedesStale
    PROVE  ApprovalsInv'
<1> USE DEF ApprovalsInv, ApprovalsTypeOK
<1>1. /\ orch.copies \in SUBSET (Envelopes \X Records)
      /\ \A c \in orch.copies : FitsUnder(c[1], c[2])
      /\ orch.pc = "drifted"
  BY OrchMoves DEF TickSupersedesStale, OrchTypeOK, TickStates
<1>2. StoreStep
  <2>1. store' = [e \in Envelopes |->
            IF \E c \in orch.copies : c[1] = e
            THEN [(CHOOSE c \in orch.copies : c[1] = e)[2] EXCEPT !.status = "superseded"]
            ELSE store[e]]
    BY DEF TickSupersedesStale
  <2>2. ASSUME NEW e \in Envelopes, \E c \in orch.copies : c[1] = e
        PROVE  store'[e] \in Records /\ FitsUnder(e, store'[e]) /\ store'[e].status = "superseded"
    <3>1. PICK c \in orch.copies : c = (CHOOSE x \in orch.copies : x[1] = e) /\ c[1] = e
      BY <2>2
    <3>2. c[2] \in Records /\ FitsUnder(e, c[2])
      BY <1>1, <3>1
    <3>3. store'[e] = [c[2] EXCEPT !.status = "superseded"]
      BY <2>1, <2>2, <3>1
    <3> QED BY <3>2, <3>3, CloseRecord DEF FitsUnder, Statuses
  <2>3. \A e \in Envelopes : (~\E c \in orch.copies : c[1] = e) => store'[e] = store[e]
    BY <2>1
  <2>4. \A e \in Envelopes : store'[e] \in {Absent} \cup Records
    BY <2>2, <2>3 DEF StoreTypeOK
  <2> QED BY <2>1, <2>2, <2>3, <2>4 DEF StoreStep
<1>3. OrchTypeOK'
  BY <1>1, OrchMoves DEF TickSupersedesStale
<1> QED BY <1>2, <1>3, QuietKeepsInv DEF TickSupersedesStale, ExpiryTypeOK, HistoryTypeOK

LEMMA RefreshKeepsInv ==
    ASSUME ApprovalsInv, NEW b \in BOOLEAN, RefreshSession(b) \/ BootstrapGoal(b) \/ Reconcile
    PROVE  ApprovalsInv'
<1> USE DEF ApprovalsInv, ApprovalsTypeOK
<1>1. CASE RefreshSession(b)
  <2>1. snap' \in Snaps /\ queue' \subseteq Requests /\ released' \in 0 .. snap'
    BY <1>1, BoundsAssumption DEF RefreshSession, Snaps
  <2>2. StoreStep
    BY <1>1, StoreSame DEF RefreshSession
  <2> QED BY <1>1, <2>1, <2>2, QuietKeepsInv DEF RefreshSession, OrchTypeOK, ExpiryTypeOK, HistoryTypeOK
<1>2. CASE BootstrapGoal(b)
  <2>1. StaleForGoal(goal + 1) \in SUBSET Open
    BY DEF StaleForGoal
  <2>2. StoreStep
    BY <1>2, <2>1, StoreSame, SupersedeStep DEF BootstrapGoal
  <2>3. goal' \in Goals
    BY <1>2, BoundsAssumption DEF BootstrapGoal, Goals
  <2> QED BY <1>2, <2>2, <2>3, QuietKeepsInv DEF BootstrapGoal, OrchTypeOK, ExpiryTypeOK, HistoryTypeOK
<1>3. CASE Reconcile
  <2> DEFINE old == SupersededBy(released) \cup DuplicateIds
             all == old \cup DuplicateActions(old)
  <2>1. all \in SUBSET Open /\ store' = Supersede(all)
    BY <1>3 DEF Reconcile, SupersededBy, DuplicateIds, DuplicateActions
  <2> HIDE DEF all
  <2>2. StoreStep
    BY <2>1, SupersedeStep
  <2> QED BY <1>3, <2>2, QuietKeepsInv DEF Reconcile, OrchTypeOK, ExpiryTypeOK, HistoryTypeOK
<1> QED BY <1>1, <1>2, <1>3

LEMMA ExpireKeepsInv ==
    ASSUME ApprovalsInv, ExpireWrites \/ \E e \in Envelopes : ExpireReads(e)
    PROVE  ApprovalsInv'
<1> USE DEF ApprovalsInv, ApprovalsTypeOK
<1>1. CASE ExpireWrites
  <2>1. expiry.env \in Envelopes /\ expiry.copy \in Records /\ FitsUnder(expiry.env, expiry.copy)
    BY <1>1 DEF ExpireWrites, ExpiryTypeOK, Idle
  <2> DEFINE r == [expiry.copy EXCEPT !.status = "expired"]
  <2>2. r \in Records /\ r.status = "expired" /\ FitsUnder(expiry.env, r)
    BY <2>1, CloseRecord DEF FitsUnder, Statuses
  <2>3. store' = [store EXCEPT ![expiry.env] = r] /\ expiry' = Idle
    BY <1>1 DEF ExpireWrites
  <2> HIDE DEF r
  <2>4. StoreStep
    BY <2>1, <2>2, <2>3 DEF StoreStep, StoreTypeOK
  <2>5. ExpiryTypeOK'
    BY <2>3 DEF ExpiryTypeOK, Idle
  <2> QED BY <1>1, <2>4, <2>5, QuietKeepsInv DEF ExpireWrites, OrchTypeOK, HistoryTypeOK
<1>2. ASSUME NEW e \in Envelopes, ExpireReads(e) PROVE ApprovalsInv'
  <2>1. store[e] \in Records /\ FitsUnder(e, store[e])
    BY <1>2 DEF ExpireReads, StoreTypeOK, IsOpen, Absent
  <2>2. ExpiryTypeOK'
    BY <1>2, <2>1 DEF ExpireReads, ExpiryTypeOK
  <2>3. StoreStep
    BY <1>2, StoreSame DEF ExpireReads
  <2> QED BY <1>2, <2>2, <2>3, QuietKeepsInv DEF ExpireReads, OrchTypeOK, HistoryTypeOK
<1> QED BY <1>1, <1>2

-----------------------------------------------------------------------------
(* The steps of an answer.                                                 *)

\* What everybody but the answer keeps under a step of the answer.
LEMMA AnswerFrame ==
    ASSUME ApprovalsInv, RuntimeStep \/ UNCHANGED runtimeVars,
           UNCHANGED <<asked, cards, released, queue, snap, goal>>,
           UNCHANGED <<orch, expiry>>,
           StoreTypeOK', AnswerTypeOK',
           responses' \subseteq Envelopes \X Answers \X ClientKeys,
           receipts' \subseteq (Answers \cup {"execute"}) \X Decisions,
           execs' \in [Decisions -> Nat], torn' \subseteq Decisions,
           AnswerInv'
    PROVE  ApprovalsInv'
<1>1. RuntimeInv'
  BY RuntimeKeepsInv DEF ApprovalsInv
<1>2. OrchTypeOK' /\ ExpiryTypeOK' /\ HistoryTypeOK'
  BY DEF ApprovalsInv, ApprovalsTypeOK, OrchTypeOK, ExpiryTypeOK, HistoryTypeOK
<1> QED BY <1>1, <1>2 DEF ApprovalsInv, ApprovalsTypeOK, RuntimeInv

\* An answered row keeps its answer, so what was said stays said.
LEMMA SaidStays ==
    ASSUME Settled, NEW a, NEW act \in Answers, RuntimeSays(a, act)
    PROVE  RuntimeSays(a, act)'
  BY DEF Settled, RuntimeSays, Verdict

LEMMA AgreementStays ==
    ASSUME AnswerIsTheRuntimes, StoreTypeOK, Settled, store' = store, execs' = execs
    PROVE  AnswerIsTheRuntimes'
<1>1. \A e \in Envelopes : store'[e].status \in {"approved", "rejected"} =>
          store'[e].id \in Requests /\ rows'[store'[e].id].status = store'[e].status
  BY DEF AnswerIsTheRuntimes, Settled
<1>2. \A d \in Decisions : execs'[d] > 0 => d.id \in Requests /\ rows'[d.id].status = "approved"
  BY DEF AnswerIsTheRuntimes, Settled
<1> QED BY <1>1, <1>2 DEF AnswerIsTheRuntimes

LEMMA ReceiptsStay ==
    ASSUME AnswerInv, Settled, NEW act \in Answers, NEW d \in Decisions, <<act, d>> \in receipts
    PROVE  RuntimeSays(IdOf(d), act)'
  BY SaidStays DEF AnswerInv

\* The answer's copy is a record that fits under its envelope.
LEMMA AnswerCopy ==
    ASSUME AnswerTypeOK, answer.pc # "idle"
    PROVE  /\ answer \in AnswerStates /\ answer.env \in Envelopes /\ answer.act \in Answers
           /\ answer.copy \in Records /\ FitsUnder(answer.env, answer.copy)
           /\ answer.copy.decision \in Decisions
           /\ answer.copy.id = IdOf(answer.copy.decision)
           /\ \A kind \in Answers \cup {"execute"} :
                 Receipt(kind) \in (Answers \cup {"execute"}) \X Decisions
<1>1. answer \in AnswerStates /\ FitsUnder(answer.env, answer.copy)
  BY DEF AnswerTypeOK, Idle
<1>2. answer.copy \in Records /\ answer.copy.decision \in Decisions
  BY <1>1 DEF AnswerStates, Records
<1> QED BY <1>1, <1>2 DEF AnswerStates, FitsUnder, Receipt

\* The answer moves on, or is over.
LEMMA AnswerMoves ==
    ASSUME AnswerTypeOK, NEW pc \in {"asked", "decided", "executed", "closed"},
           answer.pc # "idle", answer' = [answer EXCEPT !.pc = pc]
    PROVE  /\ AnswerTypeOK' /\ answer'.pc = pc /\ answer'.act = answer.act
           /\ answer'.copy = answer.copy /\ answer'.env = answer.env
<1>1. answer \in AnswerStates /\ FitsUnder(answer.env, answer.copy)
  BY AnswerCopy
<1>2. /\ answer' \in AnswerStates /\ answer'.pc = pc /\ answer'.act = answer.act
      /\ answer'.copy = answer.copy /\ answer'.env = answer.env
  BY <1>1 DEF AnswerStates
<1> QED BY <1>1, <1>2 DEF AnswerTypeOK

LEMMA AnswerOver == answer' = Idle => AnswerTypeOK' /\ answer'.pc = "idle"
  BY DEF AnswerTypeOK, Idle

LEMMA RespondKeepsInv ==
    ASSUME ApprovalsInv, NEW e \in Envelopes, NEW act \in Answers, NEW k \in ClientKeys,
           Respond(e, act, k)
    PROVE  ApprovalsInv'
<1> USE DEF ApprovalsInv, ApprovalsTypeOK
<1>1. Settled /\ StoreTypeOK' /\ UNCHANGED runtimeVars
  BY DEF Respond, Settled, StoreTypeOK, runtimeVars
<1>2. store[e] \in Records /\ FitsUnder(e, store[e])
  BY DEF Respond, StoreTypeOK, Absent
<1>3. \/ answer' = [pc |-> "decide", env |-> e, act |-> act, client |-> k, copy |-> store[e]]
      \/ answer' = answer
  BY DEF Respond
<1>4. AnswerTypeOK' /\ answer'.pc \notin {"asked", "decided", "executed"}
  <2>1. CASE answer' = answer
    BY <2>1 DEF AnswerTypeOK, Respond
  <2>2. CASE answer' = [pc |-> "decide", env |-> e, act |-> act, client |-> k, copy |-> store[e]]
    <3>1. answer' \in AnswerStates /\ answer'.pc = "decide" /\ answer'.env = e /\ answer'.copy = store[e]
      BY <2>2, <1>2 DEF AnswerStates
    <3> QED BY <3>1, <1>2 DEF AnswerTypeOK
  <2> QED BY <1>3, <2>1, <2>2
<1>5. AnswerIsTheRuntimes'
  BY <1>1, AgreementStays DEF AnswerInv, Respond
<1>6. AnswerInv'
  BY <1>1, <1>4, <1>5 DEF AnswerInv, RuntimeSays, Respond, runtimeVars
<1>7. responses' \subseteq Envelopes \X Answers \X ClientKeys
  BY DEF Respond, HistoryTypeOK
<1> QED BY <1>1, <1>4, <1>6, <1>7, AnswerFrame DEF Respond, HistoryTypeOK

LEMMA AnswerDecidesKeepsInv ==
    ASSUME ApprovalsInv, AnswerDecides
    PROVE  ApprovalsInv'
<1> USE DEF ApprovalsInv, ApprovalsTypeOK
<1>0. answer.pc = "decide" /\ AnswerTypeOK
  BY DEF AnswerDecides
<1>1. /\ answer.copy.id = IdOf(answer.copy.decision) /\ answer.copy.decision \in Decisions
      /\ answer.act \in Answers
  BY <1>0, AnswerCopy
<1>2. StoreTypeOK' /\ HistoryTypeOK'
  BY DEF AnswerDecides, StoreTypeOK, HistoryTypeOK
<1>3. CASE Receipt(answer.act) \in receipts
  <2>1. answer' = [answer EXCEPT !.pc = "decided"] /\ UNCHANGED runtimeVars
    BY <1>3 DEF AnswerDecides
  <2>2. Settled
    BY <2>1 DEF Settled, runtimeVars
  <2>3. /\ AnswerTypeOK' /\ answer'.pc = "decided" /\ answer'.act = answer.act
        /\ answer'.copy = answer.copy
    BY <1>0, <2>1, AnswerMoves
  <2>4. RuntimeSays(answer.copy.id, answer.act)
    BY <1>1, <1>3 DEF AnswerInv, Receipt
  <2>5. RuntimeSays(answer.copy.id, answer.act)'
    BY <2>1, <2>3, <2>4 DEF RuntimeSays, runtimeVars
  <2>6. AnswerIsTheRuntimes'
    BY <2>2, AgreementStays DEF AnswerInv, AnswerDecides
  <2>7. AnswerInv'
    BY <2>1, <2>3, <2>5, <2>6 DEF AnswerInv, AnswerDecides, RuntimeSays, runtimeVars
  <2> QED BY <1>2, <2>1, <2>3, <2>7, AnswerFrame DEF AnswerDecides, HistoryTypeOK
<1>4. CASE Receipt(answer.act) \notin receipts /\ answer.copy.id \in Requests
  <2>1. Decide("watchdog", answer.copy.id, answer.act) /\ answer' = [answer EXCEPT !.pc = "asked"]
    BY <1>4 DEF AnswerDecides
  <2>2. /\ RuntimeInv' /\ Settled
        /\ calls'["watchdog"].pc # "idle" =>
              calls'["watchdog"].req = answer.copy.id /\ calls'["watchdog"].decision = answer.act
    BY <1>1, <1>4, <2>1, DecideKeepsInv, CallersAssumption
  <2>3. /\ AnswerTypeOK' /\ answer'.pc = "asked" /\ answer'.act = answer.act
        /\ answer'.copy = answer.copy
    BY <1>0, <2>1, AnswerMoves
  <2>4. AnswerIsTheRuntimes'
    BY <2>2, AgreementStays DEF AnswerInv, AnswerDecides
  <2>5. \A act \in Answers, d \in Decisions :
           <<act, d>> \in receipts' => RuntimeSays(IdOf(d), act)'
    BY <2>2, ReceiptsStay DEF AnswerDecides
  <2>6. AnswerInv'
    BY <1>4, <2>2, <2>3, <2>4, <2>5 DEF AnswerInv
  <2>7. RuntimeStep
    BY <1>1, <1>4, <2>1, CallersAssumption DEF RuntimeStep
  <2> QED BY <1>2, <2>3, <2>6, <2>7, AnswerFrame DEF AnswerDecides, HistoryTypeOK
<1>5. CASE Receipt(answer.act) \notin receipts /\ answer.copy.id \notin Requests
  <2>1. answer' = Idle /\ UNCHANGED runtimeVars
    BY <1>5 DEF AnswerDecides
  <2>2. Settled
    BY <2>1 DEF Settled, runtimeVars
  <2>3. AnswerTypeOK' /\ answer'.pc = "idle"
    BY <2>1, AnswerOver
  <2>4. AnswerIsTheRuntimes'
    BY <2>2, AgreementStays DEF AnswerInv, AnswerDecides
  <2>5. AnswerInv'
    BY <2>1, <2>3, <2>4 DEF AnswerInv, AnswerDecides, RuntimeSays, runtimeVars
  <2> QED BY <1>2, <2>1, <2>3, <2>5, AnswerFrame DEF AnswerDecides, HistoryTypeOK
<1> QED BY <1>3, <1>4, <1>5

\* Success of the runtime means that its row says so.
LEMMA AnswerDecidedKeepsInv ==
    ASSUME ApprovalsInv, AnswerDecided \/ AnswerLost
    PROVE  ApprovalsInv'
<1> USE DEF ApprovalsInv, ApprovalsTypeOK
<1>0. answer.pc = "asked" /\ AnswerTypeOK /\ calls["watchdog"].pc = "done" /\ Leave("watchdog")
  BY DEF AnswerDecided, AnswerLost
<1>1. /\ answer.copy.id = IdOf(answer.copy.decision) /\ answer.copy.decision \in Decisions
      /\ answer.act \in Answers /\ answer.copy.id \in Requests
      /\ Receipt(answer.act) \in (Answers \cup {"execute"}) \X Decisions
      /\ calls["watchdog"].req = answer.copy.id /\ calls["watchdog"].decision = answer.act
  BY <1>0, AnswerCopy DEF AnswerInv
<1>2. RuntimeStep
  BY <1>0, CallersAssumption DEF RuntimeStep
<1>3. rows' = rows /\ Settled
  BY <1>0 DEF Leave, Settled
<1>4. StoreTypeOK' /\ execs' = execs /\ store' = store
  BY DEF AnswerDecided, AnswerLost, StoreTypeOK
<1>5. AnswerIsTheRuntimes'
  BY <1>3, <1>4, AgreementStays DEF AnswerInv
<1>6. CASE answer' = Idle /\ receipts' = receipts
  <2>1. AnswerTypeOK' /\ answer'.pc = "idle"
    BY <1>6, AnswerOver
  <2>2. AnswerInv'
    BY <1>3, <1>5, <1>6, <2>1 DEF AnswerInv, RuntimeSays
  <2> QED BY <1>2, <1>4, <1>6, <2>1, <2>2, AnswerFrame DEF AnswerDecided, AnswerLost, HistoryTypeOK
<1>7. CASE /\ AnswerDecided /\ calls["watchdog"].ok
           /\ receipts' = receipts \cup {Receipt(answer.act)}
           /\ answer' = [answer EXCEPT !.pc = "decided"]
  <2>1. RuntimeSays(answer.copy.id, answer.act)
    BY <1>0, <1>1, <1>7, CallersAssumption DEF RuntimeInv, CallOK, RuntimeSays
  <2>2. /\ AnswerTypeOK' /\ answer'.pc = "decided" /\ answer'.act = answer.act
        /\ answer'.copy = answer.copy
    BY <1>0, <1>7, AnswerMoves
  <2>3. \A act \in Answers, d \in Decisions : <<act, d>> \in receipts' => RuntimeSays(IdOf(d), act)
    BY <1>1, <1>7, <2>1 DEF AnswerInv, Receipt
  <2>4. AnswerInv'
    BY <1>3, <1>5, <2>1, <2>2, <2>3 DEF AnswerInv, RuntimeSays
  <2>5. receipts' \subseteq (Answers \cup {"execute"}) \X Decisions
    BY <1>1, <1>7 DEF HistoryTypeOK
  <2> QED BY <1>2, <1>4, <1>7, <2>2, <2>4, <2>5, AnswerFrame DEF AnswerDecided, HistoryTypeOK
<1> QED BY <1>6, <1>7 DEF AnswerDecided, AnswerLost, Believed

LEMMA AnswerExecutesKeepsInv ==
    ASSUME ApprovalsInv, AnswerExecutes
    PROVE  ApprovalsInv'
<1> USE DEF ApprovalsInv, ApprovalsTypeOK
<1>0. /\ answer.pc = "decided" /\ answer.act # "reject" /\ AnswerTypeOK
      /\ answer' = [answer EXCEPT !.pc = "executed"] /\ UNCHANGED runtimeVars
      /\ store' = store /\ StoreTypeOK'
      /\ receipts' = receipts \cup {Receipt("execute")}
  BY DEF AnswerExecutes, StoreTypeOK
<1> DEFINE d == answer.copy.decision
<1>1. /\ answer.copy.id = IdOf(d) /\ d \in Decisions /\ answer.act = "approve"
      /\ Receipt("execute") \in (Answers \cup {"execute"}) \X Decisions
  BY <1>0, AnswerCopy DEF Answers
<1>2. RuntimeSays(answer.copy.id, "approve")
  BY <1>0, <1>1 DEF AnswerInv
<1>3. d.id \in Requests /\ rows[d.id].status = "approved"
  <2>1. d.snap \in Snaps
    BY <1>1 DEF Decisions, Decision
  <2>2. d.id # NoId
    BY <1>1, <1>2, <2>1, IdsAssumption DEF IdOf, RuntimeSays
  <2> QED BY <1>1, <1>2, <2>2 DEF IdOf, RuntimeSays, Verdict
<1>4. execs' = execs \/ execs' = [execs EXCEPT ![d] = @ + 1]
  <2>1. CASE Receipt("execute") \in receipts
    BY <2>1 DEF AnswerExecutes, HistoryTypeOK
  <2>2. CASE Receipt("execute") \notin receipts
    BY <2>2 DEF AnswerExecutes
  <2> QED BY <2>1, <2>2
<1> HIDE DEF d
<1>5. execs' \in [Decisions -> Nat] /\ \A c \in Decisions \ {d} : execs'[c] = execs[c]
  BY <1>1, <1>4 DEF HistoryTypeOK
<1>6. /\ AnswerTypeOK' /\ answer'.pc = "executed" /\ answer'.act = answer.act
      /\ answer'.copy = answer.copy
  BY <1>0, AnswerMoves
<1>7. AnswerIsTheRuntimes'
  <2>1. rows' = rows
    BY <1>0 DEF runtimeVars
  <2>2. \A c \in Decisions : execs'[c] > 0 => c.id \in Requests /\ rows[c.id].status = "approved"
    BY <1>3, <1>5 DEF AnswerInv, AnswerIsTheRuntimes
  <2> QED BY <1>0, <2>1, <2>2 DEF AnswerInv, AnswerIsTheRuntimes
<1>8. AnswerInv'
  <2>1. rows' = rows
    BY <1>0 DEF runtimeVars
  <2>2. \A act \in Answers, c \in Decisions : <<act, c>> \in receipts' => <<act, c>> \in receipts
    BY <1>0 DEF Receipt, Answers
  <2> QED BY <1>1, <1>2, <1>6, <1>7, <2>1, <2>2 DEF AnswerInv, RuntimeSays
<1>9. receipts' \subseteq (Answers \cup {"execute"}) \X Decisions
  BY <1>0, <1>1 DEF HistoryTypeOK
<1> QED BY <1>0, <1>5, <1>6, <1>8, <1>9, AnswerFrame DEF AnswerExecutes, HistoryTypeOK

\* The answer fails, is stored, or dies with the watchdog: nobody holds a copy.
LEMMA AnswerEndsKeepsInv ==
    ASSUME ApprovalsInv, AnswerExecutionFails \/ AnswerStored
    PROVE  ApprovalsInv'
<1> USE DEF ApprovalsInv, ApprovalsTypeOK
<1>0. /\ answer.pc # "idle" /\ AnswerTypeOK /\ answer' = Idle /\ UNCHANGED runtimeVars
      /\ store' = store /\ StoreTypeOK' /\ execs' = execs /\ receipts' = receipts
  BY DEF AnswerExecutionFails, AnswerStored, StoreTypeOK
<1>1. rows' = rows /\ Settled
  BY <1>0 DEF runtimeVars, Settled
<1>2. AnswerTypeOK' /\ answer'.pc = "idle"
  BY <1>0, AnswerOver
<1>3. AnswerIsTheRuntimes'
  BY <1>0, <1>1, AgreementStays DEF AnswerInv
<1>4. AnswerInv'
  BY <1>0, <1>1, <1>2, <1>3 DEF AnswerInv, RuntimeSays
<1>5. responses' \subseteq Envelopes \X Answers \X ClientKeys
  BY <1>0, AnswerCopy DEF AnswerExecutionFails, AnswerStored, HistoryTypeOK, Key, AnswerStates
<1> QED BY <1>0, <1>2, <1>4, <1>5, AnswerFrame DEF AnswerExecutionFails, AnswerStored, HistoryTypeOK

\* The record is closed as the runtime's row was.
LEMMA AnswerClosesKeepsInv ==
    ASSUME ApprovalsInv, AnswerCloses
    PROVE  ApprovalsInv'
<1> USE DEF ApprovalsInv, ApprovalsTypeOK
<1> DEFINE s == IF answer.act = "reject" THEN "rejected" ELSE "approved"
           r == [answer.copy EXCEPT !.status = s]
<1>0. /\ answer.pc \in {"decided", "executed"} /\ AnswerTypeOK
      /\ answer' = [answer EXCEPT !.pc = "closed"] /\ UNCHANGED runtimeVars
      /\ store' = [store EXCEPT ![answer.env] = r]
      /\ execs' = execs /\ receipts' = receipts
  BY DEF AnswerCloses
<1>1. /\ answer.copy \in Records /\ FitsUnder(answer.env, answer.copy) /\ answer.env \in Envelopes
      /\ answer.act \in Answers
  BY <1>0, AnswerCopy
<1>2. r \in Records /\ r.status = s /\ r.id = answer.copy.id /\ FitsUnder(answer.env, r)
  BY <1>1, CloseRecord DEF FitsUnder, Statuses
<1>3. r.id \in Requests /\ rows[r.id].status = s
  BY <1>0, <1>1, <1>2 DEF AnswerInv, RuntimeSays, Verdict, Answers
<1> HIDE DEF r, s
<1>4. /\ store' \in [Envelopes -> {Absent} \cup Records] /\ store'[answer.env] = r
      /\ \A e \in Envelopes \ {answer.env} : store'[e] = store[e]
  BY <1>0, <1>1, <1>2 DEF StoreTypeOK
<1>5. StoreTypeOK'
  BY <1>2, <1>4 DEF StoreTypeOK
<1>6. AnswerTypeOK' /\ answer'.pc = "closed"
  BY <1>0, AnswerMoves
<1>7. rows' = rows
  BY <1>0 DEF runtimeVars
<1>8. AnswerIsTheRuntimes'
  BY <1>0, <1>2, <1>3, <1>4, <1>7 DEF AnswerInv, AnswerIsTheRuntimes
<1>9. AnswerInv'
  BY <1>0, <1>6, <1>7, <1>8 DEF AnswerInv, RuntimeSays
<1> QED BY <1>0, <1>5, <1>6, <1>9, AnswerFrame DEF AnswerCloses, HistoryTypeOK

\* A crash may cut an execution off before its receipt; it was approved.
LEMMA CrashKeepsInv ==
    ASSUME ApprovalsInv, CrashWatchdog
    PROVE  ApprovalsInv'
<1> USE DEF ApprovalsInv, ApprovalsTypeOK
<1>0. /\ orch' = Idle /\ expiry' = Idle /\ answer' = Idle /\ UNCHANGED runtimeVars
      /\ store' = store /\ StoreTypeOK' /\ receipts' = receipts
  BY DEF CrashWatchdog, StoreTypeOK
<1>1. rows' = rows /\ Settled
  BY <1>0 DEF runtimeVars, Settled
<1>2. OrchTypeOK' /\ ExpiryTypeOK' /\ AnswerTypeOK' /\ answer'.pc = "idle"
  BY <1>0, AnswerOver DEF OrchTypeOK, ExpiryTypeOK, Idle
<1> DEFINE d == answer.copy.decision
<1>3. \/ execs' = execs /\ torn' = torn
      \/ /\ answer.pc = "decided" /\ answer.act # "reject"
         /\ execs' = [execs EXCEPT ![d] = @ + 1] /\ torn' = torn \cup {d}
  BY DEF CrashWatchdog
<1>4. answer.pc = "decided" /\ answer.act # "reject" =>
         d \in Decisions /\ d.id \in Requests /\ rows[d.id].status = "approved"
  <2> SUFFICES ASSUME answer.pc = "decided", answer.act # "reject"
               PROVE  d \in Decisions /\ d.id \in Requests /\ rows[d.id].status = "approved"
    OBVIOUS
  <2>1. answer.copy.id = IdOf(d) /\ d \in Decisions /\ answer.act = "approve"
    BY AnswerCopy DEF Answers
  <2>2. RuntimeSays(answer.copy.id, "approve")
    BY <2>1 DEF AnswerInv
  <2>3. d.snap \in Snaps
    BY <2>1 DEF Decisions, Decision
  <2>4. d.id # NoId
    BY <2>1, <2>2, <2>3, IdsAssumption DEF IdOf, RuntimeSays
  <2> QED BY <2>1, <2>2, <2>4 DEF IdOf, RuntimeSays, Verdict
<1> HIDE DEF d
<1>5. /\ execs' \in [Decisions -> Nat] /\ torn' \subseteq Decisions
      /\ \A c \in Decisions : execs'[c] = execs[c] \/
            (c = d /\ d.id \in Requests /\ rows[d.id].status = "approved")
  BY <1>3, <1>4 DEF HistoryTypeOK
<1>6. AnswerIsTheRuntimes'
  BY <1>0, <1>1, <1>5 DEF AnswerInv, AnswerIsTheRuntimes
<1>7. AnswerInv'
  BY <1>0, <1>1, <1>2, <1>6 DEF AnswerInv, RuntimeSays
<1>8. RuntimeInv'
  BY <1>0, RuntimeKeepsInv
<1>9. HistoryTypeOK'
  BY <1>5 DEF CrashWatchdog, HistoryTypeOK
<1> QED BY <1>0, <1>2, <1>7, <1>8, <1>9 DEF RuntimeInv, CrashWatchdog

-----------------------------------------------------------------------------
(* The control agent's steps, and the theorems.                            *)

\* While the watchdog waits for its answer, no step of the control agent starts
\* another call of the watchdog.
LEMMA RuntimeNextKeepsInv ==
    ASSUME ApprovalsInv, RuntimeNext
    PROVE  ApprovalsInv'
<1> USE DEF ApprovalsInv, ApprovalsTypeOK
<1>1. RuntimeStep
  BY CallersAssumption DEF RuntimeNext, RuntimeStep
<1>2. Settled /\ RuntimeInv'
  BY <1>1, RuntimeKeepsInv
<1>3. /\ store' = store /\ execs' = execs /\ receipts' = receipts /\ answer' = answer
      /\ StoreTypeOK' /\ OrchTypeOK' /\ ExpiryTypeOK' /\ AnswerTypeOK' /\ HistoryTypeOK'
  BY DEF RuntimeNext, canonVars, StoreTypeOK, OrchTypeOK, ExpiryTypeOK, AnswerTypeOK, HistoryTypeOK
<1>4. AnswerIsTheRuntimes'
  BY <1>2, <1>3, AgreementStays DEF AnswerInv
<1>5. answer.pc = "asked" => SameCall("watchdog")
  <2>1. CASE \E r \in Requests : CodexStep(r)
    BY <2>1, CodexKeepsInv, CallersAssumption
  <2>2. CASE \E c \in Callers : EndpointStep(c)
    BY <2>2, RepliedKeepsInv, ReplyFailsKeepsInv, CallersAssumption DEF EndpointStep
  <2>3. CASE RestartRuntime
    <3>1. calls["watchdog"] \in Calls
      BY CallersAssumption DEF RuntimeTypeOK
    <3>2. calls'["watchdog"] = IF calls["watchdog"].pc = "sending"
                               THEN Ended("watchdog", calls["watchdog"]) ELSE calls["watchdog"]
      BY <2>3, CallersAssumption DEF RestartRuntime
    <3> QED BY <3>1, <3>2, EndedCall DEF SameCall
  <2>4. CASE \E c \in Callers \ {"watchdog"}, r \in Requests, d \in Answers : Decide(c, r, d)
    <3>1. calls'["watchdog"] = calls["watchdog"]
      BY <2>4, DecideKeepsInv, CallersAssumption
    <3> QED BY <3>1 DEF SameCall
  <2> QED BY <2>1, <2>2, <2>3, <2>4 DEF RuntimeNext
<1>6. answer.pc \in {"asked", "decided", "executed"} =>
         answer.copy.id \in Requests /\ answer.act \in Answers
  BY AnswerCopy DEF AnswerInv, RuntimeSays
<1>7. answer.pc \in {"decided", "executed"} => RuntimeSays(answer.copy.id, answer.act)'
  BY <1>2, <1>3, <1>6, SaidStays DEF AnswerInv
<1>8. \A act \in Answers, d \in Decisions :
         <<act, d>> \in receipts' => RuntimeSays(IdOf(d), act)'
  BY <1>2, <1>3, ReceiptsStay
<1>9. AnswerInv'
  BY <1>3, <1>4, <1>5, <1>7, <1>8 DEF AnswerInv, SameCall
<1> QED BY <1>2, <1>3, <1>9 DEF RuntimeNext, canonVars, RuntimeInv

LEMMA ApprovalsInitInv == Init => ApprovalsInv
<1> SUFFICES ASSUME Init PROVE ApprovalsInv
  OBVIOUS
<1>1. RuntimeInv
  BY RuntimeInitInv DEF Init
<1>2. StoreTypeOK /\ OrchTypeOK /\ ExpiryTypeOK /\ AnswerTypeOK
  BY DEF Init, CanonInit, StoreTypeOK, OrchTypeOK, ExpiryTypeOK, AnswerTypeOK, Absent, Idle
<1>3. HistoryTypeOK
  BY DEF Init, CanonInit, HistoryTypeOK
<1>4. queue \subseteq Requests /\ snap \in Snaps /\ goal \in Goals /\ released \in 0 .. snap
  BY BoundsAssumption DEF Init, CanonInit, Snaps, Goals
<1>5. AnswerInv
  <2>1. answer.pc = "idle" /\ receipts = {}
    BY DEF Init, CanonInit, Idle
  <2>2. AnswerIsTheRuntimes
    BY DEF Init, CanonInit, AnswerIsTheRuntimes, Absent
  <2> QED BY <2>1, <2>2 DEF AnswerInv
<1> QED BY <1>1, <1>2, <1>3, <1>4, <1>5 DEF ApprovalsInv, ApprovalsTypeOK, RuntimeInv

LEMMA ApprovalsNextInv ==
    ASSUME ApprovalsInv, [Next]_vars
    PROVE  ApprovalsInv'
<1>1. CASE UNCHANGED vars
  <2>1. UNCHANGED runtimeVars /\ UNCHANGED canonVars
    BY <1>1 DEF vars
  <2>2. RuntimeInv'
    BY <2>1, RuntimeKeepsInv DEF ApprovalsInv
  <2> QED BY <2>1, <2>2 DEF canonVars, runtimeVars, ApprovalsInv, ApprovalsTypeOK, RuntimeInv,
             StoreTypeOK, OrchTypeOK, ExpiryTypeOK, AnswerTypeOK, HistoryTypeOK,
             AnswerInv, AnswerIsTheRuntimes, RuntimeSays
<1>2. CASE Next
  BY <1>2, RuntimeNextKeepsInv, TickDecidesKeepsInv, TickReleasesKeepsInv, TickPromptsKeepsInv,
     TickReadsStaleKeepsInv, TickSupersedesStaleKeepsInv, RefreshKeepsInv, ExpireKeepsInv,
     RespondKeepsInv, AnswerDecidesKeepsInv, AnswerDecidedKeepsInv, AnswerExecutesKeepsInv,
     AnswerEndsKeepsInv, AnswerClosesKeepsInv, CrashKeepsInv
     DEF Next, RespondActs
<1> QED BY <1>1, <1>2

-----------------------------------------------------------------------------
(* The action of an approval is executed once.                             *)

\* Envelopes of runtime requests.  The first record put under one fixes the
\* decision: another decision for the same request is taken only while every
\* record of it belongs to the newest snapshot.
PromptEnvelopes == {<<"id", a>> : a \in Prompting}

Kept(e, d) == e \in PromptEnvelopes => store[e].status # "absent" /\ store[e].decision = d

\* Whoever holds a copy of a record, or executed one, means the decision that is
\* in the store; so does the tick that is about to prompt.
AnswerHolds == answer.pc # "idle" => Kept(answer.env, answer.copy.decision)
ExpiryHolds == expiry.pc # "idle" => Kept(expiry.env, expiry.copy.decision)
OrchHolds ==
    /\ orch.pc = "drifted" => \A c \in orch.copies : Kept(c[1], c[2].decision)
    /\ orch.pc = "prompt" =>
          LET e == Envelope(orch.decision.id, orch.decision.snap)
          IN  e \in PromptEnvelopes /\ store[e].status # "absent" => store[e].decision = orch.decision
ExecsHold == \A d \in Decisions : execs[d] > 0 => Kept(<<"id", d.id>>, d)

OneDecision == AnswerHolds /\ ExpiryHolds /\ OrchHolds /\ ExecsHold

\* An execution has left its receipt, but for those a crash cut off.
ReceiptsCount ==
    \A d \in Decisions :
        execs[d] <= (IF <<"execute", d>> \in receipts THEN 1 ELSE 0) + (IF d \in torn THEN faults ELSE 0)

OnceInv == OneDecision /\ ReceiptsCount /\ faults \in Nat

\* No step changes the decision of such a record, or removes it.
DecisionsStay ==
    \A e \in PromptEnvelopes : store[e].status # "absent" =>
        store'[e].status # "absent" /\ store'[e].decision = store[e].decision

LEMMA KeptStays ==
    ASSUME DecisionsStay, NEW e, NEW d, Kept(e, d)
    PROVE  Kept(e, d)'
  BY DEF DecisionsStay, Kept

\* A record whose id is a request's is under that request's envelope.
LEMMA PromptEnvelope ==
    ASSUME NEW e \in Envelopes, NEW r \in Records, FitsUnder(e, r), r.id \in Requests
    PROVE  /\ r.id \in Prompting /\ e = <<"id", r.id>> /\ e \in PromptEnvelopes
           /\ r.decision.id = r.id
<1>1. /\ r.id \in Ids /\ r.decision \in Decisions /\ r.id = IdUnder(e) /\ r.id = IdOf(r.decision)
  BY DEF Records, FitsUnder
<1>2. r.id \in Prompting
  BY <1>1, IdsAssumption DEF Ids
<1>3. r.decision.id = r.id
  <2>1. r.decision.snap \in Snaps
    BY <1>1 DEF Decisions, Decision
  <2> QED BY <1>1, <2>1, IdsAssumption DEF IdOf
<1>4. e = <<"id", r.id>>
  <2>1. CASE \E s \in Snaps : e = Envelope(NoId, s)
    <3>1. PICK s \in Snaps : e = <<"fields", s>>
      BY <2>1 DEF Envelope
    <3>2. IdUnder(e) = MadeUp(s)
      BY <3>1 DEF IdUnder
    <3> QED BY <1>1, <3>2, IdsAssumption
  <2>2. CASE \E a \in Ids : e = Envelope(a, 1)
    <3>1. PICK a \in Ids : e = <<"id", a>>
      <4>1. NoId \notin Ids
        BY IdsAssumption, PromptingAssumption DEF Ids, MadeUp, NoId
      <4> QED BY <2>2, <4>1 DEF Envelope
    <3>2. IdUnder(e) = a
      BY <3>1 DEF IdUnder
    <3> QED BY <1>1, <3>1, <3>2
  <2> QED BY <2>1, <2>2 DEF Envelopes
<1> QED BY <1>2, <1>3, <1>4 DEF PromptEnvelopes

\* Such an envelope is of the right kind, and only its own record has its id.
LEMMA PromptEnvelopeIs ==
    ASSUME StoreTypeOK, NEW a \in Prompting
    PROVE  /\ <<"id", a>> \in Envelopes
           /\ \A s : Envelope(a, s) = <<"id", a>>
           /\ \A f \in Of(a) : f = <<"id", a>>
<1>1. a \in Ids /\ a \in Requests /\ a # NoId
  BY PromptingAssumption, IdsAssumption DEF Ids
<1>2. \A s : Envelope(a, s) = <<"id", a>>
  BY <1>1 DEF Envelope
<1>3. <<"id", a>> \in Envelopes
  BY <1>1, <1>2 DEF Envelopes
<1>4. ASSUME NEW f \in Of(a) PROVE f = <<"id", a>>
  <2>1. f \in Envelopes /\ store[f] \in Records /\ FitsUnder(f, store[f]) /\ store[f].id = a
    BY <1>4 DEF Of, StoreTypeOK, Absent
  <2> QED BY <2>1, <1>1, PromptEnvelope
<1> QED BY <1>2, <1>3, <1>4

LEMMA SameStays == store' = store => DecisionsStay
  BY DEF DecisionsStay

LEMMA SupersedeStays ==
    ASSUME StoreTypeOK, NEW E \in SUBSET Open, store' = Supersede(E)
    PROVE  DecisionsStay
<1>1. \A e \in E : e \in Envelopes /\ store[e] \in Records
  BY DEF StoreTypeOK, Open, IsOpen, Absent
<1>2. \A e \in E : /\ Closed(e, "superseded").status = "superseded"
                   /\ Closed(e, "superseded").decision = store[e].decision
  BY <1>1, CloseRecord DEF Closed, Statuses
<1>3. \A e \in Envelopes : store'[e] = IF e \in E THEN Closed(e, "superseded") ELSE store[e]
  BY DEF Supersede
<1>4. PromptEnvelopes \subseteq Envelopes
  BY PromptEnvelopeIs DEF PromptEnvelopes
<1> QED BY <1>2, <1>3, <1>4 DEF DecisionsStay

\* The holders keep what they held when the decisions stay.
LEMMA HoldersStay ==
    ASSUME OneDecision, DecisionsStay
    PROVE  /\ \/ answer' = answer
              \/ answer'.pc = "idle"
              \/ answer.pc # "idle" /\ answer'.env = answer.env /\ answer'.copy = answer.copy
              => AnswerHolds'
           /\ expiry' = expiry \/ expiry'.pc = "idle" => ExpiryHolds'
           /\ orch'.pc \notin {"prompt", "drifted"} => OrchHolds'
           /\ orch' = orch /\ store' = store => OrchHolds'
           /\ orch' = orch /\ orch.pc # "prompt" => OrchHolds'
           /\ execs' = execs => ExecsHold'
<1> USE KeptStays DEF OneDecision
<1>1. \/ answer' = answer
      \/ answer'.pc = "idle"
      \/ answer.pc # "idle" /\ answer'.env = answer.env /\ answer'.copy = answer.copy
      => AnswerHolds'
  BY DEF AnswerHolds
<1>2. expiry' = expiry \/ expiry'.pc = "idle" => ExpiryHolds'
  BY DEF ExpiryHolds
<1>3. orch'.pc \notin {"prompt", "drifted"} => OrchHolds'
  BY DEF OrchHolds
<1>4. orch' = orch /\ store' = store => OrchHolds'
  BY DEF OrchHolds, Kept
<1>5. orch' = orch /\ orch.pc # "prompt" => OrchHolds'
  BY DEF OrchHolds
<1>6. execs' = execs => ExecsHold'
  BY DEF ExecsHold
<1> QED BY <1>1, <1>2, <1>3, <1>4, <1>5, <1>6

\* A tick about to prompt stays right while decisions stay and no record appears.
LEMMA PromptStays ==
    ASSUME OneDecision, DecisionsStay, orch' = orch,
           \A e \in PromptEnvelopes : store'[e].status # "absent" => store[e].status # "absent"
    PROVE  OrchHolds'
<1>1. orch.pc = "drifted" => \A c \in orch.copies : Kept(c[1], c[2].decision)'
  BY KeptStays DEF OneDecision, OrchHolds
<1>2. orch.pc = "prompt" =>
          LET e == Envelope(orch.decision.id, orch.decision.snap)
          IN  e \in PromptEnvelopes /\ store'[e].status # "absent" => store'[e].decision = orch.decision
  BY DEF OneDecision, OrchHolds, DecisionsStay
<1> QED BY <1>1, <1>2 DEF OrchHolds

\* Superseding adds no record.
LEMMA SupersedeAddsNone ==
    ASSUME StoreTypeOK, NEW E \in SUBSET Open, store' = Supersede(E)
    PROVE  \A e \in PromptEnvelopes : store'[e].status # "absent" => store[e].status # "absent"
<1>1. PromptEnvelopes \subseteq Envelopes
  BY PromptEnvelopeIs DEF PromptEnvelopes
<1> QED BY <1>1 DEF Supersede, Open, IsOpen

\* A step that executes nothing keeps the count.
LEMMA CountStays ==
    ASSUME OnceInv, HistoryTypeOK, execs' = execs, torn' = torn, receipts \subseteq receipts',
           faults' = faults \/ faults' = faults + 1
    PROVE  ReceiptsCount' /\ faults' \in Nat
<1>1. faults \in Nat /\ faults' \in Nat /\ faults <= faults'
  BY DEF OnceInv
<1>2. ASSUME NEW d \in Decisions
      PROVE  execs'[d] <= (IF <<"execute", d>> \in receipts' THEN 1 ELSE 0) + (IF d \in torn' THEN faults' ELSE 0)
  <2>1. execs[d] \in Nat
    BY DEF HistoryTypeOK
  <2>2. execs[d] <= (IF <<"execute", d>> \in receipts THEN 1 ELSE 0) + (IF d \in torn THEN faults ELSE 0)
    BY DEF OnceInv, ReceiptsCount
  <2> QED BY <1>1, <2>1, <2>2
<1> QED BY <1>1, <1>2 DEF ReceiptsCount

\* The tick decides for a request only what its record says, if it has one.
LEMMA TickDecidesOnce ==
    ASSUME ApprovalsInv, OnceInv, NEW asks \in BOOLEAN, NEW aged \in BOOLEAN, TickDecides(asks, aged)
    PROVE  OnceInv'
<1> USE DEF ApprovalsInv, ApprovalsTypeOK
<1>0. /\ store' = store /\ expiry' = expiry /\ answer' = answer /\ execs' = execs
      /\ torn' = torn /\ receipts' = receipts /\ faults' = faults
  BY DEF TickDecides
<1>1. PICK id \in Trusted(Overlay(aged), aged) \cup {NoId} :
         orch'.decision = Decision(id, snap) /\ orch'.pc \in {"prompt", "release"}
  BY DEF TickDecides
<1> DEFINE e == Envelope(id, snap)
<1>2. ASSUME e \in PromptEnvelopes, store[e].status # "absent"
      PROVE  store[e].decision = Decision(id, snap)
  <2>1. PICK a \in Prompting : e = <<"id", a>>
    BY <1>2 DEF PromptEnvelopes
  <2>2. id = a /\ id # NoId
    BY <2>1 DEF Envelope
  <2>3. e \in Envelopes /\ store[e] \in Records /\ FitsUnder(e, store[e]) /\ store[e].id = a
    <3>1. e \in Envelopes
      BY <2>1, PromptEnvelopeIs
    <3>2. store[e] \in Records /\ FitsUnder(e, store[e])
      BY <3>1, <1>2 DEF StoreTypeOK, Absent
    <3>3. IdUnder(e) = a
      BY <2>1 DEF IdUnder
    <3> QED BY <3>1, <3>2, <3>3 DEF FitsUnder
  <2>4. e \in Of(a)
    BY <2>3, <1>2 DEF Of
  <2>5. store[e].decision.snap = snap
    BY <1>1, <2>2, <2>4 DEF Trusted
  <2>6. store[e].decision.id = a /\ store[e].decision \in Decisions
    BY <2>3, PromptEnvelope, PromptingAssumption DEF Records
  <2> QED BY <2>2, <2>5, <2>6 DEF Decisions, Decision
<1>3. OrchHolds'
  <2>1. Envelope(orch'.decision.id, orch'.decision.snap) = e
    BY <1>1 DEF Decision
  <2> QED BY <1>0, <1>1, <1>2, <2>1 DEF OrchHolds
<1>4. AnswerHolds' /\ ExpiryHolds' /\ ExecsHold'
  BY <1>0, SameStays, HoldersStay DEF OnceInv
<1> QED BY <1>0, <1>3, <1>4, CountStays DEF OnceInv, OneDecision

\* put refreshes the record of a request only with the decision it has.
LEMMA TickPromptsOnce ==
    ASSUME ApprovalsInv, OnceInv, TickPrompts
    PROVE  OnceInv'
<1> USE DEF ApprovalsInv, ApprovalsTypeOK
<1>0. /\ expiry' = expiry /\ answer' = answer /\ execs' = execs /\ orch.pc = "prompt"
      /\ torn' = torn /\ receipts' = receipts /\ faults' = faults
  BY DEF TickPrompts
<1>1. orch.decision \in Decisions /\ orch.goal \in Goals
  BY <1>0, OrchMoves DEF TickStates
<1> DEFINE r == Record(orch.decision, orch.goal)
           e == Envelope(orch.decision.id, orch.decision.snap)
<1>2. \A f \in Envelopes :
          \/ Put(r, e)[f] = store[f]
          \/ /\ Put(r, e)[f] \in Records /\ FitsUnder(f, Put(r, e)[f])
             /\ Put(r, e)[f].status = "pending" /\ Put(r, e)[f].decision = orch.decision
  BY <1>1, PutFits
<1>3. store' = Put(r, e)
  BY DEF TickPrompts
<1> HIDE DEF r
<1>4. DecisionsStay
  <2> SUFFICES ASSUME NEW f \in PromptEnvelopes, store[f].status # "absent"
               PROVE  store'[f].status # "absent" /\ store'[f].decision = store[f].decision
    BY DEF DecisionsStay
  <2>1. PICK a \in Prompting : f = <<"id", a>> /\ f \in Envelopes /\ a \in Requests
    BY PromptEnvelopeIs, PromptingAssumption DEF PromptEnvelopes
  <2>2. CASE store'[f] = store[f]
    BY <2>2
  <2>3. CASE /\ store'[f] \in Records /\ FitsUnder(f, store'[f])
             /\ store'[f].status = "pending" /\ store'[f].decision = orch.decision
    <3>1. store'[f].id = a
      BY <2>1, <2>3 DEF FitsUnder, IdUnder
    <3>2. orch.decision.id = a
      BY <2>1, <2>3, <3>1, PromptEnvelope
    <3>3. e = f
      BY <2>1, <3>2, PromptEnvelopeIs
    <3> QED BY <1>0, <2>3, <3>3 DEF OnceInv, OneDecision, OrchHolds
  <2> QED BY <1>2, <1>3, <2>1, <2>2, <2>3
<1>5. orch'.pc \notin {"prompt", "drifted"}
  <2>1. orch' = Idle \/ orch' = [orch EXCEPT !.pc = "drift"]
    BY DEF TickPrompts
  <2>2. orch \in TickStates
    BY <1>0, OrchMoves
  <2> QED BY <2>1, <2>2 DEF TickStates, Idle
<1>6. AnswerHolds' /\ ExpiryHolds' /\ OrchHolds' /\ ExecsHold'
  BY <1>0, <1>4, <1>5, HoldersStay DEF OnceInv
<1> QED BY <1>0, <1>6, CountStays DEF OnceInv, OneDecision

LEMMA TickStaleOnce ==
    ASSUME ApprovalsInv, OnceInv, TickReadsStale \/ TickSupersedesStale \/ TickReleases
    PROVE  OnceInv'
<1> USE DEF ApprovalsInv, ApprovalsTypeOK
<1>0. /\ expiry' = expiry /\ answer' = answer /\ execs' = execs
      /\ torn' = torn /\ receipts' = receipts /\ faults' = faults
  BY DEF TickReadsStale, TickSupersedesStale, TickReleases
<1>1. CASE TickReadsStale
  <2>1. PICK a \in orch.stale :
           LET copies == {<<e, store[e]>> : e \in {x \in Of(a) : IsOpen(x)}}
               rest   == orch.stale \ {a}
           IN  orch' = IF copies # {} THEN [orch EXCEPT !.pc = "drifted", !.stale = rest, !.copies = copies]
                       ELSE IF rest = {} THEN Idle ELSE [orch EXCEPT !.stale = rest]
    BY <1>1 DEF TickReadsStale
  <2> DEFINE copies == {<<e, store[e]>> : e \in {x \in Of(a) : IsOpen(x)}}
             rest == orch.stale \ {a}
  <2>2. \A c \in copies : Kept(c[1], c[2].decision)
    BY DEF Kept, IsOpen
  <2>3. \/ orch' = [orch EXCEPT !.pc = "drifted", !.stale = rest, !.copies = copies]
        \/ orch' = Idle \/ orch' = [orch EXCEPT !.stale = rest]
    BY <2>1
  <2>4. orch.pc = "drift" /\ orch \in TickStates
    BY <1>1, OrchMoves DEF TickReadsStale
  <2> HIDE DEF copies, rest
  <2>5. store' = store
    BY <1>1 DEF TickReadsStale
  <2>6. orch'.pc # "prompt" /\ (orch'.pc = "drifted" => orch'.copies = copies)
    <3>1. CASE orch' = [orch EXCEPT !.pc = "drifted", !.stale = rest, !.copies = copies]
      <4>1. orch'.pc = "drifted" /\ orch'.copies = copies
        BY <3>1, <2>4 DEF TickStates
      <4> QED BY <4>1
    <3>2. CASE orch' = Idle
      BY <3>2 DEF Idle
    <3>3. CASE orch' = [orch EXCEPT !.stale = rest]
      <4>1. orch'.pc = "drift"
        BY <3>3, <2>4 DEF TickStates
      <4> QED BY <4>1
    <3> QED BY <2>3, <3>1, <3>2, <3>3
  <2>7. OrchHolds'
    BY <2>2, <2>5, <2>6 DEF OrchHolds, Kept
  <2>8. AnswerHolds' /\ ExpiryHolds' /\ ExecsHold'
    BY <1>0, <2>5, SameStays, HoldersStay DEF OnceInv
  <2> QED BY <1>0, <2>7, <2>8, CountStays DEF OnceInv, OneDecision
<1>2. CASE TickSupersedesStale
  <2>1. /\ orch.pc = "drifted" /\ orch \in TickStates
        /\ orch.copies \in SUBSET (Envelopes \X Records)
        /\ store' = [e \in Envelopes |->
              IF \E c \in orch.copies : c[1] = e
              THEN [(CHOOSE c \in orch.copies : c[1] = e)[2] EXCEPT !.status = "superseded"]
              ELSE store[e]]
    BY <1>2, OrchMoves DEF TickSupersedesStale, TickStates
  <2>2. DecisionsStay
    <3> SUFFICES ASSUME NEW e \in PromptEnvelopes, store[e].status # "absent"
                 PROVE  store'[e].status # "absent" /\ store'[e].decision = store[e].decision
      BY DEF DecisionsStay
    <3>1. e \in Envelopes
      BY PromptEnvelopeIs DEF PromptEnvelopes
    <3>2. CASE \E c \in orch.copies : c[1] = e
      <4>1. PICK c \in orch.copies : c = (CHOOSE x \in orch.copies : x[1] = e) /\ c[1] = e
        BY <3>2
      <4>2. c[2] \in Records /\ c[2].decision = store[e].decision
        BY <2>1, <4>1 DEF OnceInv, OneDecision, OrchHolds, Kept
      <4>3. store'[e] = [c[2] EXCEPT !.status = "superseded"]
        BY <2>1, <3>1, <3>2, <4>1
      <4> QED BY <4>2, <4>3, CloseRecord DEF Statuses
    <3>3. CASE ~\E c \in orch.copies : c[1] = e
      BY <2>1, <3>1, <3>3
    <3> QED BY <3>2, <3>3
  <2>3. orch'.pc \notin {"prompt", "drifted"}
    BY <1>2, <2>1 DEF TickSupersedesStale, TickStates, Idle
  <2>4. AnswerHolds' /\ ExpiryHolds' /\ OrchHolds' /\ ExecsHold'
    BY <1>0, <2>2, <2>3, HoldersStay DEF OnceInv
  <2> QED BY <1>0, <2>4, CountStays DEF OnceInv, OneDecision
<1>3. CASE TickReleases
  <2>1. DecisionsStay
    BY <1>3, SupersedeStays DEF TickReleases, SupersededBy
  <2>2. orch'.pc \notin {"prompt", "drifted"}
    BY <1>3 DEF TickReleases, Idle
  <2>3. AnswerHolds' /\ ExpiryHolds' /\ OrchHolds' /\ ExecsHold'
    BY <1>0, <2>1, <2>2, HoldersStay DEF OnceInv
  <2> QED BY <1>0, <2>3, CountStays DEF OnceInv, OneDecision
<1> QED BY <1>1, <1>2, <1>3

LEMMA RefreshOnce ==
    ASSUME ApprovalsInv, OnceInv, NEW b \in BOOLEAN, RefreshSession(b) \/ BootstrapGoal(b) \/ Reconcile
    PROVE  OnceInv'
<1> USE DEF ApprovalsInv, ApprovalsTypeOK
<1>0. /\ expiry' = expiry /\ answer' = answer /\ execs' = execs /\ orch' = orch
      /\ torn' = torn /\ receipts' = receipts /\ (faults' = faults \/ faults' = faults + 1)
  BY DEF RefreshSession, BootstrapGoal, Reconcile
<1>1. store' = store \/ \E E \in SUBSET Open : store' = Supersede(E)
  <2>1. CASE RefreshSession(b)
    BY <2>1 DEF RefreshSession
  <2>2. CASE BootstrapGoal(b)
    <3>1. StaleForGoal(goal + 1) \in SUBSET Open
      BY DEF StaleForGoal
    <3> QED BY <2>2, <3>1 DEF BootstrapGoal
  <2>3. CASE Reconcile
    <3> DEFINE old == SupersededBy(released) \cup DuplicateIds
               all == old \cup DuplicateActions(old)
    <3>1. all \in SUBSET Open /\ store' = Supersede(all)
      BY <2>3 DEF Reconcile, SupersededBy, DuplicateIds, DuplicateActions
    <3> HIDE DEF all
    <3> QED BY <3>1
  <2> QED BY <2>1, <2>2, <2>3
<1>2. /\ DecisionsStay
      /\ \A e \in PromptEnvelopes : store'[e].status # "absent" => store[e].status # "absent"
  BY <1>1, SameStays, SupersedeStays, SupersedeAddsNone
<1>3. AnswerHolds' /\ ExpiryHolds' /\ OrchHolds' /\ ExecsHold'
  BY <1>0, <1>2, HoldersStay, PromptStays DEF OnceInv
<1> QED BY <1>0, <1>3, CountStays DEF OnceInv, OneDecision

LEMMA ExpireOnce ==
    ASSUME ApprovalsInv, OnceInv, ExpireWrites \/ \E e \in Envelopes : ExpireReads(e)
    PROVE  OnceInv'
<1> USE DEF ApprovalsInv, ApprovalsTypeOK
<1>0. /\ answer' = answer /\ execs' = execs /\ orch' = orch
      /\ torn' = torn /\ receipts' = receipts /\ faults' = faults
  BY DEF ExpireWrites, ExpireReads
<1>1. CASE ExpireWrites
  <2>1. expiry.env \in Envelopes /\ expiry.copy \in Records /\ expiry.pc # "idle"
    BY <1>1 DEF ExpireWrites, ExpiryTypeOK, Idle
  <2> DEFINE r == [expiry.copy EXCEPT !.status = "expired"]
  <2>2. r.status = "expired" /\ r.decision = expiry.copy.decision
    BY <2>1, CloseRecord DEF Statuses
  <2>3. store' = [store EXCEPT ![expiry.env] = r] /\ expiry' = Idle
    BY <1>1 DEF ExpireWrites
  <2> HIDE DEF r
  <2>4. Kept(expiry.env, expiry.copy.decision)
    BY <2>1 DEF OnceInv, OneDecision, ExpiryHolds
  <2>5. PromptEnvelopes \subseteq Envelopes
    BY PromptEnvelopeIs DEF PromptEnvelopes
  <2>6. \A e \in PromptEnvelopes : store'[e] = IF e = expiry.env THEN r ELSE store[e]
    BY <2>1, <2>3, <2>5 DEF StoreTypeOK
  <2>7. /\ DecisionsStay
        /\ \A e \in PromptEnvelopes : store'[e].status # "absent" => store[e].status # "absent"
    BY <2>2, <2>4, <2>6 DEF DecisionsStay, Kept
  <2>8. AnswerHolds' /\ ExpiryHolds' /\ OrchHolds' /\ ExecsHold'
    BY <1>0, <2>3, <2>7, HoldersStay, PromptStays DEF OnceInv, Idle
  <2> QED BY <1>0, <2>8, CountStays DEF OnceInv, OneDecision
<1>2. ASSUME NEW e \in Envelopes, ExpireReads(e) PROVE OnceInv'
  <2>1. store' = store /\ expiry' = [pc |-> "expire", env |-> e, copy |-> store[e]] /\ IsOpen(e)
    BY <1>2 DEF ExpireReads
  <2>2. ExpiryHolds'
    BY <2>1 DEF ExpiryHolds, Kept, IsOpen
  <2>3. AnswerHolds' /\ OrchHolds' /\ ExecsHold'
    BY <1>0, <2>1, SameStays, HoldersStay DEF OnceInv
  <2> QED BY <1>0, <2>2, <2>3, CountStays DEF OnceInv, OneDecision
<1> QED BY <1>1, <1>2

\* An answer starts from the record in the store.
LEMMA RespondOnce ==
    ASSUME ApprovalsInv, OnceInv, NEW e \in Envelopes, NEW act \in Answers, NEW k \in ClientKeys,
           Respond(e, act, k)
    PROVE  OnceInv'
<1> USE DEF ApprovalsInv, ApprovalsTypeOK
<1>0. /\ expiry' = expiry /\ execs' = execs /\ orch' = orch /\ store' = store
      /\ torn' = torn /\ receipts' = receipts /\ faults' = faults
      /\ store[e].status # "absent"
      /\ \/ answer' = [pc |-> "decide", env |-> e, act |-> act, client |-> k, copy |-> store[e]]
         \/ answer' = answer
  BY DEF Respond
<1>1. ExpiryHolds' /\ OrchHolds' /\ ExecsHold' /\ (answer' = answer => AnswerHolds')
  BY <1>0, SameStays, HoldersStay DEF OnceInv
<1>2. answer' # answer => AnswerHolds'
  BY <1>0 DEF AnswerHolds, Kept
<1> QED BY <1>0, <1>1, <1>2, CountStays DEF OnceInv, OneDecision

\* The steps of an answer that execute nothing and close nothing.
LEMMA AnswerOnce ==
    ASSUME ApprovalsInv, OnceInv,
           AnswerDecides \/ AnswerDecided \/ AnswerLost \/ AnswerExecutionFails \/ AnswerStored
    PROVE  OnceInv'
<1> USE DEF ApprovalsInv, ApprovalsTypeOK
<1>0. /\ expiry' = expiry /\ execs' = execs /\ orch' = orch /\ store' = store
      /\ torn' = torn /\ receipts \subseteq receipts' /\ (faults' = faults \/ faults' = faults + 1)
      /\ answer.pc # "idle"
  BY DEF AnswerDecides, AnswerDecided, AnswerLost, AnswerExecutionFails, AnswerStored
<1>1. \/ answer' = [answer EXCEPT !.pc = "asked"] \/ answer' = [answer EXCEPT !.pc = "decided"]
      \/ answer' = Idle
  BY DEF AnswerDecides, AnswerDecided, AnswerLost, AnswerExecutionFails, AnswerStored
<1>2. answer'.pc = "idle" \/ (answer'.env = answer.env /\ answer'.copy = answer.copy)
  BY <1>0, <1>1, AnswerMoves, AnswerOver
<1>3. AnswerHolds' /\ ExpiryHolds' /\ OrchHolds' /\ ExecsHold'
  BY <1>0, <1>2, SameStays, HoldersStay DEF OnceInv
<1> QED BY <1>0, <1>3, CountStays DEF OnceInv, OneDecision

\* What an answer that was granted executes is the decision in the store.
LEMMA GrantedIsKept ==
    ASSUME ApprovalsInv, OnceInv, answer.pc = "decided"
    PROVE  /\ answer.copy.decision \in Decisions
           /\ Kept(<<"id", answer.copy.decision.id>>, answer.copy.decision)
<1>1. /\ answer.copy \in Records /\ FitsUnder(answer.env, answer.copy) /\ answer.env \in Envelopes
      /\ answer.copy.decision \in Decisions
  BY AnswerCopy DEF ApprovalsInv, ApprovalsTypeOK
<1>2. answer.copy.id \in Requests
  BY DEF ApprovalsInv, AnswerInv, RuntimeSays
<1>3. answer.env = <<"id", answer.copy.decision.id>>
  BY <1>1, <1>2, PromptEnvelope
<1> QED BY <1>1, <1>3 DEF OnceInv, OneDecision, AnswerHolds

LEMMA AnswerExecutesOnce ==
    ASSUME ApprovalsInv, OnceInv, AnswerExecutes
    PROVE  OnceInv'
<1> USE DEF ApprovalsInv, ApprovalsTypeOK
<1>0. /\ answer.pc = "decided" /\ store' = store /\ expiry' = expiry /\ orch' = orch
      /\ answer' = [answer EXCEPT !.pc = "executed"] /\ torn' = torn /\ faults' = faults
      /\ receipts' = receipts \cup {Receipt("execute")}
  BY DEF AnswerExecutes
<1>1. PICK d \in Decisions : d = answer.copy.decision /\ Kept(<<"id", d.id>>, d)
  BY <1>0, GrantedIsKept
<1>2. AnswerHolds' /\ ExpiryHolds' /\ OrchHolds'
  <2>1. answer'.env = answer.env /\ answer'.copy = answer.copy
    BY <1>0, AnswerMoves
  <2> QED BY <1>0, <2>1, SameStays, HoldersStay DEF OnceInv
<1>3. execs \in [Decisions -> Nat] /\ Receipt("execute") = <<"execute", d>>
  BY <1>1 DEF HistoryTypeOK, Receipt
<1>4. execs' = [execs EXCEPT ![d] = IF <<"execute", d>> \in receipts THEN @ ELSE @ + 1]
  BY <1>1, <1>3 DEF AnswerExecutes
<1>5. /\ execs'[d] = IF <<"execute", d>> \in receipts THEN execs[d] ELSE execs[d] + 1
      /\ \A c \in Decisions \ {d} : execs'[c] = execs[c]
  BY <1>3, <1>4
<1>6. ExecsHold'
  BY <1>0, <1>1, <1>5 DEF OnceInv, OneDecision, ExecsHold, Kept
<1>7. ASSUME NEW c \in Decisions
      PROVE  execs'[c] <= (IF <<"execute", c>> \in receipts' THEN 1 ELSE 0) + (IF c \in torn' THEN faults' ELSE 0)
  <2>1. /\ execs[c] \in Nat /\ faults \in Nat
        /\ execs[c] <= (IF <<"execute", c>> \in receipts THEN 1 ELSE 0) + (IF c \in torn THEN faults ELSE 0)
    BY <1>3 DEF OnceInv, ReceiptsCount
  <2>2. <<"execute", c>> \in receipts => <<"execute", c>> \in receipts'
    BY <1>0
  <2>3. CASE c = d
    <3>1. <<"execute", c>> \in receipts'
      BY <1>0, <1>3, <2>3
    <3> QED BY <1>0, <1>5, <2>1, <2>3, <3>1
  <2>4. CASE c # d
    BY <1>0, <1>5, <2>1, <2>2, <2>4
  <2> QED BY <2>3, <2>4
<1> QED BY <1>0, <1>2, <1>6, <1>7 DEF OnceInv, OneDecision, ReceiptsCount

LEMMA AnswerClosesOnce ==
    ASSUME ApprovalsInv, OnceInv, AnswerCloses
    PROVE  OnceInv'
<1> USE DEF ApprovalsInv, ApprovalsTypeOK
<1> DEFINE s == IF answer.act = "reject" THEN "rejected" ELSE "approved"
           r == [answer.copy EXCEPT !.status = s]
<1>0. /\ answer.pc \in {"decided", "executed"} /\ answer' = [answer EXCEPT !.pc = "closed"]
      /\ store' = [store EXCEPT ![answer.env] = r] /\ expiry' = expiry /\ orch' = orch
      /\ execs' = execs /\ receipts' = receipts /\ torn' = torn /\ faults' = faults
  BY DEF AnswerCloses
<1>1. /\ answer.copy \in Records /\ answer.env \in Envelopes
      /\ answer'.env = answer.env /\ answer'.copy = answer.copy
  BY <1>0, AnswerCopy, AnswerMoves
<1>2. r.status # "absent" /\ r.decision = answer.copy.decision
  BY <1>1, CloseRecord DEF Statuses
<1>3. Kept(answer.env, answer.copy.decision)
  BY <1>0 DEF OnceInv, OneDecision, AnswerHolds
<1> HIDE DEF r
<1>4. PromptEnvelopes \subseteq Envelopes
  BY PromptEnvelopeIs DEF PromptEnvelopes
<1>5. \A e \in PromptEnvelopes : store'[e] = IF e = answer.env THEN r ELSE store[e]
  BY <1>0, <1>1, <1>4 DEF StoreTypeOK
<1>6. /\ DecisionsStay
      /\ \A e \in PromptEnvelopes : store'[e].status # "absent" => store[e].status # "absent"
  BY <1>2, <1>3, <1>5 DEF DecisionsStay, Kept
<1>7. AnswerHolds' /\ ExpiryHolds' /\ OrchHolds' /\ ExecsHold'
  BY <1>0, <1>1, <1>6, HoldersStay, PromptStays DEF OnceInv
<1> QED BY <1>0, <1>7, CountStays DEF OnceInv, OneDecision

LEMMA CrashOnce ==
    ASSUME ApprovalsInv, OnceInv, CrashWatchdog
    PROVE  OnceInv'
<1> USE DEF ApprovalsInv, ApprovalsTypeOK
<1>0. /\ orch' = Idle /\ expiry' = Idle /\ answer' = Idle /\ store' = store
      /\ receipts' = receipts /\ faults' = faults + 1
  BY DEF CrashWatchdog
<1>1. AnswerHolds' /\ ExpiryHolds' /\ OrchHolds'
  BY <1>0 DEF AnswerHolds, ExpiryHolds, OrchHolds, Idle
<1>2. CASE execs' = execs /\ torn' = torn
  <2>1. ExecsHold'
    BY <1>0, <1>2, SameStays, HoldersStay DEF OnceInv
  <2> QED BY <1>0, <1>1, <1>2, <2>1, CountStays DEF OnceInv, OneDecision
<1>3. CASE /\ answer.pc = "decided" /\ answer.act # "reject" /\ Receipt("execute") \notin receipts
           /\ execs' = [execs EXCEPT ![answer.copy.decision] = @ + 1]
           /\ torn' = torn \cup {answer.copy.decision}
  <2>1. PICK d \in Decisions : d = answer.copy.decision /\ Kept(<<"id", d.id>>, d)
    BY <1>3, GrantedIsKept
  <2>2. execs \in [Decisions -> Nat] /\ <<"execute", d>> \notin receipts
    BY <1>3, <2>1 DEF HistoryTypeOK, Receipt
  <2>3. /\ execs'[d] = execs[d] + 1 /\ torn' = torn \cup {d}
        /\ \A c \in Decisions \ {d} : execs'[c] = execs[c]
    BY <1>3, <2>1, <2>2
  <2>4. ExecsHold'
    BY <1>0, <2>1, <2>3 DEF OnceInv, OneDecision, ExecsHold, Kept
  <2>5. ASSUME NEW c \in Decisions
        PROVE  execs'[c] <= (IF <<"execute", c>> \in receipts' THEN 1 ELSE 0) + (IF c \in torn' THEN faults' ELSE 0)
    <3>1. /\ execs[c] \in Nat /\ faults \in Nat
          /\ execs[c] <= (IF <<"execute", c>> \in receipts THEN 1 ELSE 0) + (IF c \in torn THEN faults ELSE 0)
      BY <2>2 DEF OnceInv, ReceiptsCount
    <3>2. CASE c = d
      BY <1>0, <2>2, <2>3, <3>1, <3>2
    <3>3. CASE c # d
      BY <1>0, <2>3, <3>1, <3>3
    <3> QED BY <3>2, <3>3
  <2>6. faults' \in Nat
    BY <1>0 DEF OnceInv
  <2> QED BY <1>1, <2>4, <2>5, <2>6 DEF OnceInv, OneDecision, ReceiptsCount
<1> QED BY <1>2, <1>3 DEF CrashWatchdog

LEMMA OnceInitInv == Init => OnceInv
<1> SUFFICES ASSUME Init PROVE OnceInv
  OBVIOUS
<1>1. answer.pc = "idle" /\ expiry.pc = "idle" /\ orch.pc = "idle" /\ faults = 0
  BY DEF Init, CanonInit, Idle
<1>2. \A d \in Decisions : execs[d] = 0
  BY DEF Init, CanonInit
<1> QED BY <1>1, <1>2 DEF OnceInv, OneDecision, AnswerHolds, ExpiryHolds, OrchHolds, ExecsHold, ReceiptsCount

LEMMA OnceNextInv ==
    ASSUME ApprovalsInv, OnceInv, [Next]_vars
    PROVE  OnceInv'
<1>1. CASE UNCHANGED canonVars
  <2>1. /\ answer' = answer /\ expiry' = expiry /\ orch' = orch /\ store' = store /\ execs' = execs
        /\ torn' = torn /\ receipts' = receipts /\ faults' = faults
    BY <1>1 DEF canonVars
  <2>2. AnswerHolds' /\ ExpiryHolds' /\ OrchHolds' /\ ExecsHold'
    BY <2>1, SameStays, HoldersStay DEF OnceInv
  <2> QED BY <2>1, <2>2, CountStays DEF OnceInv, OneDecision, ApprovalsInv, ApprovalsTypeOK
<1>2. CASE Next
  BY <1>1, <1>2, TickDecidesOnce, TickPromptsOnce, TickStaleOnce, RefreshOnce, ExpireOnce,
     RespondOnce, AnswerOnce, AnswerExecutesOnce, AnswerClosesOnce, CrashOnce
     DEF Next, RuntimeNext, RespondActs
<1> QED BY <1>1, <1>2 DEF vars

\* The invariant is inductive.
THEOREM ApprovalsInvariance == Spec => []ApprovalsInv
  BY ApprovalsInitInv, ApprovalsNextInv, PTL DEF Spec

\* Types: a canonical record, and every copy the orchestrator, the refresh loop
\* or an answer holds of one, has the approval id its envelope id was hashed from.
THEOREM ApprovalsTypeCorrect == Spec => []ApprovalsTypeOK
<1>1. ApprovalsInv => ApprovalsTypeOK
  BY DEF ApprovalsInv
<1> QED BY <1>1, ApprovalsInvariance, PTL

\* A row of codex that carries an operator's decision was answered with that
\* decision, however the handlers of decide_approval and of the bridge overlap,
\* whichever writes to codex raise, and across restarts of the control agent.
THEOREM DecisionsReachCodex == Spec => []RecordedWasSent
<1>1. ApprovalsInv => RecordedWasSent
  BY DEF ApprovalsInv, RuntimeInv
<1> QED BY <1>1, ApprovalsInvariance, PTL

\* No request of codex is lost by the bridge: it was answered, can be answered,
\* is being answered, or a restart cut its automatic answer off.
THEOREM RequestsAreKept == Spec => []NothingForgotten
<1>1. ApprovalsInv => NothingForgotten
  BY DEF ApprovalsInv, RuntimeInv
<1> QED BY <1>1, ApprovalsInvariance, PTL

\* The watchdog's approval store and the control agent's agree on every answer:
\* a canonical record is approved or rejected only if the runtime's row is, and
\* an action is executed only for an approval the runtime granted.
THEOREM StoresAgree == Spec => []AnswerIsTheRuntimes
<1>1. ApprovalsInv => AnswerIsTheRuntimes
  BY DEF ApprovalsInv, AnswerInv
<1> QED BY <1>1, ApprovalsInvariance, PTL

\* The action of an approval is executed for one decision only, and once, however
\* often it is answered and whichever step of respond_to_canonical_approval fails;
\* only a crash between the action and its receipt can repeat it.
THEOREM ApprovedActionRunsOnce == Spec => []ExecutedOnce
<1>1. ApprovalsInv /\ OnceInv => ExecutedOnce
  <2> SUFFICES ASSUME ApprovalsInv, OnceInv PROVE ExecutedOnce
    OBVIOUS
  <2>1. ASSUME NEW c \in Decisions, NEW d \in Decisions, execs[c] > 0, execs[d] > 0, c.id = d.id
        PROVE  c = d
    <3>1. c.id \in Requests /\ c.id \in Ids \cup {NoId}
      BY <2>1 DEF ApprovalsInv, AnswerInv, AnswerIsTheRuntimes, Decisions, Decision
    <3>2. <<"id", c.id>> \in PromptEnvelopes
      BY <3>1, IdsAssumption DEF Ids, PromptEnvelopes
    <3>3. Kept(<<"id", c.id>>, c) /\ Kept(<<"id", d.id>>, d)
      BY <2>1 DEF OnceInv, OneDecision, ExecsHold
    <3> QED BY <2>1, <3>2, <3>3 DEF Kept
  <2>2. ASSUME NEW d \in Decisions PROVE execs[d] <= 1 + (IF d \in torn THEN faults ELSE 0)
    <3>1. execs[d] \in Nat /\ faults \in Nat
      BY DEF ApprovalsInv, ApprovalsTypeOK, HistoryTypeOK, OnceInv
    <3>2. execs[d] <= (IF <<"execute", d>> \in receipts THEN 1 ELSE 0) + (IF d \in torn THEN faults ELSE 0)
      BY DEF OnceInv, ReceiptsCount
    <3> QED BY <3>1, <3>2
  <2> QED BY <2>1, <2>2 DEF ExecutedOnce
<1>2. Init => OnceInv
  BY OnceInitInv
<1>3. ApprovalsInv /\ OnceInv /\ [Next]_vars => OnceInv'
  BY OnceNextInv
<1> QED BY <1>1, <1>2, <1>3, ApprovalsInvariance, PTL DEF Spec

-----------------------------------------------------------------------------
(***************************************************************************)
(* The task store.                                                         *)
(***************************************************************************)
-----------------------------------------------------------------------------
(***************************************************************************)
(* Tasks: rows, notes and where the notes come from.                       *)
(***************************************************************************)
LEMMA GreatestIsMax ==
    ASSUME NEW n \in Nat, NEW S \in SUBSET (0..n), S # {}
    PROVE  Max(S) \in S /\ \A m \in S : m <= Max(S)
<1>1. PICK x \in S : \A y \in S : y <= x
  BY GreatestNat
<1>2. \A y \in S : x >= y
  <2>1. \A y \in S : y \in Int
    OBVIOUS
  <2> QED BY <1>1, <2>1
<1>3. Max(S) \in S /\ \A y \in S : Max(S) >= y
  BY <1>2 DEF Max
<1>4. \A y \in S : y \in Int
  OBVIOUS
<1> QED BY <1>3, <1>4

Note == [text : {"soft", "packet"}, at : Nat, matched : Nat]
Row == [source : {"none", "native", "manual"}, status : TaskStatuses, input : Nat,
        manual : Nat, recent : Seq(Note)]

Words == {"soft", "own words", "packet", "pause", "none"}
HistoryEntry == [thread : Threads \cup {NoThread}, by : {"user", "service", "work", "final"},
                 text : Words]

HandlerState == [op : {"none", "steer", "pause", "resume"}, thread : Threads \cup {NoThread},
                 text : Words, at : Nat]

RowTypes == task \in [Threads -> Row] /\ \A th \in Threads : Len(task[th].recent) <= RecentLimit

HandlerTypes ==
    /\ handler \in [Handlers -> HandlerState]
    /\ \A h \in Handlers :
          /\ handler[h].op = "none" => handler[h] = IdleHandler
          /\ handler[h].op # "none" => handler[h].thread \in Threads /\ current \in Threads
          /\ handler[h].op = "steer" => handler[h].text = "soft"
          /\ handler[h].op = "resume" => handler[h].text = "packet"
          /\ handler[h].at # 0 =>
                /\ handler[h].at <= Now /\ history[handler[h].at].thread = handler[h].thread
                /\ history[handler[h].at].by = "service"
                /\ history[handler[h].at].text = handler[h].text

\* What a row remembers of inputs are inputs of its thread.
Remembers(th) ==
    /\ \A at \in {task[th].input, task[th].manual} :
          at # 0 => at <= Now /\ history[at].thread = th /\ history[at].by \in Inputs
    /\ task[th].manual <= task[th].input

\* A note that was made for message at still explains it.
Explains(row, note, at) ==
    /\ row.manual # at
    /\ row.input <= at => /\ note.matched = 0 \/ note.matched = at
                          /\ Distance(note.at, at) <= Window
    /\ row.input < at /\ row.manual # 0 /\ row.manual = row.input =>
          history[row.input].text # history[at].text

NoteIsFor(th, note, at) ==
    /\ at <= Now /\ history[at].thread = th /\ history[at].by = "service"
    /\ note.text = history[at].text

OriginsHold(th) ==
    /\ origin[th] \in Seq(Nat) /\ Len(origin[th]) = Len(task[th].recent)
    /\ \A k \in 1..Len(origin[th]) :
          origin[th][k] # 0 =>
             /\ NoteIsFor(th, task[th].recent[k], origin[th][k])
             /\ origin[th][k] \notin overtaken =>
                   Explains(task[th], task[th].recent[k], origin[th][k])

\* No note explains the manual activity that may still be reconciled.
NotExplained(th) ==
    task[th].manual # 0 /\ task[th].manual = task[th].input => ~IsEcho(task[th], task[th].input)

ThreadHolds(th) == Remembers(th) /\ OriginsHold(th) /\ NotExplained(th)

TimeTypes ==
    /\ history \in Seq(HistoryEntry) /\ Now <= MaxHistory
    /\ requests \in 0..MaxRequests
    /\ shown \subseteq Threads /\ active \subseteq Threads /\ current \in Threads \cup {NoThread}
    /\ origin = [th \in Threads |-> origin[th]] /\ overtaken \subseteq 0..Now

\* The inductive invariant.
TasksInv ==
    /\ TimeTypes /\ RowTypes /\ HandlerTypes
    /\ \A th \in Threads : ThreadHolds(th)

(***************************************************************************)
(* The notes of one row.                                                   *)
(***************************************************************************)
LEMMA MatchesAreNotes ==
    ASSUME NEW recent \in Seq(Note), NEW text, NEW at
    PROVE  NotesMatching(recent, text, at) \subseteq 1..Len(recent)
  BY DEF NotesMatching

\* What consuming an echo makes of a row: notes that match may be used up.
SameNotes(row, r) ==
    /\ Len(r.recent) = Len(row.recent)
    /\ \A k \in 1..Len(row.recent) :
          r.recent[k].text = row.recent[k].text /\ r.recent[k].at = row.recent[k].at

Uses(row, r, at) ==
    \A k \in 1..Len(row.recent) :
        r.recent[k].matched # row.recent[k].matched =>
           r.recent[k].matched = at /\ row.recent[k].text = history[at].text

ConsumedTo(row, r, at) ==
    /\ r \in Row /\ r.status = row.status /\ r.input = row.input /\ r.manual = row.manual
    /\ SameNotes(row, r) /\ Uses(row, r, at)

LEMMA ConsumeEffect ==
    ASSUME NEW row \in Row, NEW at \in Nat
    PROVE  ConsumedTo(row, ConsumeEcho(row, at), at)
<1> PICK r : r = ConsumeEcho(row, at)
  OBVIOUS
<1> SUFFICES ConsumedTo(row, r, at)
  OBVIOUS
<1> USE DEF ConsumedTo, SameNotes, Uses
<1>1. CASE ~IsEcho(row, at)
  BY <1>1 DEF ConsumeEcho
<1>2. CASE IsEcho(row, at)
  <2>1. PICK s \in Seq(Note) : s = row.recent
    BY DEF Row
  <2>2. PICK M : M = NotesMatching(s, history[at].text, at)
    OBVIOUS
  <2>3. M \in SUBSET (0..Len(s)) /\ M # {} /\ M \subseteq 1..Len(s)
    BY <1>2, <2>1, <2>2, MatchesAreNotes DEF IsEcho
  <2>4. PICK n \in 1..Len(s) : n = Max(M) /\ n \in M
    <3>1. Len(s) \in Nat
      BY <2>1
    <3>2. Max(M) \in M
      BY <2>3, <3>1, GreatestIsMax
    <3> QED BY <2>3, <3>2
  <2>5. r = [row EXCEPT !.recent[n].matched = at]
    BY <1>2, <2>1, <2>2, <2>4 DEF ConsumeEcho
  <2>6. s[n] \in Note /\ s[n].text = history[at].text
    BY <2>2, <2>4 DEF NotesMatching
  <2>7. PICK m : m = [s[n] EXCEPT !.matched = at]
    OBVIOUS
  <2>8. m \in Note /\ m.text = s[n].text /\ m.at = s[n].at /\ m.matched = at
    BY <2>6, <2>7 DEF Note
  <2>9. PICK t : t = [s EXCEPT ![n] = m]
    OBVIOUS
  <2>10. /\ t \in Seq(Note) /\ Len(t) = Len(s) /\ t[n] = m
         /\ \A k \in 1..Len(s) : k # n => t[k] = s[k]
    BY <2>8, <2>9
  <2>11. r = [row EXCEPT !.recent = t]
    BY <2>1, <2>5, <2>7, <2>9
  <2>12. /\ r \in Row /\ r.source = row.source /\ r.status = row.status
         /\ r.input = row.input /\ r.manual = row.manual /\ r.recent = t
    BY <2>10, <2>11 DEF Row
  <2> QED BY <2>1, <2>6, <2>8, <2>10, <2>12
<1> QED BY <1>1, <1>2

\* What reconciling makes of a row.
ReconciledTo(row, r) ==
    /\ r \in Row /\ r.status = row.status /\ r.input = row.input
    /\ r.manual = row.manual \/ r.manual = 0
    /\ SameNotes(row, r)
    /\ \/ \A k \in 1..Len(row.recent) : r.recent[k].matched = row.recent[k].matched
       \/ row.input # 0 /\ row.manual = row.input /\ Uses(row, r, row.input)
    /\ r.manual # 0 /\ r.manual = r.input => ~IsEcho(r, r.input)
    /\ row.input # 0 /\ row.manual = row.input /\ IsEcho(row, row.input) => r.manual = 0

LEMMA ReconcileEffect ==
    ASSUME NEW row \in Row PROVE ReconciledTo(row, Reconciled(row))
<1> PICK r : r = Reconciled(row)
  OBVIOUS
<1> SUFFICES ReconciledTo(row, r)
  OBVIOUS
<1>1. CASE row.input # 0 /\ row.manual = row.input /\ IsEcho(row, row.input)
  <2>1. PICK s : s = ConsumeEcho(row, row.input)
    OBVIOUS
  <2>2. ConsumedTo(row, s, row.input)
    BY <2>1, ConsumeEffect DEF Row
  <2>3. r = [s EXCEPT !.manual = 0]
    BY <1>1, <2>1 DEF Reconciled
  <2>4. s \in Row
    BY <2>2 DEF ConsumedTo
  <2>5. /\ r \in Row /\ r.status = s.status /\ r.input = s.input
        /\ r.manual = 0 /\ r.recent = s.recent
    BY <2>3, <2>4 DEF Row
  <2> QED BY <1>1, <2>2, <2>5 DEF ReconciledTo, ConsumedTo, SameNotes, Uses
<1>2. CASE ~(row.input # 0 /\ row.manual = row.input /\ IsEcho(row, row.input))
  <2>1. r = row
    BY <1>2 DEF Reconciled
  <2> QED BY <1>2, <2>1 DEF ReconciledTo, SameNotes
<1> QED BY <1>1, <1>2

LEMMA ReconcileExplains ==
    ASSUME NEW row \in Row, NEW r, ReconciledTo(row, r), NEW k \in 1..Len(row.recent),
           NEW at \in Nat, at # 0, row.recent[k].text = history[at].text,
           Explains(row, row.recent[k], at)
    PROVE  Explains(r, r.recent[k], at)
<1>1. /\ r.input = row.input /\ (r.manual = row.manual \/ r.manual = 0)
      /\ r.recent[k].at = row.recent[k].at
      /\ \/ r.recent[k].matched = row.recent[k].matched
         \/ /\ row.input # 0 /\ row.manual = row.input
            /\ r.recent[k].matched = row.input
            /\ row.recent[k].text = history[row.input].text
  BY DEF ReconciledTo, SameNotes, Uses
<1>2. row.input \in Nat /\ row.manual \in Nat
  BY DEF Row
<1>3. ASSUME row.input <= at, r.recent[k].matched # row.recent[k].matched
      PROVE  r.recent[k].matched = at
  <2>1. /\ row.input # 0 /\ row.manual = row.input /\ r.recent[k].matched = row.input
        /\ row.recent[k].text = history[row.input].text
    BY <1>1, <1>3
  <2>2. ~(row.input < at)
    BY <2>1 DEF Explains
  <2> QED BY <1>2, <1>3, <2>1, <2>2
<1> QED BY <1>1, <1>3 DEF Explains

\* What an upsert makes of a row: a note goes on explaining a message that is not
\* later than the input that is read now.
KeepsExplaining(row, r, at) ==
    \A k \in 1..Len(row.recent) : \A i \in 1..at :
        /\ row.recent[k].text = history[i].text /\ row.input <= at
        /\ Explains(row, row.recent[k], i)
        => Explains(r, r.recent[k], i)

LEMMA UpsertEffect ==
    ASSUME NEW row \in Row, NEW status \in TaskStatuses, NEW at \in Nat,
           NEW r, r = Upserted(row, status, at)
    PROVE  /\ r \in Row /\ r.status = status /\ SameNotes(row, r)
           /\ r.input = (IF at = 0 THEN row.input ELSE at)
           /\ r.manual = 0 \/ r.manual = row.manual \/ r.manual = at
           /\ r.manual # 0 /\ r.manual = r.input => ~IsEcho(r, r.input)
           /\ KeepsExplaining(row, r, at)
<1>1. PICK known : known = [row EXCEPT !.source = "native", !.status = status]
  OBVIOUS
<1>2. /\ known \in Row /\ known.status = status /\ known.input = row.input
      /\ known.manual = row.manual /\ known.recent = row.recent
  BY <1>1 DEF Row
<1>3. (IF row = NoTask THEN Created("native", status)
       ELSE [row EXCEPT !.source = "native", !.status = status]) = known
  BY <1>1 DEF Created
<1>4. PICK seen : /\ r = Reconciled(seen)
                  /\ seen = IF at = 0 THEN known
                            ELSE LET s == [known EXCEPT !.input = at]
                                 IN  IF IsEcho(s, at) THEN ConsumeEcho(s, at)
                                     ELSE [s EXCEPT !.manual = at]
  BY <1>3 DEF Upserted
<1>5. /\ seen \in Row /\ seen.status = status /\ SameNotes(row, seen)
      /\ seen.input = (IF at = 0 THEN row.input ELSE at)
      /\ seen.manual = row.manual \/ seen.manual = at
      /\ KeepsExplaining(row, seen, at)
  <2>1. CASE at = 0
    BY <1>2, <1>4, <2>1 DEF SameNotes, KeepsExplaining
  <2>2. CASE at # 0
    <3>1. PICK s : s = [known EXCEPT !.input = at]
      OBVIOUS
    <3>2. /\ s \in Row /\ s.status = status /\ s.input = at /\ s.manual = row.manual
          /\ s.recent = row.recent
      BY <1>2, <3>1 DEF Row
    <3>3. CASE IsEcho(s, at)
      <4>1. seen = ConsumeEcho(s, at)
        BY <1>4, <2>2, <3>1, <3>3
      <4>2. ConsumedTo(s, seen, at)
        BY <3>2, <4>1, ConsumeEffect
      <4>3. /\ seen \in Row /\ seen.status = status /\ SameNotes(row, seen)
            /\ seen.input = at /\ seen.manual = row.manual
            /\ \A k \in 1..Len(row.recent) :
                  seen.recent[k].matched = row.recent[k].matched \/ seen.recent[k].matched = at
        BY <3>2, <4>2 DEF ConsumedTo, SameNotes, Uses
      <4>4. ASSUME NEW k \in 1..Len(row.recent), NEW i \in 1..at, row.input <= at,
                   Explains(row, row.recent[k], i)
            PROVE  Explains(seen, seen.recent[k], i)
        <5>1. row.manual # i
          BY <4>4 DEF Explains
        <5>2. at <= i => i = at /\ row.input <= i
          BY <4>4
        <5>3. ~(at < i)
          BY <4>4
        <5> QED BY <4>3, <4>4, <5>1, <5>2, <5>3 DEF Explains, SameNotes
      <4> QED BY <2>2, <4>3, <4>4 DEF KeepsExplaining
    <3>4. CASE ~IsEcho(s, at)
      <4>1. seen = [s EXCEPT !.manual = at]
        BY <1>4, <2>2, <3>1, <3>4
      <4>2. /\ seen \in Row /\ seen.status = status /\ seen.recent = row.recent
            /\ seen.input = at /\ seen.manual = at
        BY <3>2, <4>1 DEF Row
      <4>3. ASSUME NEW k \in 1..Len(row.recent), NEW i \in 1..at, row.input <= at,
                   row.recent[k].text = history[i].text, Explains(row, row.recent[k], i)
            PROVE  Explains(seen, seen.recent[k], i)
        <5>1. i # at
          <6> SUFFICES ASSUME i = at PROVE FALSE
            OBVIOUS
          <6>1. /\ row.recent[k].matched = 0 \/ row.recent[k].matched = at
                /\ Distance(row.recent[k].at, at) <= Window
            BY <4>3 DEF Explains
          <6>2. k \in NotesMatching(s.recent, history[at].text, at)
            BY <3>2, <4>3, <6>1 DEF NotesMatching, Row
          <6> QED BY <3>4, <6>2 DEF IsEcho
        <5>2. ~(at <= i) /\ ~(at < i)
          BY <5>1
        <5> QED BY <4>2, <5>1, <5>2 DEF Explains
      <4> QED BY <2>2, <4>2, <4>3 DEF KeepsExplaining, SameNotes
    <3> QED BY <3>3, <3>4
  <2> QED BY <2>1, <2>2
<1>6. ReconciledTo(seen, r)
  BY <1>4, <1>5, ReconcileEffect
<1>7. ASSUME NEW k \in 1..Len(row.recent), NEW i \in 1..at, row.input <= at,
             row.recent[k].text = history[i].text, Explains(row, row.recent[k], i)
      PROVE  Explains(r, r.recent[k], i)
  <2>1. Explains(seen, seen.recent[k], i)
    BY <1>5, <1>7 DEF KeepsExplaining
  <2>2. i \in Nat /\ i # 0 /\ k \in 1..Len(seen.recent) /\ seen.recent[k].text = history[i].text
    BY <1>5, <1>7 DEF SameNotes
  <2> QED BY <1>5, <1>6, <2>1, <2>2, ReconcileExplains
<1>8. KeepsExplaining(row, r, at)
  BY <1>7 DEF KeepsExplaining
<1>9. SameNotes(row, r)
  BY <1>5, <1>6 DEF ReconciledTo, SameNotes
<1> QED BY <1>5, <1>6, <1>8, <1>9 DEF ReconciledTo

\* How many of n + 1 notes are dropped.
Dropped(n) == IF n + 1 > RecentLimit THEN n + 1 - RecentLimit ELSE 0

NewestKept(s, x, t) ==
    /\ Len(t) = Len(s) + 1 - Dropped(Len(s))
    /\ Len(t) <= RecentLimit /\ Len(t) \in Nat \ {0} /\ Dropped(Len(s)) \in Nat
    /\ t[Len(t)] = x
    /\ \A k \in 1..Len(t) : k # Len(t) => /\ k + Dropped(Len(s)) \in 1..Len(s)
                                          /\ t[k] = s[k + Dropped(Len(s))]

LEMMA LastNotesKept ==
    ASSUME NEW S, NEW s \in Seq(S), NEW x \in S
    PROVE  LET t == LastNotes(Append(s, x)) IN t \in Seq(S) /\ NewestKept(s, x, t)
<1>100. PICK t : t = LastNotes(Append(s, x))
  OBVIOUS
<1>1. PICK n \in Nat : n = Len(s)
  OBVIOUS
<1>2. PICK d : d = Dropped(n)
  OBVIOUS
<1>3. d \in Nat /\ d <= n /\ n + 1 - d <= RecentLimit
  BY <1>2, RuntimeTasksConstants DEF Dropped
<1>4. /\ Append(s, x) \in Seq(S) /\ Len(Append(s, x)) = n + 1 /\ Append(s, x)[n + 1] = x
      /\ \A i \in 1..n : Append(s, x)[i] = s[i]
  BY <1>1
<1>0. PICK a \in Seq(S) : a = Append(s, x) /\ Len(a) = n + 1 /\ a[n + 1] = x
                          /\ \A i \in 1..n : a[i] = s[i]
  BY <1>4
<1>5. PICK m \in Int, e \in Int : m = 1 + d /\ e = n + 1 /\ t = SubSeq(a, m, e)
  <2>1. t = LastNotes(a)
    BY <1>0, <1>100
  <2>2. 1 + (IF Len(a) > RecentLimit THEN Len(a) - RecentLimit ELSE 0) = 1 + d
    BY <1>0, <1>2, RuntimeTasksConstants DEF Dropped
  <2>3. t = SubSeq(a, 1 + d, n + 1)
    BY <1>0, <2>1, <2>2 DEF LastNotes
  <2> QED BY <1>3, <2>3
<1>6. /\ t \in Seq(S) /\ Len(t) = n + 1 - d
      /\ \A k \in 1..(n + 1 - d) : t[k] = a[k + d]
  <2>1. \A i \in m..e : a[i] \in S
    BY <1>0, <1>3, <1>5
  <2>2. /\ t \in Seq(S) /\ Len(t) = IF m <= e THEN e - m + 1 ELSE 0
        /\ \A k \in 1..e - m + 1 : t[k] = a[m + k - 1]
    BY <1>5, <2>1, SubSeqProperties
  <2>3. m <= e /\ e - m + 1 = n + 1 - d /\ \A k \in Int : m + k - 1 = k + d
    BY <1>3, <1>5
  <2>4. ASSUME NEW k \in 1..(n + 1 - d) PROVE t[k] = a[k + d]
    <3>1. k \in Int /\ k \in 1..e - m + 1
      BY <2>3
    <3> QED BY <2>2, <2>3, <3>1
  <2> QED BY <2>2, <2>3, <2>4
<1>7. t[n + 1 - d] = x
  BY <1>0, <1>3, <1>6
<1>8. \A k \in 1..(n - d) : t[k] = s[k + d] /\ k + d \in 1..n
  BY <1>0, <1>3, <1>6
<1>9. \A k \in 1..Len(t) : k # Len(t) => k \in 1..(n - d)
  BY <1>3, <1>6
<1>10. t \in Seq(S) /\ NewestKept(s, x, t)
  BY <1>1, <1>2, <1>3, <1>6, <1>7, <1>8, <1>9 DEF NewestKept
<1> QED BY <1>10, <1>100

\* What a new note makes of a row.
NotedTo(row, r, text) ==
    /\ r \in Row /\ r.status = row.status /\ r.input = row.input
    /\ r.manual = row.manual \/ r.manual = 0
    /\ r.manual # 0 /\ r.manual = r.input => ~IsEcho(r, r.input)
    /\ Len(r.recent) = Len(row.recent) + 1 - Dropped(Len(row.recent))
    /\ Len(r.recent) <= RecentLimit /\ Len(r.recent) \in Nat \ {0}

\* The notes that are kept explain what they explained ...
KeptExplain(row, r) ==
    \A k \in 1..Len(r.recent) : k # Len(r.recent) =>
        LET j == k + Dropped(Len(row.recent))
        IN  /\ j \in 1..Len(row.recent) /\ r.recent[k].text = row.recent[j].text
            /\ \A at \in Nat \ {0} :
                  row.recent[j].text = history[at].text /\ Explains(row, row.recent[j], at)
                  => Explains(r, r.recent[k], at)

\* ... and the new one explains its message.
NewExplains(row, r, text) ==
    /\ r.recent[Len(r.recent)].text = text
    /\ \A at \in Nat \ {0} :
          /\ at <= Now /\ Now - at <= Window /\ history[at].text = text
          /\ ~MovedOn(row, at, text)
          => Explains(r, r.recent[Len(r.recent)], at)

LEMMA NoteEffect ==
    ASSUME NEW row \in Row, row.manual <= row.input, NEW text \in {"soft", "packet"},
           NEW r, r = WithServiceInput(row, text), Now \in Nat
    PROVE  NotedTo(row, r, text) /\ KeptExplain(row, r) /\ NewExplains(row, r, text)
<1>1. PICK note \in Note : /\ note = [text |-> text, at |-> Now, matched |-> 0]
                           /\ note.text = text /\ note.at = Now /\ note.matched = 0
  <2>1. PICK now \in Nat : now = Now
    OBVIOUS
  <2>2. [text |-> text, at |-> now, matched |-> 0] \in Note
    BY DEF Note
  <2> QED BY <2>1, <2>2
<1>2. PICK s \in Seq(Note) : s = row.recent
  BY DEF Row
<1>3. PICK t : t = LastNotes(Append(s, note))
  OBVIOUS
<1>4. /\ t \in Seq(Note) /\ Len(t) = Len(s) + 1 - Dropped(Len(s))
      /\ Len(t) <= RecentLimit /\ Len(t) \in Nat \ {0} /\ Dropped(Len(s)) \in Nat
      /\ t[Len(t)] = note
      /\ \A k \in 1..Len(t) : k # Len(t) => /\ k + Dropped(Len(s)) \in 1..Len(s)
                                            /\ t[k] = s[k + Dropped(Len(s))]
  <2>1. t \in Seq(Note) /\ NewestKept(s, note, t)
    BY <1>3, LastNotesKept
  <2> QED BY <2>1 DEF NewestKept
<1>5. PICK q : q = [row EXCEPT !.recent = t]
  OBVIOUS
<1>6. /\ q \in Row /\ q.status = row.status /\ q.input = row.input
      /\ q.manual = row.manual /\ q.recent = t
  BY <1>4, <1>5 DEF Row
<1>7. r = Reconciled(q)
  BY <1>1, <1>2, <1>3, <1>5 DEF WithServiceInput
<1>8. ReconciledTo(q, r)
  BY <1>6, <1>7, ReconcileEffect
<1>9. NotedTo(row, r, text)
  BY <1>2, <1>4, <1>6, <1>8 DEF NotedTo, ReconciledTo, SameNotes
<1>10. KeptExplain(row, r)
  <2> SUFFICES ASSUME NEW k \in 1..Len(r.recent), k # Len(r.recent), NEW j,
                      j = k + Dropped(Len(row.recent))
               PROVE  /\ j \in 1..Len(row.recent) /\ r.recent[k].text = row.recent[j].text
                      /\ \A at \in Nat \ {0} :
                            row.recent[j].text = history[at].text
                            /\ Explains(row, row.recent[j], at)
                            => Explains(r, r.recent[k], at)
    BY DEF KeptExplain
  <2>1. k \in 1..Len(t) /\ k # Len(t)
    BY <1>6, <1>8 DEF ReconciledTo, SameNotes
  <2>2. j \in 1..Len(row.recent) /\ t[k] = row.recent[j]
    BY <1>2, <1>4, <2>1
  <2>3. r.recent[k].text = t[k].text
    BY <1>6, <1>8, <2>1 DEF ReconciledTo, SameNotes
  <2>4. ASSUME NEW at \in Nat \ {0}, row.recent[j].text = history[at].text,
               Explains(row, row.recent[j], at)
        PROVE  Explains(r, r.recent[k], at)
    <3>1. Explains(q, q.recent[k], at) /\ q.recent[k].text = history[at].text
      BY <1>6, <2>2, <2>4 DEF Explains
    <3>2. k \in 1..Len(q.recent) /\ at \in Nat /\ at # 0
      BY <1>6, <2>1
    <3> QED BY <1>6, <1>8, <3>1, <3>2, ReconcileExplains
  <2> QED BY <2>2, <2>3, <2>4
<1>11. NewExplains(row, r, text)
  <2>1. PICK n \in 1..Len(t) : n = Len(t) /\ n = Len(r.recent) /\ t[n] = note
    BY <1>4, <1>6, <1>8 DEF ReconciledTo, SameNotes
  <2>2. r.recent[n].text = text /\ r.recent[n].at = Now
    BY <1>1, <1>6, <1>8, <2>1 DEF ReconciledTo, SameNotes
  <2>3. ASSUME NEW at \in Nat \ {0}, at <= Now, Now - at <= Window, history[at].text = text,
               ~MovedOn(row, at, text)
        PROVE  Explains(r, r.recent[n], at)
    <3>1. PICK a \in Nat, m \in Nat : a = row.input /\ m = row.manual /\ m <= a
      BY DEF Row
    <3>2. a <= at /\ (a < at /\ m # 0 /\ m = a => history[a].text # text)
      BY <2>3, <3>1 DEF MovedOn
    <3>3. r.input = a /\ (r.manual = m \/ r.manual = 0)
      BY <1>6, <1>8, <3>1 DEF ReconciledTo
    <3>4. Distance(Now, at) <= Window
      BY <2>3 DEF Distance
    <3>5. r.recent[n].matched = 0 \/ r.recent[n].matched = at
      <4> SUFFICES ASSUME r.recent[n].matched # 0 PROVE r.recent[n].matched = at
        OBVIOUS
      <4>1. q.recent[n].matched = 0 /\ q.recent[n].text = text /\ n \in 1..Len(q.recent)
        BY <1>1, <1>6, <2>1
      <4>2. /\ a # 0 /\ m = a /\ r.recent[n].matched = a /\ history[a].text = text
        BY <1>6, <1>8, <3>1, <4>1 DEF ReconciledTo, Uses
      <4> QED BY <3>1, <3>2, <4>2
    <3>6. r.manual # at
      <4> SUFFICES ASSUME r.manual = at PROVE FALSE
        OBVIOUS
      <4>1. m = at /\ a = at /\ a # 0
        BY <3>1, <3>2, <3>3
      <4>2. n \in NotesMatching(t, history[at].text, at)
        BY <1>1, <1>4, <2>1, <2>3, <3>4 DEF NotesMatching
      <4>3. IsEcho(q, q.input)
        BY <1>6, <3>1, <4>1, <4>2 DEF IsEcho
      <4>4. r.manual = 0
        BY <1>6, <1>8, <3>1, <4>1, <4>3 DEF ReconciledTo
      <4> QED BY <4>4
    <3>7. r.input < at /\ r.manual # 0 /\ r.manual = r.input =>
              history[r.input].text # history[at].text
      BY <2>3, <3>2, <3>3
    <3> QED BY <2>2, <3>4, <3>5, <3>6, <3>7 DEF Explains
  <2> QED BY <2>1, <2>2, <2>3 DEF NewExplains
<1> QED BY <1>9, <1>10, <1>11
(***************************************************************************)
(* The steps.                                                              *)
(***************************************************************************)
\* LastAt is the last of the entries that it looks for.
LastOf(th, kinds, n) ==
    /\ n \in 0..Now
    /\ n # 0 => history[n].thread = th /\ history[n].by \in kinds
    /\ \A i \in 1..Now : history[i].thread = th /\ history[i].by \in kinds => i <= n

LEMMA LastAtIsLast ==
    ASSUME NEW th, NEW kinds, Now \in Nat PROVE LastOf(th, kinds, LastAt(th, kinds))
<1>1. PICK now \in Nat : now = Now
  OBVIOUS
<1>2. PICK at : at = {i \in 1..now : history[i].thread = th /\ history[i].by \in kinds}
  OBVIOUS
<1>3. LastAt(th, kinds) = IF at = {} THEN 0 ELSE Max(at)
  BY <1>1, <1>2 DEF LastAt
<1>4. CASE at = {}
  BY <1>1, <1>2, <1>3, <1>4 DEF LastOf
<1>5. CASE at # {}
  <2>1. at \in SUBSET (0..now)
    BY <1>2
  <2>2. Max(at) \in at /\ \A i \in at : i <= Max(at)
    BY <1>5, <2>1, GreatestIsMax
  <2> QED BY <1>1, <1>2, <1>3, <1>5, <2>2 DEF LastOf
<1> QED BY <1>4, <1>5

\* The history only grows.
HistoryKept == Now <= Now' /\ \A i \in 1..Now : history'[i] = history[i]

LEMMA Grows ==
    ASSUME TimeTypes, NEW e \in HistoryEntry, Happens(e)
    PROVE  /\ HistoryKept /\ history' \in Seq(HistoryEntry) /\ Now' <= MaxHistory
           /\ Now' = Now + 1 /\ Now \in Nat /\ history'[Now + 1] = e
<1> USE DEF TimeTypes, Happens, Now
<1>1. Len(history) < MaxHistory /\ history' = Append(history, e) /\ history \in Seq(HistoryEntry)
  OBVIOUS
<1>2. Len(history') = Len(history) + 1 /\ Len(history) \in Nat /\ history' \in Seq(HistoryEntry)
  BY <1>1
<1>3. \A i \in 1..Len(history) : history'[i] = history[i]
  BY <1>1
<1>4. history'[Len(history) + 1] = e
  BY <1>1
<1> QED BY <1>1, <1>2, <1>3, <1>4, RuntimeTasksConstants DEF HistoryKept

\* A row that remembers the same and whose notes come from the same messages.
SameMemory(row, r) == r.input = row.input /\ r.manual = row.manual /\ r.recent = row.recent

LEMMA ThreadKept ==
    ASSUME TasksInv, NEW th \in Threads, HistoryKept, SameMemory(task[th], task'[th]),
           origin'[th] = origin[th], overtaken \subseteq overtaken'
    PROVE  ThreadHolds(th)'
<1>1. PICK row \in Row : row = task[th] /\ row.input \in Nat /\ row.manual \in Nat
  BY DEF TasksInv, RowTypes, Row
<1>2. PICK r : r = task'[th] /\ r.input = row.input /\ r.manual = row.manual /\ r.recent = row.recent
  BY <1>1 DEF SameMemory
<1>3. Now \in Nat /\ Now <= Now' /\ Now' \in Nat
  <2>1. Now \in Nat /\ Now <= Now'
    BY DEF TasksInv, TimeTypes, HistoryKept, Now
  <2>2. Now' \in Nat
    BY <2>1 DEF Now, HistoryKept
  <2> QED BY <2>1, <2>2
<1>4. \A i \in Nat \ {0} : i <= Now => history'[i] = history[i]
  BY <1>3 DEF HistoryKept
<1>5. ThreadHolds(th)
  BY DEF TasksInv
<1>6. row.input # 0 => row.input <= Now
  BY <1>1, <1>5 DEF ThreadHolds, Remembers
<1>7. row.manual # 0 => row.manual <= Now
  BY <1>1, <1>5 DEF ThreadHolds, Remembers
<1>8. Remembers(th)'
  <2>1. ASSUME NEW at \in {row.input, row.manual}, at # 0
        PROVE  at <= Now' /\ history'[at].thread = th /\ history'[at].by \in Inputs
    <3>1. at <= Now /\ history[at].thread = th /\ history[at].by \in Inputs
      BY <1>1, <1>5, <2>1 DEF ThreadHolds, Remembers
    <3>2. at \in Nat /\ history'[at] = history[at]
      BY <1>1, <1>4, <2>1, <3>1
    <3> QED BY <1>3, <3>1, <3>2
  <2>2. row.manual <= row.input
    BY <1>1, <1>5 DEF ThreadHolds, Remembers
  <2> QED BY <1>1, <1>2, <2>1, <2>2 DEF Remembers
<1>9. NotExplained(th)'
  BY <1>1, <1>2, <1>4, <1>5, <1>6 DEF ThreadHolds, NotExplained, IsEcho
<1>10. OriginsHold(th)'
  <2>1. PICK o : o = origin[th] /\ o = origin'[th]
    OBVIOUS
  <2>2. o \in Seq(Nat) /\ Len(o) = Len(row.recent) /\ Len(o) = Len(r.recent)
    BY <1>1, <1>2, <1>5, <2>1 DEF ThreadHolds, OriginsHold
  <2>3. ASSUME NEW k \in 1..Len(o), o[k] # 0
        PROVE  /\ NoteIsFor(th, r.recent[k], o[k])'
               /\ o[k] \notin overtaken' => Explains(r, r.recent[k], o[k])'
    <3>1. NoteIsFor(th, row.recent[k], o[k])
      BY <1>1, <1>5, <2>1, <2>3 DEF ThreadHolds, OriginsHold
    <3>2. o[k] \notin overtaken => Explains(row, row.recent[k], o[k])
      BY <1>1, <1>5, <2>1, <2>3 DEF ThreadHolds, OriginsHold
    <3>3. o[k] \in Nat \ {0}
      BY <2>2, <2>3
    <3>4. o[k] <= Now /\ history'[o[k]] = history[o[k]]
      BY <1>4, <3>1, <3>3 DEF NoteIsFor
    <3>5. NoteIsFor(th, r.recent[k], o[k])'
      BY <1>2, <1>3, <3>1, <3>3, <3>4 DEF NoteIsFor
    <3>6. o[k] \notin overtaken' => Explains(r, r.recent[k], o[k])'
      BY <1>1, <1>2, <1>4, <1>6, <3>2, <3>4 DEF Explains
    <3> QED BY <3>5, <3>6
  <2> QED BY <1>2, <2>1, <2>2, <2>3 DEF OriginsHold
<1> QED BY <1>8, <1>9, <1>10 DEF ThreadHolds
\* A round of the loop, or a registration, over one row.
LEMMA ThreadRead ==
    ASSUME TasksInv, NEW th \in Threads, NEW status \in TaskStatuses,
           task'[th] = Upserted(task[th], status, LastAt(th, Inputs)),
           history' = history, origin'[th] = origin[th], overtaken' = overtaken
    PROVE  /\ ThreadHolds(th)' /\ task'[th] \in Row
           /\ Len(task'[th].recent) <= RecentLimit
           /\ task'[th].status = status
<1>1. PICK row \in Row : row = task[th] /\ row.input \in Nat /\ row.manual \in Nat
  BY DEF TasksInv, RowTypes, Row
<1>2. PICK now \in Nat : now = Now /\ now = Now'
  BY DEF TasksInv, TimeTypes, Now
<1>3. PICK at \in 0..now : at = LastAt(th, Inputs) /\ LastOf(th, Inputs, at)
  BY <1>2, LastAtIsLast DEF LastOf
<1>4. PICK r : r = task'[th] /\ r = Upserted(row, status, at)
  BY <1>1, <1>3
<1>5. /\ r \in Row /\ r.status = status /\ SameNotes(row, r)
      /\ r.input = (IF at = 0 THEN row.input ELSE at)
      /\ r.manual = 0 \/ r.manual = row.manual \/ r.manual = at
      /\ r.manual # 0 /\ r.manual = r.input => ~IsEcho(r, r.input)
      /\ KeepsExplaining(row, r, at)
  BY <1>4, UpsertEffect
<1>6. /\ row.manual <= row.input
      /\ \A i \in {row.input, row.manual} :
            i # 0 => i <= now /\ history[i].thread = th /\ history[i].by \in Inputs
  BY <1>1, <1>2 DEF TasksInv, ThreadHolds, Remembers
<1>7. row.input <= at
  BY <1>1, <1>2, <1>3, <1>6 DEF LastOf
<1>8. r.input = at
  BY <1>1, <1>3, <1>5, <1>7
<1>9. at # 0 => history[at].thread = th /\ history[at].by \in Inputs
  BY <1>3 DEF LastOf
<1>10. Remembers(th)'
  <2>1. \A i \in {r.input, r.manual} :
            i # 0 => i <= now /\ history[i].thread = th /\ history[i].by \in Inputs
    BY <1>1, <1>3, <1>5, <1>6, <1>8, <1>9
  <2>2. r.manual <= r.input
    BY <1>1, <1>3, <1>5, <1>6, <1>7, <1>8
  <2> QED BY <1>2, <1>4, <2>1, <2>2 DEF Remembers
<1>11. NotExplained(th)'
  <2>1. r.manual # 0 /\ r.manual = r.input => ~IsEcho(r, r.input)'
    BY <1>5 DEF IsEcho
  <2> QED BY <1>4, <2>1 DEF NotExplained
<1>12. Len(row.recent) <= RecentLimit /\ Len(r.recent) = Len(row.recent)
  BY <1>1, <1>5 DEF TasksInv, RowTypes, SameNotes
<1>13. OriginsHold(th)'
  <2>1. PICK o : o = origin[th] /\ o = origin'[th]
    OBVIOUS
  <2>2. o \in Seq(Nat) /\ Len(o) = Len(row.recent) /\ Len(o) = Len(r.recent)
    BY <1>1, <1>12, <2>1 DEF TasksInv, ThreadHolds, OriginsHold
  <2>3. ASSUME NEW k \in 1..Len(o), o[k] # 0
        PROVE  /\ NoteIsFor(th, r.recent[k], o[k])'
               /\ o[k] \notin overtaken' => Explains(r, r.recent[k], o[k])'
    <3>1. NoteIsFor(th, row.recent[k], o[k])
      BY <1>1, <2>1, <2>3 DEF TasksInv, ThreadHolds, OriginsHold
    <3>2. o[k] \notin overtaken => Explains(row, row.recent[k], o[k])
      BY <1>1, <2>1, <2>3 DEF TasksInv, ThreadHolds, OriginsHold
    <3>3. o[k] \in Nat \ {0} /\ o[k] \in 1..now
      BY <1>2, <2>2, <2>3, <3>1 DEF NoteIsFor
    <3>4. o[k] <= at
      BY <1>2, <1>3, <3>1, <3>3 DEF NoteIsFor, LastOf, Inputs
    <3>5. o[k] \in 1..at /\ k \in 1..Len(row.recent)
      BY <2>2, <3>3, <3>4
    <3>6. row.recent[k].text = history[o[k]].text /\ r.recent[k].text = row.recent[k].text
      BY <1>5, <3>1, <3>5 DEF NoteIsFor, SameNotes
    <3>7. NoteIsFor(th, r.recent[k], o[k])'
      BY <1>2, <3>1, <3>6 DEF NoteIsFor
    <3>8. o[k] \notin overtaken => Explains(r, r.recent[k], o[k])
      BY <1>5, <1>7, <3>2, <3>5, <3>6 DEF KeepsExplaining
    <3>9. Explains(r, r.recent[k], o[k])' <=> Explains(r, r.recent[k], o[k])
      BY DEF Explains
    <3> QED BY <3>7, <3>8, <3>9
  <2> QED BY <1>4, <2>1, <2>2, <2>3 DEF OriginsHold
<1> QED BY <1>4, <1>5, <1>10, <1>11, <1>12, <1>13 DEF ThreadHolds

\* A handler notes its message for the current thread.
LEMMA ThreadNoted ==
    ASSUME TasksInv, NEW th \in Threads, th = current,
           NEW h \in Handlers, handler[h].op \in {"steer", "resume"}, handler[h].at # 0,
           NEW r, r = WithServiceInput(task[current], handler[h].text),
           SameMemory(r, task'[current]), task'[current].status \in TaskStatuses,
           task'[current] \in Row, OriginKept(h), history' = history
    PROVE  ThreadHolds(th)' /\ Len(task'[th].recent) <= RecentLimit
<1>1. /\ handler[h] \in HandlerState /\ handler[h].thread \in Threads /\ current \in Threads
      /\ handler[h].text \in {"soft", "packet"}
      /\ handler[h].at <= Now /\ history[handler[h].at].thread = handler[h].thread
      /\ history[handler[h].at].by = "service" /\ history[handler[h].at].text = handler[h].text
  BY DEF TasksInv, HandlerTypes
<1>2. th = current
  OBVIOUS
<1>3. PICK text \in {"soft", "packet"} : text = handler[h].text
  BY <1>1
<1>4. PICK row \in Row : row = task[th] /\ row.input \in Nat /\ row.manual \in Nat
  BY DEF TasksInv, RowTypes, Row
<1>5. PICK now \in Nat : now = Now /\ now = Now'
  BY DEF TasksInv, TimeTypes, Now
<1>6. row.manual <= row.input
  BY <1>4 DEF TasksInv, ThreadHolds, Remembers
<1>7. r = WithServiceInput(row, text)
  BY <1>2, <1>3, <1>4
<1>8. NotedTo(row, r, text) /\ KeptExplain(row, r) /\ NewExplains(row, r, text)
  BY <1>5, <1>6, <1>7, NoteEffect
<1>9. PICK q : q = task'[th] /\ q \in Row /\ SameMemory(r, q)
  BY <1>2
<1>10. q.input = r.input /\ q.manual = r.manual /\ q.recent = r.recent
  BY <1>9 DEF SameMemory
<1>11. PICK at \in Nat : /\ at = MessageNoted(h)
                         /\ at # 0 => /\ at <= now /\ now - at <= Window
                                      /\ history[at].thread = th /\ history[at].by = "service"
                                      /\ history[at].text = text
  <2>1. handler[h].at \in Nat
    BY <1>1 DEF HandlerState
  <2> QED BY <1>1, <1>2, <1>3, <1>5, <2>1 DEF MessageNoted
<1>12. Remembers(th)'
  <2>1. \A i \in {row.input, row.manual} :
            i # 0 => i <= now /\ history[i].thread = th /\ history[i].by \in Inputs
    BY <1>4, <1>5 DEF TasksInv, ThreadHolds, Remembers
  <2>2. q.input = row.input /\ (q.manual = row.manual \/ q.manual = 0)
    BY <1>8, <1>10 DEF NotedTo
  <2> QED BY <1>4, <1>5, <1>6, <1>9, <2>1, <2>2 DEF Remembers
<1>13. NotExplained(th)'
  <2>1. q.manual # 0 /\ q.manual = q.input => ~IsEcho(q, q.input)
    BY <1>8, <1>10 DEF NotedTo, IsEcho
  <2>2. IsEcho(q, q.input)' <=> IsEcho(q, q.input)
    BY DEF IsEcho
  <2> QED BY <1>9, <2>1, <2>2 DEF NotExplained
<1>14. PICK o \in Seq(Nat) : o = origin[th] /\ Len(o) = Len(row.recent)
  BY <1>4 DEF TasksInv, ThreadHolds, OriginsHold
<1>15. PICK o2 : o2 = origin'[th] /\ o2 = LastNotes(Append(o, at))
  BY <1>2, <1>11, <1>14 DEF OriginKept, TasksInv, TimeTypes
<1>16. o2 \in Seq(Nat) /\ NewestKept(o, at, o2)
  BY <1>15, LastNotesKept
<1>17. Len(o2) = Len(q.recent) /\ Len(q.recent) <= RecentLimit
  BY <1>8, <1>10, <1>14, <1>16 DEF NotedTo, NewestKept
<1>18. overtaken' = overtaken \cup {i \in {at} : MovedOn(row, i, text)}
  BY <1>2, <1>3, <1>4, <1>11 DEF OriginKept
<1>19. ASSUME NEW k \in 1..Len(o2), o2[k] # 0
       PROVE  /\ NoteIsFor(th, r.recent[k], o2[k])
              /\ o2[k] \notin overtaken' => Explains(r, r.recent[k], o2[k])
  <2>1. CASE k = Len(o2)
    <3>1. o2[k] = at /\ at \in Nat \ {0} /\ Len(r.recent) = k
      BY <1>10, <1>11, <1>16, <1>17, <1>19, <2>1 DEF NewestKept
    <3>2. NoteIsFor(th, r.recent[k], at)
      BY <1>5, <1>8, <1>11, <3>1 DEF NoteIsFor, NewExplains
    <3>3. ASSUME at \notin overtaken' PROVE Explains(r, r.recent[k], at)
      <4>1. ~MovedOn(row, at, text)
        BY <1>18, <3>3
      <4> QED BY <1>5, <1>8, <1>11, <3>1, <4>1 DEF NewExplains
    <3> QED BY <3>1, <3>2, <3>3
  <2>2. CASE k # Len(o2)
    <3>1. PICK j \in 1..Len(o) : j = k + Dropped(Len(o)) /\ o2[k] = o[j]
      BY <1>16, <1>19, <2>2 DEF NewestKept
    <3>2. NoteIsFor(th, row.recent[j], o[j])
      BY <1>4, <1>14, <1>19, <3>1 DEF TasksInv, ThreadHolds, OriginsHold
    <3>3. o[j] \notin overtaken => Explains(row, row.recent[j], o[j])
      BY <1>4, <1>14, <1>19, <3>1 DEF TasksInv, ThreadHolds, OriginsHold
    <3>4. k \in 1..Len(r.recent) /\ k # Len(r.recent) /\ j = k + Dropped(Len(row.recent))
      BY <1>10, <1>14, <1>17, <1>19, <2>2, <3>1
    <3>5. o[j] \in Nat \ {0} /\ row.recent[j].text = history[o[j]].text
      BY <1>14, <1>19, <3>1, <3>2 DEF NoteIsFor
    <3>6. /\ r.recent[k].text = row.recent[j].text
          /\ Explains(row, row.recent[j], o[j]) => Explains(r, r.recent[k], o[j])
      BY <1>8, <3>4, <3>5 DEF KeptExplain
    <3>7. NoteIsFor(th, r.recent[k], o[j])
      BY <3>2, <3>6 DEF NoteIsFor
    <3>8. o[j] \notin overtaken' => o[j] \notin overtaken
      BY <1>18
    <3> QED BY <3>1, <3>3, <3>6, <3>7, <3>8
  <2> QED BY <2>1, <2>2
<1>20. OriginsHold(th)'
  <2>1. ASSUME NEW k \in 1..Len(o2), o2[k] # 0
        PROVE  /\ NoteIsFor(th, q.recent[k], o2[k])'
               /\ o2[k] \notin overtaken' => Explains(q, q.recent[k], o2[k])'
    <3>1. NoteIsFor(th, q.recent[k], o2[k])'
      BY <1>5, <1>10, <1>19, <2>1 DEF NoteIsFor
    <3>2. Explains(r, r.recent[k], o2[k]) => Explains(q, q.recent[k], o2[k])'
      BY <1>10 DEF Explains
    <3> QED BY <1>19, <2>1, <3>1, <3>2
  <2> QED BY <1>9, <1>15, <1>16, <1>17, <2>1 DEF OriginsHold
<1>21. ThreadHolds(th)'
  BY <1>12, <1>13, <1>20 DEF ThreadHolds
<1> QED BY <1>9, <1>17, <1>21
\* Steps that leave the memory of every row alone.
LEMMA RowsKept ==
    ASSUME TasksInv, HistoryKept, task' \in [Threads -> Row],
           \A th \in Threads : SameMemory(task[th], task'[th]), UNCHANGED originVars
    PROVE  RowTypes' /\ \A th \in Threads : ThreadHolds(th)'
<1>1. origin' = origin /\ overtaken' = overtaken
  BY DEF originVars
<1>2. RowTypes'
  BY DEF TasksInv, RowTypes, SameMemory
<1>3. ASSUME NEW th \in Threads PROVE ThreadHolds(th)'
  BY <1>1, <1>3, ThreadKept
<1> QED BY <1>2, <1>3

LEMMA SameRow == \A row : SameMemory(row, row)
  BY DEF SameMemory

LEMMA StatusRow ==
    ASSUME TasksInv, current \in Threads, NEW status \in TaskStatuses
    PROVE  /\ MergeUpdate(task, status) \in [Threads -> Row]
           /\ \A th \in Threads : SameMemory(task[th], MergeUpdate(task, status)[th])
<1>1. task \in [Threads -> Row]
  BY DEF TasksInv, RowTypes
<1>2. PICK row \in Row : row = task[current]
  BY <1>1
<1>3. PICK r : r = [row EXCEPT !.status = status]
  OBVIOUS
<1>4. r \in Row /\ SameMemory(row, r)
  BY <1>3 DEF Row, SameMemory
<1>5. MergeUpdate(task, status) = [task EXCEPT ![current] = r]
  BY <1>1, <1>2, <1>3 DEF MergeUpdate
<1>6. MergeUpdate(task, status) \in [Threads -> Row]
  BY <1>1, <1>4, <1>5
<1>7. ASSUME NEW th \in Threads PROVE SameMemory(task[th], MergeUpdate(task, status)[th])
  BY <1>1, <1>2, <1>4, <1>5, SameRow
<1> QED BY <1>6, <1>7

LEMMA HandlersKept ==
    ASSUME TasksInv, HistoryKept, Now' \in Nat, current' = current \/ current' \in Threads,
           handler' \in [Handlers -> HandlerState],
           \A g \in Handlers : handler'[g] = handler[g] \/ handler'[g] = IdleHandler
    PROVE  HandlerTypes'
<1>1. Now \in Nat /\ Now <= Now'
  BY DEF TasksInv, TimeTypes, HistoryKept, Now
<1>2. \A i \in Nat \ {0} : i <= Now => history'[i] = history[i]
  BY <1>1 DEF HistoryKept
<1>3. ASSUME NEW g \in Handlers
      PROVE  /\ handler'[g].op = "none" => handler'[g] = IdleHandler
             /\ handler'[g].op # "none" => handler'[g].thread \in Threads /\ current' \in Threads
             /\ handler'[g].op = "steer" => handler'[g].text = "soft"
             /\ handler'[g].op = "resume" => handler'[g].text = "packet"
             /\ handler'[g].at # 0 =>
                   /\ handler'[g].at <= Now' /\ history'[handler'[g].at].thread = handler'[g].thread
                   /\ history'[handler'[g].at].by = "service"
                   /\ history'[handler'[g].at].text = handler'[g].text
  <2>1. CASE handler'[g] = IdleHandler
    BY <2>1 DEF IdleHandler
  <2>2. CASE handler'[g] = handler[g]
    <3>1. /\ handler[g].at \in Nat
          /\ handler[g].op # "none" => handler[g].thread \in Threads /\ current \in Threads
          /\ handler[g].op = "none" => handler[g] = IdleHandler
          /\ handler[g].op = "steer" => handler[g].text = "soft"
          /\ handler[g].op = "resume" => handler[g].text = "packet"
          /\ handler[g].at # 0 =>
                /\ handler[g].at <= Now /\ history[handler[g].at].thread = handler[g].thread
                /\ history[handler[g].at].by = "service"
                /\ history[handler[g].at].text = handler[g].text
      BY DEF TasksInv, HandlerTypes, HandlerState
    <3> QED BY <1>1, <1>2, <2>2, <3>1
  <2> QED BY <2>1, <2>2
<1> QED BY <1>3 DEF HandlerTypes

LEMMA HistorySame ==
    ASSUME TasksInv, history' = history
    PROVE  HistoryKept /\ Now' = Now /\ Now \in Nat /\ Now' \in Nat
<1>1. Now \in Nat /\ Now' = Now
  BY DEF TasksInv, TimeTypes, Now
<1> QED BY <1>1 DEF HistoryKept

LEMMA HistoryStep ==
    ASSUME TasksInv, NEW th \in Threads, NEW by \in {"user", "work", "final"},
           NEW text \in Words, Happens(Entry(th, by, text)),
           UNCHANGED <<shown, task, current, active, handler, requests, originVars>>
    PROVE  TasksInv'
<1>1. Entry(th, by, text) \in HistoryEntry
  BY DEF Entry, HistoryEntry
<1>2. /\ HistoryKept /\ history' \in Seq(HistoryEntry) /\ Now' <= MaxHistory
      /\ Now' = Now + 1 /\ Now \in Nat
  BY <1>1, Grows DEF TasksInv
<1>3. RowTypes' /\ \A u \in Threads : ThreadHolds(u)'
  BY <1>2, RowsKept, SameRow DEF TasksInv, RowTypes, originVars
<1>4. HandlerTypes'
  BY <1>2, HandlersKept DEF TasksInv, HandlerTypes
<1>5. TimeTypes'
  BY <1>2 DEF TasksInv, TimeTypes, originVars
<1> QED BY <1>3, <1>4, <1>5 DEF TasksInv

LEMMA ShownStep == ASSUME TasksInv, NEW S \in SUBSET Threads, WorkspacesChange(S) PROVE TasksInv'
<1> USE DEF WorkspacesChange
<1>1. HistoryKept /\ Now' = Now /\ Now' \in Nat
  BY HistorySame
<1>3. RowTypes' /\ \A u \in Threads : ThreadHolds(u)'
  BY <1>1, RowsKept, SameRow DEF TasksInv, RowTypes, originVars
<1>4. HandlerTypes'
  BY <1>1, HandlersKept DEF TasksInv, HandlerTypes
<1>5. TimeTypes'
  BY <1>1 DEF TasksInv, TimeTypes, originVars
<1> QED BY <1>3, <1>4, <1>5 DEF TasksInv

LEMMA SyncStep == ASSUME TasksInv, SyncThreads PROVE TasksInv'
<1>1. /\ history' = history /\ shown' = shown /\ handler' = handler /\ requests' = requests
      /\ origin' = origin /\ overtaken' = overtaken /\ active' = shown
      /\ current' = current \/ current' \in shown
      /\ task' = [th \in Threads |->
                    IF th \in shown
                    THEN Upserted(task[th], KeptStatus(task[th], Reported(th)), LastAt(th, Inputs))
                    ELSE task[th]]
  BY DEF SyncThreads, originVars
<1>2. HistoryKept /\ Now' = Now /\ Now' \in Nat
  BY <1>1, HistorySame
<1>3. shown \subseteq Threads
  BY DEF TasksInv, TimeTypes
<1>4. ASSUME NEW th \in Threads
      PROVE  /\ ThreadHolds(th)' /\ task'[th] \in Row /\ Len(task'[th].recent) <= RecentLimit
  <2>1. CASE th \in shown
    <3>1. KeptStatus(task[th], Reported(th)) \in TaskStatuses
      BY DEF KeptStatus, Reported, TaskStatuses
    <3>2. task'[th] = Upserted(task[th], KeptStatus(task[th], Reported(th)), LastAt(th, Inputs))
      BY <1>1, <2>1
    <3> QED BY <1>1, <3>1, <3>2, ThreadRead
  <2>2. CASE th \notin shown
    <3>1. task'[th] = task[th]
      BY <1>1, <2>2
    <3>2. task'[th] \in Row /\ Len(task'[th].recent) <= RecentLimit
      BY <3>1 DEF TasksInv, RowTypes
    <3> QED BY <1>1, <1>2, <3>1, <3>2, SameRow, ThreadKept
  <2> QED BY <2>1, <2>2
<1>5. RowTypes'
  <2>1. task' = [th \in Threads |-> task'[th]]
    BY <1>1
  <2> QED BY <1>4, <2>1 DEF RowTypes
<1>6. HandlerTypes'
  BY <1>1, <1>2, <1>3, HandlersKept DEF TasksInv, HandlerTypes
<1>7. TimeTypes'
  BY <1>1, <1>2, <1>3 DEF TasksInv, TimeTypes
<1> QED BY <1>4, <1>5, <1>6, <1>7 DEF TasksInv
LEMMA RegisterStep ==
    ASSUME TasksInv, NEW th \in Threads, RegisterThread(th, "running") PROVE TasksInv'
<1>1. /\ history' = history /\ shown' = shown /\ handler' = handler
      /\ origin' = origin /\ overtaken' = overtaken
      /\ active' = active \cup {th} /\ current' = th
      /\ requests < MaxRequests /\ requests' = requests + 1
      /\ task' = [task EXCEPT ![th] = Upserted(task[th], "running", LastAt(th, Inputs))]
  BY DEF RegisterThread, Requested, originVars
<1>2. HistoryKept /\ Now' = Now /\ Now' \in Nat
  BY <1>1, HistorySame
<1>3. task \in [Threads -> Row] /\ \A u \in Threads : Len(task[u].recent) <= RecentLimit
  BY DEF TasksInv, RowTypes
<1>4. ASSUME NEW u \in Threads
      PROVE  ThreadHolds(u)' /\ task'[u] \in Row /\ Len(task'[u].recent) <= RecentLimit
  <2>1. CASE u = th
    <3>1. task'[u] = Upserted(task[u], "running", LastAt(u, Inputs)) /\ "running" \in TaskStatuses
      BY <1>1, <1>3, <2>1 DEF TaskStatuses
    <3> QED BY <1>1, <3>1, ThreadRead
  <2>2. CASE u # th
    <3>1. task'[u] = task[u]
      BY <1>1, <1>3, <2>2
    <3> QED BY <1>1, <1>2, <1>3, <3>1, SameRow, ThreadKept
  <2> QED BY <2>1, <2>2
<1>5. RowTypes'
  <2>1. task' = [u \in Threads |-> task'[u]]
    BY <1>1, <1>3
  <2> QED BY <1>4, <2>1 DEF RowTypes
<1>6. HandlerTypes'
  BY <1>1, <1>2, HandlersKept DEF TasksInv, HandlerTypes
<1>7. TimeTypes'
  BY <1>1, <1>2, RuntimeTasksConstants DEF TasksInv, TimeTypes
<1> QED BY <1>4, <1>5, <1>6, <1>7 DEF TasksInv

LEMMA CreateStep == ASSUME TasksInv, NEW th \in Threads, CreateTask(th) PROVE TasksInv'
<1>1. /\ history' = history /\ shown' = shown /\ handler' = handler /\ active' = active
      /\ origin' = origin /\ overtaken' = overtaken /\ current' = th
      /\ requests < MaxRequests /\ requests' = requests + 1
      /\ task[th] = NoTask /\ task' = [task EXCEPT ![th] = Created("manual", "running")]
  BY DEF CreateTask, Requested, originVars
<1>2. HistoryKept /\ Now' = Now /\ Now' \in Nat
  BY <1>1, HistorySame
<1>3. task \in [Threads -> Row]
  BY DEF TasksInv, RowTypes
<1>4. Created("manual", "running") \in Row /\ SameMemory(NoTask, Created("manual", "running"))
  <2>1. PICK none \in Seq(Note) : none = << >>
    <3>1. << >> \in Seq(Note)
      OBVIOUS
    <3> QED BY <3>1
  <2>2. PICK n \in Row : n = NoTask
    <3>1. NoTask = [source |-> "none", status |-> "none", input |-> 0, manual |-> 0, recent |-> none]
      BY <2>1 DEF NoTask
    <3>2. NoTask \in Row
      BY <3>1 DEF Row, TaskStatuses
    <3> QED BY <3>2
  <2>3. PICK c : c = [n EXCEPT !.source = "manual", !.status = "running"]
    OBVIOUS
  <2>4. c \in Row /\ c.input = n.input /\ c.manual = n.manual /\ c.recent = n.recent
    BY <2>3 DEF Row, TaskStatuses
  <2>5. Created("manual", "running") = c
    BY <2>2, <2>3 DEF Created
  <2> QED BY <2>2, <2>4, <2>5 DEF SameMemory
<1>5. task' \in [Threads -> Row] /\ \A u \in Threads : SameMemory(task[u], task'[u])
  BY <1>1, <1>3, <1>4, SameRow
<1>6. RowTypes' /\ \A u \in Threads : ThreadHolds(u)'
  BY <1>1, <1>2, <1>5, RowsKept DEF originVars
<1>7. HandlerTypes'
  BY <1>1, <1>2, HandlersKept DEF TasksInv, HandlerTypes
<1>8. TimeTypes'
  BY <1>1, <1>2, RuntimeTasksConstants DEF TasksInv, TimeTypes
<1> QED BY <1>6, <1>7, <1>8 DEF TasksInv

\* A request begins; resume changes the status too.
LEMMA BeginStep ==
    ASSUME TasksInv, NEW h \in Handlers,
           SteerBegins(h, "soft") \/ PauseBegins(h) \/ ResumeBegins(h, "packet")
    PROVE  TasksInv'
<1>1. PICK op \in {"steer", "pause", "resume"}, text \in Words :
          /\ Begins(h, op, text)
          /\ op = "steer" => text = "soft"
          /\ op = "resume" => text = "packet"
          /\ task' = task \/ task' = MergeUpdate(task, "resuming")
          /\ UNCHANGED <<history, shown, current, active, originVars>>
  BY DEF SteerBegins, PauseBegins, ResumeBegins, Words
<1>2. current \in Threads
  BY <1>1 DEF Begins, Visible, TasksInv, TimeTypes
<1>3. HistoryKept /\ Now' = Now /\ Now \in Nat /\ Now' \in Nat
  BY <1>1, HistorySame
<1>4. task' \in [Threads -> Row] /\ \A u \in Threads : SameMemory(task[u], task'[u])
  <2>1. CASE task' = task
    BY <2>1, SameRow DEF TasksInv, RowTypes
  <2>2. CASE task' = MergeUpdate(task, "resuming")
    <3>1. "resuming" \in TaskStatuses
      BY DEF TaskStatuses
    <3> QED BY <1>2, <2>2, <3>1, StatusRow
  <2> QED BY <1>1, <2>1, <2>2
<1>5. RowTypes' /\ \A u \in Threads : ThreadHolds(u)'
  BY <1>1, <1>3, <1>4, RowsKept DEF originVars
<1>6. PICK b : b = [op |-> op, thread |-> current, text |-> text, at |-> 0]
  OBVIOUS
<1>7. b \in HandlerState /\ b.op = op /\ b.thread = current /\ b.text = text /\ b.at = 0
  BY <1>2, <1>6 DEF HandlerState
<1>8. handler \in [Handlers -> HandlerState] /\ handler' = [handler EXCEPT ![h] = b]
  BY <1>1, <1>6 DEF Begins, TasksInv, HandlerTypes
<1>9. HandlerTypes'
  <2>1. handler' \in [Handlers -> HandlerState]
    BY <1>7, <1>8
  <2>2. ASSUME NEW g \in Handlers
        PROVE  /\ handler'[g].op = "none" => handler'[g] = IdleHandler
               /\ handler'[g].op # "none" => handler'[g].thread \in Threads /\ current' \in Threads
               /\ handler'[g].op = "steer" => handler'[g].text = "soft"
               /\ handler'[g].op = "resume" => handler'[g].text = "packet"
               /\ handler'[g].at # 0 =>
                     /\ handler'[g].at <= Now' /\ history'[handler'[g].at].thread = handler'[g].thread
                     /\ history'[handler'[g].at].by = "service"
                     /\ history'[handler'[g].at].text = handler'[g].text
    <3>1. CASE g = h
      <4>1. handler'[g] = b /\ current' = current
        BY <1>1, <1>8, <3>1
      <4> QED BY <1>1, <1>2, <1>7, <4>1
    <3>2. CASE g # h
      <4>1. handler'[g] = handler[g] /\ current' = current /\ history' = history
        BY <1>1, <1>8, <3>2
      <4> QED BY <1>3, <4>1 DEF TasksInv, HandlerTypes
    <3> QED BY <3>1, <3>2
  <2> QED BY <2>1, <2>2 DEF HandlerTypes
<1>10. TimeTypes'
  BY <1>1, <1>3, RuntimeTasksConstants DEF TasksInv, TimeTypes, Begins, Requested, originVars
<1> QED BY <1>5, <1>9, <1>10 DEF TasksInv

LEMMA HandoffStep == ASSUME TasksInv, HandsOff PROVE TasksInv'
<1> USE DEF HandsOff
<1>1. current \in Threads /\ "handoff_in_progress" \in TaskStatuses
  BY DEF Visible, TasksInv, TimeTypes, TaskStatuses
<1>2. HistoryKept /\ Now' = Now /\ Now' \in Nat
  BY HistorySame
<1>3. RowTypes' /\ \A u \in Threads : ThreadHolds(u)'
  BY <1>1, <1>2, StatusRow, RowsKept DEF originVars
<1>4. HandlerTypes'
  BY <1>2, HandlersKept DEF TasksInv, HandlerTypes
<1>5. TimeTypes'
  BY <1>2, RuntimeTasksConstants DEF TasksInv, TimeTypes, Requested, originVars
<1> QED BY <1>3, <1>4, <1>5 DEF TasksInv

LEMMA DeliveryStep == ASSUME TasksInv, NEW h \in Handlers, Delivered(h) PROVE TasksInv'
<1>1. PICK c \in HandlerState : c = handler[h]
  BY DEF TasksInv, HandlerTypes
<1>2. PICK e : e = Entry(c.thread, "service", c.text)
  OBVIOUS
<1>3. /\ e \in HistoryEntry /\ e.thread = c.thread /\ e.by = "service" /\ e.text = c.text
  BY <1>2 DEF Entry, HistoryEntry, HandlerState
<1>4. /\ c.op # "none" /\ c.at = 0 /\ Happens(e) /\ handler' = [handler EXCEPT ![h].at = Now + 1]
      /\ UNCHANGED <<shown, task, current, active, requests, originVars>>
  BY <1>1, <1>2 DEF Delivered
<1>5. /\ HistoryKept /\ history' \in Seq(HistoryEntry) /\ Now' <= MaxHistory
      /\ Now' = Now + 1 /\ Now \in Nat /\ history'[Now + 1] = e
  BY <1>3, <1>4, Grows DEF TasksInv
<1>6. RowTypes' /\ \A u \in Threads : ThreadHolds(u)'
  BY <1>4, <1>5, RowsKept, SameRow DEF TasksInv, RowTypes, originVars
<1>7. PICK d : d = [c EXCEPT !.at = Now + 1]
  OBVIOUS
<1>8. /\ d \in HandlerState /\ d.op = c.op /\ d.thread = c.thread /\ d.text = c.text /\ d.at = Now + 1
  BY <1>5, <1>7 DEF HandlerState
<1>9. handler \in [Handlers -> HandlerState] /\ handler' = [handler EXCEPT ![h] = d]
  BY <1>1, <1>4, <1>7 DEF TasksInv, HandlerTypes
<1>10. HandlerTypes'
  <2>1. handler' \in [Handlers -> HandlerState]
    BY <1>8, <1>9
  <2>2. \A i \in Nat \ {0} : i <= Now => history'[i] = history[i]
    BY <1>5 DEF HistoryKept
  <2>3. ASSUME NEW g \in Handlers
        PROVE  /\ handler'[g].op = "none" => handler'[g] = IdleHandler
               /\ handler'[g].op # "none" => handler'[g].thread \in Threads /\ current' \in Threads
               /\ handler'[g].op = "steer" => handler'[g].text = "soft"
               /\ handler'[g].op = "resume" => handler'[g].text = "packet"
               /\ handler'[g].at # 0 =>
                     /\ handler'[g].at <= Now' /\ history'[handler'[g].at].thread = handler'[g].thread
                     /\ history'[handler'[g].at].by = "service"
                     /\ history'[handler'[g].at].text = handler'[g].text
    <3>1. /\ handler[g].at \in Nat
          /\ handler[g].op # "none" => handler[g].thread \in Threads /\ current \in Threads
          /\ handler[g].op = "none" => handler[g] = IdleHandler
          /\ handler[g].op = "steer" => handler[g].text = "soft"
          /\ handler[g].op = "resume" => handler[g].text = "packet"
          /\ handler[g].at # 0 =>
                /\ handler[g].at <= Now /\ history[handler[g].at].thread = handler[g].thread
                /\ history[handler[g].at].by = "service"
                /\ history[handler[g].at].text = handler[g].text
      BY DEF TasksInv, HandlerTypes, HandlerState
    <3>2. CASE g = h
      <4>1. handler'[g] = d /\ current' = current
        BY <1>4, <1>9, <3>2
      <4> QED BY <1>1, <1>3, <1>4, <1>5, <1>8, <3>1, <3>2, <4>1
    <3>3. CASE g # h
      <4>1. handler'[g] = handler[g] /\ current' = current
        BY <1>4, <1>9, <3>3
      <4> QED BY <1>5, <2>2, <3>1, <4>1
    <3> QED BY <3>2, <3>3
  <2> QED BY <2>1, <2>3 DEF HandlerTypes
<1>11. TimeTypes'
  BY <1>4, <1>5 DEF TasksInv, TimeTypes, originVars
<1> QED BY <1>6, <1>10, <1>11 DEF TasksInv

\* A request ends without a note.
LEMMA EndStep ==
    ASSUME TasksInv, NEW h \in Handlers, handler[h] # IdleHandler,
           task' = task \/ \E status \in TaskStatuses : task' = MergeUpdate(task, status),
           handler' = [handler EXCEPT ![h] = IdleHandler],
           UNCHANGED <<history, shown, current, active, requests, originVars>>
    PROVE  TasksInv'
<1>1. current \in Threads
  BY DEF TasksInv, HandlerTypes
<1>2. HistoryKept /\ Now' = Now /\ Now' \in Nat
  BY HistorySame
<1>3. task' \in [Threads -> Row] /\ \A u \in Threads : SameMemory(task[u], task'[u])
  <2>1. CASE task' = task
    BY <2>1, SameRow DEF TasksInv, RowTypes
  <2>2. ASSUME NEW status \in TaskStatuses, task' = MergeUpdate(task, status)
        PROVE  task' \in [Threads -> Row] /\ \A u \in Threads : SameMemory(task[u], task'[u])
    BY <1>1, <2>2, StatusRow
  <2> QED BY <2>1, <2>2
<1>4. RowTypes' /\ \A u \in Threads : ThreadHolds(u)'
  BY <1>2, <1>3, RowsKept
<1>5. IdleHandler \in HandlerState
  BY DEF IdleHandler, HandlerState, Words
<1>6. handler' \in [Handlers -> HandlerState]
      /\ \A g \in Handlers : handler'[g] = handler[g] \/ handler'[g] = IdleHandler
  BY <1>5 DEF TasksInv, HandlerTypes
<1>7. HandlerTypes'
  BY <1>2, <1>6, HandlersKept
<1>8. TimeTypes'
  BY <1>2 DEF TasksInv, TimeTypes, originVars
<1> QED BY <1>4, <1>7, <1>8 DEF TasksInv

\* A request ends and notes its message.
LEMMA NotedStep ==
    ASSUME TasksInv, NEW h \in Handlers, handler[h].op \in {"steer", "resume"}, handler[h].at # 0,
           task' = Applied(task, h) \/ task' = MergeUpdate(Applied(task, h), "running"),
           OriginKept(h), handler' = [handler EXCEPT ![h] = IdleHandler],
           UNCHANGED <<history, shown, current, active, requests>>
    PROVE  TasksInv'
<1>1. current \in Threads /\ handler[h].text \in {"soft", "packet"} /\ handler[h].at \in Nat
      /\ handler[h].at <= Now
  BY DEF TasksInv, HandlerTypes, HandlerState
<1>2. PICK th \in Threads : th = current
  BY <1>1
<1>3. HistoryKept /\ Now' = Now /\ Now \in Nat /\ Now' \in Nat
  BY HistorySame
<1>4. task \in [Threads -> Row] /\ \A u \in Threads : Len(task[u].recent) <= RecentLimit
  BY DEF TasksInv, RowTypes
<1>5. PICK row \in Row : row = task[th] /\ row.manual <= row.input
  BY <1>4 DEF TasksInv, ThreadHolds, Remembers
<1>6. PICK r : r = WithServiceInput(row, handler[h].text)
  OBVIOUS
<1>7. r \in Row
  BY <1>1, <1>3, <1>5, <1>6, NoteEffect DEF NotedTo
<1>8. Applied(task, h) = [task EXCEPT ![th] = r]
  BY <1>2, <1>5, <1>6 DEF Applied
<1>9. PICK q : /\ q \in Row /\ SameMemory(r, q) /\ task' = [task EXCEPT ![th] = q]
  <2>1. CASE task' = Applied(task, h)
    BY <1>7, <1>8, <2>1, SameRow
  <2>2. CASE task' = MergeUpdate(Applied(task, h), "running")
    <3>1. PICK q : q = [r EXCEPT !.status = "running"]
      OBVIOUS
    <3>2. q \in Row /\ SameMemory(r, q)
      BY <1>7, <3>1 DEF Row, SameMemory, TaskStatuses
    <3>3. PICK t : t = [task EXCEPT ![th] = r]
      OBVIOUS
    <3>4. task' = [t EXCEPT ![th].status = "running"]
      BY <1>2, <1>8, <2>2, <3>3 DEF MergeUpdate
    <3>5. t[th] = r
      BY <1>4, <3>3
    <3>6. task' = [t EXCEPT ![th] = q]
      BY <3>1, <3>4, <3>5
    <3>7. task' = [task EXCEPT ![th] = q]
      BY <1>4, <3>3, <3>6
    <3> QED BY <3>2, <3>7
  <2> QED BY <2>1, <2>2
<1>10. task'[th] = q /\ task' \in [Threads -> Row]
       /\ \A u \in Threads : u # th => task'[u] = task[u]
  BY <1>4, <1>9
<1>11. origin' = [origin EXCEPT ![th] = LastNotes(Append(origin[th], MessageNoted(h)))]
  BY <1>2 DEF OriginKept
<1>12. ThreadHolds(th)' /\ Len(task'[th].recent) <= RecentLimit
  <2>1. r = WithServiceInput(task[current], handler[h].text)
    BY <1>2, <1>5, <1>6
  <2>2. SameMemory(r, task'[current]) /\ task'[current] \in Row
        /\ task'[current].status \in TaskStatuses
    BY <1>2, <1>9, <1>10 DEF Row
  <2> QED BY <1>2, <2>1, <2>2, ThreadNoted
<1>13. ASSUME NEW u \in Threads, u # th
       PROVE  ThreadHolds(u)' /\ Len(task'[u].recent) <= RecentLimit
  <2>1. task'[u] = task[u] /\ origin'[u] = origin[u] /\ overtaken \subseteq overtaken'
    BY <1>10, <1>11, <1>13 DEF OriginKept, TasksInv, TimeTypes
  <2>2. ThreadHolds(u)'
    BY <1>3, <2>1, SameRow, ThreadKept
  <2> QED BY <1>4, <2>1, <2>2
<1>14. RowTypes' /\ \A u \in Threads : ThreadHolds(u)'
  BY <1>10, <1>12, <1>13 DEF RowTypes
<1>15. IdleHandler \in HandlerState
  BY DEF IdleHandler, HandlerState, Words
<1>16. handler' \in [Handlers -> HandlerState]
       /\ \A g \in Handlers : handler'[g] = handler[g] \/ handler'[g] = IdleHandler
  BY <1>15 DEF TasksInv, HandlerTypes
<1>17. HandlerTypes'
  BY <1>3, <1>16, HandlersKept
<1>18. TimeTypes'
  <2>1. overtaken' \subseteq 0..Now'
    <3>1. MessageNoted(h) \in 0..Now
      BY <1>1, <1>3 DEF MessageNoted
    <3> QED BY <1>3, <3>1 DEF OriginKept, TasksInv, TimeTypes
  <2>2. origin' = [u \in Threads |-> origin'[u]]
    BY <1>11 DEF TasksInv, TimeTypes
  <2> QED BY <1>3, <2>1, <2>2 DEF TasksInv, TimeTypes
<1> QED BY <1>14, <1>17, <1>18 DEF TasksInv
LEMMA TasksStart == ASSUME TasksInit PROVE TasksInv
<1> USE DEF TasksInit
<1>1. Now = 0 /\ history \in Seq(HistoryEntry)
  BY DEF Now
<1>2. PICK none \in Seq(Note) : none = << >> /\ Len(none) = 0
  <2>1. << >> \in Seq(Note) /\ Len(<< >>) = 0
    OBVIOUS
  <2> QED BY <2>1
<1>3. NoTask \in Row /\ NoTask.input = 0 /\ NoTask.manual = 0 /\ NoTask.recent = none
  <2>1. NoTask = [source |-> "none", status |-> "none", input |-> 0, manual |-> 0, recent |-> none]
    BY <1>2 DEF NoTask
  <2> QED BY <2>1 DEF Row, TaskStatuses
<1>4. TimeTypes
  BY <1>1, RuntimeTasksConstants DEF TimeTypes
<1>5. RowTypes
  BY <1>2, <1>3, RuntimeTasksConstants DEF RowTypes
<1>6. HandlerTypes
  <2>1. IdleHandler \in HandlerState /\ IdleHandler.op = "none" /\ IdleHandler.at = 0
    BY DEF IdleHandler, HandlerState, Words
  <2>2. \A h \in Handlers : handler[h] = IdleHandler
    OBVIOUS
  <2> QED BY <2>1, <2>2 DEF HandlerTypes
<1>7. ASSUME NEW th \in Threads PROVE ThreadHolds(th)
  <2>1. task[th] = NoTask /\ origin[th] = << >>
    OBVIOUS
  <2>2. Remembers(th) /\ NotExplained(th)
    BY <1>3, <2>1 DEF Remembers, NotExplained
  <2>3. PICK o \in Seq(Nat) : o = << >> /\ Len(o) = 0
    <3>1. << >> \in Seq(Nat) /\ Len(<< >>) = 0
      OBVIOUS
    <3> QED BY <3>1
  <2>4. OriginsHold(th)
    BY <1>2, <1>3, <2>1, <2>3 DEF OriginsHold
  <2> QED BY <2>2, <2>4 DEF ThreadHolds
<1> QED BY <1>4, <1>5, <1>6, <1>7 DEF TasksInv

LEMMA TasksStutter == ASSUME TasksInv, UNCHANGED taskVars PROVE TasksInv'
<1> USE DEF taskVars, originVars
<1>1. HistoryKept /\ Now' = Now /\ Now' \in Nat
  BY HistorySame
<1>2. RowTypes' /\ \A u \in Threads : ThreadHolds(u)'
  BY <1>1, RowsKept, SameRow DEF TasksInv, RowTypes
<1>3. HandlerTypes'
  BY <1>1, HandlersKept DEF TasksInv, HandlerTypes
<1>4. TimeTypes'
  BY <1>1 DEF TasksInv, TimeTypes
<1> QED BY <1>2, <1>3, <1>4 DEF TasksInv

LEMMA TasksStep == ASSUME TasksInv, [TasksNext]_taskVars PROVE TasksInv'
<1>1. ASSUME NEW th \in Threads, NEW text \in Texts, UserTypes(th, text) PROVE TasksInv'
  <2>1. "user" \in {"user", "work", "final"} /\ text \in Words
    BY DEF Texts, Words
  <2> QED BY <1>1, <2>1, HistoryStep DEF UserTypes
<1>2. ASSUME NEW th \in Threads, NEW kind \in CodexKinds, CodexWorks(th, kind) PROVE TasksInv'
  <2>1. kind \in {"user", "work", "final"} /\ "none" \in Words
    BY RuntimeTasksConstants DEF Words
  <2> QED BY <1>2, <2>1, HistoryStep DEF CodexWorks
<1>3. ASSUME NEW S \in SUBSET Threads, WorkspacesChange(S) PROVE TasksInv'
  BY <1>3, ShownStep
<1>4. CASE SyncThreads
  BY <1>4, SyncStep
<1>5. ASSUME NEW th \in Threads, RegisterThread(th, "running") PROVE TasksInv'
  BY <1>5, RegisterStep
<1>6. ASSUME NEW th \in Threads, CreateTask(th) PROVE TasksInv'
  BY <1>6, CreateStep
<1>7. ASSUME NEW h \in Handlers, SteerBegins(h, "soft") \/ PauseBegins(h) \/ ResumeBegins(h, "packet")
      PROVE  TasksInv'
  BY <1>7, BeginStep
<1>8. ASSUME NEW h \in Handlers, Delivered(h) PROVE TasksInv'
  BY <1>8, DeliveryStep
<1>9. ASSUME NEW h \in Handlers, BridgeFails(h) PROVE TasksInv'
  <2>1. task' = task \/ \E status \in TaskStatuses : task' = MergeUpdate(task, status)
    BY <1>9 DEF BridgeFails, TaskStatuses
  <2> QED BY <1>9, <2>1, EndStep DEF BridgeFails
<1>10. ASSUME NEW h \in Handlers, SteerEnds(h) PROVE TasksInv'
  BY <1>10, NotedStep DEF SteerEnds
<1>11. ASSUME NEW h \in Handlers, PauseEnds(h) PROVE TasksInv'
  <2>1. \E status \in TaskStatuses : task' = MergeUpdate(task, status)
    BY <1>11 DEF PauseEnds, TaskStatuses
  <2>2. handler[h] # IdleHandler
    BY <1>11 DEF PauseEnds, IdleHandler
  <2> QED BY <1>11, <2>1, <2>2, EndStep DEF PauseEnds
<1>12. ASSUME NEW h \in Handlers, ResumeEnds(h) PROVE TasksInv'
  <2>1. CASE handler[h].at # 0 /\ task' = MergeUpdate(Applied(task, h), "running") /\ OriginKept(h)
    BY <1>12, <2>1, NotedStep DEF ResumeEnds
  <2>2. CASE handler[h].at = 0 /\ task' = MergeUpdate(task, "running") /\ UNCHANGED originVars
    <3>1. \E status \in TaskStatuses : task' = MergeUpdate(task, status)
      BY <2>2 DEF TaskStatuses
    <3>2. handler[h] # IdleHandler
      BY <1>12 DEF ResumeEnds, IdleHandler
    <3> QED BY <1>12, <2>2, <3>1, <3>2, EndStep DEF ResumeEnds
  <2> QED BY <1>12, <2>1, <2>2 DEF ResumeEnds
<1>13. CASE HandsOff
  BY <1>13, HandoffStep
<1>14. CASE UNCHANGED taskVars
  BY <1>14, TasksStutter
<1> QED BY <1>1, <1>2, <1>3, <1>4, <1>5, <1>6, <1>7, <1>8, <1>9, <1>10, <1>11, <1>12, <1>13, <1>14
        DEF TasksNext

\* The inductive invariant of the task store: what a row remembers are inputs of
\* its thread, and every note explains the message that it was made for.
THEOREM TasksInvariance == TasksSpec => []TasksInv
<1>1. TasksInit => TasksInv
  BY TasksStart
<1>2. TasksInv /\ [TasksNext]_taskVars => TasksInv'
  BY TasksStep
<1> QED BY <1>1, <1>2, PTL DEF TasksSpec

\* Types, and the bound on the notes of a row (_RECENT_SERVICE_INPUT_LIMIT).
THEOREM TasksAreTyped == TasksSpec => []TasksTypeOK
<1>1. TasksInv => TasksTypeOK
  <2> SUFFICES ASSUME TasksInv PROVE TasksTypeOK
    OBVIOUS
  <2>1. /\ Now <= MaxHistory /\ requests \in 0..MaxRequests
        /\ shown \subseteq Threads /\ active \subseteq Threads
        /\ current \in Threads \cup {NoThread}
        /\ overtaken \subseteq 0..Now
    BY DEF TasksInv, TimeTypes
  <2>2. ASSUME NEW th \in Threads
        PROVE  /\ task[th].source \in {"none", "native", "manual"}
               /\ task[th].status \in TaskStatuses
               /\ task[th].input \in 0..Now /\ task[th].manual \in 0..Now
               /\ Len(task[th].recent) <= RecentLimit
               /\ Len(origin[th]) = Len(task[th].recent)
    <3>1. PICK row \in Row : row = task[th] /\ row.input \in Nat /\ row.manual \in Nat
      BY DEF TasksInv, RowTypes, Row
    <3>2. row.source \in {"none", "native", "manual"} /\ row.status \in TaskStatuses
      BY DEF Row
    <3>3. Now \in Nat /\ row.input \in 0..Now /\ row.manual \in 0..Now
      <4>1. Now \in Nat
        BY DEF TasksInv, TimeTypes, Now
      <4> QED BY <3>1, <4>1 DEF TasksInv, ThreadHolds, Remembers
    <3>4. Len(task[th].recent) <= RecentLimit /\ Len(origin[th]) = Len(task[th].recent)
      BY DEF TasksInv, RowTypes, ThreadHolds, OriginsHold
    <3> QED BY <3>1, <3>2, <3>3, <3>4
  <2>3. \A h \in Handlers : handler[h].op \in {"none", "steer", "pause", "resume"}
    BY DEF TasksInv, HandlerTypes, HandlerState
  <2> QED BY <2>1, <2>2, <2>3 DEF TasksTypeOK
<1> QED BY <1>1, TasksInvariance, PTL

\* The echo of a message is not manual activity, however the loop and the
\* handlers interleave (_consume_recent_service_echo).
THEOREM EchoesAreNotManual == TasksSpec => []EchoIsNotManual
<1>1. TasksInv => EchoIsNotManual
  <2> SUFFICES ASSUME TasksInv, NEW th \in Threads, NEW k \in DOMAIN origin[th],
                      origin[th][k] # 0, origin[th][k] \notin overtaken
               PROVE  task[th].manual # origin[th][k]
    BY DEF EchoIsNotManual
  <2>1. origin[th] \in Seq(Nat) /\ k \in 1..Len(origin[th])
    BY DEF TasksInv, ThreadHolds, OriginsHold
  <2>2. Explains(task[th], task[th].recent[k], origin[th][k])
    BY <2>1 DEF TasksInv, ThreadHolds, OriginsHold
  <2> QED BY <2>2 DEF Explains
<1> QED BY <1>1, TasksInvariance, PTL

\* Manual activity is an input of its thread that no unused note explains
\* (_reconcile_local_manual_activity).
THEOREM ManualActivityIsUnexplained == TasksSpec => []ManualIsUnexplained
<1>1. TasksInv => ManualIsUnexplained
  <2> SUFFICES ASSUME TasksInv, NEW th \in Threads, task[th].manual # 0
               PROVE  /\ history[task[th].manual].thread = th
                      /\ history[task[th].manual].by \in Inputs
                      /\ task[th].manual = task[th].input => ~IsEcho(task[th], task[th].manual)
    BY DEF ManualIsUnexplained
  <2>1. Remembers(th) /\ NotExplained(th)
    BY DEF TasksInv, ThreadHolds
  <2>2. history[task[th].manual].thread = th /\ history[task[th].manual].by \in Inputs
    BY <2>1 DEF Remembers
  <2>3. task[th].manual = task[th].input => ~IsEcho(task[th], task[th].manual)
    BY <2>1 DEF NotExplained
  <2> QED BY <2>2, <2>3
<1> QED BY <1>1, TasksInvariance, PTL

LEMMA PauseStep ==
    ASSUME TasksInv, [TasksNext]_taskVars, NEW th \in Threads,
           task[th].status = "paused", task'[th].status # "paused"
    PROVE  ByRequest(th)
<1>1. task \in [Threads -> Row] /\ handler \in [Handlers -> HandlerState] /\ Now \in Nat
  BY DEF TasksInv, RowTypes, HandlerTypes, TimeTypes, Now
<1>2. task' # task
  OBVIOUS
<1>3. CASE SyncThreads
  <2>1. th \in shown
    BY <1>3 DEF SyncThreads
  <2>2. KeptStatus(task[th], Reported(th)) = "paused"
    BY DEF KeptStatus, Reported
  <2>3. task'[th] = Upserted(task[th], "paused", LastAt(th, Inputs)) /\ "paused" \in TaskStatuses
    BY <1>3, <2>1, <2>2 DEF SyncThreads, TaskStatuses
  <2>4. history' = history /\ origin' = origin /\ overtaken' = overtaken
    BY <1>3 DEF SyncThreads, originVars
  <2>5. task'[th].status = "paused"
    BY <2>3, <2>4, ThreadRead
  <2> QED BY <2>5
<1>4. ASSUME NEW u \in Threads, RegisterThread(u, "running") PROVE ByRequest(th)
  <2>1. PICK r : task' = [task EXCEPT ![u] = r] /\ current' = u /\ active' = active \cup {u}
    BY <1>4 DEF RegisterThread
  <2>2. u = th
    BY <1>1, <2>1
  <2>3. task'[th] = r
    BY <1>1, <2>1, <2>2
  <2> QED BY <2>1, <2>2, <2>3 DEF ByRequest
<1>5. ASSUME NEW u \in Threads, CreateTask(u) PROVE ByRequest(th)
  <2>1. u # th
    BY <1>5 DEF CreateTask, NoTask
  <2>2. task'[th] = task[th]
    BY <1>1, <1>5, <2>1 DEF CreateTask
  <2> QED BY <2>2
<1>6. ASSUME NEW h \in Handlers, NEW op \in {"steer", "pause", "resume"}, NEW text, Begins(h, op, text)
      PROVE  ByRequest(th)
  <2>1. handler'[h].op = op /\ handler[h].op = "none"
    BY <1>1, <1>6 DEF Begins, IdleHandler
  <2> QED BY <2>1 DEF ByRequest
<1>7. ASSUME NEW h \in Handlers, handler[h] # IdleHandler, handler' = [handler EXCEPT ![h] = IdleHandler]
      PROVE  ByRequest(th)
  <2>1. handler'[h] = IdleHandler
    BY <1>1, <1>7
  <2> QED BY <1>7, <2>1 DEF ByRequest
<1>8. CASE HandsOff
  <2>1. PICK c : c = current /\ task' = [task EXCEPT ![c].status = "handoff_in_progress"]
    BY <1>8 DEF HandsOff, MergeUpdate
  <2>2. c = th
    BY <1>1, <2>1
  <2>3. task'[th].status = "handoff_in_progress"
    <3>1. PICK row \in Row : row = task[th]
      BY <1>1
    <3>2. task'[th] = [row EXCEPT !.status = "handoff_in_progress"]
      BY <1>1, <2>1, <2>2, <3>1
    <3> QED BY <3>2 DEF Row
  <2> QED BY <2>3 DEF ByRequest
<1>9. ASSUME NEW h \in Handlers, SteerBegins(h, "soft") \/ PauseBegins(h) \/ ResumeBegins(h, "packet")
      PROVE  ByRequest(th)
  BY <1>6, <1>9 DEF SteerBegins, PauseBegins, ResumeBegins
<1>10. ASSUME NEW h \in Handlers, BridgeFails(h) \/ SteerEnds(h) \/ PauseEnds(h) \/ ResumeEnds(h)
       PROVE  ByRequest(th)
  <2>1. handler[h] # IdleHandler /\ handler' = [handler EXCEPT ![h] = IdleHandler]
    BY <1>10 DEF BridgeFails, SteerEnds, PauseEnds, ResumeEnds, IdleHandler
  <2> QED BY <1>7, <2>1
<1>11. ~UNCHANGED taskVars
  BY <1>2 DEF taskVars
<1>12. \A h \in Handlers : ~Delivered(h)
  BY <1>2 DEF Delivered
<1>13. /\ \A u \in Threads, text \in Texts : ~UserTypes(u, text)
       /\ \A u \in Threads, kind \in CodexKinds : ~CodexWorks(u, kind)
       /\ \A S \in SUBSET Threads : ~WorkspacesChange(S)
  BY <1>2 DEF UserTypes, CodexWorks, WorkspacesChange
<1> QED BY <1>3, <1>4, <1>5, <1>8, <1>9, <1>10, <1>11, <1>12, <1>13 DEF TasksNext

\* What codex reports never ends an operator's pause (_preserve_manual_pause_status).
THEOREM PausesAreKept == TasksSpec => PauseIsKept
<1>1. TasksInv /\ [TasksNext]_taskVars =>
         [\A th \in Threads :
             task[th].status = "paused" /\ task'[th].status # "paused" => ByRequest(th)]_taskVars
  BY PauseStep
<1> QED BY <1>1, TasksInvariance, PTL DEF TasksSpec, PauseIsKept

=============================================================================
