---------------------------- MODULE RuntimeTasks ----------------------------
(***************************************************************************)
(* The task store of the control agent and the request handlers that use   *)
(* it: steer, pause, resume, handoff, task creation, and the loop that     *)
(* copies the codex threads into the store.                                *)
(*                                                                         *)
(* The loop tells the user's own input from what the service sent: each    *)
(* message the service delivers is noted in recent_service_inputs, and an  *)
(* input read from a thread that matches a note is an echo.  Everything    *)
(* else counts as local manual activity, which holds back the resident.    *)
(* A handler looks up the current thread, awaits the bridge, and notes the *)
(* message afterwards, under whatever thread is current by then.           *)
(*                                                                         *)
(* Every operation of the store is atomic (one lock, one file write); the  *)
(* loop and the handlers are coroutines of one event loop, so only the     *)
(* awaits of the bridge are places where they interleave.                  *)
(***************************************************************************)
EXTENDS Naturals, Sequences, FiniteSets, FiniteSetsExt, Functions

CONSTANTS
    Threads,       \* the codex threads of the project
    NoThread,
    CodexKinds,    \* what codex does in a thread: "work", "final"
    Handlers,      \* requests the agent serves at the same time
    Window,        \* service_input_match_window_seconds, in entries of the history
    RecentLimit,   \* _RECENT_SERVICE_INPUT_LIMIT
    MaxHistory,    \* bound on the entries of the history
    MaxRequests    \* bound on the requests made to the agent

ASSUME RuntimeTasksConstants ==
    /\ NoThread \notin Threads /\ CodexKinds \subseteq {"work", "final"}
    /\ Window \in Nat /\ RecentLimit \in Nat \ {0} /\ MaxHistory \in Nat /\ MaxRequests \in Nat

VARIABLES
    history,    \* what happened in the threads, oldest first; its length is the time
    shown,      \* the threads that list_threads returns now
    task,       \* thread |-> its row in the store
    current,    \* current_thread_id of the project
    active,     \* active_native_thread_ids
    handler,    \* handler |-> the request it serves
    requests,   \* how many requests were made
    origin,     \* for each note of a row: the message it was made for, in time (or 0)
    overtaken   \* messages whose note came when the loop had moved on

originVars == <<origin, overtaken>>
taskVars == <<history, shown, task, current, active, handler, requests, originVars>>

Now == Len(history)

(***************************************************************************)
(* The codex side (external).  An entry of a thread is an input, by the    *)
(* user or by the service, some work, or a final answer.                   *)
(***************************************************************************)
Entry(th, by, text) == [thread |-> th, by |-> by, text |-> text]
Inputs == {"user", "service"}

LastAt(th, kinds) ==
    LET at == {i \in 1..Now : history[i].thread = th /\ history[i].by \in kinds}
    IN  IF at = {} THEN 0 ELSE Max(at)

\* The last call of a tool or final answer decides; an open question for
\* approval counts like a final answer, and an input does not count.
Reported(th) ==
    LET last == LastAt(th, {"work", "final"})
    IN  IF last # 0 /\ history[last].by = "final" THEN "waiting_for_direction" ELSE "running"

Happens(e) == Now < MaxHistory /\ history' = Append(history, e)

UserTypes(th, text) ==
    /\ th \in shown
    /\ Happens(Entry(th, "user", text))
    /\ UNCHANGED <<shown, task, current, active, handler, requests, originVars>>

CodexWorks(th, kind) ==
    /\ th \in shown
    /\ Happens(Entry(th, kind, "none"))
    /\ UNCHANGED <<shown, task, current, active, handler, requests, originVars>>

WorkspacesChange(S) ==
    /\ S # shown
    /\ shown' = S
    /\ UNCHANGED <<history, task, current, active, handler, requests, originVars>>

-----------------------------------------------------------------------------
(***************************************************************************)
(* A row: the status, the last substantive input seen (0: none), the time  *)
(* of the last local manual activity (0: none) and the notes of service    *)
(* inputs, the newest last.                                                *)
(***************************************************************************)
NoTask == [source |-> "none", status |-> "none", input |-> 0, manual |-> 0, recent |-> <<>>]

Created(source, status) == [NoTask EXCEPT !.source = source, !.status = status]

Distance(a, b) == IF a < b THEN b - a ELSE a - b

\* Mutant: only notes made before the input are considered.
NotesMatchingEarlier(recent, text, at) ==
    {i \in DOMAIN recent :
        /\ recent[i].text = text
        /\ recent[i].at <= at
        /\ (recent[i].matched = at \/ recent[i].matched = 0)}

\* The notes an input at this time may be the echo of.
NotesMatching(recent, text, at) ==
    {i \in DOMAIN recent :
        /\ recent[i].text = text
        /\ \/ recent[i].matched = at
           \/ recent[i].matched = 0 /\ Distance(recent[i].at, at) <= Window}

IsEcho(row, at) == NotesMatching(row.recent, history[at].text, at) # {}

\* The newest matching note is used up by this input.
ConsumeEcho(row, at) ==
    IF IsEcho(row, at)
    THEN [row EXCEPT !.recent[Max(NotesMatching(row.recent, history[at].text, at))].matched = at]
    ELSE row

\* Mutant: an input that was taken for the user's stays so.
NotReconciled(row) == row

Reconciled(row) ==
    IF row.input # 0 /\ row.manual = row.input /\ IsEcho(row, row.input)
    THEN [ConsumeEcho(row, row.input) EXCEPT !.manual = 0]
    ELSE row

\* The newest RecentLimit notes.
LastNotes(s) == SubSeq(s, 1 + (IF Len(s) > RecentLimit THEN Len(s) - RecentLimit ELSE 0), Len(s))

WithServiceInput(row, text) ==
    Reconciled([row EXCEPT !.recent =
        LastNotes(Append(row.recent, [text |-> text, at |-> Now, matched |-> 0]))])

\* Mutant: the reported status wins.
ReportedStatus(row, status) == status

\* An operator's pause survives what the thread reports.
KeptStatus(row, status) ==
    IF row.status = "paused" /\ status \notin {"completed", "failed"} THEN "paused" ELSE status

Upserted(row, status, at) ==
    LET known == IF row = NoTask THEN Created("native", status)
                 ELSE [row EXCEPT !.source = "native", !.status = status]
        seen  == IF at = 0 THEN known
                 ELSE LET r == [known EXCEPT !.input = at]
                      IN  IF IsEcho(r, at) THEN ConsumeEcho(r, at)
                          ELSE [r EXCEPT !.manual = at]
    IN  Reconciled(seen)

\* One round of the loop: every shown thread in the order of its progress,
\* so that the one that progressed last becomes the current one.
SyncThreads ==
    LET progress(th) == LastAt(th, {"user", "service", "work", "final"})
    IN  /\ task' = [th \in Threads |->
                      IF th \in shown
                      THEN Upserted(task[th], KeptStatus(task[th], Reported(th)), LastAt(th, Inputs))
                      ELSE task[th]]
        /\ active' = shown
        /\ IF shown = {} THEN UNCHANGED current
           ELSE \E th \in shown :
                    /\ \A u \in shown : progress(u) <= progress(th)
                    /\ current' = th
        /\ UNCHANGED <<history, shown, handler, requests, originVars>>

Requested == requests < MaxRequests /\ requests' = requests + 1

\* POST /native-threads: one thread, with the status the caller gives.
RegisterThread(th, status) ==
    /\ th \in shown /\ Requested
    /\ task' = [task EXCEPT ![th] = Upserted(task[th], status, LastAt(th, Inputs))]
    /\ active' = active \cup {th}
    /\ current' = th
    /\ UNCHANGED <<history, shown, handler, originVars>>

CreateTask(th) ==
    /\ task[th] = NoTask /\ Requested
    /\ task' = [task EXCEPT ![th] = Created("manual", "running")]
    /\ current' = th
    /\ UNCHANGED <<history, shown, active, handler, originVars>>

-----------------------------------------------------------------------------
\* What the store answers for the project: the current task when it is visible.
Visible == current # NoThread /\ (current \in active \/ task[current].source = "manual")

MergeUpdate(rows, status) == [rows EXCEPT ![current].status = status]

IdleHandler == [op |-> "none", thread |-> NoThread, text |-> "none", at |-> 0]

\* A request begins: the handler takes the current thread and calls the bridge.
Begins(h, op, text) ==
    /\ handler[h] = IdleHandler /\ Visible
    /\ Requested
    /\ handler' = [handler EXCEPT ![h] = [op |-> op, thread |-> current, text |-> text, at |-> 0]]

SteerBegins(h, text) ==
    Begins(h, "steer", text) /\ UNCHANGED <<history, shown, task, current, active, originVars>>

PauseBegins(h) ==
    Begins(h, "pause", "pause") /\ UNCHANGED <<history, shown, task, current, active, originVars>>

ResumeBegins(h, text) ==
    /\ Begins(h, "resume", text)
    /\ task' = MergeUpdate(task, "resuming")
    /\ UNCHANGED <<history, shown, current, active, originVars>>

\* The handler of handoff does not await anything.
HandsOff ==
    /\ Visible /\ Requested
    /\ task' = MergeUpdate(task, "handoff_in_progress")
    /\ UNCHANGED <<history, shown, current, active, handler, originVars>>

\* The bridge passes the message on; codex has it before the bridge knows.
Delivered(h) ==
    /\ handler[h].op # "none" /\ handler[h].at = 0
    /\ Happens(Entry(handler[h].thread, "service", handler[h].text))
    /\ handler' = [handler EXCEPT ![h].at = Now + 1]
    /\ UNCHANGED <<shown, task, current, active, requests, originVars>>

\* apply_steer and record_service_input: under the thread that is current now.
Applied(rows, h) == [rows EXCEPT ![current] = WithServiceInput(rows[current], handler[h].text)]

\* The message that is noted: it went to the thread it is noted for, and the
\* note comes within the window; otherwise 0.
MessageNoted(h) ==
    IF handler[h].at # 0 /\ handler[h].thread = current /\ Now - handler[h].at <= Window
    THEN handler[h].at ELSE 0

\* The loop has read a later input of the thread by now, or it has read an
\* earlier one, of the user, in the same words: that one takes the note.
MovedOn(row, at, text) ==
    \/ row.input > at
    \/ row.input < at /\ row.manual # 0 /\ row.manual = row.input /\ history[row.input].text = text

\* Where the note came from is kept beside it.
OriginKept(h) ==
    /\ origin' = [origin EXCEPT ![current] = LastNotes(Append(origin[current], MessageNoted(h)))]
    /\ overtaken' = overtaken \cup
          {i \in {MessageNoted(h)} : MovedOn(task[current], i, handler[h].text)}

SteerEnds(h) ==
    /\ handler[h].op = "steer" /\ handler[h].at # 0
    /\ task' = Applied(task, h)
    /\ OriginKept(h)
    /\ handler' = [handler EXCEPT ![h] = IdleHandler]
    /\ UNCHANGED <<history, shown, current, active, requests>>

\* A thread without an active turn is paused without a message.
PauseEnds(h) ==
    /\ handler[h].op = "pause"
    /\ task' = MergeUpdate(task, "paused")
    /\ handler' = [handler EXCEPT ![h] = IdleHandler]
    /\ UNCHANGED <<history, shown, current, active, requests, originVars>>

\* In the same thread; a resume that ends in a child thread is in Recovery.
ResumeEnds(h) ==
    /\ handler[h].op = "resume"
    /\ \/ handler[h].at # 0 /\ task' = MergeUpdate(Applied(task, h), "running") /\ OriginKept(h)
       \/ handler[h].at = 0 /\ task' = MergeUpdate(task, "running") /\ UNCHANGED originVars
    /\ handler' = [handler EXCEPT ![h] = IdleHandler]
    /\ UNCHANGED <<history, shown, current, active, requests>>

\* The bridge raises, possibly after codex has the message.
BridgeFails(h) ==
    /\ handler[h] # IdleHandler
    /\ task' = IF handler[h].op = "resume" THEN MergeUpdate(task, "failed") ELSE task
    /\ handler' = [handler EXCEPT ![h] = IdleHandler]
    /\ UNCHANGED <<history, shown, current, active, requests, originVars>>

-----------------------------------------------------------------------------
Texts == {"soft", "own words"}   \* what the watchdog sends; what only a user types

TasksInit ==
    /\ history = <<>> /\ shown = {} /\ active = {}
    /\ task = [th \in Threads |-> NoTask]
    /\ current = NoThread
    /\ handler = [h \in Handlers |-> IdleHandler]
    /\ origin = [th \in Threads |-> <<>>] /\ overtaken = {} /\ requests = 0

TasksNext ==
    \/ \E th \in Threads, text \in Texts : UserTypes(th, text)
    \/ \E th \in Threads, kind \in CodexKinds : CodexWorks(th, kind)
    \/ \E S \in SUBSET Threads : WorkspacesChange(S)
    \/ SyncThreads
    \/ \E th \in Threads : RegisterThread(th, "running") \/ CreateTask(th)
    \/ \E h \in Handlers : \/ SteerBegins(h, "soft") \/ PauseBegins(h) \/ ResumeBegins(h, "packet")
                            \/ Delivered(h) \/ BridgeFails(h)
                            \/ SteerEnds(h) \/ PauseEnds(h) \/ ResumeEnds(h)
    \/ HandsOff

TasksSpec == TasksInit /\ [][TasksNext]_taskVars

-----------------------------------------------------------------------------
(***************************************************************************)
(* Properties                                                              *)
(***************************************************************************)
TaskStatuses == {"none", "running", "waiting_for_direction", "paused", "resuming",
                 "handoff_in_progress", "failed"}

\* Every variable has its type; the notes of a row are bounded.
TasksTypeOK ==
    /\ Now <= MaxHistory /\ requests \in 0..MaxRequests
    /\ shown \subseteq Threads /\ active \subseteq Threads
    /\ current \in Threads \cup {NoThread}
    /\ overtaken \subseteq 0..Now
    /\ \A th \in Threads :
          /\ task[th].source \in {"none", "native", "manual"}
          /\ task[th].status \in TaskStatuses
          /\ task[th].input \in 0..Now /\ task[th].manual \in 0..Now
          /\ Len(task[th].recent) <= RecentLimit
          /\ Len(origin[th]) = Len(task[th].recent)
    /\ \A h \in Handlers : handler[h].op \in {"none", "steer", "pause", "resume"}

\* A message that the service delivered, and noted within the window for the
\* thread that got it, does not count as the user's own activity as long as the
\* row keeps the note, in whichever order the loop saw it and the handler noted
\* it, unless the loop had moved on by then (_consume_recent_service_echo,
\* _reconcile_local_manual_activity).
EchoIsNotManual ==
    \A th \in Threads : \A k \in DOMAIN origin[th] :
        origin[th][k] # 0 /\ origin[th][k] \notin overtaken => task[th].manual # origin[th][k]

\* What is remembered as the user's activity is an input of that thread, and
\* when it is the last one, no unused note of the same words is near it.
ManualIsUnexplained ==
    \A th \in Threads :
        LET at == task[th].manual
        IN  at # 0 =>
              /\ history[at].thread = th /\ history[at].by \in Inputs
              /\ at = task[th].input => ~IsEcho(task[th], at)

\* What may end a pause: a request that begins or ends, a handoff, a registration.
ByRequest(th) ==
    \/ \E h \in Handlers : handler'[h] # handler[h]
    \/ task'[th].status = "handoff_in_progress"
    \/ task' = [task EXCEPT ![th] = task'[th]] /\ current' = th /\ active' = active \cup {th}

\* An operator's pause ends only with a request: what codex reports never
\* ends it (_preserve_manual_pause_status of the synchronisation loop).
PauseIsKept ==
    [][\A th \in Threads :
          task[th].status = "paused" /\ task'[th].status # "paused" => ByRequest(th)]_taskVars

=============================================================================
