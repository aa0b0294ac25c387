--------------------------- MODULE GoalContracts ----------------------------
(***************************************************************************)
(* The goal contract of a session, kept as events: a goal message from     *)
(* Feishu creates version 1 or revises the current version, and the        *)
(* resident creates version 1 from what it knows of a task without one.    *)
(* Reading the current contract and appending the next are separate        *)
(* accesses; what keeps two writers apart is the key of the event, which   *)
(* holds the version.  A goal message then copies the version to the task  *)
(* of the control agent, where the next handoff packet takes it from; that *)
(* copy may fail, and nothing reports it.                                  *)
(***************************************************************************)
EXTENDS Naturals, Sequences, FiniteSets

CONSTANTS
    Messages,    \* goal messages, each with a client_request_id of its own
    Legacy       \* of these, the contract the resident makes up

ASSUME GoalContractsConstants == Legacy \in Messages

VARIABLES
    goals,       \* the contract events of the parent session: [by, version]
    message,     \* goal message |-> how far its handler is
    synced       \* goal_contract_version of the control agent's task, 0 when it has none

goalVars == <<goals, message, synced>>

\* The highest version, and that of the last event: get_current_contract.
Version == IF goals = <<>> THEN 0 ELSE goals[Len(goals)].version

\* _find_existing_goal_contract_event.
EventOf(m)  == {i \in 1..Len(goals) : goals[i].by = m}
Replayed(m) == m # Legacy /\ EventOf(m) # {}

AtStep(step, v) == [step |-> step, version |-> v]

\* The handler reads the contract; a message it has on record is not applied again.
ReadGoal(m) ==
    /\ message[m].step = "new"
    /\ m = Legacy => Version = 0
    /\ message' = [message EXCEPT ![m] =
           IF Replayed(m)
           THEN AtStep("sync", goals[CHOOSE i \in EventOf(m) : TRUE].version)
           ELSE AtStep("write", Version + 1)]
    /\ UNCHANGED <<goals, synced>>

\* Mutant: the key of the event leaves out the version.
VersionTakenNever(v) == FALSE

\* The event's key is its type, the session and the version.
VersionTaken(v) == \E i \in 1..Len(goals) : goals[i].version = v

\* bootstrap_contract and revise_contract; a conflicting event raises.
WriteGoal(m) ==
    /\ message[m].step = "write"
    /\ IF VersionTaken(message[m].version)
       THEN /\ message' = [message EXCEPT ![m] = AtStep("failed", 0)]
            /\ UNCHANGED goals
       ELSE /\ goals' = Append(goals, [by |-> m, version |-> message[m].version])
            /\ message' = [message EXCEPT ![m] =
                   AtStep(IF m = Legacy THEN "done" ELSE "sync", message[m].version)]
    /\ UNCHANGED synced

\* _sync_goal_contract_metadata_to_a_task, which may fail without a trace.
SyncGoal(m) ==
    /\ message[m].step = "sync"
    /\ synced' \in {synced, message[m].version}
    /\ message' = [message EXCEPT ![m].step = "done"]
    /\ UNCHANGED goals

\* The message is sent again.
Resend(m) ==
    /\ message[m].step \in {"failed", "lost", "done"}
    /\ message' = [message EXCEPT ![m] = AtStep("new", 0)]
    /\ UNCHANGED <<goals, synced>>

MessagesLost ==
    message' = [m \in Messages |->
                   IF message[m].step \in {"write", "sync"} THEN AtStep("lost", 0) ELSE message[m]]

GoalsInit ==
    /\ goals = <<>>
    /\ message = [m \in Messages |-> AtStep("new", 0)]
    /\ synced = 0

GoalsNext ==
    \E m \in Messages : ReadGoal(m) \/ WriteGoal(m) \/ SyncGoal(m) \/ Resend(m)

-----------------------------------------------------------------------------

GoalsTypeOK ==
    /\ goals \in Seq([by : Messages, version : Nat])
    /\ message \in [Messages -> [step : {"new", "write", "sync", "done", "failed", "lost"},
                                 version : Nat]]
    /\ synced \in Nat

\* However the handlers overlap and however often a message is sent again,
\* the versions of the contract are 1, 2, 3, ..., a message makes at most
\* one of them, and one that was answered with a version is that version.
GoalsAreOnRecord ==
    /\ \A i \in 1..Len(goals) : goals[i].version = i
    /\ \A i, j \in 1..Len(goals) : goals[i].by = goals[j].by => i = j
    /\ \A m \in Messages : message[m].step \in {"sync", "done"} =>
           message[m].version \in 1..Len(goals) /\ goals[message[m].version].by = m

=============================================================================
