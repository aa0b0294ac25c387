---------------------------- MODULE MCDecisions ----------------------------
\* A small instance of Decisions for TLC: the tasks a refresh may find.
EXTENDS Decisions, TLC

Sound == [status |-> "running", flag |-> FALSE, missing |-> FALSE, project |-> "active",
          asks |-> {}, trouble |-> {}, manual |-> FALSE, workspace |-> "unknown",
          idle |-> FALSE, cutOff |-> FALSE]

MCTasks == {
    [Sound EXCEPT !.trouble = {"stuck"}],
    [Sound EXCEPT !.trouble = {"critical"}],
    [Sound EXCEPT !.trouble = {"failing"}, !.asks = {"runtime"}],
    [Sound EXCEPT !.status = "waiting_for_direction", !.trouble = {"stuck"},
                  !.workspace = "changed"]}

\* The state files are another project's, or say this one is paused.
MCRepos == {
    [other |-> TRUE, targeted |-> FALSE, words |-> <<>>],
    [other |-> FALSE, targeted |-> TRUE, words |-> <<"execute", "paused">>]}

\* Aliased, canonical, of the old schema, and a failure that is tried again.
MCAnswers == {
    [form |-> "v3", word |-> "proceed", routing |-> "none"],
    [form |-> "v3", word |-> "switch_branch", routing |-> "none"],
    [form |-> "status", code |-> 503]}

Symmetry == Permutations(Experts)

=============================================================================
