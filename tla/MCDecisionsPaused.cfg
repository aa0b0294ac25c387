SPECIFICATION Spec
CONSTANTS
    NoAction = none
    Tasks <- MCTasks
    Answers <- MCAnswers
    Reports = {"unreadable"}
    Repos <- MCRepos
    Experts = {e1, e2}
    MaxVersion = 2
    MaxGoals = 1
    MaxTicks = 2
    MaxOutside = 1
    MaxCuts = 1
SYMMETRY Symmetry
INVARIANTS
    PausedIsNotContinued
CHECK_DEADLOCK FALSE
