\* two reviewers at a local CLI, a release pass, an entry retracted
CONSTANTS
    ta = ta
    tb = tb
    tc = tc
    Text = {ta, tb, tc}
    Sim <- MCSim
    Source = {s1}
    Writer = {w1}
    Reviewer = {q1, q2}
    Releaser = {x1}
    FailClosed = TRUE
    Verdicts = {"INCONSISTENT", "UPDATE_SUPERSEDES"}
    MaxRows = 5
    MaxRetracts = 0
    MaxWithdrawn = 1
SPECIFICATION Spec
SYMMETRY Symmetry
\* the bound on stored particles ends every behaviour
CHECK_DEADLOCK FALSE
INVARIANTS
    TypeOK
    OneStanding
    OneSuccessor
PROPERTIES
    HistoryStands
