\* two racing writers, a release pass and the engine's reviewer
CONSTANTS
    ta = ta
    tb = tb
    tc = tc
    Text = {ta, tb, tc}
    Sim <- MCSim
    Source = {s1}
    Writer = {w1, w2}
    Reviewer = {}
    Releaser = {x1}
    FailClosed = TRUE
    Verdicts = {"INCONSISTENT", "UPDATE_SUPERSEDES", "SUPERSEDED_BY_EXISTING"}
    MaxRows = 5
    MaxRetracts = 1
    MaxWithdrawn = 0
SPECIFICATION Spec
SYMMETRY Symmetry
\* the bound on stored particles ends every behaviour
CHECK_DEADLOCK FALSE
INVARIANTS
    RecordMatchesHold
    OneStanding
PROPERTIES
    EntersChecked
    ReassertionIsReviewed
