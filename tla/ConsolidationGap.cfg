\* an extraction in another process that started before the cycle and commits after it read its scope
CONSTANTS
    r1 = r1
    r2 = r2
    c1 = c1
    Runner = {r1, r2}
    Claim = {c1}
    Kinds = {"beside"}
    NoRunner = NoRunner
    Limit = 2
    MaxTime = 5
    MaxAudit = 1
    MaxAbort = 1
SPECIFICATION Spec
INVARIANTS
    NothingFallsBetween
SYMMETRY Symmetry
\* the bound on instants ends every behaviour
CHECK_DEADLOCK FALSE
