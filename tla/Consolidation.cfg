\* nights that fail, degrade, run over budget, pass over, raise and are killed, beside a belief
CONSTANTS
    r1 = r1
    r2 = r2
    c1 = c1
    Runner = {r1, r2}
    Claim = {c1}
    Kinds = {"fresh", "own", "beside"}
    NoRunner = NoRunner
    Limit = 2
    MaxTime = 5
    MaxAudit = 1
    MaxAbort = 1
SPECIFICATION Spec
INVARIANTS
    TypeOK
    OnlyLateFallBetween
    SweepMissesNothing
PROPERTIES
    RecordedWhateverFails
SYMMETRY Symmetry
\* the bound on instants ends every behaviour
CHECK_DEADLOCK FALSE
