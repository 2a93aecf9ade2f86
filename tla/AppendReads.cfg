\* one reader started again and again, every fault, a named reindex
SPECIFICATION Spec
CONSTANTS
    Runner = {r1}
    WholeChunk = 1
    DeltaChunk = 2
    Context = 1
    Calls = 2
    Scopes = {"named"}
    Overlap = FALSE
    MaxLen = 5
    MaxSnap = 3
    MaxFault = 2
    MaxLost = 1
    MaxRewrite = 1
    MaxReindex = 1
INVARIANTS
    TypeOK
    RecordedIsBelieved
    ReadOnce
PROPERTY
    EveryReadEnds
\* the bound on snapshots ends every behaviour
CHECK_DEADLOCK FALSE
