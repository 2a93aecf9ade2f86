\* a reindex by extractor version of an entry with a pending snapshot
SPECIFICATION Spec
CONSTANTS
    Runner = {r1}
    WholeChunk = 2
    DeltaChunk = 2
    Context = 1
    Calls = 3
    Scopes = {"version"}
    Overlap = FALSE
    MaxLen = 3
    MaxSnap = 2
    MaxFault = 0
    MaxLost = 0
    MaxRewrite = 0
    MaxReindex = 1
INVARIANT
    RecordedIsBelieved
\* the bound on snapshots ends every behaviour
CHECK_DEADLOCK FALSE
