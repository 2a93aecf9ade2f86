\* two depositors, an extraction, a delete and a lint; a torn blob and a stray
CONSTANTS
    b1 = b1
    b2 = b2
    c1 = c1
    c2 = c2
    Uri = {u1, u2}
    Body = {b1, b2}
    Says <- MCSays
    Torn = {b1}
    Away = {b2}
    Depositor = {d1, d2}
    Runner = {r1}
    SameName = FALSE
    MaxSnap = 3
    MaxParts = 4
    MaxCrash = 1
    MaxDelete = 1
SPECIFICATION Spec
INVARIANTS
    TypeOK
    RowsAreReadable
PROPERTIES
    RowsHaveEntries
    OnlySoleSourceAsPlanned
    OnlyLateWritesDangle
\* the bounds end every behaviour
CHECK_DEADLOCK FALSE
