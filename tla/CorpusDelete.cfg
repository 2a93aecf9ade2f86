\* one depositor, an extraction, and a delete whose reads take no lock
CONSTANTS
    b1 = b1
    b2 = b2
    c1 = c1
    c2 = c2
    Uri = {u1, u2}
    Body = {b1, b2}
    Says <- MCSays
    Torn = {}
    Away = {}
    Depositor = {d1}
    Runner = {r1}
    SameName = FALSE
    MaxSnap = 3
    MaxParts = 4
    MaxCrash = 0
    MaxDelete = 1
SPECIFICATION Spec
PROPERTY
    OnlySoleSource
\* the bounds end every behaviour
CHECK_DEADLOCK FALSE
