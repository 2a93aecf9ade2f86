\* one runner under fairness, every fault, a forced extraction, a retraction
CONSTANTS
    e1 = e1
    e2 = e2
    s1 = s1
    s2 = s2
    t1 = t1
    gone = gone
    c = c
    d = d
    r1 = r1
    r2 = r2
    Entry = {e1, e2}
    Mutable = {e1, e2}
    MemoryFile = {e1, e2}
    Snap = {s1, s2, t1, gone}
    EntryOf <- MCEntryOf
    Captured <- MCCaptured
    Absent = {gone}
    Claim = {c, d}
    Says <- MCSays
    Unchanged = {d}
    Runner = {r1}
    NoSnap = NoSnap
    SlowRunners = TRUE
    MaxFaults = 2
    MaxExplicit = 1
    MaxRetracts = 1
SPECIFICATION FairSpec
INVARIANTS
    TypeOK
    CollapsedIsComplete
    BelievedIsStated
    NoClaimLost
PROPERTIES
    EverythingSettles
    StandingBeliefsStay
    JudgedStaysOut
