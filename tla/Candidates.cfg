\* two sessions that share a cache, with rollbacks, pruning and restarts
SPECIFICATION Spec
CONSTANTS
    Id = {i1, i2}
    Session = {r1, r2}
    Content = {x}
    Out = out
    Nobody = nobody
    Retention = 2
    Limit = 1
    PruneRace = FALSE
    MaxChange = 4
SYMMETRY Symmetry
INVARIANTS
    TypeOK
    DifferencesAreJournaled
    JudgedOnTheTable
PROPERTY
    ImplementsFreshReads
