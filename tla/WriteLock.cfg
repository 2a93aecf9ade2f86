\* two processes and three tasks under fairness, with cancellation and crashes
CONSTANTS
    engine = engine
    cli = cli
    t1 = t1
    t2 = t2
    t3 = t3
    Proc = {engine, cli}
    Task = {t1, t2, t3}
    ProcOf <- MCProcOf
    NoTask = NoTask
    NoProc = NoProc
    MaxCancel = 2
SPECIFICATION FairSpec
INVARIANTS
    TypeOK
    OneWriter
    CommitInsideLock
PROPERTIES
    ImplementsExclusiveStore
    EveryWriterIsAnswered
