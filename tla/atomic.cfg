SPECIFICATION SystemSpec
CONSTANTS
    Sock = {ann, bob, cat}
    Path = {f1, f2}
    Root <- WholeRoot
    NoRoot = NoRoot
    PathsUnder <- UnderRoot
    Branch = {trunk}
    Version <- Revisions
    FlagSets <- Flags
    ClockMod = 2
    MaxClients = 3
    MaxLocks = 13
    MaxTransactions = 3
    MaxRollover = 0
    Trunk = trunk
    Jobs <- MCJobs
    Original = original
    MaxKill = 1
    ann = ann
    bob = bob
    cat = cat
    f1 = f1
    f2 = f2
SYMMETRY Symmetry
CONSTRAINT KillOneOfTwo
INVARIANTS
    AtomicWhileOpen
    NothingUnfinished
PROPERTY
    UpToDateUnlessShown
CHECK_DEADLOCK FALSE
