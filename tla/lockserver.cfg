SPECIFICATION Spec
CONSTANTS
    Sock = {s1, s2}
    Path = {p1}
    Root <- TwoRoots
    NoRoot = NoRoot
    PathsUnder <- UnderRoot
    Branch = {b1}
    Version = {v1}
    FlagSets <- AllFlags
    ClockMod = 2
    MaxClients = 3
    MaxLocks = 2
    MaxTransactions = 1
    MaxRollover = 1
SYMMETRY Symmetry
INVARIANTS
    TypeOK
    WriteExclusion
    NothingOutlivesItsClient
    PhantomOwnsNothing
PROPERTY
    ImplementsLockTable
