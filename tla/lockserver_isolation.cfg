SPECIFICATION Spec
CONSTANTS
    Sock = {s1, s2, s3}
    Path = {p1}
    Root <- WholeRoot
    NoRoot = NoRoot
    PathsUnder <- UnderRoot
    Branch = {b1}
    Version = {v1}
    FlagSets <- ClientFlags
    ClockMod = 2
    MaxClients = 3
    MaxLocks = 2
    MaxTransactions = 2
    MaxRollover = 0
SYMMETRY Symmetry
CONSTRAINT TransactionsVisible
INVARIANT VisibleIsolation
