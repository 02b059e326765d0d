SPECIFICATION Spec
CONSTANTS
    File = {f1, f2}
    Sub = {s1, s2}
    Data = {d1, d2}
    Edit = {e1}
    DirData = dir
    Star = star
    None = none
    MaxLog = 2
    MaxFaults <- SomeFaults
SYMMETRY Symmetry
CONSTRAINT TwoNames
INVARIANTS
    TypeOK
    NothingOnlyInMemory
    EditNeverStale
    CloseSettles
    KnownIsComplete
PROPERTY
    ImplementsEntryStore
