SPECIFICATION Spec
CONSTANTS
    User = {ann, bob, cat}
    File = {f1}
    Script <- MixedScript
    Visit <- OneFile
    Stored = {f1}
    Original = original
    None = none
    WaitLimit = 1
    MaxFaults <- SignalOrDrop
    ann = ann
    bob = bob
    cat = cat
    f1 = f1
    f2 = f2
INVARIANTS
    TypeOK
    NoLockfileLeft
PROPERTIES
    WriterAlone
    LostOnlyIfRaced
