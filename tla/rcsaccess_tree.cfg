SPECIFICATION Spec
CONSTANTS
    User = {ann, bob}
    File = {f1, f2}
    Script <- TreeScript
    Visit <- CrossVisit
    Stored = {f1}
    Original = original
    None = none
    WaitLimit = 2
    MaxFaults <- OneKill
    ann = ann
    bob = bob
    cat = cat
    f1 = f1
    f2 = f2
INVARIANTS
    CommitCoversTree
PROPERTIES
    OnlyOwnLockfile
    ImplementsRevisionLog
    Termination
