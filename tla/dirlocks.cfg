SPECIFICATION Spec
CONSTANTS
    Proc = {ann, bob}
    Dir = {1, 2}
    Script <- MixedScript
    None = none
    LockDir = FALSE
    MaxFaults <- OneEach
    ann = ann
    bob = bob
INVARIANTS
    TypeOK
    Exclusive
    NothingLeft
    SleepsEmptyHanded
PROPERTIES
    OnlyOwnLock
    Termination
