SPECIFICATION Spec
CONSTANTS
    Proc = {ann, bob}
    Dir = {1}
    Script <- PairScript
    None = none
    LockDir = TRUE
    MaxFaults <- NoFaults
    ann = ann
    bob = bob
INVARIANTS
    NoReaderAndWriter
