SPECIFICATION Spec
CONSTANTS
    User = {ann, bob}
    File = {f1}
    Script <- PairScript
    Visit <- OneFile
    Stored = {f1}
    Original = original
    None = none
    WaitLimit = 2
    MaxFaults <- NoFaults
    ann = ann
    bob = bob
    cat = cat
    f1 = f1
    f2 = f2
PROPERTIES
    NoLostRevision
