SPECIFICATION Spec
CONSTANTS
    User = {u1, u2}
    Edits = {e1, e2}
    None = none
    MaxRev = 3
    MaxCrash = 2
SYMMETRY Symmetry
CONSTRAINT CutOffOrRevised
INVARIANTS
    TypeOK
    NoWorkLost
    UpToDateIsEqual
    ConflictsAreSeen
PROPERTIES
    HeadKeeps
    UpdateSettles
