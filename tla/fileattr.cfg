SPECIFICATION Spec
CONSTANTS
    User = {u1, u2}
    None = none
    Torn = torn
    Option <- MCOption
    MaxNotes = 2
    MaxCrash = 1
SYMMETRY Symmetry
CONSTRAINTS SomeoneIsHeld TwoLinesWait
INVARIANTS
    TypeOK
    EditingIsListed
    
    OneExclusive
    LockedIsCurrent
