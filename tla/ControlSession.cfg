\* Three entries in the storage, under two names and two deep; any command
\* with any argument, and any call of another session, between two steps.
CONSTANTS
    a = a
    b = b
    Names = {a, b}
    MaxDepth = 3
    MaxEntries = 7
    Inputs <- MCInputs
SPECIFICATION Spec
SYMMETRY MCSymmetry
ACTION_CONSTRAINT OfferAlone
INVARIANTS
    TypeOK
    OutsideKept
    RootStays
    ResolveAgrees
    PwdLeadsBack
    StagedIsRemoved
PROPERTIES
    ParentHeld
CHECK_DEADLOCK FALSE
