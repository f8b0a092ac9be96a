\* docs/integration-guide.md:226 and file_system.py:1 against an ASCII upload to
\* the storage root.
CONSTANTS
    a = a
    b = b
    Names = {a, b}
    MaxDepth = 3
    MaxEntries = 7
    Inputs <- MCInputs
SPECIFICATION Spec
SYMMETRY MCSymmetry
ACTION_CONSTRAINT OfferAlone
INVARIANTS
    NothingLeftOutside
CHECK_DEADLOCK FALSE
