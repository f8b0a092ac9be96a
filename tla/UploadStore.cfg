\* Two uploads of any kind to any target, with I/O errors.
CONSTANTS
    a = a
    b = b
    noteTxt = noteTxt
    noteMd = noteMd
    dir = dir
    noteTmp = noteTmp
    dirTmp = dirTmp
    Jobs = {j1, j2}
    Plans <- MCPlans
    Pieces <- MCPieces
    Contents <- MCContents
    Targets <- MCTargets
    Directories = {dir}
    TempOf <- MCTempOf
    NoFile = NoFile
    IoErrors = TRUE
    SharedTemps = FALSE
SPECIFICATION Spec
INVARIANTS
    TypeOK
    OutcomeIsTrue
    AppendsAddUp
    UploadRemoved
PROPERTIES
    ChangedWhole
