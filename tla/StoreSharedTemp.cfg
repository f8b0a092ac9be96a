\* docs/integration-guide.md:229 against ASCII uploads with one temporary file.
CONSTANTS
    a = a
    b = b
    noteTxt = noteTxt
    noteMd = noteMd
    dir = dir
    noteTmp = noteTmp
    dirTmp = dirTmp
    Jobs = {j1, j2}
    Plans <- MCPlans
    Pieces <- MCPieces
    Contents <- MCContents
    Targets <- MCTargets
    Directories = {dir}
    TempOf <- MCTempOf
    NoFile = NoFile
    IoErrors = FALSE
    SharedTemps = TRUE
SPECIFICATION Spec
INVARIANTS
    OutcomeIsTrue
