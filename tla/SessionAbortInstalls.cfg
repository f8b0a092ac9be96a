\* ABOR answered with 426 against an upload that is already complete.
CONSTANT
    MaxJobs = 1
SPECIFICATION Spec
INVARIANTS
    AbortedUploadNotInstalled
