\* ABOR against a transfer whose predecessor's thread is still ending.
CONSTANT
    MaxJobs = 2
SPECIFICATION Spec
INVARIANTS
    AbortCancelsContext
