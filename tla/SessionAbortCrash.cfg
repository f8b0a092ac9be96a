\* ABOR against a worker that is just ending.
CONSTANT
    MaxJobs = 1
SPECIFICATION Spec
INVARIANTS
    AbortIsAnswered
