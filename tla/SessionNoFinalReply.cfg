\* An upload whose job fails, and raises while it cleans up.
CONSTANT
    MaxJobs = 1
SPECIFICATION FairSpec
PROPERTIES
    FailedUploadIsReported
