\* Two transfers whose worker threads may overlap, one abort, and the commands
\* of the user that touch the data port.
CONSTANTS
    MaxSent = 3
    MaxAborts = 1
    MaxBeforeInterrupt = 2
    MaxJobs = 2
    UserLines = {"PASV", "PORT", "OTHER", "RETR", "STOR", "ABOR", "QUIT", "interrupt"}
SPECIFICATION SystemSpec
INVARIANTS
    SystemTypeOK
    RepliesBalance
    NoWaitInVain
    InStepWithoutSurplus
    OneReader
    SamePort
    AbortReachesTransfer
