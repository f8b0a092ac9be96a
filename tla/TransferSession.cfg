\* Two data commands, whose worker threads may overlap, and any number of
\* the other commands.
CONSTANT
    MaxJobs = 2
SPECIFICATION FairSpec
INVARIANTS
    TypeOK
    OneJobAtATime
    ContextOfRunningJob
PROPERTIES
    FirstAbortStops
    NotBusyForever
    EveryTransferAnswered
