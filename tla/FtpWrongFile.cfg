\* Two downloads; the first is aborted while the client waits for the reply
\* to its PASV.
CONSTANTS
    MaxSent = 4
    MaxAborts = 1
    MaxBeforeInterrupt = 0
    MaxJobs = 1
    UserLines = {"RETR", "ABOR"}
SPECIFICATION SystemSpec
INVARIANTS
    DownloadIsTheOneAsked
