\* Two review gates in a row, one resuming client, one exit of the process: a job
\* for the start, one for each review and one for the recovery.
SPECIFICATION FairSpec
CONSTANTS
    N = 4
    MaxJobs = 4
    MaxCrash = 1
    Canceller = {}
    Resumer = {r1}
    Gates = {2, 3}
    Fallible = {4}
    Nullable = {1}
    Terminals = {4}
    Sources <- Chain
    HasChat = TRUE
INVARIANTS
    TypeOK
    OneExecutor
    CompletedIsWhole
    PausedIsResumable
PROPERTIES
    DoneStaysDone
    ComesToRest
