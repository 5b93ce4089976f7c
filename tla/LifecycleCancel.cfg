\* No gate, two concurrent cancel requests, one exit of the process.
SPECIFICATION FairSpec
CONSTANTS
    N = 3
    MaxJobs = 2
    MaxCrash = 1
    Canceller = {c1, c2}
    Resumer = {}
    Gates = {}
    Fallible = {2}
    Nullable = {1}
    Terminals = {3}
    Sources <- Chain
    HasChat = TRUE
INVARIANTS
    CancelStopsSteps
    RestIsAnnounced
PROPERTIES
    DoneStaysDone
    ComesToRest
