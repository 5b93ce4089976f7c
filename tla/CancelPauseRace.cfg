\* A cancel request made before the job marked the run as running, and a gate.
SPECIFICATION Spec
CONSTANTS
    N = 1
    MaxJobs = 1
    MaxCrash = 0
    Canceller = {c1}
    Resumer = {}
    Gates = {1}
    Fallible = {}
    Nullable = {}
    Terminals = {}
    Sources <- Chain
    HasChat = TRUE
INVARIANTS
    CancelledHoldsNoToken
