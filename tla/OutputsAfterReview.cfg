\* A terminal step that completes before a review gate.
SPECIFICATION Spec
CONSTANTS
    N = 4
    MaxJobs = 2
    MaxCrash = 0
    Canceller = {}
    Resumer = {r1}
    Gates = {3}
    Fallible = {}
    Nullable = {}
    Terminals = {2, 4}
    Sources <- Fork
    HasChat = TRUE
INVARIANTS
    FinalOutputsKept
