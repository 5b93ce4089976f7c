\* Two clients resume the same pause while a third cancels the run.
SPECIFICATION Spec
CONSTANTS
    N = 1
    MaxJobs = 3
    MaxCrash = 0
    Canceller = {c1}
    Resumer = {r1, r2}
    Gates = {1}
    Fallible = {}
    Nullable = {}
    Terminals = {}
    Sources <- Chain
    HasChat = TRUE
PROPERTIES
    AtomicConsume
