\* One operation and one switch.  The deadlock is reported as a violation of the
\* liveness property, so deadlock itself is not checked.
SPECIFICATION FairSpec
CONSTANTS
    Starter = {s1}
    Caller = {}
    Activator = {a1}
    Canceller = {}
    OpSessions = 1
    MaxSwitch = 1
PROPERTIES
    SwitchEnds
CHECK_DEADLOCK FALSE
