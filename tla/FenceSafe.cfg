\* Two starters and their jobs, one more request, two activate calls, and cancel calls
\* one after the other.  The model deadlocks as the code does (FenceDeadlock), so
\* deadlock is not checked here.
SPECIFICATION Spec
CONSTANTS
    Starter = {s1, s2}
    Caller = {u1}
    Activator = {a1, a2}
    Canceller = {c1}
    OpSessions = 1
    MaxSwitch = 2
INVARIANTS
    TypeOK
    SessionsOnActiveEngine
    OperationOnOneEngine
PROPERTIES
    NoSwitchUnderJob
CHECK_DEADLOCK FALSE
