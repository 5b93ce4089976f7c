\* Two publishers and two connections, queues of one event and pages of two, so
\* that queues overflow and a replay takes more than one page.  The publishers
\* stop at MaxEvents and a closed connection stays closed, so the system stops.
SPECIFICATION FairSpec
CONSTANTS
    Publisher = {p1, p2}
    Conn = {c1, c2}
    QueueSize = 1
    PageSize = 2
    MaxEvents = 3
    NoPublisher = NoPublisher
INVARIANTS
    TypeOK
    AllocationIsSerial
PROPERTIES
    NoGap
    ImplementsFeed
CHECK_DEADLOCK FALSE
