\* Two servers, one tab and one publisher, with any two faults.
SPECIFICATION FairSpec
CONSTANTS
    Server = {s1, s2}
    Tab = {t1}
    Publisher = {p1}
    BufferSize = 1
    QueueSize = 1
    MaxChanges = 2
    MaxFaults = 2
CHECK_DEADLOCK FALSE
INVARIANTS
    TypeOK
    NoSilentStream
PROPERTIES
    EventuallyHeard
