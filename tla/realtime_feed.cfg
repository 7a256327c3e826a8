\* One server, one tab, no faults.
SPECIFICATION FairSpec
CONSTANTS
    Server = {s1}
    Tab = {t1}
    Publisher = {p1}
    BufferSize = 2
    QueueSize = 2
    MaxChanges = 2
    MaxFaults = 0
CHECK_DEADLOCK FALSE
PROPERTIES
    FeedFollows
