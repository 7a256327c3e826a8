\* Two mails, a watch that comes and goes, two requests, one worker.
\* The mailbox may stay as it is for ever.
SPECIFICATION FairSpec
CONSTANTS
    Provider = "gmail"
    MaxMail = 2
    UnreadListed = 1
    RecentListed = 1
    MaxTries = 2
    Copy = {c1}
    Worker = {w1}
    MaxFaults = 1
CHECK_DEADLOCK FALSE
INVARIANTS
    TypeOK
    CursorCovers
PROPERTIES
    AcknowledgedIsCovered
    ImplementsDelivery
    PushArrives
    UnreadIsPolled
