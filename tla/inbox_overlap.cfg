\* Two overlapping polls of one message, every route, with errors, restarts and rescues.
\* Pollers stop when the message is done and no fault is left.
SPECIFICATION FairSpec
CONSTANTS
    Poller = {p1, p2}
    Message = {m1}
    Routes = {"drop", "stay", "session", "confirmed", "skip", "brain", "fallback"}
    MaxAttempts = 2
    MaxFaults = 2
    NoMessage = NoMessage
CHECK_DEADLOCK FALSE
INVARIANTS
    TypeOK
    QuarantineIsEarned
    AddressedUnlessHarmed
    ProcessedIsAccounted
PROPERTIES
    InquiryKept
    Settles
