\* A mailbox of the sign-up page, and no fault.
SPECIFICATION Spec
CONSTANTS
    Provider = "google"
    MaxMail = 2
    UnreadListed = 1
    RecentListed = 1
    MaxTries = 1
    Copy = {c1}
    Worker = {w1}
    MaxFaults = 0
CHECK_DEADLOCK FALSE
INVARIANTS
    PollsItsWindow
