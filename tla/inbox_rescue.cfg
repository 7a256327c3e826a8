\* One poller and a rescue that fails.
SPECIFICATION Spec
CONSTANTS
    Poller = {p1}
    Message = {m1}
    Routes = {"drop", "stay", "session", "confirmed", "skip", "brain", "fallback"}
    MaxAttempts = 3
    MaxFaults = 2
    NoMessage = NoMessage
CHECK_DEADLOCK FALSE
INVARIANTS
    RescuedIsQueued
