SPECIFICATION Spec
CONSTANTS
    Peer = {p1, p2}
    NoPeer = NoPeer
    MaxRetries = 2
INVARIANTS
    ResultPartition
    AckedWasHandled
    RetriedAsConfigured
CHECK_DEADLOCK FALSE
