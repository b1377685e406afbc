SPECIFICATION FairSpec
CONSTANTS
    Node = {self, n1}
    SelfID = self
    Caller = {g1}
    Level = {"debug", "other"}
    ttlByLevel <- MCttlByLevel
    MaxClock = 1
    MaxEntries = 2
INVARIANT
    PushedExactlyOnce
PROPERTIES
    HistoryKept
    StopIsFinal
    ExpiredRemoved
    StopTerminates
