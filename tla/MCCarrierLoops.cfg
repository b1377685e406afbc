SPECIFICATION MCSpec
CONSTANTS
    Peer = {p1, p2}
    Conn = {c1, c2}
    Msg = {}
    Granted = {"user"}
    NoPeer = NoPeer
    NoConn = NoConn
INVARIANTS
    MapsAgree
PROPERTIES
    UnmappedIsClosed
    ImplementsMembership
    
    ClosedIsDropped
