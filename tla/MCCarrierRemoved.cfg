SPECIFICATION Spec
CONSTANTS
    Peer = {p1}
    Conn = {c1, c2}
    Msg = {m1}
    Granted = {"admin", "user"}
    NoPeer = NoPeer
    NoConn = NoConn
INVARIANT
    RemovedNotConnected
