SPECIFICATION SSpec
CONSTANTS
    p1 = p1
    Peer = {p1}
    Conn = {c1}
    Msg = {m1, m2}
    Granted = {"user"}
    NoPeer = NoPeer
    NoConn = NoConn
    Gossip <- SenderGossip
    NoReport = NoReport
INVARIANT
    StaleMeansSilent
