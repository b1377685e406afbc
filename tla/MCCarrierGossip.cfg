SPECIFICATION GSpec
CONSTANTS
    p1 = p1
    p2 = p2
    Peer = {p1, p2}
    Conn = {c1}
    Msg = {m1}
    Granted = {"user"}
    NoPeer = NoPeer
    NoConn = NoConn
    Gossip <- MCGossip
    NoReport = NoReport
INVARIANTS
    TypeOK
    HandlersAuthenticated
    NeverMetIsUnseen
PROPERTY
    ClientStaysClient
