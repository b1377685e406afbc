SPECIFICATION ASpec
CONSTANTS
    a1 = a1
    a2 = a2
    u1 = u1
    n1 = n1
    n2 = n2
    b1 = b1
    b2 = b2
    CA = {a1, a2, u1}
    Node = {n1, n2}
    Binding = {b1, b2}
    NoCA = NoCA
    NoNode = NoNode
    MaxPeerCertBundleSize = 2
    MaxDelegationTTL = 1
    Verifier = {v1}
    AnchorRequest <- MCAnchorRequest
    Handshake <- MCHandshake
    MaxRevocationEntries = 1
    MaxClock = 1
INVARIANTS
    ATypeOK
    AdmissionSound
CHECK_DEADLOCK FALSE
