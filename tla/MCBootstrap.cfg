SPECIFICATION Spec
CONSTANTS
    a1 = a1
    a2 = a2
    u1 = u1
    n1 = n1
    n2 = n2
    CA = {a1, a2, u1}
    Node = {n1, n2}
    Binding = {}
    NoCA = NoCA
    NoNode = NoNode
    MaxPeerCertBundleSize = 1
    MaxDelegationTTL = 0
    KeyFiles <- MCKeyFiles
    Cluster <- MCCluster
    MaxRotations = 1
    MaxClock = 1
    Dialer = n1
    Seeds <- MCSeeds
    MaxRetries = 1
INVARIANTS
    TypeOK
    VerdictAsIssued
    AccessFollowsIssuer
    TrustAsConfigured
    OfflineExplained
PROPERTIES
    NodeIDKept
    BootstrapReturns
CHECK_DEADLOCK FALSE
