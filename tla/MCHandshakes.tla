---------------------------- MODULE MCHandshakes ----------------------------
(* Handshakes of node n1 for the runs; b1 is the TLS connection they are made *)
(* on, b2 another one.                                                        *)
EXTENDS PeerVerify

CONSTANTS a1, a2, u1, n1, n2, b1, b2

NodeCert(n, h) == [node |-> n, issuer |-> h, validFrom |-> 0, validUntil |-> 0]

Good(certs, sigs, auths) ==
    [certs |-> certs, caSigs |-> sigs, authorities |-> auths,
     proof |-> [session |-> b1, channel |-> b1, bundle |-> certs, notBefore |-> 0, notAfter |-> 1],
     delegationSig |-> n1, tls |-> [session |-> b1, channel |-> b1], wellFormed |-> TRUE]

EmbeddedAdmin(h) == [type |-> "admin-ca", ca |-> h, anchor |-> h, anchorSig |-> NoCA]
EmbeddedUser(h, a) == [type |-> "user-ca", ca |-> h, anchor |-> a, anchorSig |-> a]
=============================================================================
