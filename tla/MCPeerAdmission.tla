-------------------------- MODULE MCPeerAdmission ---------------------------
(* Two admin CAs, one user CA either of them may have anchored, two nodes,  *)
(* and handshakes that lean on the store, on embedded CAs, or on both.      *)
EXTENDS PeerAdmission, MCHandshakes

MCAnchorRequest ==
    {[ca |-> u1, anchor |-> a1, anchorSig |-> a1],
     [ca |-> u1, anchor |-> a2, anchorSig |-> a2]}

MCHandshake ==
    {Good(<<NodeCert(n1, u1)>>, <<u1>>, <<EmbeddedUser(u1, a2)>>),
     Good(<<NodeCert(n1, u1), NodeCert(n1, a1)>>, <<u1, a1>>, <<>>),
     Good(<<NodeCert(n2, u1), NodeCert(n1, a1)>>, <<u1, a1>>, <<EmbeddedAdmin(a1)>>)}
=============================================================================
