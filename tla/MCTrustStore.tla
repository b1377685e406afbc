---------------------------- MODULE MCTrustStore ----------------------------
(* Two admin CAs and one user CA either of them may have anchored. *)
EXTENDS PeerVerdict, MCHandshakes

MCAnchorRequest ==
    {[ca |-> u1, anchor |-> a1, anchorSig |-> a1],
     [ca |-> u1, anchor |-> a2, anchorSig |-> a2],
     [ca |-> a2, anchor |-> a1, anchorSig |-> u1]}

(* Bundles of one or two certificates, one of them expired or with a        *)
(* signature of another CA, every kind of embedded authority, and           *)
(* delegations that fail one check.                                         *)
Expired == [NodeCert(n1, a1) EXCEPT !.validFrom = -1, !.validUntil = -1]

Bundles ==
    {<<NodeCert(n1, a1)>>, <<NodeCert(n1, u1)>>, <<Expired, NodeCert(n1, u1)>>,
     <<NodeCert(n1, u1), NodeCert(n1, a2)>>, <<NodeCert(n1, a1), NodeCert(n2, u1)>>}

Chains ==
    {<<>>, <<EmbeddedUser(u1, a2)>>, <<EmbeddedAdmin(a2), EmbeddedUser(u1, a2)>>,
     <<EmbeddedUser(u1, a1), EmbeddedUser(u1, a2)>>,
     <<[EmbeddedUser(u1, a1) EXCEPT !.anchorSig = u1]>>,
     <<[EmbeddedUser(u1, a2) EXCEPT !.type = "other"]>>}

Genuine(certs) == [i \in DOMAIN certs |-> certs[i].issuer]

WideHandshake ==
    LET base == {Good(c, Genuine(c), e) : c \in Bundles, e \in Chains}
        one == Good(<<NodeCert(n1, u1), NodeCert(n1, a1)>>, <<u1, a1>>, <<>>)
    IN base \cup {one,
        [one EXCEPT !.caSigs = <<u1, u1>>],
        [one EXCEPT !.caSigs = <<u1>>],
        [one EXCEPT !.delegationSig = n2],
        [one EXCEPT !.proof.channel = b2],
        [one EXCEPT !.proof.session = b2],
        [one EXCEPT !.proof.notBefore = -1],
        [one EXCEPT !.proof.bundle = <<NodeCert(n1, a1), NodeCert(n1, u1)>>],
        [one EXCEPT !.proof.bundle = <<NodeCert(n1, a1), NodeCert(n1, a1)>>],
        [one EXCEPT !.wellFormed = FALSE]}
=============================================================================
