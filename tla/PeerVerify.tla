----------------------------- MODULE PeerVerify -----------------------------
(***************************************************************************)
(* The pure part of internal/auth: what carrierAuth.VerifyPeerCert         *)
(* decides for a peer's handshake, given a snapshot of the trust store.    *)
(*                                                                         *)
(* A CA is identified by the hash of its signing key (ca_base.go), so the  *)
(* same CA may sit in the admin and in the user map.  A signature is the   *)
(* identity of the key that made it: it verifies under exactly that key.   *)
(***************************************************************************)
EXTENDS Integers, Sequences, FiniteSets

CONSTANTS
    CA,                    \* CA hashes
    Node,                  \* node public keys, and so NodeIDs
    Binding,               \* values of TLS bindings (key hash, fingerprint, exporter, transcript)
    NoCA,                  \* "no entry" in a map of user CAs, and a signature no CA made
    NoNode,                \* the NodeID of a rejected peer, and a signature no node made
    MaxPeerCertBundleSize, \* constants.go
    MaxDelegationTTL       \* delegation package

ASSUME NoCAAssumption == NoCA \notin CA
ASSUME NoNodeAssumption == NoNode \notin Node
ASSUME BundleAssumption == MaxPeerCertBundleSize \in Nat \ {0}
ASSUME TTLAssumption == MaxDelegationTTL \in Nat

(* The trust snapshot: users maps a user CA to the admin CA that anchors it. *)
TrustSnapshot == [admins : SUBSET CA, users : [CA -> CA \cup {NoCA}],
                  revAdmins : SUBSET CA, revUsers : SUBSET CA, revNodes : SUBSET Node]

Cert == [node : Node, issuer : CA, validFrom : Int, validUntil : Int]
EmbeddedCA == [type : {"admin-ca", "user-ca", "other"}, ca : CA, anchor : CA, anchorSig : CA \cup {NoCA}]
TLSBindings == [session : Binding, channel : Binding]
DelegationProof == [session : Binding, channel : Binding, bundle : Seq(Cert),
                    notBefore : Int, notAfter : Int]

(***************************************************************************)
(* wellFormed stands for the checks of shape: a delegation proof that is   *)
(* not nil, a non-empty delegation signature, no nil entry, the known cert *)
(* version, a NodeID that matches the key, embedded keys that parse and    *)
(* bindings of the right length.                                           *)
(* session stands for the TLS key hash and the X.509 fingerprint (both of  *)
(* one session certificate), channel for the exporter binding and the      *)
(* transcript hash (both of one TLS connection).                           *)
(***************************************************************************)
PeerHandshake == [certs : Seq(Cert), caSigs : Seq(CA \cup {NoCA}),
                  authorities : Seq(EmbeddedCA), proof : DelegationProof,
                  delegationSig : Node \cup {NoNode}, tls : TLSBindings,
                  wellFormed : BOOLEAN]

AuthContext == [ok : BOOLEAN, node : Node \cup {NoNode}, scope : {"admin", "user"},
                owners : SUBSET CA]

Rejected == [ok |-> FALSE, node |-> NoNode, scope |-> "user", owners |-> {}]

-----------------------------------------------------------------------------
(* Embedded authorities: CA certificates the peer sends with its handshake. *)

IsUser(ts, h) == ts.users[h] # NoCA

(* An embedded admin CA adds nothing: it must be trusted already. *)
AddEmbeddedAdmin(ts, a) == a.ca \notin ts.revAdmins /\ a.ca \in ts.admins

AnchorVerifies(ts, a) == /\ a.anchor \in ts.admins
                         /\ a.anchor \notin ts.revAdmins
                         /\ a.anchorSig = a.anchor

(* The position of the first embedded user CA with hash h; the loop skips later ones. *)
EmbeddedUserAt(auths, h) == {j \in DOMAIN auths : auths[j].type = "user-ca" /\ auths[j].ca = h}
FirstEmbeddedUser(auths, h) ==
    CHOOSE j \in EmbeddedUserAt(auths, h) : \A k \in EmbeddedUserAt(auths, h) : j <= k

AddEmbeddedUser(ts, auths, j) ==
    LET a == auths[j] IN
    /\ a.ca \notin ts.revUsers
    /\ \/ IsUser(ts, a.ca)
       \/ j # FirstEmbeddedUser(auths, a.ca)
       \/ AnchorVerifies(ts, a)

AuthoritiesOK(ts, auths) ==
    \A j \in DOMAIN auths :
        /\ auths[j].type = "admin-ca" => AddEmbeddedAdmin(ts, auths[j])
        /\ auths[j].type = "user-ca" => AddEmbeddedUser(ts, auths, j)

WithEmbeddedAuthorities(ts, auths) ==
    [ts EXCEPT !.users =
        [h \in CA |-> IF ~IsUser(ts, h) /\ EmbeddedUserAt(auths, h) # {}
                      THEN auths[FirstEmbeddedUser(auths, h)].anchor
                      ELSE ts.users[h]]]

-----------------------------------------------------------------------------
(* Checks 1-3: the certificate chain. *)

HasIssuer(ts, h) == h \in ts.admins \/ IsUser(ts, h)

IsCARevoked(ts, h) == h \in ts.revAdmins \cup ts.revUsers

(* Fault: the anchor of a user CA is not checked. *)
FaultyIsUserCAAnchorValid(ts, h) == TRUE

IsUserCAAnchorValid(ts, h) ==
    IsUser(ts, h) => /\ ts.users[h] \notin ts.revAdmins
                     /\ ts.users[h] \in ts.admins

(* Fault: a certificate is expired in its last second. *)
FaultyIsCertValid(ts, c, now) ==
    /\ c.validFrom <= now /\ now < c.validUntil
    /\ HasIssuer(ts, c.issuer)
    /\ ~IsCARevoked(ts, c.issuer)
    /\ IsUserCAAnchorValid(ts, c.issuer)
    /\ c.node \notin ts.revNodes

IsCertValid(ts, c, now) ==
    /\ c.validFrom <= now /\ now <= c.validUntil
    /\ HasIssuer(ts, c.issuer)
    /\ ~IsCARevoked(ts, c.issuer)
    /\ IsUserCAAnchorValid(ts, c.issuer)
    /\ c.node \notin ts.revNodes

(* The certs that filterValidCerts keeps and whose CA signature verifies. *)
VerifiedCerts(ts, hs, now) ==
    {i \in DOMAIN hs.certs : IsCertValid(ts, hs.certs[i], now)
                             /\ hs.caSigs[i] = hs.certs[i].issuer}

VerifyAuthority(ts, hs, now) ==
    LET V == VerifiedCerts(ts, hs, now) IN
    /\ V # {}
    /\ \A i, j \in V : hs.certs[i].node = hs.certs[j].node

ChainNode(ts, hs, now) ==
    hs.certs[CHOOSE i \in VerifiedCerts(ts, hs, now) : TRUE].node

-----------------------------------------------------------------------------
(* Checks 4-5: the delegation from the node key to the TLS session. *)

(* The bundle hash is taken over the sorted certs, so order does not count. *)
SameBundle(a, b) ==
    /\ Len(a) = Len(b)
    /\ \A i \in DOMAIN a : Cardinality({k \in DOMAIN a : a[k] = a[i]})
                            = Cardinality({k \in DOMAIN b : b[k] = a[i]})

VerifyDelegation(hs, node) ==
    /\ hs.delegationSig = node
    /\ hs.proof.session = hs.tls.session
    /\ SameBundle(hs.proof.bundle, hs.certs)

VerifyFreshness(hs, now) ==
    /\ hs.proof.notBefore <= now /\ now <= hs.proof.notAfter
    /\ hs.proof.notAfter - hs.proof.notBefore \in 0..MaxDelegationTTL
    /\ hs.proof.channel = hs.tls.channel

(* Fault: one user certificate makes the whole bundle a user's. *)
FaultyDeriveScope(ts, hs, now) ==
    LET V == VerifiedCerts(ts, hs, now)
        adminValid == \A i \in V : hs.certs[i].issuer \in ts.admins
    IN [ok |-> TRUE, node |-> ChainNode(ts, hs, now),
        scope |-> IF adminValid THEN "admin" ELSE "user",
        owners |-> IF adminValid THEN {} ELSE {hs.certs[i].issuer : i \in V}]

DeriveScope(ts, hs, now) ==
    LET V == VerifiedCerts(ts, hs, now)
        adminValid == \E i \in V : hs.certs[i].issuer \in ts.admins
    IN [ok |-> TRUE, node |-> ChainNode(ts, hs, now),
        scope |-> IF adminValid THEN "admin" ELSE "user",
        owners |-> IF adminValid THEN {} ELSE {hs.certs[i].issuer : i \in V}]

ValidateHandshake(hs) ==
    /\ hs.wellFormed
    /\ Len(hs.certs) \in 1..MaxPeerCertBundleSize
    /\ Len(hs.caSigs) = Len(hs.certs)

(* The whole decision, for a store snapshot and the time read at the start. *)
VerifyPeerCert(snap, hs, now) ==
    LET ts == WithEmbeddedAuthorities(snap, hs.authorities) IN
    IF /\ ValidateHandshake(hs)
       /\ AuthoritiesOK(snap, hs.authorities)
       /\ VerifyAuthority(ts, hs, now)
       /\ VerifyDelegation(hs, ChainNode(ts, hs, now))
       /\ VerifyFreshness(hs, now)
    THEN DeriveScope(ts, hs, now)
    ELSE Rejected

-----------------------------------------------------------------------------
(* What a decision claims, said without following the checks. *)

(* The admin CAs that vouch for user CA h: the store's own anchor, or one that *)
(* really signed a CA certificate the peer sent.                               *)
Anchors(snap, hs, h) ==
    {snap.users[h]} \cup {a \in CA : \E j \in EmbeddedUserAt(hs.authorities, h) :
                              hs.authorities[j].anchor = a /\ hs.authorities[j].anchorSig = a}

(* A certificate of the bundle that CA h really signed for node n, valid at now. *)
Vouches(hs, h, n, now) ==
    \E i \in DOMAIN hs.certs :
        /\ hs.certs[i].issuer = h /\ hs.certs[i].node = n /\ hs.caSigs[i] = h
        /\ hs.certs[i].validFrom <= now /\ now <= hs.certs[i].validUntil

(* Every certificate of the bundle names the same node. *)
OneNode(hs) == \A i, j \in DOMAIN hs.certs : hs.certs[i].node = hs.certs[j].node

(* Verdict b grants nothing that verdict a does not grant. *)
Narrower(b, a) ==
    b.ok => /\ a.ok
            /\ b.node = a.node
            /\ b.scope = "admin" => a.scope = "admin"
            /\ a.scope = "user" => b.owners \subseteq a.owners

(* Snapshot t2 is snapshot t1 after revocations only. *)
RevokedSince(t1, t2) ==
    /\ t2.admins \subseteq t1.admins
    /\ t1.admins \ t2.admins \subseteq t2.revAdmins
    /\ \A h \in CA : t2.users[h] # t1.users[h] => t2.users[h] = NoCA /\ h \in t2.revUsers
    /\ t1.revAdmins \subseteq t2.revAdmins
    /\ t1.revUsers \subseteq t2.revUsers
    /\ t1.revNodes \subseteq t2.revNodes
=============================================================================
