----------------------------- MODULE PeerVerdict ----------------------------
(***************************************************************************)
(* What VerifyPeerCert decides on every trust store that the store's       *)
(* methods can produce, one call at a time.                                *)
(***************************************************************************)
EXTENDS TrustRemoval, PeerHandshakes

(* Completeness: a peer that owns its node key, proves it for this TLS      *)
(* connection and leans on nothing but the store is admitted as soon as one *)
(* of its certificates stands, whatever the others are worth, and as admin  *)
(* exactly when an admin CA's certificate stands.                           *)
HonestPeerAdmitted ==
    \A hs \in Handshake, now \in 0..MaxClock :
        LET r == VerifyPeerCert(SnapTrustStore, hs, now)
            standing(h) == /\ h \notin revokedAdminCAs \cup revokedUserCAs
                           /\ userCAs[h] # NoCA => userCAs[h] \in adminCAs
                           /\ Vouches(hs, h, hs.delegationSig, now)
            admins == {h \in adminCAs : standing(h)}
            users == {h \in CA \ adminCAs : userCAs[h] # NoCA /\ standing(h)}
        IN (/\ ValidateHandshake(hs) /\ OneNode(hs) /\ hs.authorities = <<>>
            /\ hs.delegationSig \notin revokedNodes
            /\ VerifyDelegation(hs, hs.delegationSig) /\ VerifyFreshness(hs, now))
           => /\ r.ok <=> admins \cup users # {}
              /\ r.ok => /\ r.node = hs.delegationSig
                         /\ r.scope = "admin" <=> admins # {}
                         /\ r.owners = IF admins = {} THEN users ELSE {}

(* A step that only revokes never widens what VerifyPeerCert grants to a    *)
(* handshake whose certificates all name one node: no rejected peer becomes *)
(* admitted, no user becomes admin, no owner is added.                      *)
RevocationNarrows ==
    [][store' # store /\ RevokedSince(SnapTrustStore, SnapTrustStore') =>
          \A hs \in Handshake, now \in 0..MaxClock :
              OneNode(hs) => Narrower(VerifyPeerCert(SnapTrustStore', hs, now),
                                      VerifyPeerCert(SnapTrustStore, hs, now))]_store
=============================================================================
