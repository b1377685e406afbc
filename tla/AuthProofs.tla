----------------------------- MODULE AuthProofs -----------------------------
(***************************************************************************)
(* internal/auth.  What the trust store guarantees for every set of CAs    *)
(* and nodes, every limit on the revocation lists and every sequence of    *)
(* calls; and what VerifyPeerCert guarantees for every handshake, every    *)
(* time and every trust store: for one call at a time (PeerVerdict) and    *)
(* for calls that run concurrently with updates of the store               *)
(* (PeerAdmission).                                                        *)
(***************************************************************************)
EXTENDS TrustRemoval, PeerVerdict, PeerAdmission, TLAPS, FiniteSetTheorems, WellFoundedInduction

-----------------------------------------------------------------------------
(* The trust store *)

(* A Remove or Revoke method adds at most one entry to a list that is short *)
(* of its limit, so the list stays finite and within the limit              *)
(* (carrier_auth.go: len(list) < MaxRevocationEntries).                     *)
LEMMA EntryFits ==
    ASSUME NEW list, IsFiniteSet(list), NEW h, Cardinality(list) < MaxRevocationEntries
    PROVE  /\ IsFiniteSet(list \cup {h})
           /\ Cardinality(list \cup {h}) <= MaxRevocationEntries
<1>1. /\ IsFiniteSet(list \cup {h})
      /\ Cardinality(list \cup {h}) = IF h \in list THEN Cardinality(list)
                                                    ELSE Cardinality(list) + 1
  BY FS_AddElement
<1>2. Cardinality(list) \in Nat
  BY FS_CardinalityType
<1> QED
  BY <1>1, <1>2, RevocationAssumption

(* WithEntry, which the Remove methods use, keeps a list that is within the  *)
(* limit within it, and keeps every entry the list has.                      *)
LEMMA WithEntryFits ==
    ASSUME NEW list, IsFiniteSet(list), Cardinality(list) <= MaxRevocationEntries, NEW h
    PROVE  /\ list \subseteq WithEntry(list, h)
           /\ WithEntry(list, h) \subseteq list \cup {h}
           /\ Cardinality(WithEntry(list, h)) <= MaxRevocationEntries
<1>1. CASE Cardinality(list) < MaxRevocationEntries
  BY <1>1, EntryFits DEF WithEntry
<1>2. CASE ~(Cardinality(list) < MaxRevocationEntries)
  BY <1>2 DEF WithEntry
<1> QED
  BY <1>1, <1>2

(* Every trust store method keeps the type of every variable. *)
LEMMA TypeStep == TypeOK /\ [Next]_storeVars => TypeOK'
<1> SUFFICES ASSUME TypeOK, [Next]_storeVars PROVE TypeOK'
  OBVIOUS
<1> USE DEF TypeOK, hookVars, store
<1>1. ASSUME NEW h \in CA, AddAdminPubKey(h) PROVE TypeOK'
  BY <1>1 DEF AddAdminPubKey
<1>2. ASSUME NEW h \in CA, RemoveAdminPubKey(h) PROVE TypeOK'
  BY <1>2 DEF RemoveAdminPubKey, WithEntry
<1>3. ASSUME NEW h \in CA, RevokeAdminCA(h) PROVE TypeOK'
  BY <1>3 DEF RevokeAdminCA, CallHook, Event
<1>4. ASSUME NEW h \in CA, RemoveUserPubKey(h) PROVE TypeOK'
  BY <1>4 DEF RemoveUserPubKey, WithEntry
<1>5. ASSUME NEW h \in CA, RevokeUserCA(h) PROVE TypeOK'
  BY <1>5 DEF RevokeUserCA, CallHook, Event
<1>6. ASSUME NEW r \in AnchorRequest, AddUserPubKey(r) PROVE TypeOK'
  BY <1>6, RequestAssumption DEF AddUserPubKey
<1>7. ASSUME NEW n \in Node, RevokeNode(n) PROVE TypeOK'
  BY <1>7 DEF RevokeNode, CallHook, Event
<1>8. CASE \E hook \in BOOLEAN : SetRevocationHook(hook)
  BY <1>8 DEF SetRevocationHook
<1>9. ASSUME NEW e \in hookCalls, RunHook(e) PROVE TypeOK'
  BY <1>9 DEF RunHook
<1>10. CASE UNCHANGED storeVars
  BY <1>10 DEF storeVars
<1> QED
  BY <1>1, <1>2, <1>3, <1>4, <1>5, <1>6, <1>7, <1>8, <1>9, <1>10 DEF Next, StoreUpdate

(* Every variable keeps its type under every trust store method. *)
THEOREM TypeCorrect == Spec => []TypeOK
<1>1. Init => TypeOK
  BY DEF Init, TypeOK, Event
<1> QED
  BY <1>1, TypeStep, PTL DEF Spec

-----------------------------------------------------------------------------
(* The invariant that is proved by induction: neither the separation of     *)
(* trusted and revoked CAs, nor what a pending hook call may rely on, is    *)
(* inductive without the types of the lists.                                *)
Safe == TypeOK /\ RevokedNotTrusted /\ HookSeesRevocation

(* One step of any method keeps trusted and revoked CAs apart, and the      *)
(* promise made to a hook that has not run yet.                             *)
LEMMA SafeStep == Safe /\ TypeOK' /\ [Next]_storeVars => RevokedNotTrusted' /\ HookSeesRevocation'
<1> SUFFICES ASSUME Safe, TypeOK', [Next]_storeVars
             PROVE  RevokedNotTrusted' /\ HookSeesRevocation'
  OBVIOUS
<1> USE NoCAAssumption DEF Safe, TypeOK, RevokedNotTrusted, HookSeesRevocation, hookVars, store
<1>1. ASSUME NEW h \in CA, AddAdminPubKey(h) PROVE RevokedNotTrusted' /\ HookSeesRevocation'
  BY <1>1 DEF AddAdminPubKey
<1>2. ASSUME NEW h \in CA, RemoveAdminPubKey(h) PROVE RevokedNotTrusted' /\ HookSeesRevocation'
  BY <1>2 DEF RemoveAdminPubKey, WithEntry
<1>3. ASSUME NEW h \in CA, RevokeAdminCA(h) PROVE RevokedNotTrusted' /\ HookSeesRevocation'
  BY <1>3 DEF RevokeAdminCA, CallHook
<1>4. ASSUME NEW h \in CA, RemoveUserPubKey(h) PROVE RevokedNotTrusted' /\ HookSeesRevocation'
  BY <1>4 DEF RemoveUserPubKey, WithEntry, Event
<1>5. ASSUME NEW h \in CA, RevokeUserCA(h) PROVE RevokedNotTrusted' /\ HookSeesRevocation'
  BY <1>5 DEF RevokeUserCA, CallHook, Event
<1>6. ASSUME NEW r \in AnchorRequest, AddUserPubKey(r)
      PROVE RevokedNotTrusted' /\ HookSeesRevocation'
  BY <1>6, RequestAssumption DEF AddUserPubKey, Event
<1>7. ASSUME NEW n \in Node, RevokeNode(n) PROVE RevokedNotTrusted' /\ HookSeesRevocation'
  BY <1>7 DEF RevokeNode, CallHook
<1>8. CASE \E hook \in BOOLEAN : SetRevocationHook(hook)
  BY <1>8 DEF SetRevocationHook
<1>9. ASSUME NEW e \in hookCalls, RunHook(e) PROVE RevokedNotTrusted' /\ HookSeesRevocation'
  BY <1>9 DEF RunHook
<1>10. CASE UNCHANGED storeVars
  BY <1>10 DEF storeVars
<1> QED
  BY <1>1, <1>2, <1>3, <1>4, <1>5, <1>6, <1>7, <1>8, <1>9, <1>10 DEF Next, StoreUpdate

(* The inductive invariant holds of every state of the trust store. *)
LEMMA SafeAlways == Spec => []Safe
<1>1. Init => Safe
  BY DEF Init, Safe, TypeOK, Event, RevokedNotTrusted, HookSeesRevocation
<1>2. Safe /\ TypeOK' /\ [Next]_storeVars => Safe'
  BY SafeStep DEF Safe
<1> QED
  BY <1>1, <1>2, TypeCorrect, PTL DEF Spec

(* No CA is ever trusted and revoked at once (carrier_auth.go: the checks of *)
(* the Add methods, the deletes of the Remove and Revoke methods).           *)
THEOREM RevocationWins == Spec => []RevokedNotTrusted
<1>1. Safe => RevokedNotTrusted
  BY DEF Safe
<1> QED
  BY <1>1, SafeAlways, PTL

(* When the revocation hook runs, the store already refuses what was revoked *)
(* and will not trust it again, although the hook runs after the unlock.     *)
THEOREM HookSound == Spec => []HookSeesRevocation
<1>1. Safe => HookSeesRevocation
  BY DEF Safe
<1> QED
  BY <1>1, SafeAlways, PTL

-----------------------------------------------------------------------------
(* One list: a step that leaves it alone or adds an entry through WithEntry  *)
(* or behind the limit check keeps it within the limit.                      *)
LEMMA ListStep ==
    ASSUME NEW list, NEW next, NEW h, IsFiniteSet(list), Cardinality(list) <= MaxRevocationEntries,
           \/ next = list
           \/ next = WithEntry(list, h)
           \/ Cardinality(list) < MaxRevocationEntries /\ next = list \cup {h}
    PROVE  Cardinality(next) <= MaxRevocationEntries
BY WithEntryFits, EntryFits

(* No revocation list ever outgrows MaxRevocationEntries.  The Remove        *)
(* methods and the Revoke methods enforce the limit in different ways.       *)
THEOREM RevocationMemoryBounded == Spec => []RevocationListsBounded
<1>1. Init => RevocationListsBounded
  BY FS_EmptySet, RevocationAssumption DEF Init, RevocationListsBounded
<1>2. TypeOK /\ RevocationListsBounded /\ [Next]_storeVars => RevocationListsBounded'
  <2> SUFFICES ASSUME TypeOK, RevocationListsBounded, [Next]_storeVars
               PROVE  RevocationListsBounded'
    OBVIOUS
  <2>0. /\ IsFiniteSet(revokedAdminCAs) /\ IsFiniteSet(revokedUserCAs) /\ IsFiniteSet(revokedNodes)
        /\ Cardinality(revokedAdminCAs) <= MaxRevocationEntries
        /\ Cardinality(revokedUserCAs) <= MaxRevocationEntries
        /\ Cardinality(revokedNodes) <= MaxRevocationEntries
    BY FS_Subset, FiniteAssumption DEF TypeOK, RevocationListsBounded
  <2>1. ASSUME NEW h \in CA,
               \/ AddAdminPubKey(h) \/ RemoveAdminPubKey(h) \/ RevokeAdminCA(h)
               \/ RemoveUserPubKey(h) \/ RevokeUserCA(h)
        PROVE  RevocationListsBounded'
    <3>1. Cardinality(revokedAdminCAs') <= MaxRevocationEntries
      BY <2>0, <2>1, ListStep
      DEF AddAdminPubKey, RemoveAdminPubKey, RevokeAdminCA, RemoveUserPubKey, RevokeUserCA
    <3>2. Cardinality(revokedUserCAs') <= MaxRevocationEntries
      BY <2>0, <2>1, ListStep
      DEF AddAdminPubKey, RemoveAdminPubKey, RevokeAdminCA, RemoveUserPubKey, RevokeUserCA
    <3>3. revokedNodes' = revokedNodes
      BY <2>1
      DEF AddAdminPubKey, RemoveAdminPubKey, RevokeAdminCA, RemoveUserPubKey, RevokeUserCA
    <3> QED
      BY <2>0, <3>1, <3>2, <3>3 DEF RevocationListsBounded
  <2>2. ASSUME NEW n \in Node, RevokeNode(n) PROVE RevocationListsBounded'
    <3>1. Cardinality(revokedNodes') <= MaxRevocationEntries
      BY <2>0, <2>2, ListStep DEF RevokeNode
    <3> QED
      BY <2>0, <2>2, <3>1 DEF RevokeNode, RevocationListsBounded
  <2>3. CASE UNCHANGED <<revokedAdminCAs, revokedUserCAs, revokedNodes>>
    BY <2>3 DEF RevocationListsBounded
  <2>4. ASSUME NEW r \in AnchorRequest, AddUserPubKey(r) PROVE RevocationListsBounded'
    BY <2>3, <2>4 DEF AddUserPubKey
  <2>5. (\E hook \in BOOLEAN : SetRevocationHook(hook)) => RevocationListsBounded'
    BY <2>3 DEF SetRevocationHook, store
  <2>6. ASSUME NEW e \in hookCalls, RunHook(e) PROVE RevocationListsBounded'
    BY <2>3, <2>6 DEF RunHook, store
  <2>7. UNCHANGED storeVars => RevocationListsBounded'
    BY <2>3 DEF storeVars, store
  <2> QED
    BY <2>1, <2>2, <2>4, <2>5, <2>6, <2>7 DEF Next, StoreUpdate
<1> QED
  BY <1>1, <1>2, TypeCorrect, PTL DEF Spec

-----------------------------------------------------------------------------
(* A list that is within its limit and grows only by WithEntry or behind the *)
(* limit check keeps its entries, and once full it stays as it is.           *)
LEMMA ListGrows ==
    ASSUME NEW list, NEW next, NEW h, IsFiniteSet(list), Cardinality(list) <= MaxRevocationEntries,
           \/ next = list
           \/ next = WithEntry(list, h)
           \/ Cardinality(list) < MaxRevocationEntries /\ next = list \cup {h}
    PROVE  /\ list \subseteq next
           /\ Cardinality(list) = MaxRevocationEntries => next = list
           /\ next # list => h \in next
           /\ next = WithEntry(list, h) => h \in next \/ Cardinality(next) = MaxRevocationEntries
<1>1. Cardinality(list) \in Nat
  BY FS_CardinalityType
<1> QED
  BY <1>1, RevocationAssumption DEF WithEntry

(* What a CA that left the store leaves behind: its revocation, or a list    *)
(* that was full and so stays full.                                          *)
LeftRevoked ==
    /\ leftAdmins \subseteq CA /\ leftUsers \subseteq CA
    /\ \A h \in leftAdmins : \/ h \in revokedAdminCAs
                             \/ Cardinality(revokedAdminCAs) = MaxRevocationEntries
    /\ \A h \in leftUsers : \/ h \in revokedUserCAs
                            \/ Cardinality(revokedUserCAs) = MaxRevocationEntries

(* The history only watches: with it, the store does what it does without. *)
LEMMA RemovalIsStore == RSpec => Spec
<1>1. RInit => Init
  BY DEF RInit
<1>2. [RNext]_removalVars => [Next]_storeVars
  BY DEF RNext, removalVars
<1> QED
  BY <1>1, <1>2, PTL DEF RSpec, Spec

(* What one step does to the lists and to the CAs that leave. *)
LEMMA LeavingRevokes ==
    ASSUME TypeOK, RevocationListsBounded, Next
    PROVE  /\ revokedAdminCAs \subseteq revokedAdminCAs'
           /\ revokedUserCAs \subseteq revokedUserCAs'
           /\ Cardinality(revokedAdminCAs) = MaxRevocationEntries
                 => revokedAdminCAs' = revokedAdminCAs
           /\ Cardinality(revokedUserCAs) = MaxRevocationEntries
                 => revokedUserCAs' = revokedUserCAs
           /\ \A h \in adminCAs \ adminCAs' : \/ h \in revokedAdminCAs'
                                              \/ Cardinality(revokedAdminCAs') = MaxRevocationEntries
           /\ \A h \in CA : userCAs[h] # NoCA /\ userCAs'[h] = NoCA =>
                 \/ h \in revokedUserCAs'
                 \/ Cardinality(revokedUserCAs') = MaxRevocationEntries
<1> DEFINE Goal == /\ revokedAdminCAs \subseteq revokedAdminCAs'
                   /\ revokedUserCAs \subseteq revokedUserCAs'
                   /\ Cardinality(revokedAdminCAs) = MaxRevocationEntries
                         => revokedAdminCAs' = revokedAdminCAs
                   /\ Cardinality(revokedUserCAs) = MaxRevocationEntries
                         => revokedUserCAs' = revokedUserCAs
                   /\ \A h \in adminCAs \ adminCAs' :
                         \/ h \in revokedAdminCAs'
                         \/ Cardinality(revokedAdminCAs') = MaxRevocationEntries
                   /\ \A h \in CA : userCAs[h] # NoCA /\ userCAs'[h] = NoCA =>
                         \/ h \in revokedUserCAs'
                         \/ Cardinality(revokedUserCAs') = MaxRevocationEntries
<1>0. /\ IsFiniteSet(revokedAdminCAs) /\ IsFiniteSet(revokedUserCAs)
      /\ Cardinality(revokedAdminCAs) <= MaxRevocationEntries
      /\ Cardinality(revokedUserCAs) <= MaxRevocationEntries
  BY FS_Subset, FiniteAssumption DEF TypeOK, RevocationListsBounded
<1>1. ASSUME NEW h \in CA, RemoveAdminPubKey(h) PROVE Goal
  BY <1>0, <1>1, ListGrows DEF RemoveAdminPubKey
<1>2. ASSUME NEW h \in CA, RevokeAdminCA(h) PROVE Goal
  BY <1>0, <1>2, ListGrows DEF RevokeAdminCA
<1>3. ASSUME NEW h \in CA, RemoveUserPubKey(h) PROVE Goal
  BY <1>0, <1>3, ListGrows DEF RemoveUserPubKey, TypeOK
<1>4. ASSUME NEW h \in CA, RevokeUserCA(h) PROVE Goal
  <2>1. /\ revokedUserCAs \subseteq revokedUserCAs' /\ h \in revokedUserCAs'
        /\ Cardinality(revokedUserCAs) # MaxRevocationEntries
    BY <1>4, FS_CardinalityType, <1>0, RevocationAssumption DEF RevokeUserCA
  <2>2. \A g \in CA : g # h => userCAs'[g] = userCAs[g]
    BY <1>4 DEF RevokeUserCA, TypeOK
  <2>3. UNCHANGED <<adminCAs, revokedAdminCAs>>
    BY <1>4 DEF RevokeUserCA
  <2> QED
    BY <2>1, <2>2, <2>3
<1>5. ASSUME NEW h \in CA, AddAdminPubKey(h) PROVE Goal
  BY <1>5 DEF AddAdminPubKey
<1>6. ASSUME NEW r \in AnchorRequest, AddUserPubKey(r) PROVE Goal
  BY <1>6, RequestAssumption, NoCAAssumption DEF AddUserPubKey, TypeOK
<1>7. ASSUME UNCHANGED <<adminCAs, userCAs, revokedAdminCAs, revokedUserCAs>> PROVE Goal
  BY <1>7
<1>8. \/ \E n \in Node : RevokeNode(n)
      \/ \E hook \in BOOLEAN : SetRevocationHook(hook)
      \/ \E e \in hookCalls : RunHook(e)
      => Goal
  BY <1>7 DEF RevokeNode, SetRevocationHook, RunHook, store
<1> QED
  BY <1>1, <1>2, <1>3, <1>4, <1>5, <1>6, <1>8 DEF Next, StoreUpdate

(* A CA that was removed or revoked is trusted again only when the           *)
(* revocation list is full, since only a full list makes the Remove methods  *)
(* drop the revocation (carrier_auth.go 296-298, 313-315).                   *)
THEOREM RemovalFinal == RSpec => []RemovalFinalUnlessFull
<1>1. RInit => LeftRevoked
  BY DEF RInit, LeftRevoked
<1>2. TypeOK /\ RevocationListsBounded /\ LeftRevoked /\ [RNext]_removalVars => LeftRevoked'
  <2> SUFFICES ASSUME TypeOK, RevocationListsBounded, LeftRevoked, [RNext]_removalVars
               PROVE  LeftRevoked'
    OBVIOUS
  <2>1. CASE RNext
    BY <2>1, LeavingRevokes DEF RNext, LeftRevoked, TypeOK
  <2>2. CASE UNCHANGED removalVars
    BY <2>2 DEF removalVars, storeVars, store, LeftRevoked
  <2> QED
    BY <2>1, <2>2
<1>3. LeftRevoked /\ RevokedNotTrusted => RemovalFinalUnlessFull
  BY DEF LeftRevoked, RevokedNotTrusted, RemovalFinalUnlessFull
<1> QED
  BY <1>1, <1>2, <1>3, RemovalIsStore, TypeCorrect, RevocationMemoryBounded, RevocationWins, PTL
  DEF RSpec

-----------------------------------------------------------------------------
(* The CAs that come with a handshake *)

(* The loop over embedded CAs meets one of them first. *)
LEMMA FirstExists ==
    ASSUME NEW auths \in Seq(EmbeddedCA), NEW h, EmbeddedUserAt(auths, h) # {}
    PROVE  FirstEmbeddedUser(auths, h) \in EmbeddedUserAt(auths, h)
<1> DEFINE E == EmbeddedUserAt(auths, h)
<1>1. E \subseteq Nat
  BY DEF EmbeddedUserAt
<1>2. PICK j \in E : \A k \in E : <<k, j>> \notin OpToRel(<, Nat)
  BY <1>1, WFMin, NatLessThanWellFounded
<1>3. \A k \in E : j <= k
  <2> TAKE k \in E
  <2>1. j \in Nat /\ k \in Nat /\ <<k, j>> \in Nat \X Nat
    BY <1>1
  <2>2. ~(k < j)
    BY <1>2, <2>1 DEF OpToRel
  <2> QED
    BY <2>1, <2>2
<1> QED
  BY <1>3 DEF FirstEmbeddedUser

(* An embedded user CA that passes the checks and that the store does not    *)
(* know is anchored by the signature of a trusted, unrevoked admin CA.       *)
LEMMA EmbeddedAnchored ==
    ASSUME NEW snap \in TrustSnapshot, NEW auths \in Seq(EmbeddedCA), AuthoritiesOK(snap, auths),
           NEW h \in CA, ~IsUser(snap, h), EmbeddedUserAt(auths, h) # {}
    PROVE  LET j == FirstEmbeddedUser(auths, h) IN
           /\ j \in EmbeddedUserAt(auths, h)
           /\ auths[j] \in EmbeddedCA
           /\ AnchorVerifies(snap, auths[j])
<1> DEFINE j == FirstEmbeddedUser(auths, h)
<1>1. j \in EmbeddedUserAt(auths, h)
  BY FirstExists
<1>2. j \in DOMAIN auths /\ auths[j].type = "user-ca" /\ auths[j].ca = h
  BY <1>1 DEF EmbeddedUserAt
<1>3. auths[j] \in EmbeddedCA
  BY <1>2
<1>4. AddEmbeddedUser(snap, auths, j)
  BY <1>2 DEF AuthoritiesOK
<1>5. AnchorVerifies(snap, auths[j])
  BY <1>2, <1>4 DEF AddEmbeddedUser
<1> QED
  BY <1>1, <1>3, <1>5

(* The store that the checks run on differs from the snapshot only in the    *)
(* user CAs that the handshake brought.                                      *)
LEMMA MergedStore ==
    ASSUME NEW snap \in TrustSnapshot, NEW auths \in Seq(EmbeddedCA)
    PROVE  LET ts == WithEmbeddedAuthorities(snap, auths) IN
           /\ ts.admins = snap.admins
           /\ ts.revAdmins = snap.revAdmins
           /\ ts.revUsers = snap.revUsers
           /\ ts.revNodes = snap.revNodes
           /\ \A h \in CA :
                 ts.users[h] = IF ~IsUser(snap, h) /\ EmbeddedUserAt(auths, h) # {}
                               THEN auths[FirstEmbeddedUser(auths, h)].anchor
                               ELSE snap.users[h]
BY DEF WithEmbeddedAuthorities, TrustSnapshot

-----------------------------------------------------------------------------
(* One verdict *)

(* The conjunction of all checks of VerifyPeerCert. *)
Accepts(snap, hs, now) ==
    LET ts == WithEmbeddedAuthorities(snap, hs.authorities) IN
    /\ ValidateHandshake(hs)
    /\ AuthoritiesOK(snap, hs.authorities)
    /\ VerifyAuthority(ts, hs, now)
    /\ VerifyDelegation(hs, ChainNode(ts, hs, now))
    /\ VerifyFreshness(hs, now)

(* VerifyPeerCert admits exactly the peers that pass all checks. *)
LEMMA VerdictCases ==
    ASSUME NEW snap, NEW hs, NEW now
    PROVE  LET ts == WithEmbeddedAuthorities(snap, hs.authorities)
               r == VerifyPeerCert(snap, hs, now)
               V == VerifiedCerts(ts, hs, now)
               adminValid == \E i \in V : hs.certs[i].issuer \in ts.admins
           IN /\ r.ok = Accepts(snap, hs, now)
              /\ ~Accepts(snap, hs, now) => r = Rejected
              /\ Accepts(snap, hs, now) =>
                    /\ r = [ok |-> TRUE, node |-> ChainNode(ts, hs, now),
                            scope |-> IF adminValid THEN "admin" ELSE "user",
                            owners |-> IF adminValid THEN {} ELSE {hs.certs[i].issuer : i \in V}]
                    /\ V # {}
                    /\ \A i, j \in V : hs.certs[i].node = hs.certs[j].node
<1>1. CASE Accepts(snap, hs, now)
  BY <1>1 DEF Accepts, VerifyPeerCert, DeriveScope, VerifyAuthority
<1>2. CASE ~Accepts(snap, hs, now)
  BY <1>2 DEF Accepts, VerifyPeerCert, Rejected
<1> QED
  BY <1>1, <1>2

(* What an admitted peer is granted, by whether a cert of an admin CA counts. *)
LEMMA VerdictGrants ==
    ASSUME NEW snap \in TrustSnapshot, NEW hs \in PeerHandshake, NEW now, Accepts(snap, hs, now)
    PROVE  LET ts == WithEmbeddedAuthorities(snap, hs.authorities)
               r == VerifyPeerCert(snap, hs, now)
               V == VerifiedCerts(ts, hs, now)
           IN /\ r.ok /\ r.node = ChainNode(ts, hs, now)
              /\ (\E i \in V : hs.certs[i].issuer \in snap.admins)
                    => r.scope = "admin" /\ r.owners = {}
              /\ ~(\E i \in V : hs.certs[i].issuer \in snap.admins)
                    => r.scope = "user" /\ r.owners = {hs.certs[i].issuer : i \in V}
<1> DEFINE ts == WithEmbeddedAuthorities(snap, hs.authorities)
           r == VerifyPeerCert(snap, hs, now)
           V == VerifiedCerts(ts, hs, now)
           adminValid == \E i \in V : hs.certs[i].issuer \in ts.admins
           owners == {hs.certs[i].issuer : i \in V}
<1>1. hs.authorities \in Seq(EmbeddedCA)
  BY DEF PeerHandshake
<1>2. ts.admins = snap.admins
  BY <1>1, MergedStore
<1>3. r = [ok |-> TRUE, node |-> ChainNode(ts, hs, now),
           scope |-> IF adminValid THEN "admin" ELSE "user",
           owners |-> IF adminValid THEN {} ELSE owners]
  BY VerdictCases
<1>4. /\ r.ok /\ r.node = ChainNode(ts, hs, now)
      /\ adminValid => r.scope = "admin" /\ r.owners = {}
      /\ ~adminValid => r.scope = "user" /\ r.owners = owners
  <2> HIDE DEF adminValid, owners, ts
  <2> QED
    BY <1>3
<1> QED
  BY <1>2, <1>4

(* A cert that VerifyPeerCert counts was issued by a CA that no list names,   *)
(* for a node that no list names, in its time of validity.                   *)
LEMMA VerifiedIsSound ==
    ASSUME NEW snap \in TrustSnapshot, NEW hs \in PeerHandshake, NEW now \in Int,
           NEW i \in VerifiedCerts(WithEmbeddedAuthorities(snap, hs.authorities), hs, now)
    PROVE  LET h == hs.certs[i].issuer
               ts == WithEmbeddedAuthorities(snap, hs.authorities)
           IN
           /\ i \in DOMAIN hs.certs
           /\ h \in CA \ (snap.revAdmins \cup snap.revUsers)
           /\ hs.certs[i].node \in Node \ snap.revNodes
           /\ Vouches(hs, h, hs.certs[i].node, now)
           /\ h \in snap.admins \/ ts.users[h] # NoCA
           /\ ts.users[h] # NoCA => ts.users[h] \in snap.admins \ snap.revAdmins
<1> DEFINE ts == WithEmbeddedAuthorities(snap, hs.authorities)
           c == hs.certs[i]
<1>1. /\ i \in DOMAIN hs.certs /\ hs.caSigs[i] = c.issuer
      /\ IsCertValid(ts, c, now)
  BY DEF VerifiedCerts
<1>2. c \in Cert
  BY <1>1 DEF PeerHandshake
<1>3. hs.authorities \in Seq(EmbeddedCA)
  BY DEF PeerHandshake
<1>4. /\ ts.admins = snap.admins /\ ts.revAdmins = snap.revAdmins
      /\ ts.revUsers = snap.revUsers /\ ts.revNodes = snap.revNodes
  BY <1>3, MergedStore
<1>5. c.issuer \in CA /\ c.node \in Node
  BY <1>2 DEF Cert
<1>6. /\ c.issuer \notin snap.revAdmins \cup snap.revUsers
      /\ c.node \notin snap.revNodes
      /\ c.validFrom <= now /\ now <= c.validUntil
      /\ c.issuer \in snap.admins \/ ts.users[c.issuer] # NoCA
      /\ ts.users[c.issuer] # NoCA => ts.users[c.issuer] \in snap.admins \ snap.revAdmins
  BY <1>1, <1>4 DEF IsCertValid, IsCARevoked, HasIssuer, IsUser, IsUserCAAnchorValid
<1>7. Vouches(hs, c.issuer, c.node, now)
  BY <1>1, <1>6 DEF Vouches
<1> QED
  BY <1>1, <1>5, <1>6, <1>7

(* What the verdict says of a peer is of the type of an auth context. *)
LEMMA VerdictType ==
    ASSUME NEW snap \in TrustSnapshot, NEW hs \in PeerHandshake, NEW now \in Int
    PROVE  VerifyPeerCert(snap, hs, now) \in AuthContext
<1> DEFINE ts == WithEmbeddedAuthorities(snap, hs.authorities)
           V == VerifiedCerts(ts, hs, now)
           r == VerifyPeerCert(snap, hs, now)
<1>1. CASE ~Accepts(snap, hs, now)
  <2>1. r = Rejected
    BY <1>1, VerdictCases
  <2>2. Rejected \in AuthContext
    BY DEF Rejected, AuthContext
  <2> QED
    BY <2>1, <2>2
<1>2. CASE Accepts(snap, hs, now)
  <2>1. V # {}
    BY <1>2, VerdictCases
  <2>2. ChainNode(ts, hs, now) \in Node
    BY <2>1, VerifiedIsSound DEF ChainNode
  <2>3. {hs.certs[i].issuer : i \in V} \subseteq CA
    BY VerifiedIsSound
  <2>4. /\ r.ok = TRUE /\ r.node = ChainNode(ts, hs, now)
        /\ r.scope \in {"admin", "user"} /\ r.owners \in SUBSET CA
        /\ r = [ok |-> r.ok, node |-> r.node, scope |-> r.scope, owners |-> r.owners]
    BY <1>2, <2>3, VerdictCases
  <2> QED
    BY <2>2, <2>4 DEF AuthContext
<1> QED
  BY <1>1, <1>2

(* An admitted peer owns the node key of the delegation, and every CA that   *)
(* stands for it, and every anchor of one, is unrevoked in the snapshot.     *)
LEMMA VerdictSound ==
    ASSUME NEW snap \in TrustSnapshot, NEW hs \in PeerHandshake, NEW now \in Int,
           VerifyPeerCert(snap, hs, now).ok
    PROVE  LET r == VerifyPeerCert(snap, hs, now)
               unrevoked == CA \ (snap.revAdmins \cup snap.revUsers)
           IN
           /\ r.node = hs.delegationSig
           /\ r.node \notin snap.revNodes
           /\ r.scope = "admin" =>
                 \E h \in snap.admins \cap unrevoked : Vouches(hs, h, r.node, now)
           /\ r.scope = "user" =>
                 /\ r.owners # {}
                 /\ \A h \in r.owners :
                       /\ h \in unrevoked
                       /\ Vouches(hs, h, r.node, now)
                       /\ \E a \in Anchors(snap, hs, h) \cap snap.admins : a \notin snap.revAdmins
<1> DEFINE ts == WithEmbeddedAuthorities(snap, hs.authorities)
           V == VerifiedCerts(ts, hs, now)
           r == VerifyPeerCert(snap, hs, now)
           unrevoked == CA \ (snap.revAdmins \cup snap.revUsers)
<1>0. Accepts(snap, hs, now)
  BY VerdictCases
<1>1. /\ V # {} /\ r.node = ChainNode(ts, hs, now)
      /\ \A i, j \in V : hs.certs[i].node = hs.certs[j].node
  BY <1>0, VerdictCases
<1>2. \A i \in V : hs.certs[i].node = r.node
  BY <1>1 DEF ChainNode
<1>3. r.node = hs.delegationSig
  BY <1>0, <1>1 DEF Accepts, VerifyDelegation
<1>4. r.node \notin snap.revNodes
  BY <1>1, <1>2, VerifiedIsSound
<1>5. \A i \in V : /\ hs.certs[i].issuer \in unrevoked
                   /\ Vouches(hs, hs.certs[i].issuer, r.node, now)
  BY <1>2, VerifiedIsSound
<1>6. hs.authorities \in Seq(EmbeddedCA)
  BY DEF PeerHandshake
<1>7. ts.admins = snap.admins
  BY <1>6, MergedStore
<1>8. ASSUME r.scope = "admin"
      PROVE  \E h \in snap.admins \cap unrevoked : Vouches(hs, h, r.node, now)
  <2>1. PICK i \in V : hs.certs[i].issuer \in snap.admins
    BY <1>0, <1>7, <1>8, VerdictCases
  <2> QED
    BY <2>1, <1>5
<1>9. ASSUME r.scope = "user"
      PROVE  /\ r.owners = {hs.certs[i].issuer : i \in V}
             /\ \A i \in V : hs.certs[i].issuer \notin snap.admins
  BY <1>0, <1>7, <1>9, VerdictCases
<1>10. ASSUME r.scope = "user", NEW i \in V
       PROVE  \E a \in Anchors(snap, hs, hs.certs[i].issuer) \cap snap.admins :
                 a \notin snap.revAdmins
  <2> DEFINE h == hs.certs[i].issuer
  <2>1. h \in CA /\ ts.users[h] \in snap.admins \ snap.revAdmins
    BY <1>9, <1>10, VerifiedIsSound
  <2>2. CASE ~IsUser(snap, h) /\ EmbeddedUserAt(hs.authorities, h) # {}
    <3> DEFINE j == FirstEmbeddedUser(hs.authorities, h)
    <3>1. /\ j \in EmbeddedUserAt(hs.authorities, h)
          /\ hs.authorities[j] \in EmbeddedCA
          /\ AnchorVerifies(snap, hs.authorities[j])
      BY <1>0, <1>6, <2>1, <2>2, EmbeddedAnchored DEF Accepts
    <3>2. ts.users[h] = hs.authorities[j].anchor
      BY <1>6, <2>1, <2>2, MergedStore
    <3>3. hs.authorities[j].anchor \in Anchors(snap, hs, h)
      BY <3>1 DEF Anchors, AnchorVerifies, EmbeddedCA
    <3> QED
      BY <2>1, <3>2, <3>3
  <2>3. CASE ~(~IsUser(snap, h) /\ EmbeddedUserAt(hs.authorities, h) # {})
    <3>1. ts.users[h] = snap.users[h]
      BY <1>6, <2>1, <2>3, MergedStore
    <3> QED
      BY <2>1, <3>1 DEF Anchors
  <2> QED
    BY <2>2, <2>3
<1>11. ASSUME r.scope = "user"
       PROVE  /\ r.owners # {}
              /\ \A h \in r.owners :
                    /\ h \in unrevoked
                    /\ Vouches(hs, h, r.node, now)
                    /\ \E a \in Anchors(snap, hs, h) \cap snap.admins : a \notin snap.revAdmins
  BY <1>1, <1>5, <1>9, <1>10, <1>11
<1> QED
  BY <1>3, <1>4, <1>8, <1>11

-----------------------------------------------------------------------------
(* Calls that run concurrently with updates of the store *)

(* What a call knows of the store stays true while others change it: what    *)
(* was revoked when it began is revoked now, and in the copy it has made;    *)
(* and a verdict that admits is what the checks say of that copy.            *)
CallSound(c) ==
    /\ c.revokedBefore.cas \subseteq revokedAdminCAs \cup revokedUserCAs
    /\ c.revokedBefore.admins \subseteq revokedAdminCAs
    /\ c.revokedBefore.nodes \subseteq revokedNodes
    /\ c.pc \in {"snapped", "done"} =>
          /\ c.revokedBefore.cas \subseteq c.snap.revAdmins \cup c.snap.revUsers
          /\ c.revokedBefore.admins \subseteq c.snap.revAdmins
          /\ c.revokedBefore.nodes \subseteq c.snap.revNodes
    /\ c.result = IF c.pc = "done" THEN VerifyPeerCert(c.snap, c.hs, c.now) ELSE Rejected

CallsSound == \A v \in Verifier : CallSound(calls[v])

(* A call that has not begun is of its type and knows nothing. *)
LEMMA IdleCall ==
    /\ Idle \in Call
    /\ Idle.pc = "idle" /\ Idle.result = Rejected
    /\ Idle.revokedBefore = [cas |-> {}, admins |-> {}, nodes |-> {}]
<1>1. NoSnapshot \in TrustSnapshot
  BY DEF NoSnapshot, TrustSnapshot
<1>2. Rejected \in AuthContext
  BY DEF Rejected, AuthContext
<1>3. (CHOOSE hs \in Handshake : TRUE) \in Handshake
  BY SomeHandshakeAssumption
<1>4. 0 \in 0..MaxClock
  BY ClockAssumption
<1>5. [cas |-> {}, admins |-> {}, nodes |-> {}] \in Revocations
  BY DEF Revocations
<1> QED
  BY <1>1, <1>2, <1>3, <1>4, <1>5 DEF Idle, Call

(* No update of the store takes anything off a revocation list. *)
LEMMA ListsGrow ==
    ASSUME StoreUpdate
    PROVE  /\ revokedAdminCAs \subseteq revokedAdminCAs'
           /\ revokedUserCAs \subseteq revokedUserCAs'
           /\ revokedNodes \subseteq revokedNodes'
<1>1. ASSUME NEW h \in CA, \/ AddAdminPubKey(h) \/ RemoveAdminPubKey(h) \/ RevokeAdminCA(h)
                           \/ RemoveUserPubKey(h) \/ RevokeUserCA(h)
      PROVE  /\ revokedAdminCAs \subseteq revokedAdminCAs'
             /\ revokedUserCAs \subseteq revokedUserCAs'
             /\ revokedNodes \subseteq revokedNodes'
  BY <1>1 DEF AddAdminPubKey, RemoveAdminPubKey, RevokeAdminCA, RemoveUserPubKey, RevokeUserCA,
              WithEntry
<1>2. ASSUME NEW r \in AnchorRequest, AddUserPubKey(r)
      PROVE  UNCHANGED <<revokedAdminCAs, revokedUserCAs, revokedNodes>>
  BY <1>2 DEF AddUserPubKey
<1>3. ASSUME NEW n \in Node, RevokeNode(n)
      PROVE  /\ revokedNodes \subseteq revokedNodes'
             /\ UNCHANGED <<revokedAdminCAs, revokedUserCAs>>
  BY <1>3 DEF RevokeNode
<1> QED
  BY <1>1, <1>2, <1>3 DEF StoreUpdate

(* The copy of a well-typed store is a snapshot. *)
LEMMA SnapType == TypeOK => SnapTrustStore \in TrustSnapshot
BY DEF TypeOK, SnapTrustStore, TrustSnapshot

(* One step of any goroutine keeps the types. *)
LEMMA ATypeStep == ATypeOK /\ [ANext]_vars => ATypeOK'
<1> SUFFICES ASSUME ATypeOK, [ANext]_vars PROVE ATypeOK'
  OBVIOUS
<1>1. TypeOK'
  <2>1. [Next]_storeVars
    BY DEF ANext, vars, Next, VerifyBegin, VerifySnap, VerifyDecide, Tick
  <2> QED
    BY <2>1, TypeStep DEF ATypeOK
<1>2. ASSUME NEW v \in Verifier, NEW hs \in Handshake, VerifyBegin(v, hs)
      PROVE  clock' \in 0..MaxClock /\ calls' \in [Verifier -> Call]
  <2> DEFINE before == [cas |-> revokedAdminCAs \cup revokedUserCAs,
                        admins |-> revokedAdminCAs, nodes |-> revokedNodes]
             c == [Idle EXCEPT !.pc = "begun", !.hs = hs, !.now = clock, !.revokedBefore = before]
  <2>1. before \in Revocations
    BY DEF ATypeOK, TypeOK, Revocations
  <2>2. c \in Call
    BY <2>1, IdleCall DEF Call, ATypeOK
  <2> QED
    BY <1>2, <2>2 DEF VerifyBegin, ATypeOK
<1>3. ASSUME NEW v \in Verifier, VerifySnap(v)
      PROVE  clock' \in 0..MaxClock /\ calls' \in [Verifier -> Call]
  <2>1. [calls[v] EXCEPT !.pc = "snapped", !.snap = SnapTrustStore] \in Call
    BY SnapType DEF Call, ATypeOK
  <2> QED
    BY <1>3, <2>1 DEF VerifySnap, ATypeOK
<1>4. ASSUME NEW v \in Verifier, VerifyDecide(v)
      PROVE  clock' \in 0..MaxClock /\ calls' \in [Verifier -> Call]
  <2>1. /\ calls[v] \in Call
        /\ calls[v].snap \in TrustSnapshot /\ calls[v].hs \in PeerHandshake /\ calls[v].now \in Int
    BY HandshakeAssumption DEF Call, ATypeOK
  <2>2. VerifyPeerCert(calls[v].snap, calls[v].hs, calls[v].now) \in AuthContext
    BY <2>1, VerdictType
  <2>3. [calls[v] EXCEPT !.pc = "done",
            !.result = VerifyPeerCert(calls[v].snap, calls[v].hs, calls[v].now)] \in Call
    BY <2>1, <2>2 DEF Call
  <2> QED
    BY <1>4, <2>3 DEF VerifyDecide, ATypeOK
<1>5. ASSUME Tick PROVE clock' \in 0..MaxClock /\ calls' \in [Verifier -> Call]
  BY <1>5, ClockAssumption DEF Tick, ATypeOK
<1>6. ASSUME UNCHANGED <<clock, calls>>
      PROVE  clock' \in 0..MaxClock /\ calls' \in [Verifier -> Call]
  BY <1>6 DEF ATypeOK
<1> QED
  BY <1>1, <1>2, <1>3, <1>4, <1>5, <1>6 DEF ANext, vars, ATypeOK

(* Every variable keeps its type, whatever the goroutines do. *)
THEOREM AdmissionTypeCorrect == ASpec => []ATypeOK
<1>1. AInit => ATypeOK
  <2> SUFFICES ASSUME AInit PROVE ATypeOK
    OBVIOUS
  <2>1. TypeOK
    BY DEF AInit, Init, TypeOK, Event
  <2>2. clock \in 0..MaxClock /\ calls \in [Verifier -> Call]
    BY IdleCall, ClockAssumption DEF AInit
  <2> QED
    BY <2>1, <2>2 DEF ATypeOK
<1> QED
  BY <1>1, ATypeStep, PTL DEF ASpec

(* One step of any goroutine keeps what the calls know. *)
LEMMA CallsStep == ATypeOK /\ CallsSound /\ [ANext]_vars => CallsSound'
<1> SUFFICES ASSUME ATypeOK, CallsSound, [ANext]_vars, NEW w \in Verifier
             PROVE  CallSound(calls[w])'
  BY DEF CallsSound
<1>0. calls \in [Verifier -> Call] /\ calls[w] \in Call /\ CallSound(calls[w])
  BY DEF ATypeOK, CallsSound
<1>1. ASSUME NEW v \in Verifier, NEW hs \in Handshake, VerifyBegin(v, hs)
      PROVE  CallSound(calls[w])'
  <2>1. UNCHANGED <<revokedAdminCAs, revokedUserCAs, revokedNodes>>
    BY <1>1 DEF VerifyBegin, storeVars, store
  <2>2. CASE v # w
    BY <1>0, <1>1, <2>1, <2>2 DEF VerifyBegin, CallSound
  <2>3. CASE v = w
    <3>1. /\ calls'[w].pc = "begun" /\ calls'[w].result = Rejected
          /\ calls'[w].revokedBefore = [cas |-> revokedAdminCAs \cup revokedUserCAs,
                                        admins |-> revokedAdminCAs, nodes |-> revokedNodes]
      BY <1>0, <1>1, <2>3, IdleCall DEF VerifyBegin, Call
    <3> QED
      BY <2>1, <3>1 DEF CallSound
  <2> QED
    BY <2>2, <2>3
<1>2. ASSUME NEW v \in Verifier, VerifySnap(v) PROVE CallSound(calls[w])'
  <2>1. UNCHANGED <<revokedAdminCAs, revokedUserCAs, revokedNodes>>
    BY <1>2 DEF VerifySnap, storeVars, store
  <2>2. CASE v # w
    BY <1>0, <1>2, <2>1, <2>2 DEF VerifySnap, CallSound
  <2>3. CASE v = w
    <3>1. /\ calls'[w].pc = "snapped" /\ calls'[w].result = calls[w].result
          /\ calls'[w].revokedBefore = calls[w].revokedBefore
          /\ calls'[w].snap = SnapTrustStore /\ calls[w].pc = "begun"
      BY <1>0, <1>2, <2>3 DEF VerifySnap, Call
    <3>2. /\ SnapTrustStore.revAdmins = revokedAdminCAs
          /\ SnapTrustStore.revUsers = revokedUserCAs /\ SnapTrustStore.revNodes = revokedNodes
      BY DEF SnapTrustStore
    <3> QED
      BY <1>0, <2>1, <3>1, <3>2 DEF CallSound
  <2> QED
    BY <2>2, <2>3
<1>3. ASSUME NEW v \in Verifier, VerifyDecide(v) PROVE CallSound(calls[w])'
  <2>1. UNCHANGED <<revokedAdminCAs, revokedUserCAs, revokedNodes>>
    BY <1>3 DEF VerifyDecide, storeVars, store
  <2>2. CASE v # w
    BY <1>0, <1>3, <2>1, <2>2 DEF VerifyDecide, CallSound
  <2>3. CASE v = w
    <3>1. /\ calls'[w].pc = "done" /\ calls[w].pc = "snapped"
          /\ calls'[w].result = VerifyPeerCert(calls[w].snap, calls[w].hs, calls[w].now)
          /\ calls'[w].revokedBefore = calls[w].revokedBefore
          /\ calls'[w].snap = calls[w].snap /\ calls'[w].hs = calls[w].hs
          /\ calls'[w].now = calls[w].now
      BY <1>0, <1>3, <2>3 DEF VerifyDecide, Call
    <3> QED
      BY <1>0, <2>1, <3>1 DEF CallSound
  <2> QED
    BY <2>2, <2>3
<1>4. ASSUME StoreUpdate, UNCHANGED calls PROVE CallSound(calls[w])'
  BY <1>0, <1>4, ListsGrow DEF CallSound
<1>5. ASSUME UNCHANGED <<storeVars, calls>> PROVE CallSound(calls[w])'
  BY <1>0, <1>5 DEF CallSound, storeVars, store
<1> QED
  BY <1>1, <1>2, <1>3, <1>4, <1>5 DEF ANext, vars, Tick

(* A peer that VerifyPeerCert admits owns the delegation's node key and is   *)
(* vouched for by CAs none of which, and none of whose anchors, was revoked  *)
(* when the call began, whatever changes the store meanwhile.                *)
THEOREM AdmissionIsSound == ASpec => []AdmissionSound
<1>1. AInit => CallsSound
  BY IdleCall DEF AInit, CallsSound, CallSound
<1>2. ATypeOK /\ CallsSound => AdmissionSound
  <2> SUFFICES ASSUME ATypeOK, CallsSound, NEW v \in Verifier, calls[v].result.ok
               PROVE  LET c == calls[v]
                          r == c.result
                          unrevoked == CA \ c.revokedBefore.cas
                      IN
                      /\ r.node = c.hs.delegationSig
                      /\ r.node \notin c.revokedBefore.nodes
                      /\ r.scope = "admin" =>
                            \E h \in c.snap.admins \cap unrevoked : Vouches(c.hs, h, r.node, c.now)
                      /\ r.scope = "user" =>
                            /\ r.owners # {}
                            /\ \A h \in r.owners :
                                  /\ h \in unrevoked
                                  /\ Vouches(c.hs, h, r.node, c.now)
                                  /\ \E a \in Anchors(c.snap, c.hs, h) \cap c.snap.admins :
                                         a \notin c.revokedBefore.admins
    BY DEF AdmissionSound
  <2> DEFINE c == calls[v]
  <2>1. c \in Call /\ CallSound(c)
    BY DEF ATypeOK, CallsSound
  <2>2. c.snap \in TrustSnapshot /\ c.hs \in PeerHandshake /\ c.now \in Int
    BY <2>1, HandshakeAssumption DEF Call
  <2>3. c.pc = "done" /\ c.result = VerifyPeerCert(c.snap, c.hs, c.now)
    BY <2>1 DEF CallSound, Rejected
  <2>4. /\ c.revokedBefore.cas \subseteq c.snap.revAdmins \cup c.snap.revUsers
        /\ c.revokedBefore.admins \subseteq c.snap.revAdmins
        /\ c.revokedBefore.nodes \subseteq c.snap.revNodes
    BY <2>1, <2>3 DEF CallSound
  <2> HIDE DEF c
  <2> QED
    BY <2>2, <2>3, <2>4, VerdictSound DEF c
<1> QED
  BY <1>1, <1>2, CallsStep, AdmissionTypeCorrect, PTL DEF ASpec

-----------------------------------------------------------------------------
(* Revoking never widens a verdict *)

(* A cert that counts after revocations counted before them. *)
LEMMA CertsNarrow ==
    ASSUME NEW t1 \in TrustSnapshot, NEW t2 \in TrustSnapshot, RevokedSince(t1, t2),
           NEW hs \in PeerHandshake, NEW now \in Int
    PROVE  VerifiedCerts(WithEmbeddedAuthorities(t2, hs.authorities), hs, now)
              \subseteq VerifiedCerts(WithEmbeddedAuthorities(t1, hs.authorities), hs, now)
<1> DEFINE m1 == WithEmbeddedAuthorities(t1, hs.authorities)
           m2 == WithEmbeddedAuthorities(t2, hs.authorities)
<1> SUFFICES ASSUME NEW i \in VerifiedCerts(m2, hs, now)
             PROVE  i \in VerifiedCerts(m1, hs, now)
  OBVIOUS
<1> DEFINE c == hs.certs[i]
           h == hs.certs[i].issuer
<1>1. /\ i \in DOMAIN hs.certs /\ h \in CA \ (t2.revAdmins \cup t2.revUsers)
      /\ c.node \in Node \ t2.revNodes
      /\ h \in t2.admins \/ m2.users[h] # NoCA
      /\ m2.users[h] # NoCA => m2.users[h] \in t2.admins \ t2.revAdmins
  BY VerifiedIsSound
<1>2. hs.authorities \in Seq(EmbeddedCA)
  BY DEF PeerHandshake
<1>3. t2.users[h] = t1.users[h]
  BY <1>1 DEF RevokedSince
<1>4. m1.users[h] = m2.users[h]
  BY <1>1, <1>2, <1>3, MergedStore DEF IsUser
<1>5. /\ h \notin t1.revAdmins \cup t1.revUsers /\ c.node \notin t1.revNodes
      /\ h \in t1.admins \/ m1.users[h] # NoCA
      /\ m1.users[h] # NoCA => m1.users[h] \in t1.admins \ t1.revAdmins
  BY <1>1, <1>4 DEF RevokedSince
<1>6. /\ m1.admins = t1.admins /\ m1.revAdmins = t1.revAdmins
      /\ m1.revUsers = t1.revUsers /\ m1.revNodes = t1.revNodes
  BY <1>2, MergedStore
<1>7. hs.caSigs[i] = h /\ c.validFrom <= now /\ now <= c.validUntil
  BY DEF VerifiedCerts, IsCertValid
<1>8. IsCertValid(m1, c, now)
  BY <1>5, <1>6, <1>7 DEF IsCertValid, HasIssuer, IsUser, IsCARevoked, IsUserCAAnchorValid
<1> QED
  BY <1>1, <1>7, <1>8 DEF VerifiedCerts

(* Embedded CAs that pass after revocations passed before them. *)
LEMMA AuthoritiesNarrow ==
    ASSUME NEW t1 \in TrustSnapshot, NEW t2 \in TrustSnapshot, RevokedSince(t1, t2),
           NEW auths \in Seq(EmbeddedCA), AuthoritiesOK(t2, auths)
    PROVE  AuthoritiesOK(t1, auths)
<1> SUFFICES ASSUME NEW j \in DOMAIN auths
             PROVE  /\ auths[j].type = "admin-ca" => AddEmbeddedAdmin(t1, auths[j])
                    /\ auths[j].type = "user-ca" => AddEmbeddedUser(t1, auths, j)
  BY DEF AuthoritiesOK
<1>1. auths[j].type = "admin-ca" => AddEmbeddedAdmin(t1, auths[j])
  BY DEF AuthoritiesOK, AddEmbeddedAdmin, RevokedSince
<1>2. ASSUME auths[j].type = "user-ca" PROVE AddEmbeddedUser(t1, auths, j)
  <2>1. AddEmbeddedUser(t2, auths, j)
    BY <1>2 DEF AuthoritiesOK
  <2>2. auths[j].ca \in CA
    <3>1. auths[j] \in EmbeddedCA
      OBVIOUS
    <3> QED
      BY <3>1 DEF EmbeddedCA
  <2>3. auths[j].ca \notin t2.revUsers
    BY <2>1 DEF AddEmbeddedUser
  <2>4. auths[j].ca \notin t1.revUsers /\ t2.users[auths[j].ca] = t1.users[auths[j].ca]
    BY <2>2, <2>3 DEF RevokedSince
  <2>5. AnchorVerifies(t2, auths[j]) => AnchorVerifies(t1, auths[j])
    BY DEF AnchorVerifies, RevokedSince
  <2> QED
    BY <2>1, <2>4, <2>5 DEF AddEmbeddedUser, IsUser
<1> QED
  BY <1>1, <1>2

(* Of a handshake whose certificates all name one node, every nonempty set   *)
(* of certificates makes the same node the peer.                             *)
LEMMA SameChainNode ==
    ASSUME NEW hs, OneNode(hs), NEW now, NEW m,
           NEW i \in VerifiedCerts(m, hs, now)
    PROVE  ChainNode(m, hs, now) = hs.certs[i].node
<1>1. VerifiedCerts(m, hs, now) \subseteq DOMAIN hs.certs
  BY DEF VerifiedCerts
<1>2. (CHOOSE k \in VerifiedCerts(m, hs, now) : TRUE) \in DOMAIN hs.certs
  BY <1>1
<1> QED
  BY <1>1, <1>2 DEF ChainNode, OneNode

(* The verdict after revocations grants nothing that it did not grant.       *)
LEMMA VerdictNarrows ==
    ASSUME NEW t1 \in TrustSnapshot, NEW t2 \in TrustSnapshot, RevokedSince(t1, t2),
           NEW hs \in PeerHandshake, OneNode(hs), NEW now \in Int
    PROVE  Narrower(VerifyPeerCert(t2, hs, now), VerifyPeerCert(t1, hs, now))
<1> DEFINE m1 == WithEmbeddedAuthorities(t1, hs.authorities)
           m2 == WithEmbeddedAuthorities(t2, hs.authorities)
           V1 == VerifiedCerts(m1, hs, now)
           V2 == VerifiedCerts(m2, hs, now)
           a == VerifyPeerCert(t1, hs, now)
           b == VerifyPeerCert(t2, hs, now)
<1> SUFFICES ASSUME b.ok
             PROVE  /\ a.ok
                    /\ b.node = a.node
                    /\ b.scope = "admin" => a.scope = "admin"
                    /\ a.scope = "user" => b.owners \subseteq a.owners
  BY DEF Narrower
<1>1. Accepts(t2, hs, now) /\ V2 # {}
  BY VerdictCases
<1>2. PICK i \in V2 : TRUE
  BY <1>1
<1>3. V2 \subseteq V1
  BY CertsNarrow
<1>4. /\ ChainNode(m2, hs, now) = hs.certs[i].node
      /\ ChainNode(m1, hs, now) = hs.certs[i].node
  BY <1>2, <1>3, SameChainNode
<1>5. hs.authorities \in Seq(EmbeddedCA)
  BY DEF PeerHandshake
<1>6. Accepts(t1, hs, now)
  <2>1. AuthoritiesOK(t1, hs.authorities)
    BY <1>1, <1>5, AuthoritiesNarrow DEF Accepts
  <2>2. VerifyAuthority(m1, hs, now)
    <3>1. V1 # {} /\ V1 \subseteq DOMAIN hs.certs
      BY <1>2, <1>3 DEF VerifiedCerts
    <3> QED
      BY <3>1 DEF VerifyAuthority, OneNode
  <2>3. VerifyDelegation(hs, ChainNode(m1, hs, now))
    BY <1>1, <1>4 DEF Accepts
  <2> QED
    BY <1>1, <2>1, <2>2, <2>3 DEF Accepts
<1>7. m1.admins = t1.admins /\ m2.admins = t2.admins /\ t2.admins \subseteq t1.admins
  BY <1>5, MergedStore DEF RevokedSince
<1> DEFINE admin1 == \E k \in V1 : hs.certs[k].issuer \in t1.admins
           admin2 == \E k \in V2 : hs.certs[k].issuer \in t2.admins
<1>8. admin2 => admin1
  BY <1>3, <1>7
<1>9. /\ a.ok /\ a.node = ChainNode(m1, hs, now)
      /\ admin1 => a.scope = "admin"
      /\ ~admin1 => a.owners = {hs.certs[k].issuer : k \in V1}
  BY <1>6, VerdictGrants
<1>10. /\ b.node = ChainNode(m2, hs, now)
       /\ ~admin2 => b.scope = "user" /\ b.owners = {hs.certs[k].issuer : k \in V2}
  BY <1>1, VerdictGrants
<1>11. {hs.certs[k].issuer : k \in V2} \subseteq {hs.certs[k].issuer : k \in V1}
  BY <1>3
<1> QED
  BY <1>4, <1>8, <1>9, <1>10, <1>11

(* A step that only revokes never widens what VerifyPeerCert grants to a     *)
(* handshake whose certificates all name one node.                           *)
THEOREM RevokingNarrows == RSpec => RevocationNarrows
<1> DEFINE Narrows == store' # store /\ RevokedSince(SnapTrustStore, SnapTrustStore') =>
                \A hs \in Handshake, now \in 0..MaxClock :
                    OneNode(hs) => Narrower(VerifyPeerCert(SnapTrustStore', hs, now),
                                            VerifyPeerCert(SnapTrustStore, hs, now))
<1>1. TypeOK /\ TypeOK' => Narrows
  <2> SUFFICES ASSUME TypeOK, TypeOK', RevokedSince(SnapTrustStore, SnapTrustStore'),
                      NEW hs \in Handshake, NEW now \in 0..MaxClock, OneNode(hs)
               PROVE  Narrower(VerifyPeerCert(SnapTrustStore', hs, now),
                               VerifyPeerCert(SnapTrustStore, hs, now))
    OBVIOUS
  <2>1. SnapTrustStore \in TrustSnapshot
    BY SnapType
  <2>2. SnapTrustStore' \in TrustSnapshot
    BY DEF TypeOK, SnapTrustStore, TrustSnapshot
  <2>3. hs \in PeerHandshake /\ now \in Int
    BY HandshakeAssumption
  <2> QED
    BY <2>1, <2>2, <2>3, VerdictNarrows
<1>2. TypeOK /\ TypeOK' => [Narrows]_store
  BY <1>1
<1> QED
  BY <1>2, RemovalIsStore, TypeCorrect, PTL DEF RevocationNarrows

-----------------------------------------------------------------------------
(* An honest peer is admitted *)

(* CA h stands for the peer: neither it nor its anchor has been revoked and  *)
(* it vouches for the node key of the delegation.                            *)
Stands(hs, h, now) == /\ h \notin revokedAdminCAs \cup revokedUserCAs
                      /\ userCAs[h] # NoCA => userCAs[h] \in adminCAs
                      /\ Vouches(hs, h, hs.delegationSig, now)

(* The certificates that count are those of the trusted CAs that stand for   *)
(* the peer, when it brings no CAs of its own.                               *)
LEMMA CountedStand ==
    ASSUME TypeOK, RevokedNotTrusted, NEW hs \in PeerHandshake, NEW now \in Int,
           hs.authorities = <<>>, hs.delegationSig \notin revokedNodes
    PROVE  LET V == VerifiedCerts(WithEmbeddedAuthorities(SnapTrustStore, hs.authorities), hs, now)
           IN
           /\ \A i \in V : hs.certs[i].node = hs.delegationSig =>
                 /\ hs.certs[i].issuer \in CA
                 /\ hs.certs[i].issuer \in adminCAs \/ userCAs[hs.certs[i].issuer] # NoCA
                 /\ Stands(hs, hs.certs[i].issuer, now)
           /\ \A h \in CA : Stands(hs, h, now) /\ (h \in adminCAs \/ userCAs[h] # NoCA) =>
                 \E i \in V : hs.certs[i].issuer = h /\ hs.certs[i].node = hs.delegationSig
<1> DEFINE ts == WithEmbeddedAuthorities(SnapTrustStore, hs.authorities)
           V == VerifiedCerts(ts, hs, now)
<1>1. SnapTrustStore \in TrustSnapshot /\ hs.authorities \in Seq(EmbeddedCA)
  BY SnapType DEF PeerHandshake
<1>2. \A h : EmbeddedUserAt(hs.authorities, h) = {}
  BY DEF EmbeddedUserAt
<1>3. /\ SnapTrustStore.admins = adminCAs /\ SnapTrustStore.users = userCAs
      /\ SnapTrustStore.revAdmins = revokedAdminCAs /\ SnapTrustStore.revUsers = revokedUserCAs
      /\ SnapTrustStore.revNodes = revokedNodes
  BY DEF SnapTrustStore
<1>4. /\ ts.admins = adminCAs /\ ts.revAdmins = revokedAdminCAs
      /\ ts.revUsers = revokedUserCAs /\ ts.revNodes = revokedNodes
      /\ \A h \in CA : ts.users[h] = userCAs[h]
  BY <1>1, <1>2, <1>3, MergedStore
<1>5. ASSUME NEW i \in V, hs.certs[i].node = hs.delegationSig
      PROVE  /\ hs.certs[i].issuer \in CA
             /\ hs.certs[i].issuer \in adminCAs \/ userCAs[hs.certs[i].issuer] # NoCA
             /\ Stands(hs, hs.certs[i].issuer, now)
  <2> DEFINE h == hs.certs[i].issuer
  <2>1. /\ h \in CA \ (revokedAdminCAs \cup revokedUserCAs)
        /\ Vouches(hs, h, hs.certs[i].node, now)
        /\ h \in adminCAs \/ ts.users[h] # NoCA
        /\ ts.users[h] # NoCA => ts.users[h] \in adminCAs \ revokedAdminCAs
    BY <1>1, <1>3, VerifiedIsSound
  <2> QED
    BY <1>4, <1>5, <2>1 DEF Stands
<1>6. ASSUME NEW h \in CA, Stands(hs, h, now), h \in adminCAs \/ userCAs[h] # NoCA
      PROVE  \E i \in V : hs.certs[i].issuer = h /\ hs.certs[i].node = hs.delegationSig
  <2>1. PICK i \in DOMAIN hs.certs :
           /\ hs.certs[i].issuer = h /\ hs.certs[i].node = hs.delegationSig /\ hs.caSigs[i] = h
           /\ hs.certs[i].validFrom <= now /\ now <= hs.certs[i].validUntil
    BY <1>6 DEF Stands, Vouches
  <2>2. ts.users[h] # NoCA => ts.users[h] \in adminCAs /\ ts.users[h] \notin revokedAdminCAs
    BY <1>4, <1>6 DEF Stands, RevokedNotTrusted
  <2>3. h \notin revokedAdminCAs \cup revokedUserCAs
    BY <1>6 DEF Stands
  <2>4. IsCertValid(ts, hs.certs[i], now)
    BY <1>4, <1>6, <2>1, <2>2, <2>3
    DEF IsCertValid, HasIssuer, IsUser, IsCARevoked, IsUserCAAnchorValid
  <2> QED
    BY <2>1, <2>4 DEF VerifiedCerts
<1> QED
  BY <1>5, <1>6

(* An honest peer passes all checks exactly when a trusted CA stands for it. *)
LEMMA HonestAccepted ==
    ASSUME TypeOK, RevokedNotTrusted, NEW hs \in PeerHandshake, NEW now \in Int,
           hs.authorities = <<>>, hs.delegationSig \notin revokedNodes, OneNode(hs),
           ValidateHandshake(hs), VerifyDelegation(hs, hs.delegationSig), VerifyFreshness(hs, now)
    PROVE  LET ts == WithEmbeddedAuthorities(SnapTrustStore, hs.authorities)
               V == VerifiedCerts(ts, hs, now)
           IN
           /\ Accepts(SnapTrustStore, hs, now) =>
                 /\ \A i \in V : hs.certs[i].node = hs.delegationSig
                 /\ V # {}
                 /\ ChainNode(ts, hs, now) = hs.delegationSig
           /\ (\E i \in V : hs.certs[i].node = hs.delegationSig) => Accepts(SnapTrustStore, hs, now)
<1> DEFINE ts == WithEmbeddedAuthorities(SnapTrustStore, hs.authorities)
           V == VerifiedCerts(ts, hs, now)
<1>1. ASSUME Accepts(SnapTrustStore, hs, now)
      PROVE  /\ \A i \in V : hs.certs[i].node = hs.delegationSig
             /\ V # {}
             /\ ChainNode(ts, hs, now) = hs.delegationSig
  <2>1. V # {}
    BY <1>1, VerdictCases
  <2>2. ChainNode(ts, hs, now) = hs.delegationSig
    BY <1>1 DEF Accepts, VerifyDelegation
  <2>3. \A i \in V : ChainNode(ts, hs, now) = hs.certs[i].node
    BY SameChainNode
  <2> QED
    BY <2>1, <2>2, <2>3
<1>2. ASSUME NEW i \in V, hs.certs[i].node = hs.delegationSig
      PROVE  Accepts(SnapTrustStore, hs, now)
  <2>1. ChainNode(ts, hs, now) = hs.delegationSig
    BY <1>2, SameChainNode
  <2>2. AuthoritiesOK(SnapTrustStore, hs.authorities)
    BY DEF AuthoritiesOK
  <2>3. VerifyAuthority(ts, hs, now)
    <3>1. V # {} /\ V \subseteq DOMAIN hs.certs
      BY <1>2 DEF VerifiedCerts
    <3> QED
      BY <3>1 DEF VerifyAuthority, OneNode
  <2> QED
    BY <2>1, <2>2, <2>3 DEF Accepts
<1> QED
  BY <1>1, <1>2

(* A peer that owns its node key, proves it for this TLS connection and      *)
(* leans on nothing but the store is admitted as soon as one of its          *)
(* certificates stands, as admin exactly when an admin CA's stands.          *)
THEOREM HonestAdmitted == RSpec => []HonestPeerAdmitted
<1>1. TypeOK /\ RevokedNotTrusted => HonestPeerAdmitted
  <2> SUFFICES ASSUME TypeOK, RevokedNotTrusted, NEW hs \in Handshake, NEW now \in 0..MaxClock,
                      ValidateHandshake(hs), OneNode(hs), hs.authorities = <<>>,
                      hs.delegationSig \notin revokedNodes,
                      VerifyDelegation(hs, hs.delegationSig), VerifyFreshness(hs, now)
               PROVE  LET r == VerifyPeerCert(SnapTrustStore, hs, now)
                          admins == {h \in adminCAs : Stands(hs, h, now)}
                          users == {h \in CA \ adminCAs : userCAs[h] # NoCA /\ Stands(hs, h, now)}
                      IN /\ r.ok <=> admins \cup users # {}
                         /\ r.ok => /\ r.node = hs.delegationSig
                                    /\ r.scope = "admin" <=> admins # {}
                                    /\ r.owners = IF admins = {} THEN users ELSE {}
    BY DEF HonestPeerAdmitted, Stands
  <2> DEFINE r == VerifyPeerCert(SnapTrustStore, hs, now)
             V == VerifiedCerts(WithEmbeddedAuthorities(SnapTrustStore, hs.authorities), hs, now)
             admins == {h \in adminCAs : Stands(hs, h, now)}
             users == {h \in CA \ adminCAs : userCAs[h] # NoCA /\ Stands(hs, h, now)}
             issuers == {hs.certs[i].issuer : i \in V}
             accepts == Accepts(SnapTrustStore, hs, now)
  <2>1. hs \in PeerHandshake /\ now \in Int /\ adminCAs \subseteq CA
    BY HandshakeAssumption DEF TypeOK
  <2>2. SnapTrustStore \in TrustSnapshot /\ SnapTrustStore.admins = adminCAs
    BY SnapType DEF SnapTrustStore
  <2>3. /\ accepts => /\ \A i \in V : hs.certs[i].node = hs.delegationSig
                      /\ V # {}
                      /\ r.node = hs.delegationSig
        /\ (\E i \in V : hs.certs[i].node = hs.delegationSig) => accepts
    BY <2>1, <2>2, HonestAccepted, VerdictGrants
  <2>4. /\ \A i \in V : hs.certs[i].node = hs.delegationSig =>
              /\ hs.certs[i].issuer \in CA
              /\ hs.certs[i].issuer \in adminCAs \/ userCAs[hs.certs[i].issuer] # NoCA
              /\ Stands(hs, hs.certs[i].issuer, now)
        /\ \A h \in CA : Stands(hs, h, now) /\ (h \in adminCAs \/ userCAs[h] # NoCA) =>
              \E i \in V : hs.certs[i].issuer = h /\ hs.certs[i].node = hs.delegationSig
    BY <2>1, CountedStand
  <2>5. r.ok <=> accepts
    BY VerdictCases
  <2>6. /\ accepts /\ (\E i \in V : hs.certs[i].issuer \in adminCAs)
              => r.scope = "admin" /\ r.owners = {}
        /\ accepts /\ ~(\E i \in V : hs.certs[i].issuer \in adminCAs)
              => r.scope = "user" /\ r.owners = issuers
    BY <2>1, <2>2, VerdictGrants
  <2> HIDE DEF V, r, accepts
  <2>7. accepts => issuers = admins \cup users
    BY <2>1, <2>3, <2>4
  <2>8. accepts => issuers # {}
    BY <2>3
  <2>9. admins \cup users # {} => accepts
    BY <2>1, <2>3, <2>4
  <2>10. accepts => ((\E i \in V : hs.certs[i].issuer \in adminCAs) <=> admins # {})
    BY <2>1, <2>3, <2>4
  <2>11. accepts /\ admins = {} => issuers = users
    BY <2>7
  <2> QED
    BY <2>3, <2>5, <2>6, <2>7, <2>8, <2>9, <2>10, <2>11 DEF r
<1> QED
  BY <1>1, RemovalIsStore, TypeCorrect, RevocationWins, PTL
=============================================================================
