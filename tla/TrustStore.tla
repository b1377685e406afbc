----------------------------- MODULE TrustStore -----------------------------
(***************************************************************************)
(* internal/auth: the trust store that carrierAuth guards with one RWMutex *)
(* (trusted CAs, revocation lists, the revocation hook).  An exported      *)
(* method is one action, since it holds the lock from start to end; what   *)
(* a Revoke method does after it released the lock, the call of the hook,  *)
(* is an action of its own.                                                *)
(***************************************************************************)
EXTENDS PeerVerify

CONSTANTS
    AnchorRequest,        \* the arguments of AddUserPubKey calls
    MaxRevocationEntries  \* constants.go

ASSUME RequestAssumption == AnchorRequest \subseteq [ca : CA, anchor : CA, anchorSig : CA \cup {NoCA}]
ASSUME RevocationAssumption == MaxRevocationEntries \in Nat
ASSUME FiniteAssumption == IsFiniteSet(CA) /\ IsFiniteSet(Node)

VARIABLES
    adminCAs,        \* trusted admin CAs
    userCAs,         \* user CA -> anchoring admin CA, NoCA when absent
    revokedAdminCAs,
    revokedUserCAs,
    revokedNodes,
    onRevoke,        \* a revocation hook is installed
    hookCalls        \* revocation events whose hook call has not run yet

store == <<adminCAs, userCAs, revokedAdminCAs, revokedUserCAs, revokedNodes>>
hookVars == <<onRevoke, hookCalls>>
storeVars == <<store, hookVars>>

Event == [type : {"admin", "user"}, id : CA] \cup [type : {"node"}, id : Node]

(* The copy that snapTrustStore makes under the lock. *)
SnapTrustStore ==
    [admins |-> adminCAs, users |-> userCAs, revAdmins |-> revokedAdminCAs,
     revUsers |-> revokedUserCAs, revNodes |-> revokedNodes]

Init ==
    /\ adminCAs = {}
    /\ userCAs = [h \in CA |-> NoCA]
    /\ revokedAdminCAs = {} /\ revokedUserCAs = {} /\ revokedNodes = {}
    /\ onRevoke = FALSE
    /\ hookCalls = {}

-----------------------------------------------------------------------------
(* The trust store's methods; a method that returns an error changes nothing. *)

(* Fault: a revoked CA may be added again. *)
FaultyAddAdminPubKey(h) ==
    /\ h \notin adminCAs
    /\ adminCAs' = adminCAs \cup {h}
    /\ UNCHANGED <<userCAs, revokedAdminCAs, revokedUserCAs, revokedNodes,
                   hookVars>>

AddAdminPubKey(h) ==
    /\ h \notin adminCAs
    /\ h \notin revokedAdminCAs
    /\ adminCAs' = adminCAs \cup {h}
    /\ UNCHANGED <<userCAs, revokedAdminCAs, revokedUserCAs, revokedNodes,
                   hookVars>>

VerifyAnchor(r) ==
    /\ r.anchor \in adminCAs
    /\ r.anchor \notin revokedAdminCAs
    /\ r.anchorSig = r.anchor

AddUserPubKey(r) ==
    /\ userCAs[r.ca] = NoCA
    /\ r.ca \notin revokedUserCAs
    /\ VerifyAnchor(r)
    /\ userCAs' = [userCAs EXCEPT ![r.ca] = r.anchor]
    /\ UNCHANGED <<adminCAs, revokedAdminCAs, revokedUserCAs, revokedNodes,
                   hookVars>>

(* Fault: the limit is off by one. *)
FaultyWithEntry(list, h) ==
    IF Cardinality(list) <= MaxRevocationEntries THEN list \cup {h} ELSE list

(* The entry that a Remove method adds to a revocation list, if it still fits. *)
WithEntry(list, h) ==
    IF Cardinality(list) < MaxRevocationEntries THEN list \cup {h} ELSE list

(* Fault: the removed CA is not revoked. *)
FaultyRemoveAdminPubKey(h) ==
    /\ h \in adminCAs
    /\ adminCAs' = adminCAs \ {h}
    /\ UNCHANGED <<userCAs, revokedAdminCAs, revokedUserCAs, revokedNodes, hookVars>>

RemoveAdminPubKey(h) ==
    /\ h \in adminCAs
    /\ adminCAs' = adminCAs \ {h}
    /\ revokedAdminCAs' = WithEntry(revokedAdminCAs, h)
    /\ UNCHANGED <<userCAs, revokedUserCAs, revokedNodes, hookVars>>

RemoveUserPubKey(h) ==
    /\ userCAs[h] # NoCA
    /\ userCAs' = [userCAs EXCEPT ![h] = NoCA]
    /\ revokedUserCAs' = WithEntry(revokedUserCAs, h)
    /\ UNCHANGED <<adminCAs, revokedAdminCAs, revokedNodes, hookVars>>

(* The hook is read under the lock and called after the unlock. *)
CallHook(type, id) ==
    hookCalls' = IF onRevoke THEN hookCalls \cup {[type |-> type, id |-> id]} ELSE hookCalls

RevokeUserCA(h) ==
    /\ Cardinality(revokedUserCAs) < MaxRevocationEntries
    /\ revokedUserCAs' = revokedUserCAs \cup {h}
    /\ userCAs' = [userCAs EXCEPT ![h] = NoCA]
    /\ CallHook("user", h)
    /\ UNCHANGED <<adminCAs, revokedAdminCAs, revokedNodes, onRevoke>>

(* Fault: the hook is called before the limit is checked. *)
FaultyRevokeAdminCA(h) ==
    /\ CallHook("admin", h)
    /\ IF Cardinality(revokedAdminCAs) < MaxRevocationEntries
       THEN /\ revokedAdminCAs' = revokedAdminCAs \cup {h}
            /\ adminCAs' = adminCAs \ {h}
       ELSE UNCHANGED <<revokedAdminCAs, adminCAs>>
    /\ UNCHANGED <<userCAs, revokedUserCAs, revokedNodes, onRevoke>>

RevokeAdminCA(h) ==
    /\ Cardinality(revokedAdminCAs) < MaxRevocationEntries
    /\ revokedAdminCAs' = revokedAdminCAs \cup {h}
    /\ adminCAs' = adminCAs \ {h}
    /\ CallHook("admin", h)
    /\ UNCHANGED <<userCAs, revokedUserCAs, revokedNodes, onRevoke>>

(* Fault: the node is reported as a user CA. *)
FaultyRevokeNode(n) ==
    /\ Cardinality(revokedNodes) < MaxRevocationEntries
    /\ revokedNodes' = revokedNodes \cup {n}
    /\ CallHook("user", n)
    /\ UNCHANGED <<adminCAs, userCAs, revokedAdminCAs, revokedUserCAs, onRevoke>>

RevokeNode(n) ==
    /\ Cardinality(revokedNodes) < MaxRevocationEntries
    /\ revokedNodes' = revokedNodes \cup {n}
    /\ CallHook("node", n)
    /\ UNCHANGED <<adminCAs, userCAs, revokedAdminCAs, revokedUserCAs, onRevoke>>

(* hook: whether it is one, or nil. *)
SetRevocationHook(hook) ==
    /\ onRevoke' = hook
    /\ UNCHANGED <<store, hookCalls>>

RunHook(e) ==
    /\ e \in hookCalls
    /\ hookCalls' = hookCalls \ {e}
    /\ UNCHANGED <<store, onRevoke>>

(* The calls that other parts of the program make on the store. *)
StoreUpdate ==
    \/ \E h \in CA : \/ AddAdminPubKey(h) \/ RemoveAdminPubKey(h) \/ RevokeAdminCA(h)
                     \/ RemoveUserPubKey(h) \/ RevokeUserCA(h)
    \/ \E r \in AnchorRequest : AddUserPubKey(r)
    \/ \E n \in Node : RevokeNode(n)

Next ==
    \/ StoreUpdate
    \/ \E hook \in BOOLEAN : SetRevocationHook(hook)
    \/ \E e \in hookCalls : RunHook(e)

Spec == Init /\ [][Next]_storeVars

-----------------------------------------------------------------------------
(* Properties *)

(* Every variable has its type. *)
TypeOK ==
    /\ adminCAs \subseteq CA
    /\ userCAs \in [CA -> CA \cup {NoCA}]
    /\ revokedAdminCAs \subseteq CA /\ revokedUserCAs \subseteq CA
    /\ revokedNodes \subseteq Node
    /\ onRevoke \in BOOLEAN
    /\ hookCalls \subseteq Event

(* No CA is trusted and revoked at once, whatever order Add, Remove and     *)
(* Revoke calls come in (carrier_auth.go: the two checks of the Add methods *)
(* and the delete of the Revoke methods).                                   *)
RevokedNotTrusted ==
    /\ adminCAs \cap revokedAdminCAs = {}
    /\ \A h \in CA : userCAs[h] # NoCA => h \notin revokedUserCAs

(* No revocation list outgrows MaxRevocationEntries. *)
RevocationListsBounded ==
    \A list \in {revokedAdminCAs, revokedUserCAs, revokedNodes} :
        Cardinality(list) <= MaxRevocationEntries

(* By the time a revocation hook runs, the store already refuses the CA or  *)
(* node it is told about, and keeps refusing it.                            *)
HookSeesRevocation ==
    \A e \in hookCalls :
        /\ e.type = "admin" => e.id \in revokedAdminCAs \ adminCAs
        /\ e.type = "user" => e.id \in revokedUserCAs /\ userCAs[e.id] = NoCA
        /\ e.type = "node" => e.id \in revokedNodes
=============================================================================
