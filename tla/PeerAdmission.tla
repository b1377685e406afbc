---------------------------- MODULE PeerAdmission ---------------------------
(***************************************************************************)
(* VerifyPeerCert calls running concurrently with updates of the trust     *)
(* store: a call reads the clock, then copies the store's maps under the   *)
(* read lock, then decides on the copy without the lock.  No caller under  *)
(* src/ installs a revocation hook, so none is installed here.             *)
(***************************************************************************)
EXTENDS PeerHandshakes

CONSTANT Verifier  \* goroutines that call VerifyPeerCert

ASSUME SomeHandshakeAssumption == Handshake # {}

VARIABLES
    clock,  \* unix time
    calls   \* the VerifyPeerCert call of each goroutine

vars == <<storeVars, clock, calls>>

(* revokedBefore: what was revoked when the call began (history) *)
Revocations == [cas : SUBSET CA, admins : SUBSET CA, nodes : SUBSET Node]

Call == [pc : {"idle", "begun", "snapped", "done"}, hs : Handshake, now : 0..MaxClock,
         revokedBefore : Revocations, snap : TrustSnapshot, result : AuthContext]

NoSnapshot == [admins |-> {}, users |-> [h \in CA |-> NoCA], revAdmins |-> {}, revUsers |-> {},
               revNodes |-> {}]

Idle == [pc |-> "idle", hs |-> CHOOSE hs \in Handshake : TRUE, now |-> 0,
         revokedBefore |-> [cas |-> {}, admins |-> {}, nodes |-> {}],
         snap |-> NoSnapshot, result |-> Rejected]

AInit == Init /\ clock = 0 /\ calls = [v \in Verifier |-> Idle]

(* Fault: the clock is read a second ahead. *)
FaultyVerifyBegin(v, hs) ==
    /\ calls[v].pc \in {"idle", "done"}
    /\ calls' = [calls EXCEPT ![v] = [Idle EXCEPT !.pc = "begun", !.hs = hs, !.now = clock + 1]]
    /\ UNCHANGED <<storeVars, clock>>

(* The inputs are frozen and the clock is read. *)
VerifyBegin(v, hs) ==
    /\ calls[v].pc \in {"idle", "done"}
    /\ calls' = [calls EXCEPT ![v] =
          [Idle EXCEPT !.pc = "begun", !.hs = hs, !.now = clock,
             !.revokedBefore = [cas |-> revokedAdminCAs \cup revokedUserCAs,
                                admins |-> revokedAdminCAs, nodes |-> revokedNodes]]]
    /\ UNCHANGED <<storeVars, clock>>

(* The store is copied under the read lock. *)
VerifySnap(v) ==
    /\ calls[v].pc = "begun"
    /\ calls' = [calls EXCEPT ![v].pc = "snapped", ![v].snap = SnapTrustStore]
    /\ UNCHANGED <<storeVars, clock>>

(* The checks run on the copy, without the lock. *)
VerifyDecide(v) ==
    /\ calls[v].pc = "snapped"
    /\ calls' = [calls EXCEPT ![v].pc = "done",
          ![v].result = VerifyPeerCert(calls[v].snap, calls[v].hs, calls[v].now)]
    /\ UNCHANGED <<storeVars, clock>>

Tick ==
    /\ clock < MaxClock
    /\ clock' = clock + 1
    /\ UNCHANGED <<storeVars, calls>>

ANext ==
    \/ StoreUpdate /\ UNCHANGED <<clock, calls>>
    \/ \E v \in Verifier : \/ \E hs \in Handshake : VerifyBegin(v, hs)
                           \/ VerifySnap(v)
                           \/ VerifyDecide(v)
    \/ Tick

ASpec == AInit /\ [][ANext]_vars

-----------------------------------------------------------------------------
(* Properties *)

(* Every variable has its type. *)
ATypeOK ==
    /\ TypeOK
    /\ clock \in 0..MaxClock
    /\ calls \in [Verifier -> Call]

(* A peer that VerifyPeerCert admits owns the node key of the delegation    *)
(* and is vouched for by CAs none of which, and none of whose anchors, was  *)
(* revoked when the call began, although the checks run on a copy of the    *)
(* store and CAs come with the peer's own handshake.                        *)
AdmissionSound ==
    \A v \in Verifier :
        LET c == calls[v]
            r == c.result
            unrevoked == CA \ c.revokedBefore.cas
        IN r.ok =>
            /\ r.node = c.hs.delegationSig
            /\ r.node \notin c.revokedBefore.nodes
            /\ r.scope = "admin" =>
                  \E h \in c.snap.admins \cap unrevoked : Vouches(c.hs, h, r.node, c.now)
            /\ r.scope = "user" =>
                  /\ r.owners # {}
                  /\ \A h \in r.owners :
                        /\ h \in unrevoked
                        /\ Vouches(c.hs, h, r.node, c.now)
                        /\ \E a \in Anchors(c.snap, c.hs, h) \cap c.snap.admins :
                               a \notin c.revokedBefore.admins
=============================================================================
