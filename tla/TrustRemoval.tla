---------------------------- MODULE TrustRemoval ----------------------------
(***************************************************************************)
(* The trust store with a history of the CAs that ever left it, to ask     *)
(* whether a CA that was taken out can come back.                          *)
(***************************************************************************)
EXTENDS TrustStore

VARIABLES
    leftAdmins,  \* history: admin CAs that left adminCAs
    leftUsers    \* history: user CAs that left userCAs

removalVars == <<storeVars, leftAdmins, leftUsers>>

RInit == Init /\ leftAdmins = {} /\ leftUsers = {}

RNext ==
    /\ Next
    /\ leftAdmins' = leftAdmins \cup (adminCAs \ adminCAs')
    /\ leftUsers' = leftUsers \cup {h \in CA : userCAs[h] # NoCA /\ userCAs'[h] = NoCA}

RSpec == RInit /\ [][RNext]_removalVars

(* A CA that a Remove or Revoke method took out comes back only when the    *)
(* revocation list was full, since the Remove methods drop the revocation   *)
(* silently then (carrier_auth.go 296-298, 313-315).  Their comments        *)
(* (285-286, 302-303) promise it without that exception.                    *)
RemovalFinalUnlessFull ==
    /\ \A h \in leftAdmins \cap adminCAs : Cardinality(revokedAdminCAs) = MaxRevocationEntries
    /\ \A h \in leftUsers : userCAs[h] # NoCA =>
                                Cardinality(revokedUserCAs) = MaxRevocationEntries
=============================================================================
