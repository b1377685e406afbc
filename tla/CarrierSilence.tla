--------------------------- MODULE CarrierSilence ---------------------------
(***************************************************************************)
(* The Carrier that merges reports, with the history of who was heard: it  *)
(* compares what the registry says of a peer's silence with the messages   *)
(* that were dispatched.                                                   *)
(***************************************************************************)
EXTENDS CarrierGossip

VARIABLE heard  \* peers a message of which was dispatched since HeartbeatTimeout last elapsed

(* markPeerSeen is the first thing that a dispatch does. *)
Dispatched == {m \in Msg : msgs[m].pc = "accepted" /\ msgs'[m].pc = "seen"}

SInit == GInit /\ heard = {}

SNext ==
    \/ GossipStep /\ heard' = heard \cup {conn[msgs[m].conn].node : m \in Dispatched}
    \/ GossipTimeout /\ heard' = {}

SSpec == SInit /\ [][SNext]_<<gossipVars, heard>>

-----------------------------------------------------------------------------
(* HeartbeatTimeout's comment (internal/transport/carrier.go 83-85): it is   *)
(* the maximum age of the last inbound message before a peer is considered   *)
(* unreachable.  A peer that sent a message since is not stale.              *)
StaleMeansSilent == \A p \in heard : registry[p].lastSeen # "stale"
=============================================================================
