--------------------------- MODULE MCCarrierLoops ---------------------------
(***************************************************************************)
(* The Carrier and its loops, bounded: each connection object stands for   *)
(* one connection, inbound or dialled by the reconnect loop, and           *)
(* HeartbeatTimeout elapses only in behaviours with a single connection.   *)
(* Connection objects are used, and peers are first met, in a fixed order: *)
(* nothing tells two of them apart.  No bound stops a loop: where a dial   *)
(* is out of bounds it fails.                                              *)
(***************************************************************************)
EXTENDS CarrierLoops

Opens(c) == conn[c].pc # "auth" /\ conn'[c].pc = "auth"
Stale(r) == \E p \in Peer : r[p].lastSeen = "stale"
Used == {c \in Conn : conn[c].pc # "free"}
Met == {conn[c].node : c \in Conn} \ {NoPeer}

Bound ==
    /\ \A c \in Conn : Opens(c) =>
          /\ c \notin Used /\ c = CHOOSE d \in Conn \ Used : TRUE
          /\ conn'[c].kind = "in" \/ retry'.conn = c
          /\ ~Stale(registry)
    /\ \A p \in Met' \ Met : p = CHOOSE q \in Peer \ Met : TRUE
    /\ (Stale(registry') /\ ~Stale(registry)) => Cardinality(Used) = 1

MCSpec == LInit /\ [][LNext /\ Bound]_loopVars /\ LFairness
=============================================================================
