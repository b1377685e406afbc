--------------------------- MODULE MCCarrierGossip --------------------------
EXTENDS CarrierGossip

CONSTANTS p1, p2

(* Heartbeats about a third node, with each role, one of them also with the *)
(* sender in it.                                                            *)
MCGossip == {{[node |-> p2, role |-> "client"]}, {[node |-> p2, role |-> "other"]},
             {[node |-> p1, role |-> "server"], [node |-> p2, role |-> "server"]}}
=============================================================================
