-------------------------- MODULE MCCarrierSilence --------------------------
EXTENDS CarrierSilence

CONSTANT p1

(* Heartbeats about the sender only. *)
SenderGossip == {{[node |-> p1, role |-> "server"]}}
=============================================================================
