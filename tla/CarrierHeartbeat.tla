-------------------------- MODULE CarrierHeartbeat --------------------------
(***************************************************************************)
(* The Carrier's heartbeat loop (heartbeat.go), one goroutine that         *)
(* sends to every connected server and then fails the peers it has not     *)
(* heard of for HeartbeatTimeout.  It reads the maps in one critical       *)
(* section and acts on what it read in another.                            *)
(***************************************************************************)
EXTENDS Carrier

VARIABLE hb  \* the heartbeat loop: which peer and connection it has in hand

HbState == [pc : {"idle", "loop", "sending", "failing", "marking"}, phase : {"send", "stale"},
            todo : SUBSET Peer, peer : Peer \cup {NoPeer}, conn : Conn \cup {NoConn}]

HbIdle == [pc |-> "idle", phase |-> "send", todo |-> {}, peer |-> NoPeer, conn |-> NoConn]

HbStep(next) ==
    /\ hb' = next
    /\ UNCHANGED vars

HbContinue == [hb EXCEPT !.pc = "loop", !.peer = NoPeer, !.conn = NoConn]

(* GetNodes is read once per batch; clients get no heartbeats. *)
HeartbeatTick ==
    /\ hb.pc = "idle"
    /\ HbStep([HbIdle EXCEPT !.pc = "loop",
                  !.todo = {p \in Peer : Known(registry, p) /\ IsServer(registry, p)}])

(* Each remaining peer in some order; one without a connection is skipped. *)
HeartbeatNext(p) ==
    LET rest == hb.todo \ {p} IN
    /\ hb.pc = "loop" /\ p \in hb.todo
    /\ HbStep(IF ~IsConnected(p) THEN [hb EXCEPT !.todo = rest]
              ELSE [hb EXCEPT !.pc = IF hb.phase = "send" THEN "sending" ELSE "failing",
                              !.todo = rest, !.peer = p, !.conn = connections[p]])

HeartbeatSent ==
    /\ hb.pc = "sending" /\ conn[hb.conn].open
    /\ HbStep(HbContinue)

(* The send or its reply fails; the connection is looked up again. *)
HeartbeatSendFails ==
    /\ hb.pc = "sending"
    /\ HbStep(IF IsConnected(hb.peer)
              THEN [hb EXCEPT !.pc = "failing", !.conn = connections[hb.peer]]
              ELSE HbContinue)

(* Fault: a failed peer keeps its connection. *)
FaultyHeartbeatDrop ==
    /\ hb.pc = "failing"
    /\ hb' = [hb EXCEPT !.pc = "marking", !.conn = NoConn]
    /\ UNCHANGED vars

(* markPeerFailed, first half. *)
HeartbeatDrop ==
    /\ hb.pc = "failing"
    /\ DropConnection(hb.peer, hb.conn, conn)
    /\ hb' = [hb EXCEPT !.pc = "marking", !.conn = NoConn]
    /\ UNCHANGED msgs

(* markPeerFailed, second half: unconditional. *)
HeartbeatMarkFailed ==
    /\ hb.pc = "marking"
    /\ registry' = SetStatus(registry, hb.peer, "failed")
    /\ hb' = HbContinue
    /\ UNCHANGED <<connections, peerScopes, conn, msgs>>

(* The batch is sent: failStalePeers reads the registry once.  Then the loop *)
(* sleeps until the next tick.                                               *)
HeartbeatPhaseEnds ==
    /\ hb.pc = "loop" /\ hb.todo = {}
    /\ HbStep(IF hb.phase = "send"
              THEN [hb EXCEPT !.phase = "stale",
                              !.todo = {p \in Peer : registry[p].lastSeen = "stale"}]
              ELSE HbIdle)

HeartbeatLoop ==
    \/ HeartbeatTick
    \/ \E p \in Peer : HeartbeatNext(p)
    \/ HeartbeatSent \/ HeartbeatSendFails \/ HeartbeatDrop \/ HeartbeatMarkFailed
    \/ HeartbeatPhaseEnds

-----------------------------------------------------------------------------
(* A closed connection of a known server does not stay registered for ever: *)
(* its loops drop it, or, when they never started because writeLocalAuth    *)
(* failed, the heartbeat loop does, unless a newer one replaces it, or the  *)
(* loop waits for ever for the reply of a peer that keeps its connection    *)
(* open: sendMessageReliable reads a reply without a deadline.              *)
AwaitsReply == hb.pc = "sending" /\ conn[hb.conn].open
Registered(c) ==
    \E p \in Peer : connections[p] = c /\ Known(registry, p) /\ IsServer(registry, p)
ClosedIsDropped ==
    \A c \in Conn : (Registered(c) /\ ~conn[c].open) ~> (~Registered(c) \/ []AwaitsReply)
=============================================================================
