---------------------------- MODULE CarrierGossip ---------------------------
(***************************************************************************)
(* The Carrier with heartbeats that report other nodes (heartbeat.go):     *)
(* mergeHeartbeatNodes reads a registry entry in one critical section and  *)
(* writes it back in another, and a goroutine dials the servers that were  *)
(* not known before.                                                       *)
(***************************************************************************)
EXTENDS Carrier

CONSTANTS
    Gossip,  \* the sets of reports that heartbeats bring
    NoReport

Report == [node : Peer, role : Role]  \* a role of the wire, not checked

ASSUME GossipAssumption == Gossip \subseteq SUBSET Report
ASSUME NoReportAssumption == NoReport \notin Report

VARIABLES
    merge,    \* mergeHeartbeatNodes of each message
    connect,  \* connectDiscoveredPeers of the heartbeat last handled in each slot
    met       \* peers that were ever authenticated (history)

gossipVars == <<vars, merge, connect, met>>

(* copy: the entry that was read for report; found: nodes that were not known. *)
MergeState == [todo : SUBSET Report, report : Report \cup {NoReport}, copy : Entry,
               found : SUBSET Report]
NoMerge == [todo |-> {}, report |-> NoReport, copy |-> Absent, found |-> {}]

ConnectState == [todo : SUBSET Peer, peer : Peer \cup {NoPeer}, conn : Conn \cup {NoConn}]
NoConnect == [todo |-> {}, peer |-> NoPeer, conn |-> NoConn]

GInit ==
    /\ Init
    /\ merge = [m \in Msg |-> NoMerge]
    /\ connect = [m \in Msg |-> NoConnect]
    /\ met = {}

-----------------------------------------------------------------------------
(* handleHeartbeatMessage and mergeHeartbeatNodes *)

(* An unknown sender is an error, and its reports are not merged. *)
HandleGossip(m, role, reports) ==
    LET p == conn[msgs[m].conn].node IN
    /\ msgs[m].pc = "seen" /\ Known(registry, p)
    /\ registry' = SetRole(MarkedSeen(registry, p), p, role)
    /\ msgs' = [msgs EXCEPT ![m].pc = "merging"]
    /\ merge' = [merge EXCEPT ![m].todo = reports]
    /\ UNCHANGED <<connections, peerScopes, conn, connect, met>>

(* GetNode; reports about the local node were skipped. *)
MergeGet(m, r) ==
    /\ msgs[m].pc = "merging" /\ merge[m].report = NoReport /\ r \in merge[m].todo
    /\ merge' = [merge EXCEPT ![m].todo = @ \ {r}, ![m].report = r, ![m].copy = registry[r.node]]
    /\ UNCHANGED <<vars, connect, met>>

(* Fault: a node that others report counts as seen. *)
FaultyNewNode(r) == [status |-> "disconnected", role |-> r.role, lastSeen |-> "fresh"]

NewNode(r) == [status |-> "disconnected", role |-> r.role, lastSeen |-> "zero"]

(* AddNode, of a new entry or of the copy with the reported role. *)
MergeAdd(m) ==
    LET r == merge[m].report
        new == merge[m].copy.status = "absent"
    IN
    /\ r # NoReport
    /\ registry' = AddNode(registry, r.node,
                           IF new THEN NewNode(r) ELSE [merge[m].copy EXCEPT !.role = r.role])
    /\ merge' = [merge EXCEPT ![m].report = NoReport, ![m].copy = Absent,
                              ![m].found = IF new THEN @ \cup {r} ELSE @]
    /\ UNCHANGED <<connections, peerScopes, conn, msgs, connect, met>>

(* The handler returns and starts a goroutine for the new servers.  A slot   *)
(* has one such goroutine at a time (bound).                                 *)
MergeEnds(m) ==
    /\ msgs[m].pc = "merging" /\ merge[m].todo = {} /\ merge[m].report = NoReport
    /\ connect[m] = NoConnect
    /\ msgs' = [msgs EXCEPT ![m] = NoMsg]
    /\ merge' = [merge EXCEPT ![m] = NoMerge]
    /\ connect' = [connect EXCEPT ![m].todo = {r.node : r \in {f \in merge[m].found : f.role # "client"}}]
    /\ UNCHANGED <<registry, connections, peerScopes, conn, met>>

-----------------------------------------------------------------------------
(* connectDiscoveredPeers *)

ConnectNext(m, p) ==
    /\ connect[m].peer = NoPeer /\ p \in connect[m].todo
    /\ connect' = [connect EXCEPT ![m].todo = @ \ {p}, ![m].peer = IF IsConnected(p) THEN NoPeer ELSE p]
    /\ UNCHANGED <<vars, merge, met>>

ConnectDials(m, c) ==
    /\ connect[m].peer # NoPeer /\ connect[m].conn = NoConn
    /\ Free(c, {connect[k].conn : k \in Msg})
    /\ conn' = [conn EXCEPT ![c] = Opened("dial")]
    /\ connect' = [connect EXCEPT ![m].conn = c]
    /\ UNCHANGED <<registry, connections, peerScopes, msgs, merge, met>>

(* No address answers, or connectNode returns. *)
ConnectReturns(m) ==
    /\ connect[m].peer # NoPeer
    /\ connect[m].conn # NoConn => conn[connect[m].conn].pc = "done"
    /\ connect' = [connect EXCEPT ![m].peer = NoPeer, ![m].conn = NoConn]
    /\ UNCHANGED <<vars, merge, met>>

-----------------------------------------------------------------------------
(* The Carrier's own steps, with the history. *)
CarrierStep ==
    /\ ConnectionStep({connect[m].conn : m \in Msg})
    /\ met' = met \cup {conn'[c].node : c \in {d \in Conn : conn'[d].pc = "verified"}}
    /\ UNCHANGED <<merge, connect>>

(* A copied timestamp ages like any other. *)
GossipTimeout ==
    /\ TimeoutElapses
    /\ merge' = [m \in Msg |-> [merge[m] EXCEPT !.copy = Aged(@)]]
    /\ UNCHANGED <<connect, met>>

GossipStep ==
    \/ CarrierStep
    \/ \E m \in Msg :
          \/ \E role \in Role, reports \in Gossip : HandleGossip(m, role, reports)
          \/ \E r \in merge[m].todo : MergeGet(m, r)
          \/ MergeAdd(m) \/ MergeEnds(m)
          \/ \E p \in connect[m].todo : ConnectNext(m, p)
          \/ \E c \in Conn : ConnectDials(m, c)
          \/ ConnectReturns(m)

GNext == GossipStep \/ GossipTimeout

GSpec == GInit /\ [][GNext]_gossipVars

-----------------------------------------------------------------------------
(* Properties *)

(* Hearsay is no contact: a node that never authenticated, whatever others   *)
(* report of it, is neither seen nor connected nor failed, so the reconnect  *)
(* loop tries it and failStalePeers leaves it alone.                         *)
NeverMetIsUnseen ==
    \A p \in Peer \ met : Known(registry, p) => /\ registry[p].status = "disconnected"
                                                /\ registry[p].lastSeen = "zero"

(* A node known as a client is taken for one until its own heartbeat says    *)
(* otherwise, or a report about it with a role that is neither server nor    *)
(* client is merged, which mergeNode lets through: reports that it is a      *)
(* server, also late ones and ones merged into an old copy, never change it. *)
IsClient(r, p) == Known(r, p) /\ ~IsServer(r, p)
ClientStaysClient ==
    [][\A p \in Peer : (IsClient(registry, p) /\ Known(registry', p) /\ IsServer(registry', p))
            => \E m \in Msg :
                  \/ msgs[m].pc = "seen" /\ conn[msgs[m].conn].node = p
                  \/ merge[m].report = [node |-> p, role |-> "other"]]_gossipVars
=============================================================================
