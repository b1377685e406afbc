------------------------------ MODULE Carrier -------------------------------
(***************************************************************************)
(* internal/transport: how one node's Carrier keeps its connections.  A    *)
(* goroutine per connection authenticates it, registers the peer and       *)
(* starts two receive loops; message handlers, the heartbeat loop, the     *)
(* reconnect loop and callers of the public methods work on the same two   *)
(* maps and on the node registry.  A step is one critical section of       *)
(* carrierImpl.mu or of the registry's mutex, so whatever the code reads   *)
(* in one section and uses in another may be out of date by then.          *)
(***************************************************************************)
EXTENDS NodeRegistry, FiniteSets

CONSTANTS
    Conn,    \* connection objects; one is reused when nothing refers to it
    Msg,     \* slots for inbound messages being handled
    Granted, \* the trust scopes that VerifyPeerCert grants to peers
    NoPeer,
    NoConn

ASSUME NoPeerAssumption == NoPeer \notin Peer
ASSUME NoConnAssumption == NoConn \notin Conn

Scope == {"admin", "user"}

ASSUME GrantedAssumption == Granted \subseteq Scope

VARIABLES
    registry,     \* nodeRegistry.nodes
    connections,  \* carrierImpl.connections
    peerScopes,   \* carrierImpl.peerScopes, "none" when there is no entry
    conn,         \* each connection with the goroutines that own it
    msgs          \* inbound messages being handled

vars == <<registry, connections, peerScopes, conn, msgs>>

(* kind: inbound, dialled by connectNode, or dialled for bootstrap.  pc: how *)
(* far its goroutine is.  streams, datagrams: the receive loops that run.    *)
ConnState == [kind : {"in", "dial", "boot"},
              pc : {"free", "auth", "verified", "added", "mapped", "done"},
              node : Peer \cup {NoPeer}, scope : Scope,
              open : BOOLEAN, streams : BOOLEAN, datagrams : BOOLEAN]

Unused == [kind |-> "in", pc |-> "free", node |-> NoPeer, scope |-> "user",
           open |-> FALSE, streams |-> FALSE, datagrams |-> FALSE]

(* scope: the scope a dispatch read and passes to the controller.  merging: *)
(* the steps of CarrierGossip.                                               *)
MsgState == [pc : {"idle", "accepted", "seen", "handling", "merging"}, datagram : BOOLEAN,
             conn : Conn \cup {NoConn}, scope : Scope]

NoMsg == [pc |-> "idle", datagram |-> FALSE, conn |-> NoConn, scope |-> "user"]

Init ==
    /\ registry = [p \in Peer |-> Absent]
    /\ connections = [p \in Peer |-> NoConn]
    /\ peerScopes = [p \in Peer |-> "none"]
    /\ conn = [c \in Conn |-> Unused]
    /\ msgs = [m \in Msg |-> NoMsg]

IsConnected(p) == connections[p] # NoConn

(* Nothing refers to connection c any more: the object may stand for a new   *)
(* one.  held: connections that a background loop has in hand.               *)
Free(c, held) ==
    /\ c \notin held
    /\ conn[c].pc \in {"free", "done"}
    /\ ~conn[c].open /\ ~conn[c].streams /\ ~conn[c].datagrams
    /\ \A p \in Peer : connections[p] # c
    /\ \A m \in Msg : msgs[m].conn # c

Opened(kind) == [Unused EXCEPT !.kind = kind, !.pc = "auth", !.open = TRUE]

-----------------------------------------------------------------------------
(* Closing: dropConnection and the public methods that end a connection. *)

(* Fault: whatever connection the peer has now is dropped. *)
FaultyDropConnection(p, c, cs) ==
    IF connections[p] # NoConn
    THEN /\ connections' = [connections EXCEPT ![p] = NoConn]
         /\ peerScopes' = [peerScopes EXCEPT ![p] = "none"]
         /\ conn' = [cs EXCEPT ![c].open = FALSE]
         /\ registry' = SetStatus(registry, p, "disconnected")
    ELSE conn' = cs /\ UNCHANGED <<connections, peerScopes, registry>>

(* cs: the connections as the goroutine that drops c leaves them. *)
DropConnection(p, c, cs) ==
    IF connections[p] = c
    THEN /\ connections' = [connections EXCEPT ![p] = NoConn]
         /\ peerScopes' = [peerScopes EXCEPT ![p] = "none"]
         /\ conn' = [cs EXCEPT ![c].open = FALSE]
         /\ registry' = SetStatus(registry, p, "disconnected")
    ELSE conn' = cs /\ UNCHANGED <<connections, peerScopes, registry>>

LeaveCluster(p) ==
    /\ IsConnected(p)
    /\ conn' = [conn EXCEPT ![connections[p]].open = FALSE]
    /\ connections' = [connections EXCEPT ![p] = NoConn]
    /\ peerScopes' = [peerScopes EXCEPT ![p] = "none"]
    /\ UNCHANGED <<registry, msgs>>

RemoveNode(p) ==
    /\ IsConnected(p) \/ Known(registry, p)
    /\ conn' = [c \in Conn |-> IF c = connections[p] THEN [conn[c] EXCEPT !.open = FALSE]
                                                     ELSE conn[c]]
    /\ connections' = [connections EXCEPT ![p] = NoConn]
    /\ peerScopes' = [peerScopes EXCEPT ![p] = "none"]
    /\ registry' = RemoveEntry(registry, p)
    /\ UNCHANGED msgs

(* The peer or the network closes a connection, or it idles out. *)
ConnBreaks(c) ==
    /\ conn[c].open
    /\ conn' = [conn EXCEPT ![c].open = FALSE]
    /\ UNCHANGED <<registry, connections, peerScopes, msgs>>

-----------------------------------------------------------------------------
(* The goroutine that sets a connection up: handleIncomingConn, connectNode *)
(* or dialBootstrapAddr.                                                    *)

Open(c, kind, held) ==
    /\ Free(c, held)
    /\ conn' = [conn EXCEPT ![c] = Opened(kind)]
    /\ UNCHANGED <<registry, connections, peerScopes, msgs>>

HandleIncomingConn(c, held) == Open(c, "in", held)
OpenPeerChannel(c, held) == Open(c, "dial", held)
DialBootstrapAddr(c, held) == Open(c, "boot", held)

(* VerifyPeerCert accepts the handshake.  Whom a dialled address belongs to *)
(* is only known now; connectNode does not compare it with its target.      *)
(* dialBootstrapAddr keeps a peer's existing connection.                    *)
PeerVerified(c, p, s) ==
    /\ conn[c].pc = "auth" /\ conn[c].open
    /\ conn' = [conn EXCEPT ![c] =
          IF @.kind = "boot" /\ IsConnected(p)
          THEN [@ EXCEPT !.pc = "done", !.open = FALSE]
          ELSE [@ EXCEPT !.pc = "verified", !.node = p, !.scope = s]]
    /\ UNCHANGED <<registry, connections, peerScopes, msgs>>

(* Fault: a refused connection is not closed. *)
FaultyAuthFails(c) ==
    /\ conn[c].pc = "auth"
    /\ conn' = [conn EXCEPT ![c].pc = "done"]
    /\ UNCHANGED <<registry, connections, peerScopes, msgs>>

AuthFails(c) ==
    /\ conn[c].pc = "auth"
    /\ conn' = [conn EXCEPT ![c].pc = "done", ![c].open = FALSE]
    /\ UNCHANGED <<registry, connections, peerScopes, msgs>>

(* registerPeer, first half: the registry has its own mutex. *)
RegisterInRegistry(c) ==
    /\ conn[c].pc = "verified"
    /\ registry' = AddNode(registry, conn[c].node,
                           [status |-> "connected", role |-> "server", lastSeen |-> "fresh"])
    /\ conn' = [conn EXCEPT ![c].pc = "added"]
    /\ UNCHANGED <<connections, peerScopes, msgs>>

(* Fault: the scope is not recorded. *)
FaultyRegisterConnection(c) ==
    /\ conn[c].pc = "added"
    /\ connections' = [connections EXCEPT ![conn[c].node] = c]
    /\ conn' = [conn EXCEPT ![c].pc = "mapped"]
    /\ UNCHANGED <<registry, peerScopes, msgs>>

(* registerPeer, second half: a connection the peer already has is replaced. *)
RegisterConnection(c) ==
    /\ conn[c].pc = "added"
    /\ connections' = [connections EXCEPT ![conn[c].node] = c]
    /\ peerScopes' = [peerScopes EXCEPT ![conn[c].node] = conn[c].scope]
    /\ conn' = [conn EXCEPT ![c].pc = "mapped"]
    /\ UNCHANGED <<registry, msgs>>

(* Fault: the loops start before the peer is verified. *)
FaultyStartConnectionLoops(c) ==
    /\ conn[c].pc \in {"auth", "mapped"}
    /\ conn[c].kind = "in" => conn[c].open
    /\ conn' = [conn EXCEPT ![c].pc = "done", ![c].streams = TRUE, ![c].datagrams = TRUE]
    /\ UNCHANGED <<registry, connections, peerScopes, msgs>>

(* An inbound connection starts its loops only once writeLocalAuth is through. *)
StartConnectionLoops(c) ==
    /\ conn[c].pc = "mapped"
    /\ conn[c].kind = "in" => conn[c].open
    /\ conn' = [conn EXCEPT ![c].pc = "done", ![c].streams = TRUE, ![c].datagrams = TRUE]
    /\ UNCHANGED <<registry, connections, peerScopes, msgs>>

(* writeLocalAuth fails: the connection is closed and stays registered. *)
WriteLocalAuthFails(c) ==
    /\ conn[c].pc = "mapped" /\ conn[c].kind = "in"
    /\ conn' = [conn EXCEPT ![c].pc = "done", ![c].open = FALSE]
    /\ UNCHANGED <<registry, connections, peerScopes, msgs>>

(* The goroutine waits for the peer: for its part of the handshake, or, as   *)
(* the accepting side, to take in the answer.  Neither wait has a deadline;  *)
(* it ends with the connection.                                              *)
WaitsForPeer(c) ==
    /\ conn[c].open
    /\ \/ conn[c].pc = "auth"
       \/ conn[c].pc = "mapped" /\ conn[c].kind = "in"

-----------------------------------------------------------------------------
(* Receive loops and message handlers. *)

StreamLoopEnds(c) ==
    /\ conn[c].streams /\ ~conn[c].open
    /\ DropConnection(conn[c].node, c, [conn EXCEPT ![c].streams = FALSE])
    /\ UNCHANGED msgs

DatagramInHand(c) == \E m \in Msg : msgs[m].conn = c /\ msgs[m].datagram

DatagramLoopEnds(c) ==
    /\ conn[c].datagrams /\ ~conn[c].open /\ ~DatagramInHand(c)
    /\ DropConnection(conn[c].node, c, [conn EXCEPT ![c].datagrams = FALSE])
    /\ UNCHANGED msgs

AcceptStream(c, m) ==
    /\ conn[c].streams /\ conn[c].open /\ msgs[m].pc = "idle"
    /\ msgs' = [msgs EXCEPT ![m] = [NoMsg EXCEPT !.pc = "accepted", !.conn = c]]
    /\ UNCHANGED <<registry, connections, peerScopes, conn>>

(* The datagram loop handles a datagram itself before it receives the next. *)
ReceiveDatagram(c, m) ==
    /\ conn[c].datagrams /\ conn[c].open /\ ~DatagramInHand(c) /\ msgs[m].pc = "idle"
    /\ msgs' = [msgs EXCEPT ![m] = [NoMsg EXCEPT !.pc = "accepted", !.conn = c, !.datagram = TRUE]]
    /\ UNCHANGED <<registry, connections, peerScopes, conn>>

(* A message that can not be read, or a heartbeat that can not be parsed. *)
DiscardMessage(m) ==
    /\ msgs[m].pc \in {"accepted", "seen"}
    /\ msgs' = [msgs EXCEPT ![m] = NoMsg]
    /\ UNCHANGED <<registry, connections, peerScopes, conn>>

MarkedSeen(r, p) == SetStatus(UpdateLastSeen(r, p), p, "connected")

(* dispatchMessage begins with markPeerSeen. *)
MarkPeerSeen(m) ==
    /\ msgs[m].pc = "accepted"
    /\ registry' = MarkedSeen(registry, conn[msgs[m].conn].node)
    /\ msgs' = [msgs EXCEPT ![m].pc = "seen"]
    /\ UNCHANGED <<connections, peerScopes, conn>>

(* Fault: a missing map entry has a value of its own. *)
FaultyScopeRead(p) == peerScopes[p]

(* The scope a dispatch reads: a missing map entry reads as TrustScope's zero *)
(* value, ScopeAdmin.                                                         *)
ScopeRead(p) == IF peerScopes[p] = "none" THEN "admin" ELSE peerScopes[p]

DispatchMessage(m) ==
    /\ msgs[m].pc = "seen"
    /\ msgs' = [msgs EXCEPT ![m].pc = "handling", ![m].scope = ScopeRead(conn[msgs[m].conn].node)]
    /\ UNCHANGED <<registry, connections, peerScopes, conn>>

(* The controller's handler returns and the reply is written. *)
HandlerReturns(m) ==
    /\ msgs[m].pc = "handling"
    /\ msgs' = [msgs EXCEPT ![m] = NoMsg]
    /\ UNCHANGED <<registry, connections, peerScopes, conn>>

(* handleHeartbeatMessage, for a heartbeat that brings no news of other nodes: *)
(* an unknown sender is an error.  CarrierGossip has the other heartbeats.     *)
HandleHeartbeatMessage(m, role) ==
    LET p == conn[msgs[m].conn].node IN
    /\ msgs[m].pc = "seen"
    /\ registry' = SetRole(MarkedSeen(registry, p), p, role)
    /\ msgs' = [msgs EXCEPT ![m] = NoMsg]
    /\ UNCHANGED <<connections, peerScopes, conn>>

-----------------------------------------------------------------------------
(* Steps that callers of the public methods, peers and the network take. *)
Callers(held) ==
    \/ \E p \in Peer : LeaveCluster(p) \/ RemoveNode(p)
    \/ \E c \in Conn : \/ HandleIncomingConn(c, held)
                       \/ OpenPeerChannel(c, held)
                       \/ DialBootstrapAddr(c, held)
                       \/ ConnBreaks(c)

SetUp(c) ==
    \/ \E p \in Peer, s \in Granted : PeerVerified(c, p, s)
    \/ AuthFails(c)
    \/ RegisterInRegistry(c) \/ RegisterConnection(c)
    \/ StartConnectionLoops(c) \/ WriteLocalAuthFails(c)

(* What a connection's goroutine does by itself. *)
SetUpRuns(c) == SetUp(c) /\ ~WaitsForPeer(c)

Receive(c, m) == AcceptStream(c, m) \/ ReceiveDatagram(c, m)

Handle(m) ==
    \/ DiscardMessage(m) \/ MarkPeerSeen(m) \/ DispatchMessage(m) \/ HandlerReturns(m)
    \/ \E role \in Role : HandleHeartbeatMessage(m, role)

(* HeartbeatTimeout elapses since every timestamp taken so far. *)
TimeoutElapses ==
    /\ registry' = [p \in Peer |-> Aged(registry[p])]
    /\ UNCHANGED <<connections, peerScopes, conn, msgs>>

ConnectionStep(held) ==
    \/ Callers(held)
    \/ \E c \in Conn : \/ SetUp(c) \/ StreamLoopEnds(c) \/ DatagramLoopEnds(c)
                       \/ \E m \in Msg : Receive(c, m)
    \/ \E m \in Msg : Handle(m)

Next == ConnectionStep({}) \/ TimeoutElapses

Spec == Init /\ [][Next]_vars

-----------------------------------------------------------------------------
(* Properties *)

(* Every variable has its type. *)
TypeOK ==
    /\ registry \in [Peer -> Entry]
    /\ connections \in [Peer -> Conn \cup {NoConn}]
    /\ peerScopes \in [Peer -> Scope \cup {"none"}]
    /\ conn \in [Conn -> ConnState]
    /\ msgs \in [Msg -> MsgState]

(* The two maps never disagree, although registerPeer, dropConnection,       *)
(* LeaveCluster and RemoveNode race: a peer has a scope entry exactly when   *)
(* it has a connection, that connection was authenticated as that peer, and  *)
(* the scope is the one its authentication granted.                          *)
MapsAgree ==
    \A p \in Peer :
        IF IsConnected(p)
        THEN /\ conn[connections[p]].node = p
             /\ conn[connections[p]].pc \in {"mapped", "done"}
             /\ peerScopes[p] = conn[connections[p]].scope
        ELSE peerScopes[p] = "none"

(* Receive loops run only on a connection that was authenticated and         *)
(* registered, and a loop that runs on a closed connection is about to end:  *)
(* no message of an unauthenticated peer is ever handled.                    *)
HandlersAuthenticated ==
    /\ \A c \in Conn : conn[c].streams \/ conn[c].datagrams =>
                          conn[c].pc = "done" /\ conn[c].node \in Peer
    /\ \A m \in Msg : msgs[m].pc # "idle" => conn[msgs[m].conn].node \in Peer

(* A connection leaves the map only closed, or because a newer one took its *)
(* place: a loop that ends late never takes down its peer's new connection. *)
UnmappedIsClosed ==
    [][\A p \in Peer : IsConnected(p) /\ connections'[p] = NoConn
                          => ~conn'[connections[p]].open]_vars

(* The refinement mapping: a session is a connection object. *)
StageOf(pc) ==
    IF pc = "auth" THEN "new" ELSE IF pc \in {"verified", "added"} THEN "granted" ELSE "over"
OpenConns == {c \in Conn : conn[c].open}
Stages == [c \in Conn |-> StageOf(conn[c].pc)]
Grants == [c \in Conn |-> [peer |-> conn[c].node, scope |-> conn[c].scope]]

M == INSTANCE Membership WITH
        Session <- Conn, NoSession <- NoConn,
        live <- OpenConns, stage <- Stages, grant <- Grants,
        member <- connections, scopes <- peerScopes

(* The Carrier implements Membership: whatever its goroutines, handlers and  *)
(* callers do to the maps between each other's critical sections, every step *)
(* is a step of the abstract specification, or none.                         *)
ImplementsMembership == M!Spec

(* RemoveNode's comment (interfaces/carrier.go 153-156): future sends to a   *)
(* removed node fail until it is added again, so none has a connection.     *)
RemovedNotConnected == \A p \in Peer : IsConnected(p) => Known(registry, p)

(* The ClusterController comment (interfaces/cluster_controller.go 12-13):   *)
(* handlers run with the peer's authentication context, so the scope passed  *)
(* is the one that the message's connection was granted.                     *)
DispatchScopeAuthentic ==
    \A m \in Msg : msgs[m].pc = "handling" => msgs[m].scope = conn[msgs[m].conn].scope
=============================================================================
