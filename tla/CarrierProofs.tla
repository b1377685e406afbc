---------------------------- MODULE CarrierProofs ---------------------------
(***************************************************************************)
(* The Carrier's maps, for any number of peers, connections and messages   *)
(* in flight.  The step lemmas are stated for ConnectionStep(held), so     *)
(* that they also serve the specifications that add a background loop.     *)
(***************************************************************************)
EXTENDS Carrier, TLAPS

(* A registry method keeps the registry a map from peers to entries         *)
(* (node_registry.go: SetStatus, UpdateLastSeen, SetRole, AddNode).         *)
LEMMA RegistryTypes ==
    ASSUME NEW r \in [Peer -> Entry], NEW p
    PROVE  /\ \A s \in Status : SetStatus(r, p, s) \in [Peer -> Entry]
           /\ \A role \in Role : SetRole(r, p, role) \in [Peer -> Entry]
           /\ UpdateLastSeen(r, p) \in [Peer -> Entry]
           /\ RemoveEntry(r, p) \in [Peer -> Entry]
           /\ \A n \in Entry : AddNode(r, p, n) \in [Peer -> Entry]
           /\ MarkedSeen(r, p) \in [Peer -> Entry]
<1> USE DEF Entry, Status, Role, LastSeen
<1>1. \A q \in [Peer -> Entry], s \in Status : SetStatus(q, p, s) \in [Peer -> Entry]
  BY DEF SetStatus
<1>2. \A role \in Role : SetRole(r, p, role) \in [Peer -> Entry]
  BY DEF SetRole
<1>3. UpdateLastSeen(r, p) \in [Peer -> Entry]
  BY DEF UpdateLastSeen
<1>4. RemoveEntry(r, p) \in [Peer -> Entry]
  BY DEF RemoveEntry, Absent
<1>5. \A n \in Entry : AddNode(r, p, n) \in [Peer -> Entry]
  <2> SUFFICES ASSUME NEW n \in Entry PROVE AddNode(r, p, n) \in [Peer -> Entry]
    OBVIOUS
  <2>1. \A q \in Peer : MergeNode(r[q], n) \in Entry
    BY DEF MergeNode
  <2> QED
    BY <2>1 DEF AddNode
<1>6. MarkedSeen(r, p) \in [Peer -> Entry]
  BY <1>1, <1>3 DEF MarkedSeen
<1> QED
  BY <1>1, <1>2, <1>3, <1>4, <1>5, <1>6

(* The updates that the goroutines make to a connection's state keep its type. *)
LEMMA ConnTypes ==
    ASSUME NEW cs \in [Conn -> ConnState], NEW c \in Conn
    PROVE  /\ [cs EXCEPT ![c].open = FALSE] \in [Conn -> ConnState]
           /\ [cs EXCEPT ![c].streams = FALSE] \in [Conn -> ConnState]
           /\ [cs EXCEPT ![c].datagrams = FALSE] \in [Conn -> ConnState]
           /\ [cs EXCEPT ![c].pc = "added"] \in [Conn -> ConnState]
           /\ [cs EXCEPT ![c].pc = "mapped"] \in [Conn -> ConnState]
           /\ [cs EXCEPT ![c].pc = "done", ![c].open = FALSE] \in [Conn -> ConnState]
           /\ [cs EXCEPT ![c].pc = "done", ![c].streams = TRUE, ![c].datagrams = TRUE]
                 \in [Conn -> ConnState]
<1>1. [cs[c] EXCEPT !.open = FALSE] \in ConnState
  BY DEF ConnState
<1>2. [cs[c] EXCEPT !.streams = FALSE] \in ConnState
  BY DEF ConnState
<1>3. [cs[c] EXCEPT !.datagrams = FALSE] \in ConnState
  BY DEF ConnState
<1>4. [cs[c] EXCEPT !.pc = "added"] \in ConnState
  BY DEF ConnState
<1>5. [cs[c] EXCEPT !.pc = "mapped"] \in ConnState
  BY DEF ConnState
<1>6. [cs[c] EXCEPT !.pc = "done", !.open = FALSE] \in ConnState
  BY DEF ConnState
<1>7. [cs[c] EXCEPT !.pc = "done", !.streams = TRUE, !.datagrams = TRUE] \in ConnState
  BY DEF ConnState
<1> QED
  BY <1>1, <1>2, <1>3, <1>4, <1>5, <1>6, <1>7

(* dropConnection keeps every variable's type. *)
LEMMA DropTypes ==
    ASSUME TypeOK, NEW p, NEW c \in Conn, NEW cs \in [Conn -> ConnState],
           DropConnection(p, c, cs), UNCHANGED msgs
    PROVE  TypeOK'
<1>1. conn' \in [Conn -> ConnState]
  <2>1. [cs EXCEPT ![c].open = FALSE] \in [Conn -> ConnState]
    BY ConnTypes
  <2>2. conn' = [cs EXCEPT ![c].open = FALSE] \/ conn' = cs
    BY DEF DropConnection
  <2> QED
    BY <2>1, <2>2
<1>2. registry' \in [Peer -> Entry]
  BY RegistryTypes DEF DropConnection, TypeOK, Status
<1> QED
  BY <1>1, <1>2 DEF DropConnection, TypeOK

-----------------------------------------------------------------------------
(***************************************************************************)
(* What the goroutines rely on when they use a connection without holding  *)
(* a lock: the peer is known from the handshake on, loops run only on a    *)
(* connection whose set-up is complete, and a message in hand belongs to   *)
(* one.  Without it even the scope a dispatch reads would have no type.    *)
(***************************************************************************)
SetUpKnowsPeer ==
    \A c \in Conn : conn[c].pc \in {"verified", "added", "mapped"} => conn[c].node \in Peer
LoopsAfterSetUp ==
    \A c \in Conn : conn[c].streams \/ conn[c].datagrams => conn[c].pc = "done" /\ conn[c].node \in Peer
MessageOwned ==
    \A m \in Msg : msgs[m].pc # "idle" =>
        /\ msgs[m].conn \in Conn
        /\ conn[msgs[m].conn].pc = "done" /\ conn[msgs[m].conn].node \in Peer
Inv == TypeOK /\ SetUpKnowsPeer /\ LoopsAfterSetUp /\ MessageOwned /\ MapsAgree

(* Every step of a connection's goroutines, of a message handler or of a    *)
(* caller keeps every variable's type.                                      *)
LEMMA TypeStep == ASSUME NEW held, TypeOK, MessageOwned, ConnectionStep(held) PROVE TypeOK'
<1> USE DEF TypeOK
<1>1. ASSUME NEW p \in Peer, LeaveCluster(p) PROVE TypeOK'
  <2>1. connections[p] \in Conn
    BY <1>1 DEF LeaveCluster, IsConnected
  <2> QED
    BY <1>1, <2>1, ConnTypes DEF LeaveCluster
<1>2. ASSUME NEW p \in Peer, RemoveNode(p) PROVE TypeOK'
  <2>1. conn' \in [Conn -> ConnState]
    <3>1. \A c \in Conn : [conn[c] EXCEPT !.open = FALSE] \in ConnState
      BY DEF ConnState
    <3> QED
      BY <1>2, <3>1 DEF RemoveNode
  <2> QED
    BY <1>2, <2>1, RegistryTypes DEF RemoveNode
<1>3. ASSUME NEW c \in Conn,
             \/ HandleIncomingConn(c, held) \/ OpenPeerChannel(c, held)
             \/ DialBootstrapAddr(c, held)
      PROVE  TypeOK'
  <2>1. \A kind \in {"in", "dial", "boot"} : Opened(kind) \in ConnState
    BY DEF Opened, Unused, ConnState, Scope
  <2> QED
    BY <1>3, <2>1 DEF HandleIncomingConn, OpenPeerChannel, DialBootstrapAddr, Open
<1>4. ASSUME NEW c \in Conn, ConnBreaks(c) PROVE TypeOK'
  BY <1>4, ConnTypes DEF ConnBreaks
<1>5. ASSUME NEW c \in Conn, NEW p \in Peer, NEW s \in Granted, PeerVerified(c, p, s) PROVE TypeOK'
  <2>1. [conn[c] EXCEPT !.pc = "done", !.open = FALSE] \in ConnState
    BY DEF ConnState
  <2>2. [conn[c] EXCEPT !.pc = "verified", !.node = p, !.scope = s] \in ConnState
    BY GrantedAssumption DEF ConnState
  <2>3. conn' \in [Conn -> ConnState]
    BY <1>5, <2>1, <2>2, Zenon DEF PeerVerified
  <2> QED
    BY <1>5, <2>3 DEF PeerVerified
<1>6. ASSUME NEW c \in Conn, AuthFails(c) PROVE TypeOK'
  BY <1>6, ConnTypes DEF AuthFails
<1>7. ASSUME NEW c \in Conn, RegisterInRegistry(c) PROVE TypeOK'
  <2>1. [status |-> "connected", role |-> "server", lastSeen |-> "fresh"] \in Entry
    BY DEF Entry, Status, Role, LastSeen
  <2> QED
    BY <1>7, <2>1, ConnTypes, RegistryTypes DEF RegisterInRegistry
<1>8. ASSUME NEW c \in Conn, RegisterConnection(c) PROVE TypeOK'
  <2>1. conn[c].scope \in Scope
    BY DEF ConnState
  <2> QED
    BY <1>8, <2>1, ConnTypes DEF RegisterConnection
<1>9. ASSUME NEW c \in Conn, StartConnectionLoops(c) \/ WriteLocalAuthFails(c) PROVE TypeOK'
  <2>1. conn' \in [Conn -> ConnState]
    <3>1. \/ conn' = [conn EXCEPT ![c].pc = "done", ![c].streams = TRUE, ![c].datagrams = TRUE]
          \/ conn' = [conn EXCEPT ![c].pc = "done", ![c].open = FALSE]
      BY <1>9 DEF StartConnectionLoops, WriteLocalAuthFails
    <3>2. [conn EXCEPT ![c].pc = "done", ![c].streams = TRUE, ![c].datagrams = TRUE]
             \in [Conn -> ConnState]
      BY ConnTypes
    <3>3. [conn EXCEPT ![c].pc = "done", ![c].open = FALSE] \in [Conn -> ConnState]
      BY ConnTypes
    <3> QED
      BY <3>1, <3>2, <3>3, Zenon
  <2> QED
    BY <1>9, <2>1 DEF StartConnectionLoops, WriteLocalAuthFails
<1>10. ASSUME NEW c \in Conn, StreamLoopEnds(c) PROVE TypeOK'
  BY <1>10, ConnTypes, DropTypes DEF StreamLoopEnds
<1>11. ASSUME NEW c \in Conn, DatagramLoopEnds(c) PROVE TypeOK'
  BY <1>11, ConnTypes, DropTypes DEF DatagramLoopEnds
<1>12. ASSUME NEW c \in Conn, NEW m \in Msg, Receive(c, m) PROVE TypeOK'
  <2>1. /\ [NoMsg EXCEPT !.pc = "accepted", !.conn = c] \in MsgState
        /\ [NoMsg EXCEPT !.pc = "accepted", !.conn = c, !.datagram = TRUE] \in MsgState
    BY DEF NoMsg, MsgState, Scope
  <2> QED
    BY <1>12, <2>1 DEF Receive, AcceptStream, ReceiveDatagram
<1>13. ASSUME NEW m \in Msg, DiscardMessage(m) \/ HandlerReturns(m) PROVE TypeOK'
  <2>1. NoMsg \in MsgState
    BY DEF NoMsg, MsgState, Scope
  <2> QED
    BY <1>13, <2>1 DEF DiscardMessage, HandlerReturns
<1>14. ASSUME NEW m \in Msg, MarkPeerSeen(m) PROVE TypeOK'
  <2>1. msgs' \in [Msg -> MsgState]
    BY <1>14 DEF MarkPeerSeen, MsgState
  <2> QED
    BY <1>14, <2>1, RegistryTypes DEF MarkPeerSeen
<1>15. ASSUME NEW m \in Msg, DispatchMessage(m) PROVE TypeOK'
  <2>1. conn[msgs[m].conn].node \in Peer
    BY <1>15 DEF DispatchMessage, MessageOwned
  <2>2. ScopeRead(conn[msgs[m].conn].node) \in Scope
    BY <2>1 DEF ScopeRead, Scope
  <2>3. msgs' \in [Msg -> MsgState]
    BY <1>15, <2>2 DEF DispatchMessage, MsgState
  <2> QED
    BY <1>15, <2>3 DEF DispatchMessage
<1>16. ASSUME NEW m \in Msg, NEW role \in Role, HandleHeartbeatMessage(m, role) PROVE TypeOK'
  <2>1. NoMsg \in MsgState
    BY DEF NoMsg, MsgState, Scope
  <2> QED
    BY <1>16, <2>1, RegistryTypes DEF HandleHeartbeatMessage
<1> QED
  BY <1>1, <1>2, <1>3, <1>4, <1>5, <1>6, <1>7, <1>8, <1>9, <1>10, <1>11, <1>12, <1>13, <1>14,
     <1>15, <1>16 DEF ConnectionStep, Callers, SetUp, Handle

(* dropConnection, called by a loop that leaves or by the heartbeat loop,    *)
(* keeps the invariant: cs differs from conn in ended loops only.           *)
LEMMA DropStep ==
    ASSUME Inv, TypeOK', NEW p \in Peer, NEW c \in Conn, NEW cs \in [Conn -> ConnState],
           \A d \in Conn : /\ cs[d].pc = conn[d].pc
                           /\ cs[d].node = conn[d].node
                           /\ cs[d].scope = conn[d].scope
                           /\ cs[d].streams => conn[d].streams
                           /\ cs[d].datagrams => conn[d].datagrams,
           DropConnection(p, c, cs), UNCHANGED msgs
    PROVE  Inv'
<1> USE NoPeerAssumption, NoConnAssumption
    DEF Inv, TypeOK, SetUpKnowsPeer, LoopsAfterSetUp, MessageOwned, MapsAgree, IsConnected
<1>1. \A d \in Conn : /\ conn'[d].pc = conn[d].pc
                      /\ conn'[d].node = conn[d].node
                      /\ conn'[d].scope = conn[d].scope
                      /\ conn'[d].streams => conn[d].streams
                      /\ conn'[d].datagrams => conn[d].datagrams
  BY DEF DropConnection, ConnState
<1>2. SetUpKnowsPeer' /\ LoopsAfterSetUp' /\ MessageOwned'
  BY <1>1
<1>3. MapsAgree'
  BY <1>1 DEF DropConnection
<1> QED
  BY <1>2, <1>3

(* The same steps keep what goroutines rely on without a lock, and keep the  *)
(* two maps in agreement.                                                    *)
LEMMA InvStep == ASSUME NEW held, Inv, TypeOK', ConnectionStep(held) PROVE Inv'
<1> USE NoPeerAssumption, NoConnAssumption
    DEF Inv, TypeOK, ConnState, MsgState, SetUpKnowsPeer, LoopsAfterSetUp, MessageOwned, MapsAgree,
        IsConnected
<1>1. ASSUME NEW p \in Peer, LeaveCluster(p) PROVE Inv'
  BY <1>1 DEF LeaveCluster
<1>2. ASSUME NEW p \in Peer, RemoveNode(p) PROVE Inv'
  BY <1>2 DEF RemoveNode
<1>3. ASSUME NEW c \in Conn,
             \/ HandleIncomingConn(c, held) \/ OpenPeerChannel(c, held)
             \/ DialBootstrapAddr(c, held)
      PROVE  Inv'
  <2>1. /\ conn'[c].pc = "auth" /\ ~conn'[c].streams /\ ~conn'[c].datagrams
        /\ \A d \in Conn \ {c} : conn'[d] = conn[d]
    <3>1. PICK kind \in {"in", "dial", "boot"} : conn' = [conn EXCEPT ![c] = Opened(kind)]
      BY <1>3 DEF HandleIncomingConn, OpenPeerChannel, DialBootstrapAddr, Open
    <3>2. Opened(kind).pc = "auth" /\ ~Opened(kind).streams /\ ~Opened(kind).datagrams
      BY DEF Opened, Unused
    <3> QED
      BY <3>1, <3>2
  <2>2. /\ \A p \in Peer : connections[p] # c
        /\ \A m \in Msg : msgs[m].conn # c
        /\ UNCHANGED <<connections, peerScopes, msgs>>
    BY <1>3 DEF HandleIncomingConn, OpenPeerChannel, DialBootstrapAddr, Open, Free
  <2>3. SetUpKnowsPeer' /\ LoopsAfterSetUp' /\ MessageOwned'
    BY <2>1, <2>2
  <2>4. MapsAgree'
    BY <2>1, <2>2
  <2> QED
    BY <2>3, <2>4
<1>4. ASSUME NEW c \in Conn, ConnBreaks(c) PROVE Inv'
  BY <1>4 DEF ConnBreaks
<1>5. ASSUME NEW c \in Conn, NEW p \in Peer, NEW s \in Granted, PeerVerified(c, p, s) PROVE Inv'
  BY <1>5 DEF PeerVerified
<1>6. ASSUME NEW c \in Conn, AuthFails(c) PROVE Inv'
  BY <1>6 DEF AuthFails
<1>7. ASSUME NEW c \in Conn, RegisterInRegistry(c) PROVE Inv'
  BY <1>7 DEF RegisterInRegistry
<1>8. ASSUME NEW c \in Conn, RegisterConnection(c) PROVE Inv'
  BY <1>8 DEF RegisterConnection
<1>9. ASSUME NEW c \in Conn, StartConnectionLoops(c) PROVE Inv'
  BY <1>9 DEF StartConnectionLoops
<1>10. ASSUME NEW c \in Conn, WriteLocalAuthFails(c) PROVE Inv'
  BY <1>10 DEF WriteLocalAuthFails
<1>11. ASSUME NEW c \in Conn, StreamLoopEnds(c) PROVE Inv'
  <2> DEFINE cs == [conn EXCEPT ![c].streams = FALSE]
  <2>1. cs \in [Conn -> ConnState]
    BY ConnTypes
  <2>2. \A d \in Conn : /\ cs[d].pc = conn[d].pc
                        /\ cs[d].node = conn[d].node
                        /\ cs[d].scope = conn[d].scope
                        /\ cs[d].streams => conn[d].streams
                        /\ cs[d].datagrams => conn[d].datagrams
    OBVIOUS
  <2>3. conn[c].node \in Peer /\ DropConnection(conn[c].node, c, cs) /\ UNCHANGED msgs
    BY <1>11 DEF StreamLoopEnds
  <2> HIDE DEF cs
  <2> QED
    BY <2>1, <2>2, <2>3, DropStep
<1>12. ASSUME NEW c \in Conn, DatagramLoopEnds(c) PROVE Inv'
  <2> DEFINE cs == [conn EXCEPT ![c].datagrams = FALSE]
  <2>1. cs \in [Conn -> ConnState]
    BY ConnTypes
  <2>2. \A d \in Conn : /\ cs[d].pc = conn[d].pc
                        /\ cs[d].node = conn[d].node
                        /\ cs[d].scope = conn[d].scope
                        /\ cs[d].streams => conn[d].streams
                        /\ cs[d].datagrams => conn[d].datagrams
    OBVIOUS
  <2>3. conn[c].node \in Peer /\ DropConnection(conn[c].node, c, cs) /\ UNCHANGED msgs
    BY <1>12 DEF DatagramLoopEnds
  <2> HIDE DEF cs
  <2> QED
    BY <2>1, <2>2, <2>3, DropStep
<1>13. ASSUME NEW c \in Conn, NEW m \in Msg, Receive(c, m) PROVE Inv'
  <2>1. /\ conn[c].pc = "done" /\ conn[c].node \in Peer
        /\ msgs'[m].conn = c
        /\ \A n \in Msg \ {m} : msgs'[n] = msgs[n]
        /\ UNCHANGED <<connections, peerScopes, conn>>
    <3>1. CASE AcceptStream(c, m)
      BY <3>1 DEF AcceptStream, NoMsg
    <3>2. CASE ReceiveDatagram(c, m)
      BY <3>2 DEF ReceiveDatagram, NoMsg
    <3> QED
      BY <1>13, <3>1, <3>2 DEF Receive
  <2> QED
    BY <2>1
<1>14. ASSUME NEW m \in Msg, Handle(m) PROVE Inv'
  <2>1. /\ msgs'[m].pc # "idle" => msgs[m].pc # "idle" /\ msgs'[m].conn = msgs[m].conn
        /\ \A n \in Msg \ {m} : msgs'[n] = msgs[n]
    <3>1. CASE DiscardMessage(m) \/ HandlerReturns(m)
      BY <3>1 DEF DiscardMessage, HandlerReturns, NoMsg
    <3>2. CASE MarkPeerSeen(m)
      BY <3>2 DEF MarkPeerSeen
    <3>3. CASE DispatchMessage(m)
      BY <3>3 DEF DispatchMessage
    <3>4. CASE \E role \in Role : HandleHeartbeatMessage(m, role)
      BY <3>4 DEF HandleHeartbeatMessage, NoMsg
    <3> QED
      BY <1>14, <3>1, <3>2, <3>3, <3>4 DEF Handle
  <2>2. UNCHANGED <<connections, peerScopes, conn>>
    BY <1>14
    DEF Handle, DiscardMessage, HandlerReturns, MarkPeerSeen, DispatchMessage, HandleHeartbeatMessage
  <2> QED
    BY <2>1, <2>2
<1> QED
  BY <1>1, <1>2, <1>3, <1>4, <1>5, <1>6, <1>7, <1>8, <1>9, <1>10, <1>11, <1>12, <1>13, <1>14
  DEF ConnectionStep, Callers, SetUp

(* The passing of time changes no map. *)
LEMMA TimeoutStep == ASSUME Inv, TimeoutElapses PROVE Inv'
<1>1. TypeOK'
  <2>1. \A p \in Peer : Aged(registry[p]) \in Entry
    BY DEF Inv, TypeOK, Aged, Entry, LastSeen
  <2> QED
    BY <2>1 DEF Inv, TypeOK, TimeoutElapses
<1> QED
  BY <1>1
  DEF Inv, TimeoutElapses, SetUpKnowsPeer, LoopsAfterSetUp, MessageOwned, MapsAgree, IsConnected

(* The Carrier starts with an empty registry and no connection in use. *)
LEMMA InitInv == Init => Inv
<1> SUFFICES ASSUME Init PROVE Inv
  OBVIOUS
<1>1. Absent \in Entry
  BY DEF Absent, Entry, Status, Role, LastSeen
<1>2. /\ Unused \in ConnState /\ Unused.pc = "free" /\ ~Unused.streams /\ ~Unused.datagrams
  BY DEF Unused, ConnState, Scope
<1>3. NoMsg \in MsgState /\ NoMsg.pc = "idle"
  BY DEF NoMsg, MsgState, Scope
<1>4. TypeOK
  BY <1>1, <1>2, <1>3 DEF Init, TypeOK
<1> QED
  BY <1>2, <1>3, <1>4
  DEF Init, Inv, SetUpKnowsPeer, LoopsAfterSetUp, MessageOwned, MapsAgree, IsConnected

(* The inductive invariant holds of every state of the Carrier. *)
LEMMA InvAlways == Spec => []Inv
<1>1. Inv /\ [Next]_vars => Inv'
  <2> SUFFICES ASSUME Inv, [Next]_vars PROVE Inv'
    OBVIOUS
  <2>1. ASSUME ConnectionStep({}) PROVE Inv'
    BY <2>1, TypeStep, InvStep DEF Inv
  <2>2. ASSUME TimeoutElapses PROVE Inv'
    BY <2>2, TimeoutStep
  <2>3. ASSUME UNCHANGED vars PROVE Inv'
    BY <2>3
    DEF vars, Inv, TypeOK, SetUpKnowsPeer, LoopsAfterSetUp, MessageOwned, MapsAgree, IsConnected
  <2> QED
    BY <2>1, <2>2, <2>3 DEF Next
<1> QED
  BY <1>1, InitInv, PTL DEF Spec

-----------------------------------------------------------------------------
(* Every variable keeps its type.  This needs the whole invariant: a         *)
(* dispatch reads the scope of whatever peer its connection belongs to.      *)
THEOREM TypeCorrect == Spec => []TypeOK
<1>1. Inv => TypeOK
  BY DEF Inv
<1> QED
  BY <1>1, InvAlways, PTL

(* carrierImpl.connections and carrierImpl.peerScopes agree with each other  *)
(* and with what authentication found, in every interleaving of registerPeer *)
(* with dropConnection, LeaveCluster and RemoveNode.                         *)
THEOREM MapsAlwaysAgree == Spec => []MapsAgree
<1>1. Inv => MapsAgree
  BY DEF Inv
<1> QED
  BY <1>1, InvAlways, PTL

(* startConnectionLoops' promise: streams and datagrams are only handled     *)
(* after the peer has been authenticated and registered.                     *)
THEOREM OnlyAuthenticatedHandled == Spec => []HandlersAuthenticated
<1>1. Inv => HandlersAuthenticated
  BY DEF Inv, HandlersAuthenticated, LoopsAfterSetUp, MessageOwned
<1> QED
  BY <1>1, InvAlways, PTL

(* A step of the Carrier that takes a connection out of the map closes it. *)
LEMMA ClosesStep ==
    ASSUME NEW held, TypeOK, ConnectionStep(held)
    PROVE  \A p \in Peer : IsConnected(p) /\ connections'[p] = NoConn
                              => ~conn'[connections[p]].open
<1> DEFINE Closes == \A p \in Peer : IsConnected(p) /\ connections'[p] = NoConn
                                       => ~conn'[connections[p]].open
<1> USE NoConnAssumption DEF TypeOK, IsConnected
<1>1. ASSUME NEW q \in Peer, LeaveCluster(q) PROVE Closes
  BY <1>1 DEF LeaveCluster, ConnState
<1>2. ASSUME NEW q \in Peer, RemoveNode(q) PROVE Closes
  BY <1>2 DEF RemoveNode, ConnState
<1>3. ASSUME NEW c \in Conn, StreamLoopEnds(c) PROVE Closes
  BY <1>3 DEF StreamLoopEnds, DropConnection, ConnState
<1>4. ASSUME NEW c \in Conn, DatagramLoopEnds(c) PROVE Closes
  BY <1>4 DEF DatagramLoopEnds, DropConnection, ConnState
<1>5. ASSUME NEW c \in Conn, RegisterConnection(c) PROVE Closes
  BY <1>5 DEF RegisterConnection
<1>6. CASE UNCHANGED connections
  BY <1>6
<1>7. ASSUME NEW c \in Conn,
             \/ HandleIncomingConn(c, held) \/ OpenPeerChannel(c, held)
             \/ DialBootstrapAddr(c, held) \/ ConnBreaks(c)
             \/ \E p \in Peer, s \in Granted : PeerVerified(c, p, s)
             \/ AuthFails(c) \/ RegisterInRegistry(c) \/ StartConnectionLoops(c)
             \/ WriteLocalAuthFails(c)
      PROVE  Closes
  BY <1>6, <1>7
  DEF HandleIncomingConn, OpenPeerChannel, DialBootstrapAddr, Open, ConnBreaks, PeerVerified,
      AuthFails, RegisterInRegistry, StartConnectionLoops, WriteLocalAuthFails
<1>8. ASSUME NEW m \in Msg, Handle(m) \/ \E c \in Conn : Receive(c, m) PROVE Closes
  BY <1>6, <1>8
  DEF Handle, DiscardMessage, MarkPeerSeen, DispatchMessage, HandlerReturns,
      HandleHeartbeatMessage, Receive, AcceptStream, ReceiveDatagram
<1> HIDE DEF Closes
<1>9. Closes
  BY <1>1, <1>2, <1>3, <1>4, <1>5, <1>7, <1>8 DEF ConnectionStep, Callers, SetUp
<1> QED
  BY <1>9 DEF Closes

(* A connection that leaves the map is closed in the same critical section,  *)
(* and a loop that ends late never takes its successor out of the map.       *)
THEOREM UnmappedAlwaysClosed == Spec => UnmappedIsClosed
<1>1. TypeOK /\ [Next]_vars =>
         [\A p \in Peer : IsConnected(p) /\ connections'[p] = NoConn
                             => ~conn'[connections[p]].open]_vars
  <2> SUFFICES ASSUME TypeOK, Next, NEW p \in Peer, IsConnected(p), connections'[p] = NoConn
               PROVE  ~conn'[connections[p]].open
    OBVIOUS
  <2>1. ~TimeoutElapses
    BY DEF TimeoutElapses, IsConnected
  <2> QED
    BY <2>1, ClosesStep DEF Next
<1> QED
  BY <1>1, TypeCorrect, PTL DEF Spec, UnmappedIsClosed

-----------------------------------------------------------------------------
(***************************************************************************)
(* The Carrier implements Membership.  Most steps touch one connection, so *)
(* the first lemma says what that does to the abstract variables.          *)
(***************************************************************************)

(* What the goroutines write into one connection's record. *)
LEMMA RecordUpdates ==
    ASSUME NEW k \in ConnState
    PROVE  /\ [k EXCEPT !.open = FALSE] \in ConnState
           /\ [k EXCEPT !.pc = "done", !.open = FALSE] \in ConnState
           /\ [k EXCEPT !.pc = "mapped"] \in ConnState
           /\ LET r == [k EXCEPT !.open = FALSE]
              IN ~r.open /\ r.pc = k.pc /\ r.node = k.node /\ r.scope = k.scope
           /\ LET r == [k EXCEPT !.pc = "done", !.open = FALSE]
              IN ~r.open /\ r.pc = "done" /\ r.node = k.node /\ r.scope = k.scope
           /\ LET r == [k EXCEPT !.pc = "mapped"]
              IN r.open = k.open /\ r.pc = "mapped" /\ r.node = k.node /\ r.scope = k.scope
<1>1. [k EXCEPT !.open = FALSE] \in ConnState
  BY DEF ConnState
<1>2. [k EXCEPT !.pc = "done", !.open = FALSE] \in ConnState
  BY DEF ConnState
<1>3. [k EXCEPT !.pc = "mapped"] \in ConnState
  BY DEF ConnState
<1>4. LET r == [k EXCEPT !.open = FALSE]
      IN ~r.open /\ r.pc = k.pc /\ r.node = k.node /\ r.scope = k.scope
  BY DEF ConnState
<1>5. LET r == [k EXCEPT !.pc = "done", !.open = FALSE]
      IN ~r.open /\ r.pc = "done" /\ r.node = k.node /\ r.scope = k.scope
  BY DEF ConnState
<1>6. LET r == [k EXCEPT !.pc = "mapped"]
      IN r.open = k.open /\ r.pc = "mapped" /\ r.node = k.node /\ r.scope = k.scope
  BY DEF ConnState
<1> QED
  BY <1>1, <1>2, <1>3, <1>4, <1>5, <1>6, Zenon

(* A step that gives one connection the state r changes the abstract state  *)
(* of that session only.                                                    *)
LEMMA OneSession ==
    ASSUME TypeOK, NEW c \in Conn, NEW r \in ConnState, conn' = [conn EXCEPT ![c] = r]
    PROVE  /\ OpenConns' = IF r.open THEN OpenConns \cup {c} ELSE OpenConns \ {c}
           /\ Stages' = [Stages EXCEPT ![c] = StageOf(r.pc)]
           /\ Grants' = [Grants EXCEPT ![c] = [peer |-> r.node, scope |-> r.scope]]
<1> USE DEF TypeOK, ConnState
<1>1. \A d \in Conn : conn'[d] = IF d = c THEN r ELSE conn[d]
  OBVIOUS
<1>2. OpenConns' = IF r.open THEN OpenConns \cup {c} ELSE OpenConns \ {c}
  BY <1>1 DEF OpenConns
<1>3. Stages' = [Stages EXCEPT ![c] = StageOf(r.pc)]
  BY <1>1 DEF Stages
<1>4. Grants' = [Grants EXCEPT ![c] = [peer |-> r.node, scope |-> r.scope]]
  BY <1>1 DEF Grants
<1> QED
  BY <1>2, <1>3, <1>4

(* A connection that keeps its peer and scope keeps its grant. *)
LEMMA SameGrant ==
    ASSUME TypeOK, NEW c \in Conn, NEW r \in ConnState, conn' = [conn EXCEPT ![c] = r],
           r.node = conn[c].node, r.scope = conn[c].scope
    PROVE  Grants' = Grants
<1>1. \A d \in Conn : conn'[d].node = conn[d].node /\ conn'[d].scope = conn[d].scope
  BY DEF TypeOK
<1> QED
  BY <1>1 DEF Grants

(* A step that leaves the connections and the two maps alone is invisible. *)
LEMMA Invisible == ASSUME UNCHANGED <<connections, peerScopes, conn>> PROVE UNCHANGED M!vars
BY DEF M!vars, OpenConns, Stages, Grants

(* A step that closes a connection and changes nothing else is a Break, or  *)
(* nothing when the connection was closed before.                           *)
LEMMA CloseStep ==
    ASSUME TypeOK, NEW c \in Conn, NEW r \in ConnState, conn' = [conn EXCEPT ![c] = r],
           ~r.open, StageOf(r.pc) = StageOf(conn[c].pc),
           r.node = conn[c].node, r.scope = conn[c].scope,
           UNCHANGED <<connections, peerScopes>>
    PROVE  [M!Next]_(M!vars)
<1>1. OpenConns' = OpenConns \ {c}
  BY OneSession
<1>2. Stages' = Stages /\ Grants' = Grants
  BY OneSession DEF Stages, Grants
<1>3. CASE c \in OpenConns
  <2>1. M!Break(c)
    BY <1>1, <1>2, <1>3 DEF M!Break
  <2> QED
    BY <2>1 DEF M!Next
<1>4. CASE c \notin OpenConns
  BY <1>1, <1>2, <1>4 DEF M!vars
<1> QED
  BY <1>3, <1>4

(* dropConnection makes its peer leave, or changes neither map when a newer *)
(* connection took the place of c; cs differs from conn in ended loops only. *)
LEMMA DropRefines ==
    ASSUME TypeOK, NEW p \in Peer, NEW c \in Conn, NEW cs \in [Conn -> ConnState],
           \A d \in Conn : /\ cs[d].pc = conn[d].pc
                           /\ cs[d].node = conn[d].node
                           /\ cs[d].scope = conn[d].scope
                           /\ cs[d].open = conn[d].open,
           DropConnection(p, c, cs)
    PROVE  [M!Next]_(M!vars)
<1> USE NoConnAssumption DEF TypeOK
<1>1. CASE connections[p] = c
  <2>1. \A d \in Conn : /\ conn'[d].pc = conn[d].pc
                        /\ conn'[d].node = conn[d].node
                        /\ conn'[d].scope = conn[d].scope
                        /\ conn'[d].open <=> (conn[d].open /\ d # c)
    BY <1>1 DEF DropConnection, ConnState
  <2>2. OpenConns' = OpenConns \ {c} /\ Stages' = Stages /\ Grants' = Grants
    BY <2>1 DEF OpenConns, Stages, Grants
  <2>3. M!Leave(p)
    BY <1>1, <2>2 DEF M!Leave, DropConnection
  <2> QED
    BY <2>3 DEF M!Next
<1>2. CASE connections[p] # c
  <2>1. conn' = cs /\ UNCHANGED <<connections, peerScopes>>
    BY <1>2 DEF DropConnection
  <2>2. OpenConns' = OpenConns /\ Stages' = Stages /\ Grants' = Grants
    BY <2>1 DEF OpenConns, Stages, Grants
  <2> QED
    BY <2>1, <2>2 DEF M!vars
<1> QED
  BY <1>1, <1>2

(* Every step of the Carrier is a step of Membership, or none. *)
LEMMA RefineStep == ASSUME NEW held, Inv, ConnectionStep(held) PROVE [M!Next]_(M!vars)
<1> USE NoPeerAssumption, NoConnAssumption DEF Inv, TypeOK
<1>1. ASSUME NEW p \in Peer, LeaveCluster(p) PROVE [M!Next]_(M!vars)
  <2> DEFINE c == connections[p]
             r == [conn[c] EXCEPT !.open = FALSE]
  <2>1. c \in Conn
    BY <1>1 DEF LeaveCluster, IsConnected
  <2>2. r \in ConnState /\ ~r.open /\ r.pc = conn[c].pc
        /\ r.node = conn[c].node /\ r.scope = conn[c].scope
    BY <2>1, RecordUpdates
  <2>3. conn' = [conn EXCEPT ![c] = r]
    BY <1>1 DEF LeaveCluster
  <2> HIDE DEF r
  <2>4. OpenConns' = OpenConns \ {c} /\ Stages' = Stages /\ Grants' = Grants
    BY <2>1, <2>2, <2>3, OneSession DEF Stages, Grants
  <2>5. M!Leave(p)
    BY <1>1, <2>4 DEF M!Leave, LeaveCluster, IsConnected
  <2> QED
    BY <2>5 DEF M!Next
<1>2. ASSUME NEW p \in Peer, RemoveNode(p) PROVE [M!Next]_(M!vars)
  <2>1. \A d \in Conn : /\ conn'[d].pc = conn[d].pc
                        /\ conn'[d].node = conn[d].node
                        /\ conn'[d].scope = conn[d].scope
                        /\ conn'[d].open <=> (conn[d].open /\ d # connections[p])
    BY <1>2 DEF RemoveNode, ConnState
  <2>2. /\ OpenConns' = OpenConns \ {connections[p]}
        /\ Stages' = Stages /\ Grants' = Grants
    BY <2>1 DEF OpenConns, Stages, Grants
  <2>3. CASE IsConnected(p)
    <3>1. M!Leave(p)
      BY <1>2, <2>2, <2>3 DEF M!Leave, RemoveNode, IsConnected
    <3> QED
      BY <3>1 DEF M!Next
  <2>4. CASE ~IsConnected(p)
    <3>1. peerScopes[p] = "none" /\ connections[p] = NoConn
      BY <2>4 DEF MapsAgree, IsConnected
    <3>2. OpenConns' = OpenConns
      BY <2>2, <3>1 DEF OpenConns
    <3>3. UNCHANGED <<connections, peerScopes>>
      BY <1>2, <3>1 DEF RemoveNode
    <3> QED
      BY <2>2, <3>2, <3>3 DEF M!vars
  <2> QED
    BY <2>3, <2>4
<1>3. ASSUME NEW c \in Conn,
             \/ HandleIncomingConn(c, held) \/ OpenPeerChannel(c, held)
             \/ DialBootstrapAddr(c, held)
      PROVE  [M!Next]_(M!vars)
  <2>1. PICK kind \in {"in", "dial", "boot"} : Open(c, kind, held)
    BY <1>3 DEF HandleIncomingConn, OpenPeerChannel, DialBootstrapAddr
  <2> DEFINE r == Opened(kind)
  <2>2. /\ r \in ConnState /\ r.open /\ StageOf(r.pc) = "new"
        /\ [peer |-> r.node, scope |-> r.scope] = M!NoGrant
    BY DEF Opened, Unused, ConnState, Scope, StageOf, M!NoGrant
  <2>3. conn' = [conn EXCEPT ![c] = r] /\ UNCHANGED <<connections, peerScopes>>
    BY <2>1 DEF Open
  <2> HIDE DEF r
  <2>4. /\ OpenConns' = OpenConns \cup {c}
        /\ Stages' = [Stages EXCEPT ![c] = "new"]
        /\ Grants' = [Grants EXCEPT ![c] = M!NoGrant]
    BY <2>2, <2>3, OneSession
  <2>5. Stages[c] = "over" /\ c \notin OpenConns /\ \A p \in Peer : connections[p] # c
    BY <2>1 DEF Open, Free, Stages, OpenConns, StageOf
  <2>6. M!Begin(c)
    BY <2>3, <2>4, <2>5 DEF M!Begin
  <2> QED
    BY <2>6 DEF M!Next
<1>4. ASSUME NEW c \in Conn, ConnBreaks(c) PROVE [M!Next]_(M!vars)
  <2> DEFINE r == [conn[c] EXCEPT !.open = FALSE]
  <2>1. r \in ConnState /\ ~r.open /\ r.pc = conn[c].pc
        /\ r.node = conn[c].node /\ r.scope = conn[c].scope
    BY DEF ConnState
  <2>2. conn' = [conn EXCEPT ![c] = r] /\ UNCHANGED <<connections, peerScopes>>
    BY <1>4 DEF ConnBreaks
  <2> HIDE DEF r
  <2> QED
    BY <2>1, <2>2, CloseStep
<1>5. ASSUME NEW c \in Conn, AuthFails(c) PROVE [M!Next]_(M!vars)
  <2> DEFINE r == [conn[c] EXCEPT !.pc = "done", !.open = FALSE]
  <2>1. /\ r \in ConnState /\ ~r.open /\ StageOf(r.pc) = "over"
        /\ r.node = conn[c].node /\ r.scope = conn[c].scope
    BY RecordUpdates DEF StageOf
  <2>2. conn' = [conn EXCEPT ![c] = r] /\ UNCHANGED <<connections, peerScopes>>
    BY <1>5 DEF AuthFails
  <2> HIDE DEF r
  <2>3. /\ OpenConns' = OpenConns \ {c}
        /\ Stages' = [Stages EXCEPT ![c] = "over"]
        /\ Grants' = Grants
    <3>1. /\ OpenConns' = IF r.open THEN OpenConns \cup {c} ELSE OpenConns \ {c}
          /\ Stages' = [Stages EXCEPT ![c] = StageOf(r.pc)]
      BY <2>1, <2>2, OneSession
    <3>2. Grants' = Grants
      BY <2>1, <2>2, SameGrant
    <3> QED
      BY <2>1, <3>1, <3>2, Zenon
  <2>4. Stages[c] = "new"
    BY <1>5 DEF AuthFails, Stages, StageOf
  <2>5. M!Refuse(c)
    BY <2>2, <2>3, <2>4 DEF M!Refuse
  <2> QED
    BY <2>5 DEF M!Next
<1>6. ASSUME NEW c \in Conn, NEW p \in Peer, NEW s \in Granted, PeerVerified(c, p, s)
      PROVE  [M!Next]_(M!vars)
  <2>1. Stages[c] = "new" /\ c \in OpenConns
    BY <1>6 DEF PeerVerified, Stages, StageOf, OpenConns
  <2>2. UNCHANGED <<connections, peerScopes>>
    BY <1>6 DEF PeerVerified
  <2>3. CASE conn[c].kind = "boot" /\ IsConnected(p)
    <3> DEFINE r == [conn[c] EXCEPT !.pc = "done", !.open = FALSE]
    <3>1. /\ r \in ConnState /\ ~r.open /\ StageOf(r.pc) = "over"
          /\ r.node = conn[c].node /\ r.scope = conn[c].scope
      BY RecordUpdates DEF StageOf
    <3>2. conn' = [conn EXCEPT ![c] = r]
      BY <1>6, <2>3, Zenon DEF PeerVerified
    <3> HIDE DEF r
    <3>3. /\ OpenConns' = OpenConns \ {c}
          /\ Stages' = [Stages EXCEPT ![c] = "over"]
          /\ Grants' = Grants
      <4>1. /\ OpenConns' = IF r.open THEN OpenConns \cup {c} ELSE OpenConns \ {c}
            /\ Stages' = [Stages EXCEPT ![c] = StageOf(r.pc)]
        BY <3>1, <3>2, OneSession
      <4>2. Grants' = Grants
        BY <3>1, <3>2, SameGrant
      <4> QED
        BY <3>1, <4>1, <4>2, Zenon
    <3>4. M!Refuse(c)
      BY <2>1, <2>2, <3>3 DEF M!Refuse
    <3> QED
      BY <3>4 DEF M!Next
  <2>4. CASE ~(conn[c].kind = "boot" /\ IsConnected(p))
    <3> DEFINE r == [conn[c] EXCEPT !.pc = "verified", !.node = p, !.scope = s]
    <3>1. /\ r \in ConnState /\ r.open /\ StageOf(r.pc) = "granted"
          /\ r.node = p /\ r.scope = s
      <4>1. /\ r \in ConnState /\ r.open = conn[c].open /\ r.pc = "verified"
            /\ r.node = p /\ r.scope = s
        <5>1. conn[c] \in ConnState
          OBVIOUS
        <5>2. r \in ConnState
          BY <5>1, GrantedAssumption DEF ConnState
        <5>3. r.open = conn[c].open /\ r.pc = "verified" /\ r.node = p /\ r.scope = s
          BY <5>1 DEF ConnState
        <5> QED
          BY <5>2, <5>3
      <4>2. conn[c].open
        BY <1>6 DEF PeerVerified
      <4>3. StageOf("verified") = "granted"
        BY DEF StageOf
      <4> QED
        BY <4>1, <4>2, <4>3, Zenon
    <3>2. conn' = [conn EXCEPT ![c] = r]
      BY <1>6, <2>4, Zenon DEF PeerVerified
    <3> HIDE DEF r
    <3>3. /\ OpenConns' = OpenConns
          /\ Stages' = [Stages EXCEPT ![c] = "granted"]
          /\ Grants' = [Grants EXCEPT ![c] = [peer |-> p, scope |-> s]]
      <4>1. /\ OpenConns' = IF r.open THEN OpenConns \cup {c} ELSE OpenConns \ {c}
            /\ Stages' = [Stages EXCEPT ![c] = StageOf(r.pc)]
            /\ Grants' = [Grants EXCEPT ![c] = [peer |-> r.node, scope |-> r.scope]]
        BY <3>1, <3>2, OneSession
      <4>2. OpenConns' = OpenConns
        BY <2>1, <3>1, <4>1
      <4> QED
        BY <3>1, <4>1, <4>2, Zenon
    <3>4. M!Authenticate(c, p, s)
      BY <2>1, <2>2, <3>3 DEF M!Authenticate
    <3> QED
      BY <3>4 DEF M!Next
  <2> QED
    BY <2>3, <2>4
<1>7. ASSUME NEW c \in Conn, RegisterInRegistry(c) PROVE [M!Next]_(M!vars)
  <2>1. \A d \in Conn : /\ StageOf(conn'[d].pc) = StageOf(conn[d].pc)
                        /\ conn'[d].node = conn[d].node
                        /\ conn'[d].scope = conn[d].scope
                        /\ conn'[d].open = conn[d].open
    BY <1>7 DEF RegisterInRegistry, ConnState, StageOf
  <2>2. OpenConns' = OpenConns /\ Stages' = Stages /\ Grants' = Grants
    BY <2>1 DEF OpenConns, Stages, Grants
  <2> QED
    BY <1>7, <2>2 DEF RegisterInRegistry, M!vars
<1>8. ASSUME NEW c \in Conn, RegisterConnection(c) PROVE [M!Next]_(M!vars)
  <2> DEFINE r == [conn[c] EXCEPT !.pc = "mapped"]
  <2>1. /\ r \in ConnState /\ r.open = conn[c].open /\ StageOf(r.pc) = "over"
        /\ r.node = conn[c].node /\ r.scope = conn[c].scope
    BY RecordUpdates DEF StageOf
  <2>2. conn' = [conn EXCEPT ![c] = r]
    BY <1>8 DEF RegisterConnection
  <2> HIDE DEF r
  <2>3. /\ OpenConns' = OpenConns
        /\ Stages' = [Stages EXCEPT ![c] = "over"]
        /\ Grants' = Grants
    <3>1. /\ OpenConns' = IF r.open THEN OpenConns \cup {c} ELSE OpenConns \ {c}
          /\ Stages' = [Stages EXCEPT ![c] = StageOf(r.pc)]
      BY <2>1, <2>2, OneSession
    <3>2. Grants' = Grants
      BY <2>1, <2>2, SameGrant
    <3>3. OpenConns' = OpenConns
      BY <2>1, <3>1 DEF OpenConns
    <3> QED
      BY <2>1, <3>1, <3>2, <3>3, Zenon
  <2>4. /\ Stages[c] = "granted"
        /\ Grants[c].peer = conn[c].node /\ Grants[c].scope = conn[c].scope
    BY <1>8 DEF RegisterConnection, Stages, StageOf, Grants
  <2>5. M!Admit(c)
    BY <1>8, <2>3, <2>4 DEF M!Admit, RegisterConnection
  <2> QED
    BY <2>5 DEF M!Next
<1>9. ASSUME NEW c \in Conn, StartConnectionLoops(c) PROVE [M!Next]_(M!vars)
  <2>1. \A d \in Conn : /\ StageOf(conn'[d].pc) = StageOf(conn[d].pc)
                        /\ conn'[d].node = conn[d].node
                        /\ conn'[d].scope = conn[d].scope
                        /\ conn'[d].open = conn[d].open
    BY <1>9 DEF StartConnectionLoops, ConnState, StageOf
  <2>2. OpenConns' = OpenConns /\ Stages' = Stages /\ Grants' = Grants
    BY <2>1 DEF OpenConns, Stages, Grants
  <2> QED
    BY <1>9, <2>2 DEF StartConnectionLoops, M!vars
<1>10. ASSUME NEW c \in Conn, WriteLocalAuthFails(c) PROVE [M!Next]_(M!vars)
  <2> DEFINE r == [conn[c] EXCEPT !.pc = "done", !.open = FALSE]
  <2>1. /\ r \in ConnState /\ ~r.open /\ StageOf(r.pc) = StageOf(conn[c].pc)
        /\ r.node = conn[c].node /\ r.scope = conn[c].scope
    BY <1>10, RecordUpdates DEF WriteLocalAuthFails, StageOf
  <2>2. conn' = [conn EXCEPT ![c] = r] /\ UNCHANGED <<connections, peerScopes>>
    BY <1>10 DEF WriteLocalAuthFails
  <2> HIDE DEF r
  <2> QED
    BY <2>1, <2>2, CloseStep
<1>11. ASSUME NEW c \in Conn, StreamLoopEnds(c) PROVE [M!Next]_(M!vars)
  <2> DEFINE cs == [conn EXCEPT ![c].streams = FALSE]
  <2>1. cs \in [Conn -> ConnState]
    BY ConnTypes
  <2>2. \A d \in Conn : /\ cs[d].pc = conn[d].pc /\ cs[d].node = conn[d].node
                        /\ cs[d].scope = conn[d].scope /\ cs[d].open = conn[d].open
    BY DEF ConnState
  <2>3. conn[c].node \in Peer /\ DropConnection(conn[c].node, c, cs)
    BY <1>11 DEF StreamLoopEnds, LoopsAfterSetUp
  <2> HIDE DEF cs
  <2> QED
    BY <2>1, <2>2, <2>3, DropRefines
<1>12. ASSUME NEW c \in Conn, DatagramLoopEnds(c) PROVE [M!Next]_(M!vars)
  <2> DEFINE cs == [conn EXCEPT ![c].datagrams = FALSE]
  <2>1. cs \in [Conn -> ConnState]
    BY ConnTypes
  <2>2. \A d \in Conn : /\ cs[d].pc = conn[d].pc /\ cs[d].node = conn[d].node
                        /\ cs[d].scope = conn[d].scope /\ cs[d].open = conn[d].open
    BY DEF ConnState
  <2>3. conn[c].node \in Peer /\ DropConnection(conn[c].node, c, cs)
    BY <1>12 DEF DatagramLoopEnds, LoopsAfterSetUp
  <2> HIDE DEF cs
  <2> QED
    BY <2>1, <2>2, <2>3, DropRefines
<1>13. ASSUME NEW m \in Msg, Handle(m) \/ \E c \in Conn : Receive(c, m) PROVE [M!Next]_(M!vars)
  <2>1. UNCHANGED <<connections, peerScopes, conn>>
    BY <1>13
    DEF Handle, DiscardMessage, MarkPeerSeen, DispatchMessage, HandlerReturns,
        HandleHeartbeatMessage, Receive, AcceptStream, ReceiveDatagram
  <2> QED
    BY <2>1, Invisible
<1> QED
  BY <1>1, <1>2, <1>3, <1>4, <1>5, <1>6, <1>7, <1>8, <1>9, <1>10, <1>11, <1>12, <1>13
  DEF ConnectionStep, Callers, SetUp

(* Initially nobody is a member. *)
LEMMA InitRefines == Init => M!Init
<1> SUFFICES ASSUME Init PROVE M!Init
  OBVIOUS
<1>1. \A c \in Conn : /\ ~conn[c].open /\ StageOf(conn[c].pc) = "over"
                      /\ [peer |-> conn[c].node, scope |-> conn[c].scope] = M!NoGrant
  BY DEF Init, Unused, StageOf, M!NoGrant
<1>2. OpenConns = {} /\ Stages = [c \in Conn |-> "over"] /\ Grants = [c \in Conn |-> M!NoGrant]
  BY <1>1 DEF OpenConns, Stages, Grants
<1> QED
  BY <1>2 DEF Init, M!Init

(* The Carrier implements Membership: in every interleaving a peer is a      *)
(* member only through a connection that was authenticated as that peer and  *)
(* registered once, with the scope granted then, until that connection is    *)
(* closed or a newer one of the same peer takes its place.                   *)
THEOREM CarrierImplementsMembership == Spec => ImplementsMembership
<1>1. Inv /\ [Next]_vars => [M!Next]_(M!vars)
  <2> SUFFICES ASSUME Inv, [Next]_vars PROVE [M!Next]_(M!vars)
    OBVIOUS
  <2>1. CASE ConnectionStep({})
    BY <2>1, RefineStep
  <2>2. CASE TimeoutElapses \/ UNCHANGED vars
    BY <2>2, Invisible DEF TimeoutElapses, vars
  <2> QED
    BY <2>1, <2>2 DEF Next
<1> QED
  BY <1>1, InitRefines, InvAlways, PTL DEF Spec, ImplementsMembership, M!Spec
=============================================================================
