------------------------- MODULE CarrierLoopsProofs -------------------------
(***************************************************************************)
(* The Carrier together with its background loops, for any number of       *)
(* peers, connections and messages: the reconnect and the heartbeat loop   *)
(* side by side, and heartbeats that report other nodes.  The Carrier's own steps are those  *)
(* of CarrierProofs; added is what a loop does with what it read before.   *)
(***************************************************************************)
EXTENDS CarrierLoops, CarrierGossip, CarrierProofs

(* What one step of the Carrier keeps, whatever loops run beside it. *)
StepKeeps ==
    /\ Inv'
    /\ [M!Next]_(M!vars)
    /\ [\A p \in Peer : IsConnected(p) /\ connections'[p] = NoConn
                           => ~conn'[connections[p]].open]_vars

(* The steps of the Carrier's own goroutines and callers. *)
LEMMA OwnStepKeeps == ASSUME NEW held, Inv, ConnectionStep(held) PROVE StepKeeps
<1>1. TypeOK /\ MessageOwned
  BY DEF Inv
<1>2. Inv'
  BY <1>1, TypeStep, InvStep
<1> QED
  BY <1>1, <1>2, RefineStep, ClosesStep DEF StepKeeps

(* A step that changes at most the registry. *)
LEMMA RegistryStepKeeps ==
    ASSUME Inv, registry' \in [Peer -> Entry],
           UNCHANGED <<connections, peerScopes, conn, msgs>>
    PROVE  StepKeeps
<1>1. Inv'
  BY DEF Inv, TypeOK, SetUpKnowsPeer, LoopsAfterSetUp, MessageOwned, MapsAgree, IsConnected
<1>2. UNCHANGED M!vars
  BY Invisible
<1> QED
  BY <1>1, <1>2 DEF StepKeeps, IsConnected

-----------------------------------------------------------------------------
(* The reconnect loop *)

(* The loop only dials, and a dial opens a connection like any other. *)
LEMMA RetryKeeps == ASSUME Inv, NEW held, ReconnectLoop(held) PROVE StepKeeps
<1>1. ASSUME NEW c \in Conn, RetryDials(c, held) PROVE StepKeeps
  <2>1. ConnectionStep(held)
    BY <1>1 DEF RetryDials, ConnectionStep, Callers, OpenPeerChannel, Open
  <2> QED
    BY <2>1, OwnStepKeeps
<1>2. ASSUME UNCHANGED vars PROVE StepKeeps
  BY <1>2, RegistryStepKeeps DEF vars, Inv, TypeOK
<1> QED
  BY <1>1, <1>2
  DEF ReconnectLoop, RetryTick, RetryNext, RetryDialFails, RetryReturns, RetryEnds, RetryStep

-----------------------------------------------------------------------------
(* The heartbeat loop *)

(* While it sends to a peer or fails it, the loop has one in hand, and the   *)
(* connection that it found.                                                 *)
InHand ==
    /\ hb \in HbState
    /\ hb.pc \in {"sending", "failing", "marking"} => hb.peer \in Peer
    /\ hb.pc \in {"sending", "failing"} => hb.conn \in Conn

(* The loop drops the connection that it found, if the peer still has it,    *)
(* and marks the peer as failed in a second step (markPeerFailed).           *)
LEMMA HeartbeatKeeps == ASSUME Inv, InHand, HeartbeatLoop PROVE StepKeeps
<1>0. TypeOK /\ registry \in [Peer -> Entry] /\ conn \in [Conn -> ConnState]
  BY DEF Inv, TypeOK
<1>1. ASSUME HeartbeatDrop PROVE StepKeeps
  <2>1. /\ hb.peer \in Peer /\ hb.conn \in Conn
        /\ DropConnection(hb.peer, hb.conn, conn) /\ UNCHANGED msgs
    BY <1>1 DEF HeartbeatDrop, InHand
  <2>2. TypeOK'
    BY <1>0, <2>1, DropTypes
  <2>3. Inv'
    BY <1>0, <2>1, <2>2, DropStep
  <2>4. [M!Next]_(M!vars)
    BY <1>0, <2>1, DropRefines
  <2>5. ASSUME NEW p \in Peer, IsConnected(p), connections'[p] = NoConn
        PROVE  ~conn'[connections[p]].open
    BY <1>0, <2>1, <2>5, NoConnAssumption DEF DropConnection, IsConnected, TypeOK, ConnState
  <2> QED
    BY <2>3, <2>4, <2>5 DEF StepKeeps
<1>2. ASSUME HeartbeatMarkFailed PROVE StepKeeps
  <2>1. SetStatus(registry, hb.peer, "failed") \in [Peer -> Entry]
    BY <1>0, RegistryTypes DEF Status
  <2> QED
    BY <1>2, <2>1, RegistryStepKeeps DEF HeartbeatMarkFailed
<1>3. ASSUME UNCHANGED vars PROVE StepKeeps
  BY <1>0, <1>3, RegistryStepKeeps DEF vars
<1> QED
  BY <1>1, <1>2, <1>3
  DEF HeartbeatLoop, HeartbeatTick, HeartbeatNext, HeartbeatSent, HeartbeatSendFails,
      HeartbeatPhaseEnds, HbStep

(* The loop always knows what it has in hand. *)
LEMMA InHandStep == ASSUME Inv, InHand, HeartbeatLoop PROVE InHand'
<1>0. /\ connections \in [Peer -> Conn \cup {NoConn}] /\ hb \in HbState
      /\ HbIdle \in HbState /\ HbIdle.pc = "idle"
  BY DEF Inv, TypeOK, InHand, HbIdle, HbState
<1>2. ASSUME hb' = HbContinue PROVE InHand'
  BY <1>0, <1>2 DEF InHand, HbContinue, HbState
<1>3. CASE HeartbeatTick
  BY <1>0, <1>3 DEF HeartbeatTick, HbStep, InHand, HbState
<1>4. ASSUME NEW p \in Peer, HeartbeatNext(p) PROVE InHand'
  <2>1. CASE ~IsConnected(p)
    BY <1>0, <1>4, <2>1 DEF HeartbeatNext, HbStep, InHand, HbState
  <2>2. CASE IsConnected(p)
    <3>1. connections[p] \in Conn
      BY <1>0, <2>2 DEF IsConnected
    <3>2. hb' = [hb EXCEPT !.pc = IF hb.phase = "send" THEN "sending" ELSE "failing",
                           !.todo = hb.todo \ {p}, !.peer = p, !.conn = connections[p]]
      BY <1>4, <2>2 DEF HeartbeatNext, HbStep
    <3> QED
      BY <1>0, <3>1, <3>2 DEF InHand, HbState
  <2> QED
    BY <2>1, <2>2
<1>5. CASE HeartbeatSendFails
  <2>1. hb.peer \in Peer /\ hb.pc = "sending"
    BY <1>5 DEF HeartbeatSendFails, InHand
  <2>2. CASE IsConnected(hb.peer)
    <3>1. connections[hb.peer] \in Conn
      BY <1>0, <2>1, <2>2 DEF IsConnected
    <3>2. hb' = [hb EXCEPT !.pc = "failing", !.conn = connections[hb.peer]]
      BY <1>5, <2>2 DEF HeartbeatSendFails, HbStep
    <3> QED
      BY <1>0, <2>1, <3>1, <3>2 DEF InHand, HbState
  <2>3. CASE ~IsConnected(hb.peer)
    BY <1>2, <1>5, <2>3 DEF HeartbeatSendFails, HbStep
  <2> QED
    BY <2>2, <2>3
<1>6. CASE HeartbeatDrop
  BY <1>0, <1>6 DEF HeartbeatDrop, InHand, HbState
<1>7. CASE HeartbeatPhaseEnds
  BY <1>0, <1>7 DEF HeartbeatPhaseEnds, HbStep, InHand, HbState
<1> QED
  BY <1>2, <1>3, <1>4, <1>5, <1>6, <1>7
  DEF HeartbeatLoop, HeartbeatSent, HeartbeatMarkFailed, HbStep

-----------------------------------------------------------------------------
(* Both loops *)

(* The Carrier's promises with both loops beside it (heartbeat.go): types,   *)
(* agreement of the maps, handlers only for authenticated peers, no loss of  *)
(* a newer connection, and the abstract Membership.  The reconnect loop      *)
(* dials on a registry that is out of date by then, and the heartbeat loop   *)
(* drops a connection that it looked up in an earlier critical section; a    *)
(* connection that was registered meanwhile stays.                           *)
THEOREM LoopsKeepPromises ==
    LSpec => /\ []TypeOK
             /\ []MapsAgree
             /\ []HandlersAuthenticated
             /\ UnmappedIsClosed
             /\ ImplementsMembership
<1>1. Inv /\ InHand /\ [LNext]_loopVars => StepKeeps /\ InHand'
  <2> SUFFICES ASSUME Inv, InHand, [LNext]_loopVars PROVE StepKeeps /\ InHand'
    OBVIOUS
  <2>1. UNCHANGED hb => InHand'
    BY DEF InHand
  <2>2. ASSUME TimeoutElapses PROVE StepKeeps
    <3>1. registry' \in [Peer -> Entry]
      BY <2>2, TimeoutStep DEF Inv, TypeOK
    <3> QED
      BY <2>2, <3>1, RegistryStepKeeps DEF TimeoutElapses
  <2>3. CASE UNCHANGED loopVars
    <3>1. StepKeeps
      BY <2>3, RegistryStepKeeps DEF loopVars, vars, Inv, TypeOK
    <3> QED
      BY <2>1, <2>3, <3>1 DEF loopVars
  <2>4. CASE HeartbeatLoop
    BY <2>4, HeartbeatKeeps, InHandStep
  <2>5. CASE ReconnectLoop({hb.conn}) /\ UNCHANGED hb
    BY <2>1, <2>5, RetryKeeps
  <2>6. CASE ConnectionStep({retry.conn, hb.conn}) /\ UNCHANGED hb
    BY <2>1, <2>6, OwnStepKeeps
  <2> QED
    BY <2>1, <2>2, <2>3, <2>4, <2>5, <2>6 DEF LNext
<1>2. LInit => Inv /\ InHand /\ M!Init
  <2>1. HbIdle \in HbState /\ HbIdle.pc = "idle"
    BY DEF HbIdle, HbState
  <2> QED
    BY <2>1, InitInv, InitRefines DEF LInit, InHand
<1>3. Inv => TypeOK /\ MapsAgree /\ HandlersAuthenticated
  BY DEF Inv, HandlersAuthenticated, LoopsAfterSetUp, MessageOwned
<1> QED
  BY <1>1, <1>2, <1>3, PTL DEF LSpec, StepKeeps, UnmappedIsClosed, ImplementsMembership, M!Spec

-----------------------------------------------------------------------------
(* Heartbeats that report other nodes *)

(* An entry of a peer that the node has had no contact with. *)
UnseenEntry(e) == e.status # "absent" => e.status = "disconnected" /\ e.lastSeen = "zero"

-----------------------------------------------------------------------------
(* The registry's methods change the entry of their own peer only            *)
(* (node_registry.go).                                                       *)
LEMMA OtherEntries ==
    ASSUME NEW r \in [Peer -> Entry], NEW p, NEW q \in Peer, q # p, NEW x
    PROVE  /\ SetStatus(r, p, x)[q] = r[q]
           /\ SetRole(r, p, x)[q] = r[q]
           /\ MarkedSeen(r, p)[q] = r[q]
           /\ RemoveEntry(r, p)[q] = r[q]
           /\ AddNode(r, p, x)[q] = r[q]
<1>1. UpdateLastSeen(r, p) \in [Peer -> Entry] /\ UpdateLastSeen(r, p)[q] = r[q]
  BY DEF UpdateLastSeen, LastSeen, Entry
<1>2. MarkedSeen(r, p)[q] = r[q]
  BY <1>1 DEF MarkedSeen, SetStatus
<1> QED
  BY <1>2 DEF SetStatus, SetRole, RemoveEntry, AddNode

(* What the methods make of a peer's own entry. *)
LEMMA OwnEntry ==
    ASSUME NEW r \in [Peer -> Entry], NEW p, NEW q \in Peer, NEW n
    PROVE  /\ SetStatus(r, p, "disconnected")[q].role = r[q].role
           /\ MarkedSeen(r, p)[q].role = r[q].role
           /\ UnseenEntry(r[q]) => UnseenEntry(SetStatus(r, p, "disconnected")[q])
           /\ RemoveEntry(r, q)[q] = Absent
           /\ AddNode(r, q, n)[q] = IF Known(r, q) THEN MergeNode(r[q], n) ELSE n
<1> USE DEF Entry
<1>1. /\ UpdateLastSeen(r, p) \in [Peer -> Entry]
      /\ UpdateLastSeen(r, p)[q].role = r[q].role
  BY DEF UpdateLastSeen, LastSeen
<1>2. MarkedSeen(r, p)[q].role = r[q].role
  BY <1>1 DEF MarkedSeen, SetStatus
<1>3. UnseenEntry(r[q]) => UnseenEntry(SetStatus(r, p, "disconnected")[q])
  BY DEF UnseenEntry, SetStatus, Known
<1> QED
  BY <1>2, <1>3 DEF SetStatus, RemoveEntry, AddNode

(* Merging an entry that says "server" or "client" never makes a server of a *)
(* client, and news of an unseen peer leave it unseen (mergeNode).           *)
LEMMA MergeEffects ==
    ASSUME NEW e, NEW n
    PROVE  /\ e.role = "client" /\ n.role \in {"server", "client"}
                 => MergeNode(e, n).role = "client"
           /\ UnseenEntry(e) /\ e.status # "absent" /\ UnseenEntry(n) /\ n.status # "absent"
                 => UnseenEntry(MergeNode(e, n))
BY DEF MergeNode, UnseenEntry

(* What one step of the Carrier does to a peer's entry: without a connection *)
(* that was authenticated as this peer it leaves an unseen entry unseen, and *)
(* without a message of this peer it makes no server of a client.            *)
LEMMA EntryStep ==
    ASSUME Inv, NEW held, ConnectionStep(held), NEW q \in Peer
    PROVE  /\ UnseenEntry(registry[q]) /\ (\A c \in Conn : conn[c].node # q)
                 => UnseenEntry(registry'[q])
           /\ \/ registry'[q].role = registry[q].role
              \/ registry[q].role = "client" => registry'[q].role = "client"
              \/ ~Known(registry, q) \/ ~Known(registry', q)
              \/ \E m \in Msg : msgs[m].pc = "seen" /\ conn[msgs[m].conn].node = q
<1> DEFINE Goal == /\ UnseenEntry(registry[q]) /\ (\A c \in Conn : conn[c].node # q)
                         => UnseenEntry(registry'[q])
                   /\ \/ registry'[q].role = registry[q].role
                      \/ registry[q].role = "client" => registry'[q].role = "client"
                      \/ ~Known(registry, q) \/ ~Known(registry', q)
                      \/ \E m \in Msg : msgs[m].pc = "seen" /\ conn[msgs[m].conn].node = q
<1>0. registry \in [Peer -> Entry]
  BY DEF Inv, TypeOK
<1>1. ASSUME registry' = registry PROVE Goal
  BY <1>1
<1>2. ASSUME NEW p, registry' = SetStatus(registry, p, "disconnected") PROVE Goal
  BY <1>0, <1>2, OwnEntry
<1>3. ASSUME NEW p \in Peer, RemoveNode(p) PROVE Goal
  <2>1. registry' = RemoveEntry(registry, p)
    BY <1>3 DEF RemoveNode
  <2>2. CASE p = q
    <3>1. registry'[q] = Absent
      BY <1>0, <2>1, <2>2, OwnEntry
    <3> QED
      BY <3>1 DEF Absent, UnseenEntry, Known
  <2>3. CASE p # q
    BY <1>0, <2>1, <2>3, OtherEntries
  <2> QED
    BY <2>2, <2>3
<1>4. ASSUME NEW c \in Conn, RegisterInRegistry(c) PROVE Goal
  <2> DEFINE n == [status |-> "connected", role |-> "server", lastSeen |-> "fresh"]
  <2>1. registry' = AddNode(registry, conn[c].node, n)
    BY <1>4 DEF RegisterInRegistry
  <2>0. n.role = "server"
    OBVIOUS
  <2> HIDE DEF n
  <2>2. CASE conn[c].node = q
    <3>1. Known(registry, q) => registry'[q] = MergeNode(registry[q], n)
      BY <1>0, <2>1, <2>2, OwnEntry
    <3> QED
      BY <2>0, <2>2, <3>1, MergeEffects
  <2>3. CASE conn[c].node # q
    <3>1. AddNode(registry, conn[c].node, n)[q] = registry[q]
      BY <1>0, <2>3, OtherEntries
    <3> QED
      BY <1>1, <2>1, <3>1
  <2> QED
    BY <2>2, <2>3
<1>5. ASSUME NEW m \in Msg, MarkPeerSeen(m) PROVE Goal
  <2>1. registry' = MarkedSeen(registry, conn[msgs[m].conn].node) /\ msgs[m].conn \in Conn
    BY <1>5 DEF MarkPeerSeen, Inv, MessageOwned
  <2> QED
    BY <1>0, <2>1, OwnEntry, OtherEntries
<1>6. ASSUME NEW m \in Msg, NEW role \in Role, HandleHeartbeatMessage(m, role) PROVE Goal
  <2> DEFINE p == conn[msgs[m].conn].node
  <2>1. /\ registry' = SetRole(MarkedSeen(registry, p), p, role)
        /\ msgs[m].pc = "seen" /\ msgs[m].conn \in Conn
    BY <1>6 DEF HandleHeartbeatMessage, Inv, MessageOwned
  <2>2. MarkedSeen(registry, p) \in [Peer -> Entry]
    BY <1>0, RegistryTypes
  <2>3. CASE p = q
    BY <2>1, <2>3
  <2>4. CASE p # q
    <3>1. MarkedSeen(registry, p)[q] = registry[q]
      BY <1>0, <2>4, OtherEntries
    <3>2. SetRole(MarkedSeen(registry, p), p, role)[q] = MarkedSeen(registry, p)[q]
      <4> HIDE DEF p
      <4> QED
        BY <2>2, <2>4 DEF SetRole
    <3> QED
      BY <2>1, <3>1, <3>2
  <2> QED
    BY <2>3, <2>4
<1>7. ASSUME NEW c \in Conn, StreamLoopEnds(c) \/ DatagramLoopEnds(c) PROVE Goal
  BY <1>1, <1>2, <1>7 DEF StreamLoopEnds, DatagramLoopEnds, DropConnection
<1>8. ASSUME NEW c \in Conn,
             \/ HandleIncomingConn(c, held) \/ OpenPeerChannel(c, held)
             \/ DialBootstrapAddr(c, held) \/ ConnBreaks(c)
      PROVE  Goal
  BY <1>1, <1>8 DEF HandleIncomingConn, OpenPeerChannel, DialBootstrapAddr, Open, ConnBreaks
<1>9. ASSUME NEW c \in Conn,
             \/ \E p \in Peer, s \in Granted : PeerVerified(c, p, s)
             \/ AuthFails(c) \/ RegisterConnection(c)
             \/ StartConnectionLoops(c) \/ WriteLocalAuthFails(c)
      PROVE  Goal
  BY <1>1, <1>9
  DEF PeerVerified, AuthFails, RegisterConnection, StartConnectionLoops, WriteLocalAuthFails
<1>10. ASSUME NEW m \in Msg,
              \/ DiscardMessage(m) \/ DispatchMessage(m) \/ HandlerReturns(m)
              \/ \E c \in Conn : Receive(c, m)
       PROVE  Goal
  BY <1>1, <1>10
  DEF DiscardMessage, DispatchMessage, HandlerReturns, Receive, AcceptStream, ReceiveDatagram
<1>11. ASSUME NEW p \in Peer, LeaveCluster(p) PROVE Goal
  BY <1>1, <1>11 DEF LeaveCluster
<1> QED
  BY <1>3, <1>4, <1>5, <1>6, <1>7, <1>8, <1>9, <1>10, <1>11
  DEF ConnectionStep, Callers, SetUp, Handle

(* A connection gets the name of a peer only by authentication. *)
LEMMA NodeStep ==
    ASSUME Inv, NEW held, ConnectionStep(held), NEW d \in Conn
    PROVE  conn'[d].node = conn[d].node \/ conn'[d].node = NoPeer \/ conn'[d].pc = "verified"
<1> DEFINE Goal == \/ conn'[d].node = conn[d].node \/ conn'[d].node = NoPeer
                   \/ conn'[d].pc = "verified"
<1> USE DEF Inv, TypeOK, ConnState
<1>1. ASSUME NEW p \in Peer, LeaveCluster(p) \/ RemoveNode(p) PROVE Goal
  BY <1>1 DEF LeaveCluster, RemoveNode
<1>2. ASSUME NEW c \in Conn,
             \/ HandleIncomingConn(c, held) \/ OpenPeerChannel(c, held)
             \/ DialBootstrapAddr(c, held)
      PROVE  Goal
  <2>1. PICK kind : conn' = [conn EXCEPT ![c] = Opened(kind)]
    BY <1>2 DEF HandleIncomingConn, OpenPeerChannel, DialBootstrapAddr, Open
  <2>2. Opened(kind).node = NoPeer
    BY DEF Opened, Unused
  <2> QED
    BY <2>1, <2>2
<1>3. ASSUME NEW c \in Conn, ConnBreaks(c) \/ AuthFails(c) \/ WriteLocalAuthFails(c) PROVE Goal
  BY <1>3 DEF ConnBreaks, AuthFails, WriteLocalAuthFails
<1>4. ASSUME NEW c \in Conn, NEW p \in Peer, NEW s \in Granted, PeerVerified(c, p, s) PROVE Goal
  BY <1>4 DEF PeerVerified
<1>5. ASSUME NEW c \in Conn,
             RegisterInRegistry(c) \/ RegisterConnection(c) \/ StartConnectionLoops(c)
      PROVE  Goal
  BY <1>5 DEF RegisterInRegistry, RegisterConnection, StartConnectionLoops
<1>6. ASSUME NEW c \in Conn, StreamLoopEnds(c) PROVE Goal
  BY <1>6 DEF StreamLoopEnds, DropConnection
<1>7. ASSUME NEW c \in Conn, DatagramLoopEnds(c) PROVE Goal
  BY <1>7 DEF DatagramLoopEnds, DropConnection
<1>8. ASSUME NEW m \in Msg, Handle(m) \/ \E c \in Conn : Receive(c, m) PROVE Goal
  BY <1>8
  DEF Handle, DiscardMessage, MarkPeerSeen, DispatchMessage, HandlerReturns,
      HandleHeartbeatMessage, Receive, AcceptStream, ReceiveDatagram
<1> QED
  BY <1>1, <1>2, <1>3, <1>4, <1>5, <1>6, <1>7, <1>8 DEF ConnectionStep, Callers, SetUp

-----------------------------------------------------------------------------
(***************************************************************************)
(* The inductive invariant.  That unmet peers are unseen is not inductive: *)
(* a merge writes back a copy of an entry that may be long out of date, so *)
(* the copies in hand must be unseen too; and the handlers that mark a     *)
(* peer as seen must know that the connection they serve was met.          *)
(***************************************************************************)
MetNodes == \A c \in Conn : conn[c].node \in Peer => conn[c].node \in met
UnmetUnseen == \A p \in Peer \ met : UnseenEntry(registry[p])
CopiesUnseen ==
    \A m \in Msg : merge[m].report # NoReport /\ merge[m].report.node \notin met
                      => UnseenEntry(merge[m].copy)
MergeType == merge \in [Msg -> MergeState]
GossipInv == Inv /\ MergeType /\ MetNodes /\ UnmetUnseen /\ CopiesUnseen

(* A dial of connectDiscoveredPeers opens a connection like any other. *)
LEMMA DialIsOpen ==
    ASSUME NEW m \in Msg, NEW c \in Conn, ConnectDials(m, c)
    PROVE  ConnectionStep({connect[k].conn : k \in Msg})
BY DEF ConnectDials, ConnectionStep, Callers, OpenPeerChannel, Open

(* The steps of a merge touch nothing but the registry and their message. *)
LEMMA MergeKeepsInv ==
    ASSUME Inv, TypeOK', NEW m \in Msg, UNCHANGED <<connections, peerScopes, conn>>,
           msgs'[m].pc # "idle" => msgs[m].pc # "idle" /\ msgs'[m].conn = msgs[m].conn,
           \A n \in Msg \ {m} : msgs'[n] = msgs[n]
    PROVE  Inv'
BY DEF Inv, SetUpKnowsPeer, LoopsAfterSetUp, MessageOwned, MapsAgree, IsConnected

(* The entry that a merge adds is of its type, and unseen when its peer has  *)
(* not been met.                                                             *)
LEMMA MergedEntry ==
    ASSUME GossipInv, NEW m \in Msg, merge[m].report # NoReport
    PROVE  LET r == merge[m].report
               n == IF merge[m].copy.status = "absent" THEN NewNode(r)
                                                       ELSE [merge[m].copy EXCEPT !.role = r.role]
           IN /\ r \in Report /\ r.node \in Peer
              /\ n \in Entry /\ n.status # "absent"
              /\ r.node \notin met => UnseenEntry(n)
<1> DEFINE r == merge[m].report
           e == merge[m].copy
<1>1. merge[m] \in MergeState /\ r \in Report /\ e \in Entry
  BY DEF GossipInv, MergeType, MergeState
<1>2. r.node \in Peer /\ r.role \in Role
  BY <1>1 DEF Report
<1>3. r.node \notin met => UnseenEntry(e)
  BY DEF GossipInv, CopiesUnseen
<1>4. CASE e.status = "absent"
  <2>1. NewNode(r) \in Entry /\ NewNode(r).status # "absent" /\ UnseenEntry(NewNode(r))
    BY <1>2 DEF NewNode, Entry, Status, LastSeen, UnseenEntry
  <2> QED
    BY <1>1, <1>2, <1>4, <2>1
<1>5. CASE e.status # "absent"
  <2> DEFINE n == [e EXCEPT !.role = r.role]
  <2>1. n \in Entry /\ n.status = e.status /\ n.lastSeen = e.lastSeen
    BY <1>1, <1>2 DEF Entry
  <2> HIDE DEF n
  <2>2. n.status # "absent" /\ (r.node \notin met => UnseenEntry(n))
    BY <1>3, <1>5, <2>1 DEF UnseenEntry
  <2> QED
    BY <1>1, <1>2, <1>5, <2>1, <2>2 DEF n
<1> QED
  BY <1>4, <1>5

(* Every step keeps the Carrier's own invariant. *)
LEMMA GossipKeepsInv ==
    ASSUME GossipInv, [GNext]_gossipVars
    PROVE  Inv'
<1>0. TypeOK /\ Inv /\ MessageOwned
  BY DEF GossipInv, Inv
<1>1. ASSUME NEW held, ConnectionStep(held) PROVE Inv'
  BY <1>0, <1>1, TypeStep, InvStep
<1>2. ASSUME UNCHANGED vars PROVE Inv'
  BY <1>0, <1>2
  DEF vars, Inv, TypeOK, SetUpKnowsPeer, LoopsAfterSetUp, MessageOwned, MapsAgree, IsConnected
<1>3. CarrierStep => Inv'
  BY <1>1 DEF CarrierStep
<1>4. GossipTimeout => Inv'
  BY <1>0, TimeoutStep DEF GossipTimeout
<1>5. ASSUME NEW m \in Msg, NEW role \in Role, NEW reports, HandleGossip(m, role, reports)
      PROVE  Inv'
  <2> DEFINE p == conn[msgs[m].conn].node
  <2>1. msgs' \in [Msg -> MsgState]
    BY <1>0, <1>5 DEF HandleGossip, TypeOK, MsgState
  <2>2. registry' \in [Peer -> Entry]
    <3>1. registry' = SetRole(MarkedSeen(registry, p), p, role)
      BY <1>5 DEF HandleGossip
    <3>2. MarkedSeen(registry, p) \in [Peer -> Entry]
      BY <1>0, RegistryTypes DEF TypeOK
    <3> QED
      BY <3>1, <3>2, RegistryTypes
  <2>3. TypeOK' /\ UNCHANGED <<connections, peerScopes, conn>>
    BY <1>0, <1>5, <2>1, <2>2 DEF HandleGossip, TypeOK
  <2>4. /\ msgs[m].pc # "idle" /\ msgs'[m].conn = msgs[m].conn
        /\ \A n \in Msg \ {m} : msgs'[n] = msgs[n]
    BY <1>0, <1>5 DEF HandleGossip, TypeOK, MsgState
  <2> QED
    BY <1>0, <2>3, <2>4, MergeKeepsInv
<1>6. ASSUME NEW m \in Msg, MergeAdd(m) PROVE Inv'
  <2> DEFINE r == merge[m].report
             n == IF merge[m].copy.status = "absent" THEN NewNode(r)
                                                     ELSE [merge[m].copy EXCEPT !.role = r.role]
  <2>1. n \in Entry /\ registry' = AddNode(registry, r.node, n)
    BY <1>6, MergedEntry DEF MergeAdd
  <2> HIDE DEF n
  <2>2. registry' \in [Peer -> Entry]
    BY <1>0, <2>1, RegistryTypes DEF TypeOK
  <2>3. UNCHANGED <<connections, peerScopes, conn, msgs>>
    BY <1>6 DEF MergeAdd
  <2>4. TypeOK'
    BY <1>0, <2>2, <2>3 DEF TypeOK
  <2> QED
    BY <1>0, <2>3, <2>4, MergeKeepsInv
<1>7. ASSUME NEW m \in Msg, MergeEnds(m) PROVE Inv'
  <2>1. NoMsg \in MsgState /\ NoMsg.pc = "idle"
    BY DEF NoMsg, MsgState, Scope
  <2>2. TypeOK' /\ UNCHANGED <<connections, peerScopes, conn>>
    BY <1>0, <1>7, <2>1 DEF MergeEnds, TypeOK
  <2>3. msgs'[m].pc = "idle" /\ \A n \in Msg \ {m} : msgs'[n] = msgs[n]
    BY <1>0, <1>7, <2>1 DEF MergeEnds, TypeOK
  <2> QED
    BY <1>0, <2>2, <2>3, MergeKeepsInv
<1>8. ASSUME NEW m \in Msg, NEW c \in Conn, ConnectDials(m, c) PROVE Inv'
  BY <1>1, <1>8, DialIsOpen
<1>9. ASSUME NEW m \in Msg,
             \/ \E r \in merge[m].todo : MergeGet(m, r)
             \/ \E p \in connect[m].todo : ConnectNext(m, p)
             \/ ConnectReturns(m)
      PROVE  Inv'
  BY <1>2, <1>9 DEF MergeGet, ConnectNext, ConnectReturns
<1> QED
  BY <1>2, <1>3, <1>4, <1>5, <1>6, <1>7, <1>8, <1>9 DEF GNext, GossipStep, gossipVars

(* Every step keeps the type of the merges. *)
LEMMA MergeTypeStep == ASSUME GossipInv, [GNext]_gossipVars PROVE MergeType'
<1>0. registry \in [Peer -> Entry] /\ merge \in [Msg -> MergeState]
  BY DEF GossipInv, Inv, TypeOK, MergeType
<1>1. ASSUME UNCHANGED merge PROVE MergeType'
  BY <1>0, <1>1 DEF MergeType
<1>2. CASE GossipTimeout
  <2>1. \A e \in Entry : Aged(e) \in Entry
    BY DEF Aged, Entry, LastSeen
  <2>2. ASSUME NEW m \in Msg PROVE [merge[m] EXCEPT !.copy = Aged(@)] \in MergeState
    <3>1. merge[m] \in MergeState /\ Aged(merge[m].copy) \in Entry
      BY <1>0, <2>1 DEF MergeState
    <3>2. \A e \in Entry : [merge[m] EXCEPT !.copy = e] \in MergeState
      BY <3>1 DEF MergeState
    <3> QED
      BY <3>1, <3>2
  <2>3. merge' = [m \in Msg |-> [merge[m] EXCEPT !.copy = Aged(@)]]
    BY <1>2 DEF GossipTimeout
  <2> QED
    BY <2>2, <2>3 DEF MergeType
<1>3. ASSUME NEW m \in Msg, NEW role \in Role, NEW reports \in Gossip,
             HandleGossip(m, role, reports)
      PROVE  MergeType'
  <2>1. [merge[m] EXCEPT !.todo = reports] \in MergeState
    BY <1>0, GossipAssumption DEF MergeState
  <2> QED
    BY <1>0, <1>3, <2>1 DEF HandleGossip, MergeType
<1>4. ASSUME NEW m \in Msg, NEW r \in merge[m].todo, MergeGet(m, r) PROVE MergeType'
  <2>1. r \in Report /\ merge[m].todo \ {r} \subseteq Report /\ registry[r.node] \in Entry
    BY <1>0 DEF MergeState, Report
  <2>2. [merge[m] EXCEPT !.todo = @ \ {r}, !.report = r, !.copy = registry[r.node]] \in MergeState
    BY <1>0, <2>1 DEF MergeState
  <2> QED
    BY <1>0, <1>4, <2>2 DEF MergeGet, MergeType
<1>5. ASSUME NEW m \in Msg, MergeAdd(m) PROVE MergeType'
  <2>1. merge[m].report \in Report /\ Absent \in Entry
    BY <1>5, MergedEntry DEF MergeAdd, Absent, Entry, Status, Role, LastSeen
  <2>2. \A f \in SUBSET Report :
           [merge[m] EXCEPT !.report = NoReport, !.copy = Absent, !.found = f] \in MergeState
    BY <1>0, <2>1 DEF MergeState
  <2>3. merge[m].found \in SUBSET Report /\ merge[m].found \cup {merge[m].report} \in SUBSET Report
    BY <1>0, <2>1 DEF MergeState
  <2>4. PICK f \in SUBSET Report :
           merge' = [merge EXCEPT ![m].report = NoReport, ![m].copy = Absent, ![m].found = f]
    BY <1>5, <2>3 DEF MergeAdd
  <2> QED
    BY <1>0, <2>2, <2>4 DEF MergeType
<1>6. ASSUME NEW m \in Msg, MergeEnds(m) PROVE MergeType'
  <2>1. NoMerge \in MergeState
    BY DEF NoMerge, MergeState, Absent, Entry, Status, Role, LastSeen
  <2> QED
    BY <1>0, <1>6, <2>1 DEF MergeEnds, MergeType
<1>7. ASSUME NEW m \in Msg,
             \/ \E p \in connect[m].todo : ConnectNext(m, p)
             \/ \E c \in Conn : ConnectDials(m, c)
             \/ ConnectReturns(m)
      PROVE  MergeType'
  BY <1>1, <1>7 DEF ConnectNext, ConnectDials, ConnectReturns
<1> QED
  BY <1>1, <1>2, <1>3, <1>4, <1>5, <1>6, <1>7 DEF GNext, GossipStep, CarrierStep, gossipVars

(* A step of the Carrier, with the history: whoever is named by a connection *)
(* has been met, and whoever has not been met is unseen.                     *)
LEMMA CarrierMeets ==
    ASSUME GossipInv, NEW held, ConnectionStep(held), met \subseteq met',
           \A c \in Conn : conn'[c].pc = "verified" => conn'[c].node \in met'
    PROVE  MetNodes' /\ UnmetUnseen'
<1>1. Inv
  BY DEF GossipInv
<1>2. MetNodes'
  <2> SUFFICES ASSUME NEW c \in Conn, conn'[c].node \in Peer PROVE conn'[c].node \in met'
    BY DEF MetNodes
  <2>1. conn'[c].node # NoPeer
    BY NoPeerAssumption
  <2>2. CASE conn'[c].node = conn[c].node
    BY <2>2 DEF GossipInv, MetNodes
  <2> QED
    BY <1>1, <2>1, <2>2, NodeStep
<1>3. UnmetUnseen'
  <2> SUFFICES ASSUME NEW q \in Peer, q \notin met' PROVE UnseenEntry(registry'[q])
    BY DEF UnmetUnseen, UnseenEntry
  <2>1. UnseenEntry(registry[q]) /\ \A c \in Conn : conn[c].node # q
    BY DEF GossipInv, UnmetUnseen, MetNodes
  <2> QED
    BY <1>1, <2>1, EntryStep
<1> QED
  BY <1>2, <1>3

(* Every step keeps unmet peers unseen. *)
LEMMA MeetingStep == ASSUME GossipInv, [GNext]_gossipVars PROVE MetNodes' /\ UnmetUnseen'
<1>0. /\ registry \in [Peer -> Entry] /\ MetNodes /\ UnmetUnseen /\ Inv
      /\ conn \in [Conn -> ConnState]
  BY DEF GossipInv, Inv, TypeOK
<1>1. ASSUME UNCHANGED <<registry, conn, met>> PROVE MetNodes' /\ UnmetUnseen'
  BY <1>0, <1>1 DEF MetNodes, UnmetUnseen
<1>2. CASE CarrierStep
  BY <1>2, CarrierMeets DEF CarrierStep
<1>3. CASE GossipTimeout
  <2>1. \A e \in Entry : UnseenEntry(e) => UnseenEntry(Aged(e))
    BY DEF Aged, UnseenEntry, Entry
  <2>2. \A p \in Peer : registry'[p] = Aged(registry[p])
    BY <1>3 DEF GossipTimeout, TimeoutElapses
  <2>3. UNCHANGED <<conn, met>>
    BY <1>3 DEF GossipTimeout, TimeoutElapses
  <2>4. ASSUME NEW p \in Peer, p \notin met' PROVE UnseenEntry(registry'[p])
    BY <1>0, <2>1, <2>2, <2>3, <2>4 DEF UnmetUnseen
  <2> QED
    BY <1>0, <2>3, <2>4 DEF MetNodes, UnmetUnseen, UnseenEntry
<1>4. ASSUME NEW m \in Msg, NEW role \in Role, NEW reports, HandleGossip(m, role, reports)
      PROVE  MetNodes' /\ UnmetUnseen'
  <2> DEFINE p == conn[msgs[m].conn].node
  <2>1. /\ registry' = SetRole(MarkedSeen(registry, p), p, role)
        /\ UNCHANGED <<conn, met>> /\ p \in met
    BY <1>0, <1>4 DEF HandleGossip, Inv, MessageOwned, MetNodes
  <2>2. MarkedSeen(registry, p) \in [Peer -> Entry]
    BY <1>0, RegistryTypes
  <2>3. ASSUME NEW q \in Peer, q \notin met PROVE UnseenEntry(registry'[q])
    <3>1. q # p
      BY <2>1, <2>3
    <3>2. MarkedSeen(registry, p)[q] = registry[q]
      BY <1>0, <3>1, OtherEntries
    <3>3. SetRole(MarkedSeen(registry, p), p, role)[q] = MarkedSeen(registry, p)[q]
      <4> HIDE DEF p
      <4> QED
        BY <2>2, <3>1 DEF SetRole
    <3> QED
      BY <1>0, <2>1, <2>3, <3>2, <3>3 DEF UnmetUnseen
  <2> QED
    BY <1>0, <2>1, <2>3 DEF MetNodes, UnmetUnseen, UnseenEntry
<1>5. ASSUME NEW m \in Msg, MergeAdd(m) PROVE MetNodes' /\ UnmetUnseen'
  <2> DEFINE r == merge[m].report
             n == IF merge[m].copy.status = "absent" THEN NewNode(r)
                                                     ELSE [merge[m].copy EXCEPT !.role = r.role]
  <2>1. /\ r.node \in Peer /\ n.status # "absent"
        /\ r.node \notin met => UnseenEntry(n)
        /\ registry' = AddNode(registry, r.node, n)
        /\ UNCHANGED <<conn, met>>
    BY <1>5, MergedEntry DEF MergeAdd
  <2> HIDE DEF n
  <2>2. ASSUME NEW q \in Peer, q \notin met PROVE UnseenEntry(registry'[q])
    <3>0. UnseenEntry(registry[q])
      BY <1>0, <2>2 DEF UnmetUnseen
    <3>1. CASE q # r.node
      <4>1. AddNode(registry, r.node, n)[q] = registry[q]
        BY <1>0, <3>1 DEF AddNode
      <4> QED
        BY <2>1, <3>0, <4>1
    <3>2. CASE q = r.node
      <4>1. registry'[q] = IF Known(registry, q) THEN MergeNode(registry[q], n) ELSE n
        BY <1>0, <2>1, <3>2, OwnEntry
      <4>2. Known(registry, q) => UnseenEntry(MergeNode(registry[q], n))
        BY <2>1, <2>2, <3>0, <3>2, MergeEffects DEF Known
      <4> QED
        BY <2>1, <2>2, <3>2, <4>1, <4>2
    <3> QED
      BY <3>1, <3>2
  <2> QED
    BY <1>0, <2>1, <2>2 DEF MetNodes, UnmetUnseen, UnseenEntry
<1>6. ASSUME NEW m \in Msg, NEW c \in Conn, ConnectDials(m, c) PROVE MetNodes' /\ UnmetUnseen'
  <2>1. conn' = [conn EXCEPT ![c] = Opened("dial")] /\ UNCHANGED <<registry, met>>
    BY <1>6 DEF ConnectDials
  <2>2. Opened("dial").node = NoPeer
    BY DEF Opened, Unused
  <2> QED
    BY <1>0, <2>1, <2>2, NoPeerAssumption DEF MetNodes, UnmetUnseen, UnseenEntry
<1>7. ASSUME NEW m \in Msg,
             \/ \E r \in merge[m].todo : MergeGet(m, r)
             \/ MergeEnds(m)
             \/ \E p \in connect[m].todo : ConnectNext(m, p)
             \/ ConnectReturns(m)
      PROVE  MetNodes' /\ UnmetUnseen'
  BY <1>1, <1>7 DEF MergeGet, MergeEnds, ConnectNext, ConnectReturns, vars
<1> QED
  BY <1>1, <1>2, <1>3, <1>4, <1>5, <1>6, <1>7 DEF GNext, GossipStep, gossipVars, vars

(* Every step keeps the copies of unmet peers' entries unseen. *)
LEMMA CopiesStep == ASSUME GossipInv, [GNext]_gossipVars PROVE CopiesUnseen'
<1>0. merge \in [Msg -> MergeState] /\ CopiesUnseen /\ UnmetUnseen
  BY DEF GossipInv, MergeType
<1>1. ASSUME UNCHANGED merge, met \subseteq met' PROVE CopiesUnseen'
  BY <1>0, <1>1 DEF CopiesUnseen
<1>2. CASE GossipTimeout
  <2>1. \A e \in Entry : UnseenEntry(e) => UnseenEntry(Aged(e))
    BY DEF Aged, UnseenEntry, Entry
  <2>2. ASSUME NEW m \in Msg
        PROVE  merge'[m].report = merge[m].report /\ merge'[m].copy = Aged(merge[m].copy)
    BY <1>0, <1>2 DEF GossipTimeout, MergeState
  <2>3. \A m \in Msg : merge[m].copy \in Entry
    BY <1>0 DEF MergeState
  <2>4. met' = met
    BY <1>2 DEF GossipTimeout
  <2> QED
    BY <1>0, <2>1, <2>2, <2>3, <2>4 DEF CopiesUnseen
<1>3. ASSUME NEW m \in Msg, NEW role, NEW reports, HandleGossip(m, role, reports)
      PROVE  CopiesUnseen'
  <2>1. \A k \in Msg : merge'[k].report = merge[k].report /\ merge'[k].copy = merge[k].copy
    BY <1>0, <1>3 DEF HandleGossip, MergeState
  <2> QED
    BY <1>0, <1>3, <2>1 DEF HandleGossip, CopiesUnseen
<1>4. ASSUME NEW m \in Msg, NEW r \in merge[m].todo, MergeGet(m, r) PROVE CopiesUnseen'
  <2>1. /\ merge'[m].report = r /\ merge'[m].copy = registry[r.node]
        /\ \A k \in Msg \ {m} : merge'[k] = merge[k]
    BY <1>0, <1>4 DEF MergeGet, MergeState
  <2>2. r.node \in Peer
    BY <1>0 DEF MergeState, Report
  <2>3. met' = met
    BY <1>4 DEF MergeGet
  <2>4. r.node \notin met => UnseenEntry(registry[r.node])
    BY <1>0, <2>2 DEF UnmetUnseen
  <2> QED
    BY <1>0, <2>1, <2>3, <2>4 DEF CopiesUnseen
<1>5. ASSUME NEW m \in Msg, MergeAdd(m) \/ MergeEnds(m) PROVE CopiesUnseen'
  <2>1. merge'[m].report = NoReport /\ \A k \in Msg \ {m} : merge'[k] = merge[k]
    BY <1>0, <1>5 DEF MergeAdd, MergeEnds, MergeState, NoMerge
  <2>2. met' = met
    BY <1>5 DEF MergeAdd, MergeEnds
  <2> QED
    BY <1>0, <2>1, <2>2 DEF CopiesUnseen
<1>6. ASSUME NEW m \in Msg,
             \/ \E p \in connect[m].todo : ConnectNext(m, p)
             \/ \E c \in Conn : ConnectDials(m, c)
             \/ ConnectReturns(m)
      PROVE  CopiesUnseen'
  BY <1>1, <1>6 DEF ConnectNext, ConnectDials, ConnectReturns
<1> QED
  BY <1>1, <1>2, <1>3, <1>4, <1>5, <1>6 DEF GNext, GossipStep, CarrierStep, gossipVars

(* The inductive invariant holds of every state. *)
LEMMA GossipInvAlways == GSpec => []GossipInv
<1>1. GInit => GossipInv
  <2> SUFFICES ASSUME GInit PROVE GossipInv
    OBVIOUS
  <2>1. Inv
    BY InitInv DEF GInit
  <2>2. MergeType /\ CopiesUnseen
    <3>1. NoMerge \in MergeState /\ NoMerge.report = NoReport
      BY DEF NoMerge, MergeState, Absent, Entry, Status, Role, LastSeen
    <3> QED
      BY <3>1 DEF GInit, MergeType, CopiesUnseen
  <2>3. MetNodes /\ UnmetUnseen
    <3>1. Unused.node = NoPeer /\ UnseenEntry(Absent)
      BY DEF Unused, UnseenEntry, Absent
    <3> QED
      BY <3>1, NoPeerAssumption DEF GInit, Init, MetNodes, UnmetUnseen
  <2> QED
    BY <2>1, <2>2, <2>3 DEF GossipInv
<1>2. GossipInv /\ [GNext]_gossipVars => GossipInv'
  BY GossipKeepsInv, MergeTypeStep, MeetingStep, CopiesStep DEF GossipInv
<1> QED
  BY <1>1, <1>2, PTL DEF GSpec

-----------------------------------------------------------------------------
(* Hearsay is no contact: whatever peers report, and however late a merge    *)
(* writes its copy back, a node that never authenticated is not marked as    *)
(* seen, connected or failed.                                                *)
THEOREM HearsayIsNoContact == GSpec => []NeverMetIsUnseen
<1>1. GossipInv => NeverMetIsUnseen
  BY DEF GossipInv, UnmetUnseen, UnseenEntry, NeverMetIsUnseen, Known
<1> QED
  BY <1>1, GossipInvAlways, PTL

(* A node known as a client is taken for one until its own heartbeat, or a   *)
(* report about it with a role that is neither server nor client, says       *)
(* otherwise: no report that it is a server changes it, however late.        *)
THEOREM ClientsStayClients == GSpec => ClientStaysClient
<1> DEFINE Promoted(p) == IsClient(registry, p) /\ Known(registry', p) /\ IsServer(registry', p)
           Own(p) == \E m \in Msg : \/ msgs[m].pc = "seen" /\ conn[msgs[m].conn].node = p
                                    \/ merge[m].report = [node |-> p, role |-> "other"]
           Keeps == \A p \in Peer : Promoted(p) => Own(p)
<1>1. GossipInv /\ [GNext]_gossipVars => [Keeps]_gossipVars
  <2> SUFFICES ASSUME GossipInv, GNext, NEW p \in Peer, Promoted(p) PROVE Own(p)
    BY Zenon
  <2>0. registry \in [Peer -> Entry] /\ Inv
    BY DEF GossipInv, Inv, TypeOK
  <2>p. /\ Known(registry, p) /\ registry[p].role = "client"
        /\ Known(registry', p) /\ registry'[p].role # "client"
    BY DEF IsClient, IsServer
  <2> HIDE DEF Promoted
  <2>1. ASSUME registry' = registry PROVE FALSE
    BY <2>p, <2>1
  <2>2. ASSUME NEW held, ConnectionStep(held) PROVE Own(p)
    BY <2>0, <2>p, <2>2, EntryStep
  <2>3. ASSUME GossipTimeout PROVE FALSE
    <3>1. registry'[p].role = registry[p].role
      BY <2>0, <2>3 DEF GossipTimeout, TimeoutElapses, Aged, Entry
    <3> QED
      BY <2>p, <3>1
  <2>4. ASSUME NEW m \in Msg, NEW role, NEW reports, HandleGossip(m, role, reports) PROVE Own(p)
    <3> DEFINE q == conn[msgs[m].conn].node
    <3>1. registry' = SetRole(MarkedSeen(registry, q), q, role) /\ msgs[m].pc = "seen"
      BY <2>4 DEF HandleGossip
    <3>2. CASE p = q
      BY <3>1, <3>2
    <3>3. CASE p # q
      <4>1. MarkedSeen(registry, q) \in [Peer -> Entry]
        BY <2>0, RegistryTypes
      <4>2. MarkedSeen(registry, q)[p] = registry[p]
        BY <2>0, <3>3, OtherEntries
      <4>3. SetRole(MarkedSeen(registry, q), q, role)[p] = MarkedSeen(registry, q)[p]
        <5> HIDE DEF q
        <5> QED
          BY <3>3, <4>1 DEF SetRole
      <4> QED
        BY <2>p, <3>1, <4>2, <4>3
    <3> QED
      BY <3>2, <3>3
  <2>5. ASSUME NEW m \in Msg, MergeAdd(m) PROVE Own(p)
    <3> DEFINE r == merge[m].report
               n == IF merge[m].copy.status = "absent" THEN NewNode(r)
                                                       ELSE [merge[m].copy EXCEPT !.role = r.role]
    <3>1. /\ r \in Report /\ r.node \in Peer /\ n \in Entry
          /\ registry' = AddNode(registry, r.node, n)
      BY <2>5, MergedEntry DEF MergeAdd
    <3>2. n.role = r.role
      <4>1. merge[m].copy \in Entry
        BY DEF GossipInv, MergeType, MergeState
      <4> QED
        BY <4>1 DEF NewNode, Entry
    <3> HIDE DEF n
    <3>3. CASE p # r.node
      <4>1. AddNode(registry, r.node, n)[p] = registry[p]
        BY <2>0, <3>3 DEF AddNode
      <4> QED
        BY <2>p, <3>1, <4>1
    <3>4. CASE p = r.node /\ r.role # "other"
      <4>1. registry'[p] = MergeNode(registry[p], n)
        BY <2>0, <2>p, <3>1, <3>4, OwnEntry
      <4>2. n.role \in {"server", "client"}
        BY <3>1, <3>2, <3>4 DEF Report, Role
      <4> QED
        BY <2>p, <4>1, <4>2, MergeEffects
    <3>5. CASE p = r.node /\ r.role = "other"
      <4>1. r = [node |-> p, role |-> "other"]
        BY <3>1, <3>5 DEF Report
      <4> QED
        BY <4>1
    <3> QED
      BY <3>3, <3>4, <3>5
  <2>6. ASSUME NEW m \in Msg, NEW c \in Conn, ConnectDials(m, c) PROVE FALSE
    BY <2>1, <2>6 DEF ConnectDials
  <2>7. ASSUME NEW m \in Msg,
               \/ \E r \in merge[m].todo : MergeGet(m, r)
               \/ MergeEnds(m)
               \/ \E q \in connect[m].todo : ConnectNext(m, q)
               \/ ConnectReturns(m)
        PROVE  FALSE
    BY <2>1, <2>7 DEF MergeGet, MergeEnds, ConnectNext, ConnectReturns, vars
  <2> QED
    BY <2>2, <2>3, <2>4, <2>5, <2>6, <2>7 DEF GNext, GossipStep, CarrierStep
<1> QED
  BY <1>1, GossipInvAlways, PTL DEF GSpec, ClientStaysClient

(* The same promises when the Carrier merges reports (heartbeat.go,          *)
(* mergeHeartbeatNodes) and dials the servers it has heard of.               *)
THEOREM GossipKeepsPromises ==
    GSpec => /\ []TypeOK
             /\ []MapsAgree
             /\ []HandlersAuthenticated
             /\ UnmappedIsClosed
             /\ ImplementsMembership
<1> DEFINE Closes == [\A p \in Peer : IsConnected(p) /\ connections'[p] = NoConn
                                         => ~conn'[connections[p]].open]_vars
           Keeps == [M!Next]_(M!vars) /\ Closes
<1>1. GInit => M!Init
  BY InitRefines DEF GInit
<1>2. GossipInv /\ [GNext]_gossipVars => Keeps
  <2> SUFFICES ASSUME Inv, [GNext]_gossipVars PROVE Keeps
    BY DEF GossipInv
  <2>1. ASSUME NEW held, ConnectionStep(held) PROVE Keeps
    BY <2>1, RefineStep, ClosesStep DEF Inv
  <2>2. ASSUME UNCHANGED <<connections, peerScopes, conn>> PROVE Keeps
    BY <2>2, Invisible DEF IsConnected
  <2> HIDE DEF Keeps
  <2>3. ASSUME NEW m \in Msg, NEW c \in Conn, ConnectDials(m, c) PROVE Keeps
    BY <2>1, <2>3, DialIsOpen
  <2>4. ASSUME NEW m \in Msg,
               \/ \E role \in Role, reports \in Gossip : HandleGossip(m, role, reports)
               \/ \E r \in merge[m].todo : MergeGet(m, r)
               \/ MergeAdd(m) \/ MergeEnds(m)
               \/ \E p \in connect[m].todo : ConnectNext(m, p)
               \/ ConnectReturns(m)
        PROVE  Keeps
    BY <2>2, <2>4
    DEF HandleGossip, MergeGet, MergeAdd, MergeEnds, ConnectNext, ConnectReturns, vars
  <2>5. GossipTimeout \/ UNCHANGED gossipVars => Keeps
    BY <2>2 DEF GossipTimeout, TimeoutElapses, gossipVars, vars
  <2> QED
    BY <2>1, <2>3, <2>4, <2>5 DEF GNext, GossipStep, CarrierStep
<1>3. GossipInv => TypeOK /\ MapsAgree /\ HandlersAuthenticated
  BY DEF GossipInv, Inv, HandlersAuthenticated, LoopsAfterSetUp, MessageOwned
<1> QED
  BY <1>1, <1>2, <1>3, GossipInvAlways, PTL
  DEF GSpec, UnmappedIsClosed, ImplementsMembership, M!Spec
=============================================================================
