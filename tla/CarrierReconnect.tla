-------------------------- MODULE CarrierReconnect --------------------------
(***************************************************************************)
(* The Carrier's reconnect loop (heartbeat.go, runReconnectLoop), one      *)
(* goroutine that dials the servers its registry says are unreachable, one *)
(* after the other.                                                        *)
(***************************************************************************)
EXTENDS Carrier

VARIABLE retry  \* the reconnect loop: which peers are left, which one it dials

RetryState == [pc : {"idle", "loop", "dialing", "waiting"}, todo : SUBSET Peer,
               peer : Peer \cup {NoPeer}, conn : Conn \cup {NoConn}]

RetryIdle == [pc |-> "idle", todo |-> {}, peer |-> NoPeer, conn |-> NoConn]

RetryStep(next) ==
    /\ retry' = next
    /\ UNCHANGED vars

RetryContinue == [retry EXCEPT !.pc = "loop", !.peer = NoPeer, !.conn = NoConn]


RetryTick ==
    /\ retry.pc = "idle"
    /\ RetryStep([RetryIdle EXCEPT !.pc = "loop",
          !.todo = {p \in GetUnreachableNodes(registry) : IsServer(registry, p)}])

RetryNext(p) ==
    LET rest == [retry EXCEPT !.todo = @ \ {p}] IN
    /\ retry.pc = "loop" /\ p \in retry.todo
    /\ RetryStep(IF IsConnected(p) THEN rest ELSE [rest EXCEPT !.pc = "dialing", !.peer = p])

RetryDialFails ==
    /\ retry.pc = "dialing"
    /\ RetryStep(RetryContinue)

RetryDials(c, held) ==
    /\ retry.pc = "dialing" /\ Free(c, held)
    /\ conn' = [conn EXCEPT ![c] = Opened("dial")]
    /\ retry' = [retry EXCEPT !.pc = "waiting", !.conn = c]
    /\ UNCHANGED <<registry, connections, peerScopes, msgs>>

(* connectNode returns, with or without success. *)
RetryReturns ==
    /\ retry.pc = "waiting" /\ conn[retry.conn].pc = "done"
    /\ RetryStep(RetryContinue)

RetryEnds ==
    /\ retry.pc = "loop" /\ retry.todo = {}
    /\ RetryStep(RetryIdle)

ReconnectLoop(held) ==
    \/ RetryTick
    \/ \E p \in Peer : RetryNext(p)
    \/ RetryDialFails
    \/ \E c \in Conn : RetryDials(c, held)
    \/ RetryReturns \/ RetryEnds

-----------------------------------------------------------------------------
(* The reconnect loop visits every server whose registry entry says it is   *)
(* not connected, unless one handshake holds the loop for ever: the peer     *)
(* dialled before keeps its connection open and never completes the          *)
(* handshake, which awaitPeerAuth awaits without a deadline.                 *)
NeedsRetry(p) == registry[p].status \in {"disconnected", "failed"} /\ IsServer(registry, p)
                 /\ ~IsConnected(p)
HandshakeHangs == retry.pc = "waiting" /\ WaitsForPeer(retry.conn)
=============================================================================
