---------------------------- MODULE CarrierLoops ----------------------------
(***************************************************************************)
(* The Carrier with both of its background loops, which ensureBackground-  *)
(* Loops starts: the heartbeat loop drops and fails peers, the reconnect   *)
(* loop dials them again.  Each takes its peers one after the other, so    *)
(* that every peer feels what one of them does to a loop.                  *)
(***************************************************************************)
EXTENDS CarrierReconnect, CarrierHeartbeat

loopVars == <<vars, retry, hb>>

LInit == Init /\ retry = RetryIdle /\ hb = HbIdle

LNext ==
    \/ (ConnectionStep({retry.conn, hb.conn}) \/ TimeoutElapses) /\ UNCHANGED <<retry, hb>>
    \/ ReconnectLoop({hb.conn}) /\ UNCHANGED hb
    \/ HeartbeatLoop /\ UNCHANGED retry

LSpec == LInit /\ [][LNext]_loopVars

(* What the goroutines of a connection do by themselves. *)
GoroutinesRun(c) ==
    (SetUpRuns(c) \/ StreamLoopEnds(c) \/ DatagramLoopEnds(c)) /\ UNCHANGED <<retry, hb>>

(***************************************************************************)
(* Fairness: goroutines that can run do run, and the tickers tick.  A dial *)
(* ends (QUIC's handshake timeout), and a wait for a peer ends when its    *)
(* connection is closed.  No peer is assumed to answer while it is open,   *)
(* neither in a handshake (WaitsForPeer) nor to a heartbeat (AwaitsReply): *)
(* these waits have no deadline.  Nothing is assumed of callers, of the    *)
(* network or of the clock.                                                *)
(***************************************************************************)
LFairness ==
    /\ \A c \in Conn : WF_loopVars(GoroutinesRun(c))
    /\ WF_loopVars(ReconnectLoop({hb.conn}) /\ UNCHANGED hb)
    /\ WF_loopVars(HeartbeatLoop /\ ~AwaitsReply /\ UNCHANGED retry)
=============================================================================
