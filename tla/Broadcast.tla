------------------------------ MODULE Broadcast -----------------------------
(***************************************************************************)
(* carrier_broadcast.go and message_io.go: one BroadcastReliable call.  It *)
(* sends to every known node, one after the other, and repeats the sends   *)
(* that failed.  A send is a request on a stream of its own and its reply; *)
(* the peer handles the request in a goroutine of its own, which goes on   *)
(* when the sender has given the stream up.                                *)
(***************************************************************************)
EXTENDS Naturals, Sequences, FiniteSets, SequencesExt

CONSTANTS
    Peer,
    NoPeer,
    MaxRetries  \* BroadcastMaxRetries; New replaces values below 1

ASSUME NoPeerAssumption == NoPeer \notin Peer
ASSUME RetriesAssumption == MaxRetries \in Nat \ {0}

Attempt == 0..MaxRetries

VARIABLES
    call,      \* the BroadcastReliable call
    requests,  \* the request of each attempt, as its peer sees it
    tries      \* how often a send to a peer began (history)

vars == <<call, requests, tries>>

(* todo: what is left of this attempt; peer: the one being sent to. *)
CallState == [pc : {"idle", "loop", "waiting", "returned"}, nodes : SUBSET Peer,
              attempt : Nat, todo : SUBSET Peer, peer : Peer \cup {NoPeer},
              stillFailed : SUBSET Peer, success : Seq(Peer), failed : SUBSET Peer]

RequestState == {"none", "sent", "lost", "handling", "ran", "refused"}

Init ==
    /\ call = [pc |-> "idle", nodes |-> {}, attempt |-> 0, todo |-> {}, peer |-> NoPeer,
               stillFailed |-> {}, success |-> <<>>, failed |-> {}]
    /\ requests = [p \in Peer |-> [a \in Attempt |-> "none"]]
    /\ tries = [p \in Peer |-> 0]

-----------------------------------------------------------------------------
(* The caller *)

(* The registry is read once; without nodes the call returns an error. *)
BroadcastReliable(nodes) ==
    /\ call.pc = "idle" /\ nodes # {}
    /\ call' = [call EXCEPT !.pc = "loop", !.nodes = nodes, !.todo = nodes]
    /\ UNCHANGED <<requests, tries>>

Acknowledged == [call EXCEPT !.pc = "loop", !.peer = NoPeer, !.success = Append(@, call.peer)]
SendFailed == [call EXCEPT !.pc = "loop", !.peer = NoPeer, !.stillFailed = @ \cup {call.peer}]

(* The request is written to a new stream. *)
SendRequest(p) ==
    /\ call.pc = "loop" /\ p \in call.todo
    /\ call' = [call EXCEPT !.pc = "waiting", !.todo = @ \ {p}, !.peer = p]
    /\ requests' = [requests EXCEPT ![p][call.attempt] = "sent"]
    /\ tries' = [tries EXCEPT ![p] = @ + 1]

(* Not connected, or no stream can be opened. *)
SendImpossible(p) ==
    /\ call.pc = "loop" /\ p \in call.todo
    /\ call' = [call EXCEPT !.todo = @ \ {p}, !.stillFailed = @ \cup {p}]
    /\ tries' = [tries EXCEPT ![p] = @ + 1]
    /\ UNCHANGED requests

Reply == requests[call.peer][call.attempt]

(* Fault: a reply is taken for success without looking at reply.Success. *)
FaultyReplyArrives ==
    /\ call.pc = "waiting" /\ Reply \in {"ran", "refused"}
    /\ call' = Acknowledged
    /\ UNCHANGED <<requests, tries>>

ReplyArrives ==
    /\ call.pc = "waiting" /\ Reply \in {"ran", "refused"}
    /\ call' = IF Reply = "ran" THEN Acknowledged ELSE SendFailed
    /\ UNCHANGED <<requests, tries>>

(* The write fails, the connection ends, or the stream ends without a reply, *)
(* which decodes to a reply with Success false.  What the peer does with a   *)
(* request it has is not affected.                                           *)
NoReply ==
    /\ call.pc = "waiting"
    /\ call' = SendFailed
    /\ UNCHANGED <<requests, tries>>

(* Fault: the last attempt is skipped. *)
FaultyAttemptEnds ==
    /\ call.pc = "loop" /\ call.todo = {}
    /\ call' = IF call.stillFailed = {} \/ call.attempt + 1 = MaxRetries
               THEN [call EXCEPT !.pc = "returned", !.failed = call.stillFailed]
               ELSE [call EXCEPT !.attempt = @ + 1, !.todo = call.stillFailed, !.stillFailed = {}]
    /\ UNCHANGED <<requests, tries>>

(* Fault: the failed list of an attempt is not reset. *)
FaultyNextAttempt ==
    /\ call.pc = "loop" /\ call.todo = {}
    /\ call' = IF call.stillFailed = {} \/ call.attempt = MaxRetries
               THEN [call EXCEPT !.pc = "returned", !.failed = call.stillFailed]
               ELSE [call EXCEPT !.attempt = @ + 1, !.todo = call.stillFailed]
    /\ UNCHANGED <<requests, tries>>

(* Every pending peer was tried: return, or sleep and try the failed ones again. *)
AttemptEnds ==
    /\ call.pc = "loop" /\ call.todo = {}
    /\ call' = IF call.stillFailed = {} \/ call.attempt = MaxRetries
               THEN [call EXCEPT !.pc = "returned", !.failed = call.stillFailed]
               ELSE [call EXCEPT !.attempt = @ + 1, !.todo = call.stillFailed, !.stillFailed = {}]
    /\ UNCHANGED <<requests, tries>>

-----------------------------------------------------------------------------
(* The peers: handleMessageStream for the request of attempt a. *)

RequestMoves(p, a, from, to) ==
    /\ requests[p][a] = from
    /\ requests' = [requests EXCEPT ![p][a] = to]
    /\ UNCHANGED <<call, tries>>

ReadMessageStream(p, a) == RequestMoves(p, a, "sent", "handling")
ReadFails(p, a) == RequestMoves(p, a, "sent", "lost")
HandlerSucceeds(p, a) == RequestMoves(p, a, "handling", "ran")
HandlerFails(p, a) == RequestMoves(p, a, "handling", "refused")

Next ==
    \/ \E nodes \in SUBSET Peer : BroadcastReliable(nodes)
    \/ \E p \in Peer : SendRequest(p) \/ SendImpossible(p)
    \/ ReplyArrives \/ NoReply \/ AttemptEnds
    \/ \E p \in Peer, a \in Attempt : \/ ReadMessageStream(p, a) \/ ReadFails(p, a)
                                      \/ HandlerSucceeds(p, a) \/ HandlerFails(p, a)

Spec == Init /\ [][Next]_vars

-----------------------------------------------------------------------------
(* Properties *)

Returned == call.pc = "returned"
Ran(p) == \E a \in Attempt : requests[p][a] = "ran"

(* The two lists that BroadcastReliable returns divide the nodes it started  *)
(* with: none is lost over the retries, none is in both, none is listed      *)
(* twice.                                                                    *)
ResultPartition ==
    Returned => /\ ToSet(call.success) \cup call.failed = call.nodes
                /\ ToSet(call.success) \cap call.failed = {}
                /\ IsInjective(call.success)

(* A node that BroadcastReliable reports as successful has run its handler   *)
(* to the end without error, whatever became of earlier attempts.            *)
AckedWasHandled == \A p \in ToSet(call.success) : Ran(p)

(* A node is given up only after MaxRetries + 1 sends, and is not sent to    *)
(* again once it has acknowledged.                                           *)
RetriedAsConfigured ==
    /\ Returned => \A p \in call.failed : tries[p] = MaxRetries + 1
    /\ \A p \in ToSet(call.success) : p \notin call.todo \cup {call.peer} \cup call.stillFailed
=============================================================================
