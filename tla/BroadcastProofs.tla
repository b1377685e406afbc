--------------------------- MODULE BroadcastProofs --------------------------
(***************************************************************************)
(* What BroadcastReliable returns, for any set of peers, any number of     *)
(* retries and any behaviour of the network and of the peers' handlers.    *)
(***************************************************************************)
EXTENDS Broadcast, TLAPS

TypeOK ==
    /\ call \in CallState /\ call.attempt \in Attempt
    /\ requests \in [Peer -> [Attempt -> RequestState]]
    /\ tries \in [Peer -> Nat]

(* The peer that the call waits for, as a set. *)
Waiting == {call.peer} \ {NoPeer}

(* A call that has not begun has nothing, one that has returned has nothing *)
(* left, and only a waiting call has a peer in hand.                        *)
Phases ==
    /\ call.pc = "idle" => call.nodes = {} /\ call.todo = {} /\ call.stillFailed = {}
                              /\ call.success = <<>> /\ call.attempt = 0
    /\ call.pc = "returned" => call.todo = {} /\ call.failed = call.stillFailed
    /\ call.pc = "returned" => call.failed = {} \/ call.attempt = MaxRetries
    /\ call.pc = "waiting" <=> call.peer # NoPeer

(* Each node of the call is in exactly one place: acknowledged, still to be *)
(* tried in this attempt, being tried, or failed in this attempt.           *)
Placed ==
    /\ ToSet(call.success) \cup call.todo \cup Waiting \cup call.stillFailed = call.nodes
    /\ ToSet(call.success) \cap call.todo = {}
    /\ ToSet(call.success) \cap Waiting = {}
    /\ ToSet(call.success) \cap call.stillFailed = {}
    /\ call.todo \cap Waiting = {} /\ call.todo \cap call.stillFailed = {}
    /\ Waiting \cap call.stillFailed = {}
    /\ IsInjective(call.success)

(* A node that is not acknowledged was sent to once in each attempt so far. *)
TriesCounted ==
    /\ \A p \in Peer \ call.nodes : tries[p] = 0
    /\ \A p \in call.todo : tries[p] = call.attempt
    /\ \A p \in Waiting \cup call.stillFailed : tries[p] = call.attempt + 1

Inv == TypeOK /\ Phases /\ Placed /\ TriesCounted /\ AckedWasHandled

(* Append adds its element to what a sequence holds, and keeps a sequence    *)
(* without repetitions so if the element is new (carrier_broadcast.go: the   *)
(* success list).                                                            *)
LEMMA AppendNew ==
    ASSUME NEW S, NEW s \in Seq(S), NEW e \in S
    PROVE  /\ Append(s, e) \in Seq(S)
           /\ ToSet(Append(s, e)) = ToSet(s) \cup {e}
           /\ e \notin ToSet(s) /\ IsInjective(s) => IsInjective(Append(s, e))
<1>1. /\ Append(s, e) \in Seq(S) /\ Len(s) \in Nat
      /\ DOMAIN s = 1..Len(s)
      /\ DOMAIN Append(s, e) = 1..Len(s) + 1
      /\ \A i \in 1..Len(s) : Append(s, e)[i] = s[i]
      /\ Append(s, e)[Len(s) + 1] = e
  OBVIOUS
<1>2. ToSet(Append(s, e)) = ToSet(s) \cup {e}
  <2>1. ASSUME NEW x \in ToSet(Append(s, e)) PROVE x \in ToSet(s) \cup {e}
    <3>1. PICK i \in 1..Len(s) + 1 : x = Append(s, e)[i]
      BY <1>1, <2>1 DEF ToSet
    <3>2. i \in 1..Len(s) \/ i = Len(s) + 1
      BY <1>1
    <3> QED
      BY <1>1, <3>1, <3>2 DEF ToSet
  <2>2. ASSUME NEW x \in ToSet(s) \cup {e} PROVE x \in ToSet(Append(s, e))
    <3>1. Len(s) + 1 \in 1..Len(s) + 1 /\ \A i \in 1..Len(s) : i \in 1..Len(s) + 1
      BY <1>1
    <3>2. CASE x = e
      BY <1>1, <3>1, <3>2 DEF ToSet
    <3>3. CASE x \in ToSet(s)
      <4>1. PICK i \in 1..Len(s) : x = s[i]
        BY <1>1, <3>3 DEF ToSet
      <4> QED
        BY <1>1, <3>1, <4>1 DEF ToSet
    <3> QED
      BY <2>2, <3>2, <3>3
  <2> QED
    BY <2>1, <2>2
<1>3. ASSUME e \notin ToSet(s), IsInjective(s) PROVE IsInjective(Append(s, e))
  <2> SUFFICES ASSUME NEW i \in 1..Len(s) + 1, NEW j \in 1..Len(s) + 1,
                      Append(s, e)[i] = Append(s, e)[j]
               PROVE  i = j
    BY <1>1 DEF IsInjective
  <2>1. \A k \in 1..Len(s) : s[k] # e
    BY <1>1, <1>3 DEF ToSet
  <2>2. \A k \in 1..Len(s) + 1 : k \in 1..Len(s) \/ k = Len(s) + 1
    BY <1>1
  <2>3. CASE i \in 1..Len(s) /\ j \in 1..Len(s)
    BY <1>1, <1>3, <2>3 DEF IsInjective
  <2> QED
    BY <1>1, <2>1, <2>2, <2>3
<1> QED
  BY <1>1, <1>2, <1>3

-----------------------------------------------------------------------------
(* The initial state satisfies the inductive invariant. *)
LEMMA InvInit == Init => Inv
<1> SUFFICES ASSUME Init PROVE Inv
  OBVIOUS
<1>1. ToSet(<<>>) = {} /\ IsInjective(<<>>)
  BY DEF ToSet, IsInjective
<1>2. TypeOK
  BY RetriesAssumption DEF Init, TypeOK, CallState, Attempt, RequestState
<1>3. Phases /\ Placed /\ TriesCounted /\ AckedWasHandled
  BY <1>1 DEF Init, Phases, Placed, TriesCounted, AckedWasHandled, Waiting
<1> QED
  BY <1>2, <1>3 DEF Inv

(* The call begins with every node still to be tried. *)
LEMMA BeginStep == ASSUME Inv, NEW nodes \in SUBSET Peer, BroadcastReliable(nodes) PROVE Inv'
<1> USE DEF Inv, BroadcastReliable
<1>1. TypeOK'
  BY DEF TypeOK, CallState
<1>2. Waiting = {} /\ Waiting' = {} /\ ToSet(call.success) = {}
  BY DEF Waiting, Phases, TypeOK, CallState, ToSet
<1>3. Phases'
  BY DEF Phases, TypeOK, CallState
<1>4. Placed'
  BY <1>2 DEF Placed, Phases, TypeOK, CallState
<1>5. TriesCounted'
  BY <1>2 DEF TriesCounted, Phases, TypeOK, CallState
<1>6. AckedWasHandled'
  BY DEF AckedWasHandled, Ran, TypeOK, CallState
<1> QED
  BY <1>1, <1>3, <1>4, <1>5, <1>6

(* A send takes a node that was not tried in this attempt, so its requests   *)
(* so far are none that an acknowledgement rests on.                         *)
LEMMA SendStep ==
    ASSUME Inv, NEW p \in Peer, SendRequest(p) \/ SendImpossible(p) PROVE Inv'
<1> USE DEF Inv
<1>1. /\ call.pc = "loop" /\ p \in call.todo /\ p # NoPeer
      /\ call.peer = NoPeer /\ Waiting = {}
      /\ tries' = [tries EXCEPT ![p] = @ + 1]
  BY NoPeerAssumption DEF SendRequest, SendImpossible, Phases, Waiting, TypeOK, CallState
<1>2. /\ call'.success = call.success /\ call'.nodes = call.nodes
      /\ call'.attempt = call.attempt /\ call'.todo = call.todo \ {p}
      /\ \/ call'.pc = "waiting" /\ call'.peer = p /\ call'.stillFailed = call.stillFailed
         \/ /\ call'.pc = "loop" /\ call'.peer = NoPeer
            /\ call'.stillFailed = call.stillFailed \cup {p}
  BY <1>1 DEF SendRequest, SendImpossible, TypeOK, CallState
<1>3. call' \in CallState
  <2>1. CASE SendRequest(p)
    BY <1>1, <2>1 DEF SendRequest, TypeOK, CallState
  <2>2. CASE SendImpossible(p)
    BY <1>1, <2>2 DEF SendImpossible, TypeOK, CallState
  <2> QED
    BY <2>1, <2>2
<1>4. \A q \in Peer : q # p => requests'[q] = requests[q]
  BY DEF SendRequest, SendImpossible, TypeOK
<1>5. requests' \in [Peer -> [Attempt -> RequestState]]
  <2>1. [requests[p] EXCEPT ![call.attempt] = "sent"] \in [Attempt -> RequestState]
    BY DEF TypeOK, RequestState
  <2> QED
    BY <2>1 DEF SendRequest, SendImpossible, TypeOK
<1>6. TypeOK'
  <2>1. tries' \in [Peer -> Nat]
    BY <1>1 DEF TypeOK
  <2>2. call'.attempt \in Attempt
    BY <1>2 DEF TypeOK
  <2> QED
    BY <1>3, <1>5, <2>1, <2>2 DEF TypeOK
<1>7. Phases'
  BY <1>1, <1>2 DEF Phases
<1>8. \/ Waiting' = {p} /\ call'.stillFailed = call.stillFailed
      \/ Waiting' = {} /\ call'.stillFailed = call.stillFailed \cup {p}
  BY <1>1, <1>2 DEF Waiting
<1>9. Placed'
  BY <1>1, <1>2, <1>8 DEF Placed
<1>10. TriesCounted'
  <2>1. p \in call.nodes /\ p \notin call.stillFailed
    BY <1>1 DEF Placed
  <2>2. tries'[p] = call.attempt + 1 /\ \A q \in Peer : q # p => tries'[q] = tries[q]
    BY <1>1 DEF TriesCounted, TypeOK
  <2>3. call.todo \subseteq Peer /\ call.stillFailed \subseteq Peer
    BY DEF TypeOK, CallState
  <2> QED
    BY <1>1, <1>2, <1>8, <2>1, <2>2, <2>3 DEF TriesCounted
<1>11. AckedWasHandled'
  <2> SUFFICES ASSUME NEW q \in ToSet(call.success) PROVE Ran(q)'
    BY <1>2 DEF AckedWasHandled
  <2>1. q # p /\ Ran(q)
    BY <1>1 DEF Placed, AckedWasHandled
  <2>2. q \in Peer
    BY DEF ToSet, TypeOK, CallState
  <2> QED
    BY <1>4, <2>1, <2>2 DEF Ran
<1> QED
  BY <1>6, <1>7, <1>9, <1>10, <1>11

(* The end of a send: the node is acknowledged or fails this attempt. *)
LEMMA ReplyStep == ASSUME Inv, ReplyArrives \/ NoReply PROVE Inv'
<1> USE DEF Inv
<1>1. /\ call.pc = "waiting" /\ call.peer \in Peer /\ Waiting = {call.peer}
      /\ UNCHANGED <<requests, tries>>
  BY DEF ReplyArrives, NoReply, Phases, Waiting, TypeOK, CallState
<1>2. \/ call' = Acknowledged /\ Reply = "ran"
      \/ call' = SendFailed
  BY DEF ReplyArrives, NoReply
<1>3. CASE call' = Acknowledged /\ Reply = "ran"
  <2>1. /\ call.success \in Seq(Peer) /\ call'.success = Append(call.success, call.peer)
        /\ call'.todo = call.todo /\ call'.stillFailed = call.stillFailed
        /\ call'.nodes = call.nodes /\ call'.attempt = call.attempt
        /\ call'.pc = "loop" /\ call'.peer = NoPeer
    BY <1>3 DEF Acknowledged, TypeOK, CallState
  <2>2. /\ call'.success \in Seq(Peer)
        /\ ToSet(call'.success) = ToSet(call.success) \cup {call.peer}
        /\ IsInjective(call'.success)
    BY <1>1, <2>1, AppendNew DEF Placed
  <2>3. TypeOK'
    BY <1>1, <1>3, <2>1, <2>2 DEF Acknowledged, TypeOK, CallState
  <2>4. Waiting' = {}
    BY <2>1 DEF Waiting
  <2>5. Phases'
    BY <2>1 DEF Phases
  <2>6. Placed'
    BY <1>1, <2>1, <2>2, <2>4 DEF Placed
  <2>7. TriesCounted'
    BY <1>1, <2>1, <2>4 DEF TriesCounted
  <2>8. Ran(call.peer)
    BY <1>1, <1>3 DEF Ran, Reply, TypeOK
  <2>9. AckedWasHandled'
    BY <1>1, <2>2, <2>8 DEF AckedWasHandled, Ran
  <2> QED
    BY <2>3, <2>5, <2>6, <2>7, <2>9
<1>4. CASE call' = SendFailed
  <2>1. /\ call'.success = call.success
        /\ call'.todo = call.todo /\ call'.stillFailed = call.stillFailed \cup {call.peer}
        /\ call'.nodes = call.nodes /\ call'.attempt = call.attempt
        /\ call'.pc = "loop" /\ call'.peer = NoPeer
    BY <1>4 DEF SendFailed, TypeOK, CallState
  <2>3. TypeOK'
    BY <1>1, <1>4, <2>1 DEF SendFailed, TypeOK, CallState
  <2>4. Waiting' = {}
    BY <2>1 DEF Waiting
  <2>5. Phases'
    BY <2>1 DEF Phases
  <2>6. Placed'
    BY <1>1, <2>1, <2>4 DEF Placed
  <2>7. TriesCounted'
    BY <1>1, <2>1, <2>4 DEF TriesCounted
  <2>9. AckedWasHandled'
    BY <1>1, <2>1 DEF AckedWasHandled, Ran
  <2> QED
    BY <2>3, <2>5, <2>6, <2>7, <2>9
<1> QED
  BY <1>2, <1>3, <1>4

(* The failed nodes are what is left to try in the next attempt. *)
LEMMA AttemptStep == ASSUME Inv, AttemptEnds PROVE Inv'
<1> USE DEF Inv
<1>1. /\ call.pc = "loop" /\ call.todo = {} /\ call.peer = NoPeer /\ Waiting = {}
      /\ UNCHANGED <<requests, tries>>
  BY DEF AttemptEnds, Phases, Waiting, TypeOK, CallState
<1>2. /\ call'.success = call.success /\ call'.nodes = call.nodes /\ call'.peer = NoPeer
      /\ \/ /\ call'.pc = "returned" /\ call'.todo = {} /\ call'.failed = call.stillFailed
            /\ call'.stillFailed = call.stillFailed /\ call'.attempt = call.attempt
            /\ call.stillFailed = {} \/ call.attempt = MaxRetries
         \/ /\ call'.pc = "loop" /\ call'.todo = call.stillFailed /\ call'.stillFailed = {}
            /\ call'.attempt = call.attempt + 1 /\ call.attempt # MaxRetries
  BY <1>1 DEF AttemptEnds, TypeOK, CallState
<1>3. call' \in CallState
  <2>1. [call EXCEPT !.pc = "returned", !.failed = call.stillFailed] \in CallState
    BY DEF TypeOK, CallState
  <2>2. ASSUME NEW n \in Nat
        PROVE  [call EXCEPT !.attempt = n, !.todo = call.stillFailed, !.stillFailed = {}]
                  \in CallState
    BY DEF TypeOK, CallState
  <2>3. call.attempt + 1 \in Nat
    BY DEF TypeOK, CallState
  <2> QED
    BY <2>1, <2>2, <2>3 DEF AttemptEnds
<1>4. call'.attempt \in Attempt
  BY <1>2, RetriesAssumption DEF TypeOK, Attempt
<1>5. TypeOK'
  BY <1>1, <1>3, <1>4 DEF TypeOK
<1>6. Phases'
  BY <1>2 DEF Phases
<1>7. Waiting' = {}
  BY <1>2 DEF Waiting
<1>8. Placed'
  BY <1>1, <1>2, <1>7 DEF Placed
<1>9. TriesCounted'
  BY <1>1, <1>2, <1>7 DEF TriesCounted
<1>10. AckedWasHandled'
  BY <1>1, <1>2 DEF AckedWasHandled, Ran
<1> QED
  BY <1>5, <1>6, <1>8, <1>9, <1>10

(* A handler that ran stays run, whatever the other requests do. *)
LEMMA PeerStep ==
    ASSUME Inv, NEW p \in Peer, NEW a \in Attempt,
           \/ ReadMessageStream(p, a) \/ ReadFails(p, a)
           \/ HandlerSucceeds(p, a) \/ HandlerFails(p, a)
    PROVE  Inv'
<1> USE DEF Inv
<1>1. PICK from \in RequestState \ {"ran"}, to \in RequestState : RequestMoves(p, a, from, to)
  BY DEF ReadMessageStream, ReadFails, HandlerSucceeds, HandlerFails, RequestState
<1>2. UNCHANGED <<call, tries>> /\ requests[p][a] # "ran"
  BY <1>1 DEF RequestMoves
<1>3. TypeOK'
  BY <1>1, <1>2 DEF TypeOK, RequestMoves
<1>4. \A q \in Peer, b \in Attempt : requests[q][b] = "ran" => requests'[q][b] = "ran"
  BY <1>1 DEF RequestMoves, TypeOK
<1>5. ToSet(call.success) \subseteq Peer
  BY DEF ToSet, TypeOK, CallState
<1>6. AckedWasHandled'
  BY <1>2, <1>4, <1>5 DEF AckedWasHandled, Ran
<1> QED
  BY <1>2, <1>3, <1>6 DEF Phases, Placed, TriesCounted, Waiting

(* The inductive invariant holds in every state of a call. *)
LEMMA InvAlways == Spec => []Inv
<1>1. Inv /\ [Next]_vars => Inv'
  <2> SUFFICES ASSUME Inv, [Next]_vars PROVE Inv'
    OBVIOUS
  <2>1. CASE UNCHANGED vars
    BY <2>1 DEF vars, Inv, TypeOK, Phases, Placed, TriesCounted, AckedWasHandled, Waiting, Ran
  <2> QED
    BY <2>1, BeginStep, SendStep, ReplyStep, AttemptStep, PeerStep DEF Next
<1> QED
  BY <1>1, InvInit, PTL DEF Spec

-----------------------------------------------------------------------------
(* The two lists that BroadcastReliable returns divide the nodes it started  *)
(* with, however the attempts went (carrier_broadcast.go: stillFailed takes  *)
(* the place of the pending nodes after every attempt).                      *)
THEOREM ResultsDivideNodes == Spec => []ResultPartition
<1>1. Inv => ResultPartition
  BY DEF Inv, ResultPartition, Returned, Phases, Placed, Waiting
<1> QED
  BY <1>1, InvAlways, PTL

(* A node reported as successful has run its handler to the end: a reply     *)
(* with Success comes from a handler that returned, and a later request does *)
(* not reach a node that acknowledged (carrier_broadcast.go, message_io.go). *)
THEOREM AcknowledgedHandled == Spec => []AckedWasHandled
<1>1. Inv => AckedWasHandled
  BY DEF Inv
<1> QED
  BY <1>1, InvAlways, PTL

(* A node is given up after exactly MaxRetries + 1 sends, and never sent to  *)
(* again after it has acknowledged.                                          *)
THEOREM GivenUpAfterRetries == Spec => []RetriedAsConfigured
<1>1. Inv => RetriedAsConfigured
  <2> SUFFICES ASSUME Inv PROVE RetriedAsConfigured
    OBVIOUS
  <2>1. ASSUME Returned, NEW p \in call.failed PROVE tries[p] = MaxRetries + 1
    BY <2>1 DEF Inv, Returned, Phases, TriesCounted
  <2>2. NoPeer \notin ToSet(call.success)
    BY NoPeerAssumption DEF Inv, TypeOK, CallState, ToSet
  <2>3. ASSUME NEW p \in ToSet(call.success)
        PROVE  p \notin call.todo \cup {call.peer} \cup call.stillFailed
    BY <2>2, <2>3 DEF Inv, Placed, Waiting
  <2> QED
    BY <2>1, <2>3 DEF RetriedAsConfigured
<1> QED
  BY <1>1, InvAlways, PTL
=============================================================================
