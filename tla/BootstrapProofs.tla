--------------------------- MODULE BootstrapProofs --------------------------
(***************************************************************************)
(* Start-up and bootstrap of a node, for every cluster configuration, list *)
(* of addresses and number of retries.                                     *)
(***************************************************************************)
EXTENDS Bootstrap, LoopProofs

(* Only New makes a transport, from the identity's first session. *)
CallType == [pc : {"idle", "round", "returned"} \cup Connecting, attempt : 0..MaxRetries,
             next : 1..Len(Seeds) + 1, joined : BOOLEAN, dialerTLS : {0}, peerTLS : {0},
             written : [session : 0..MaxRotations, at : 0..MaxClock]]

NodesInv ==
    /\ setup \in DOMAIN Cluster
    /\ keyFile \in [Node -> {"absent", "damaged", "saved"}]
    /\ node \in [Node -> Process]
    /\ clock \in 0..MaxClock
    /\ \A n \in Node : node[n].tls = 0

(* A process runs only on a key that was written. *)
KeysSaved == \A n \in Node : Running(n) => keyFile[n] = "saved"

CallsInv ==
    /\ call \in [Caller -> CallType]
    /\ \A c \in Caller : call[c].pc \in Connecting => call[c].next <= Len(Seeds)
    /\ connected \subseteq ToSet(Seeds)
    /\ offline \in BOOLEAN

(***************************************************************************)
(* The inductive invariant.  A round that has an address in hand has not   *)
(* passed the last one (CallsInv), without which next could leave its      *)
(* range; a key file is only written while its process is saving it.       *)
(***************************************************************************)
Inv == NodesInv /\ KeysSaved /\ CallsInv /\ OfflineExplained

(* What Bootstrap's constants are. *)
LEMMA Constants ==
    /\ MaxClock \in Nat /\ MaxRotations \in Nat /\ MaxRetries \in Nat
    /\ Len(Seeds) \in Nat /\ Dialer \in Node
    /\ \A i \in 1..Len(Seeds) : Seeds[i] \in Node /\ Seeds[i] \in ToSet(Seeds)
<1>1. Seeds \in Seq(Node)
  BY SeedsAssumption
<1>2. Len(Seeds) \in Nat /\ \A i \in 1..Len(Seeds) : Seeds[i] \in Node /\ i \in DOMAIN Seeds
  BY <1>1
<1> QED
  BY <1>2, ClockAssumption, RotationsAssumption, RetriesAssumption, DialerAssumption DEF ToSet

(* A call that does not run is of its type. *)
LEMMA IdleCall == Idle \in CallType /\ Idle.pc = "idle" /\ Idle.next = 1
<1>1. /\ 0 \in 0..MaxRetries /\ 1 \in 1..Len(Seeds) + 1
      /\ [session |-> 0, at |-> 0] \in [session : 0..MaxRotations, at : 0..MaxClock]
  BY Constants
<1> QED
  BY <1>1 DEF Idle, CallType

(* A process that ended is of its type. *)
LEMMA DownProcess == Down \in Process /\ Down.tls = 0 /\ Down.pc = "down"
<1>1. 0 \in 0..MaxRotations
  BY Constants
<1> QED
  BY <1>1 DEF Down, Process

-----------------------------------------------------------------------------
(* Steps of processes *)

(* Whatever becomes of its process, a node keeps what its files and the      *)
(* others' processes were.                                                   *)
LEMMA ProcessStep ==
    ASSUME NodesInv, KeysSaved, NEW n \in Node, NEW p \in Process, p.tls = 0,
           node' = [node EXCEPT ![n] = p], setup' = setup, clock' = clock,
           NEW k \in {"absent", "damaged", "saved"}, keyFile' = [keyFile EXCEPT ![n] = k],
           p.pc \in {"loading", "up"} => k = "saved"
    PROVE  NodesInv' /\ KeysSaved'
<1>1. node'[n] = p /\ \A m \in Node \ {n} : node'[m] = node[m]
  BY DEF NodesInv
<1>2. keyFile'[n] = k /\ \A m \in Node \ {n} : keyFile'[m] = keyFile[m]
  BY DEF NodesInv
<1>3. NodesInv'
  BY <1>1 DEF NodesInv
<1>4. KeysSaved'
  BY <1>1, <1>2 DEF KeysSaved, Running
<1> QED
  BY <1>3, <1>4

(* Every step of a node keeps its files and processes in order. *)
LEMMA NodeStepKeeps ==
    ASSUME NodesInv, KeysSaved, NodeStep
    PROVE  NodesInv' /\ KeysSaved'
<1>1. keyFile \in [Node -> {"absent", "damaged", "saved"}] /\ node \in [Node -> Process]
  BY DEF NodesInv
<1>2. \A n \in Node : keyFile = [keyFile EXCEPT ![n] = keyFile[n]]
  BY <1>1
<1>3. ASSUME NEW n \in Node, LoadOrCreateCrypt(n) PROVE NodesInv' /\ KeysSaved'
  <2> DEFINE pc == IF keyFile[n] = "absent" THEN "saving" ELSE "loading"
             p == [node[n] EXCEPT !.pc = pc]
  <2>1. pc \in {"saving", "loading"} /\ (pc = "loading" => keyFile[n] = "saved")
    BY <1>1, <1>3 DEF LoadOrCreateCrypt
  <2>2. /\ setup' = setup /\ clock' = clock /\ keyFile' = keyFile
        /\ node' = [node EXCEPT ![n] = p]
    BY <1>1, <1>3 DEF LoadOrCreateCrypt
  <2> HIDE DEF pc
  <2>3. p \in Process /\ p.tls = 0 /\ p.pc = pc
    BY <1>1, <2>1 DEF Process, NodesInv
  <2> QED
    BY <1>1, <1>2, <2>1, <2>2, <2>3, ProcessStep
<1>4. ASSUME NEW n \in Node, KeySaved(n) PROVE NodesInv' /\ KeysSaved'
  <2> DEFINE p == [node[n] EXCEPT !.pc = "loading"]
  <2>1. p \in Process /\ p.tls = 0
    BY <1>1 DEF Process, NodesInv
  <2>2. /\ setup' = setup /\ clock' = clock /\ keyFile' = [keyFile EXCEPT ![n] = "saved"]
        /\ node' = [node EXCEPT ![n] = p]
    BY <1>1, <1>4 DEF KeySaved
  <2> QED
    BY <2>1, <2>2, ProcessStep
<1>5. ASSUME NEW n \in Node, NEW left \in {"absent", "damaged"}, SaveInterrupted(n, left)
      PROVE  NodesInv' /\ KeysSaved'
  BY <1>5, DownProcess, ProcessStep DEF SaveInterrupted
<1>6. ASSUME NEW n \in Node, StartListener(n) PROVE NodesInv' /\ KeysSaved'
  <2> DEFINE p == IF carrierAuth[n].ok THEN [Down EXCEPT !.pc = "up"] ELSE Down
  <2>1. [Down EXCEPT !.pc = "up"] \in Process /\ [Down EXCEPT !.pc = "up"].tls = 0
    BY DownProcess DEF Process
  <2>2. p \in Process /\ p.tls = 0
    BY <2>1, DownProcess
  <2>3. /\ setup' = setup /\ clock' = clock /\ keyFile' = keyFile
        /\ node' = [node EXCEPT ![n] = p] /\ node[n].pc = "loading"
    BY <1>6 DEF StartListener
  <2>4. keyFile[n] = "saved"
    BY <2>3 DEF KeysSaved, Running
  <2> HIDE DEF p
  <2> QED
    BY <1>2, <2>2, <2>3, <2>4, ProcessStep
<1>7. ASSUME NEW n \in Node, RotateSession(n) PROVE NodesInv' /\ KeysSaved'
  <2> DEFINE p == [node[n] EXCEPT !.session = @ + 1]
  <2>1. node[n] \in Process /\ node[n].session + 1 \in 0..MaxRotations /\ node[n].pc = "up"
    BY <1>1, <1>7, Constants DEF Process, RotateSession
  <2>2. p \in Process /\ p.tls = 0
    BY <1>1, <2>1 DEF Process, NodesInv
  <2>3. /\ setup' = setup /\ clock' = clock /\ keyFile' = keyFile
        /\ node' = [node EXCEPT ![n] = p]
    BY <1>1, <1>7 DEF RotateSession
  <2>4. keyFile[n] = "saved"
    BY <2>1 DEF KeysSaved, Running
  <2> HIDE DEF p
  <2> QED
    BY <1>2, <2>2, <2>3, <2>4, ProcessStep
<1>8. ASSUME NEW n \in Node, Ends(n) PROVE NodesInv' /\ KeysSaved'
  <2>1. /\ setup' = setup /\ clock' = clock /\ keyFile' = keyFile
        /\ node' = [node EXCEPT ![n] = Down]
    BY <1>8 DEF Ends, ProcessEnds
  <2> QED
    BY <1>1, <1>2, <2>1, DownProcess, ProcessStep
<1>9. ASSUME Tick PROVE NodesInv' /\ KeysSaved'
  <2>1. clock' \in 0..MaxClock
    BY <1>9, Constants DEF Tick, NodesInv
  <2> QED
    BY <1>9, <2>1 DEF Tick, NodesInv, KeysSaved, Running
<1> QED
  BY <1>3, <1>4, <1>5, <1>6, <1>7, <1>8, <1>9 DEF NodeStep

-----------------------------------------------------------------------------
(* Steps of calls *)

(* A step that changes one call keeps the others; it has to say what it      *)
(* makes of the offline flag.                                                *)
LEMMA CallStepKeeps ==
    ASSUME Inv, NEW c \in Caller, NEW r \in CallType, CallStep(c, r),
           r.pc \in Connecting => r.next <= Len(Seeds),
           connected' \subseteq ToSet(Seeds), offline' \in BOOLEAN,
           offline' => \/ offline /\ call[c].pc # "returned"
                       \/ r.pc = "returned" /\ ~r.joined /\ r.attempt = MaxRetries
    PROVE  Inv'
<1>1. call' = [call EXCEPT ![c] = r] /\ UNCHANGED <<setup, keyFile, node, clock>>
  BY DEF CallStep, nodeVars
<1>2. call \in [Caller -> CallType]
  BY DEF Inv, CallsInv
<1>3. call'[c] = r /\ \A d \in Caller \ {c} : call'[d] = call[d]
  BY <1>1, <1>2
<1>4. NodesInv' /\ KeysSaved'
  BY <1>1 DEF Inv, NodesInv, KeysSaved, Running
<1>5. CallsInv'
  BY <1>1, <1>2, <1>3 DEF Inv, CallsInv
<1>6. OfflineExplained'
  <2> SUFFICES ASSUME offline'
               PROVE  \E d \in Caller : /\ call'[d].pc = "returned" /\ ~call'[d].joined
                                        /\ call'[d].attempt = MaxRetries
    BY DEF OfflineExplained
  <2>1. CASE offline /\ call[c].pc # "returned"
    <3>1. PICK d \in Caller : /\ call[d].pc = "returned" /\ ~call[d].joined
                              /\ call[d].attempt = MaxRetries
      BY <2>1 DEF Inv, OfflineExplained
    <3>2. d # c
      BY <2>1, <3>1
    <3> QED
      BY <1>3, <3>1, <3>2
  <2>2. CASE r.pc = "returned" /\ ~r.joined /\ r.attempt = MaxRetries
    BY <1>3, <2>2
  <2> QED
    BY <2>1, <2>2
<1> QED
  BY <1>4, <1>5, <1>6 DEF Inv

(* The call that goes on with the next address, or from a fresh round, is    *)
(* of its type.                                                              *)
LEMMA NextAddressType ==
    ASSUME CallsInv, NEW c \in Caller, NEW success \in BOOLEAN,
           call[c].next <= Len(Seeds)
    PROVE  NextAddress(c, success) \in CallType /\ NextAddress(c, success).pc = "round"
<1>1. /\ call[c].attempt \in 0..MaxRetries /\ call[c].next + 1 \in 1..Len(Seeds) + 1
      /\ (call[c].joined \/ success) \in BOOLEAN
  BY Constants DEF CallsInv, CallType
<1> QED
  BY <1>1, IdleCall DEF NextAddress, CallType

LEMMA RoundType ==
    ASSUME NEW a \in 0..MaxRetries
    PROVE  /\ [Idle EXCEPT !.pc = "round", !.attempt = a] \in CallType
           /\ [Idle EXCEPT !.pc = "round", !.attempt = a].pc = "round"
BY IdleCall DEF CallType

(* What a call writes is of its type. *)
LEMMA WrittenType ==
    ASSUME NodesInv, NEW n \in Node
    PROVE  Written(n) \in [session : 0..MaxRotations, at : 0..MaxClock]
BY DEF Written, NodesInv, Process

(* Every step of a bootstrap call keeps the invariant. *)
LEMMA BootstrapStepKeeps ==
    ASSUME Inv, NEW c \in Caller, BootstrapStep(c)
    PROVE  Inv'
<1>1. /\ call[c] \in CallType /\ offline \in BOOLEAN /\ connected \subseteq ToSet(Seeds)
      /\ (call[c].pc \in Connecting => call[c].next <= Len(Seeds))
      /\ call[c].next \in 1..Len(Seeds) + 1
  BY DEF Inv, CallsInv, CallType
<1>2. call[c].next <= Len(Seeds) => Peer(c) \in Node /\ Peer(c) \in ToSet(Seeds)
  BY <1>1, Constants DEF Peer
<1>3. CASE DialFails(c)
  <2>1. call[c].next <= Len(Seeds) /\ call[c].pc # "returned"
    BY <1>1, <1>3 DEF DialFails, Connecting
  <2>2. CallStep(c, NextAddress(c, FALSE)) /\ connected' = connected /\ offline' = offline
    BY <1>3 DEF DialFails
  <2>3. NextAddress(c, FALSE) \in CallType /\ NextAddress(c, FALSE).pc = "round"
    BY <2>1, NextAddressType DEF Inv
  <2> QED
    BY <1>1, <2>1, <2>2, <2>3, CallStepKeeps DEF Connecting
<1>4. CASE RoundEnds(c)
  <2>1. call[c].pc = "round" /\ connected' = connected
    BY <1>4 DEF RoundEnds
  <2>2. CASE call[c].joined \/ call[c].attempt = MaxRetries
    <3> DEFINE r == [call[c] EXCEPT !.pc = "returned"]
    <3>1. CallStep(c, r) /\ offline' = (offline \/ ~call[c].joined)
      BY <1>4, <2>2 DEF RoundEnds
    <3>2. /\ r \in CallType /\ r.pc = "returned" /\ r.joined = call[c].joined
          /\ r.attempt = call[c].attempt /\ call[c].joined \in BOOLEAN
      BY <1>1 DEF CallType
    <3> HIDE DEF r
    <3>3. offline' \in BOOLEAN
      BY <1>1, <3>1, <3>2
    <3>4. offline' => offline \/ (~r.joined /\ r.attempt = MaxRetries)
      BY <2>2, <3>1, <3>2
    <3> QED
      BY <1>1, <2>1, <3>1, <3>2, <3>3, <3>4, CallStepKeeps DEF Connecting
  <2>3. CASE ~(call[c].joined \/ call[c].attempt = MaxRetries)
    <3> DEFINE r == [Idle EXCEPT !.pc = "round", !.attempt = call[c].attempt + 1]
    <3>1. CallStep(c, r) /\ offline' = offline
      BY <1>4, <2>3 DEF RoundEnds
    <3>2. call[c].attempt + 1 \in 0..MaxRetries
      BY <1>1, <2>3, Constants DEF CallType
    <3>3. r \in CallType /\ r.pc = "round"
      BY <3>2, RoundType
    <3> HIDE DEF r
    <3> QED
      BY <1>1, <2>1, <3>1, <3>3, CallStepKeeps DEF Connecting
  <2> QED
    BY <2>2, <2>3
<1>5. CASE Dial(c)
  <2> DEFINE r == [call[c] EXCEPT !.pc = "dialed", !.dialerTLS = node[Dialer].tls,
                                  !.peerTLS = node[Peer(c)].tls]
  <2>1. /\ call[c].pc = "round" /\ call[c].next <= Len(Seeds) /\ CallStep(c, r)
        /\ connected' = connected /\ offline' = offline
    BY <1>5 DEF Dial
  <2>2. node[Dialer].tls = 0 /\ node[Peer(c)].tls = 0
    BY <1>2, <2>1, Constants DEF Inv, NodesInv
  <2>3. r \in CallType /\ r.pc = "dialed" /\ r.next = call[c].next
    BY <1>1, <2>2 DEF CallType, Connecting
  <2> HIDE DEF r
  <2> QED
    BY <1>1, <2>1, <2>3, CallStepKeeps
<1>6. ASSUME NEW pc \in Connecting, NEW w \in [session : 0..MaxRotations, at : 0..MaxClock],
             call[c].pc \in Connecting,
             CallStep(c, [call[c] EXCEPT !.pc = pc, !.written = w]),
             UNCHANGED <<connected, offline>>
      PROVE  Inv'
  <2> DEFINE r == [call[c] EXCEPT !.pc = pc, !.written = w]
  <2>1. r \in CallType /\ r.pc = pc /\ r.next = call[c].next
    BY <1>1 DEF CallType
  <2>2. call[c].pc # "returned" /\ call[c].next <= Len(Seeds)
    BY <1>1, <1>6 DEF Connecting
  <2> HIDE DEF r
  <2>3. CallStep(c, r)
    BY <1>6 DEF r
  <2> QED
    BY <1>1, <1>6, <2>1, <2>2, <2>3, CallStepKeeps
<1>7. CASE DialAndAuth(c)
  <2>1. Written(Dialer) \in [session : 0..MaxRotations, at : 0..MaxClock]
    BY Constants, WrittenType DEF Inv
  <2> QED
    BY <1>6, <1>7, <2>1 DEF DialAndAuth, Connecting
<1>8. CASE WriteLocalAuth(c)
  <2>1. Peer(c) \in Node
    BY <1>1, <1>2, <1>8 DEF WriteLocalAuth, Connecting
  <2>2. Written(Peer(c)) \in [session : 0..MaxRotations, at : 0..MaxClock]
    BY <2>1, WrittenType DEF Inv
  <2> QED
    BY <1>6, <1>8, <2>2 DEF WriteLocalAuth, Connecting
<1>9. CASE HandleIncomingConn(c)
  <2>1. Idle.written \in [session : 0..MaxRotations, at : 0..MaxClock]
    BY IdleCall DEF CallType
  <2> QED
    BY <1>6, <1>9, <2>1 DEF HandleIncomingConn, Connecting
<1>10. CASE AwaitPeerAuth(c)
  <2>1. /\ CallStep(c, NextAddress(c, TRUE)) /\ offline' = offline
        /\ connected' = connected \cup {Peer(c)} /\ call[c].pc = "answered"
    BY <1>10 DEF AwaitPeerAuth
  <2>2. call[c].next <= Len(Seeds)
    BY <1>1, <2>1 DEF Connecting
  <2>3. NextAddress(c, TRUE) \in CallType /\ NextAddress(c, TRUE).pc = "round"
    BY <2>2, NextAddressType DEF Inv
  <2>4. connected' \subseteq ToSet(Seeds)
    BY <1>1, <1>2, <2>1, <2>2
  <2> QED
    BY <1>1, <2>1, <2>3, <2>4, CallStepKeeps DEF Connecting
<1> QED
  BY <1>3, <1>4, <1>5, <1>7, <1>8, <1>9, <1>10 DEF BootstrapStep

(* The end of a process leaves every call, fresh or on its way, of its type. *)
LEMMA EndsKeeps ==
    ASSUME Inv, NEW n \in Node, Ends(n)
    PROVE  CallsInv' /\ OfflineExplained'
<1>1. CASE n = Dialer
  <2>1. call' = [c \in Caller |-> Idle] /\ connected' = {} /\ offline' = FALSE
    BY <1>1 DEF Ends
  <2> QED
    BY <2>1, IdleCall DEF CallsInv, OfflineExplained, Connecting
<1>2. CASE n # Dialer
  <2>1. /\ call' = [c \in Caller |-> IF call[c].pc \in Connecting /\ Peer(c) = n
                                    THEN NextAddress(c, FALSE) ELSE call[c]]
        /\ connected' = connected /\ offline' = offline
    BY <1>2 DEF Ends
  <2>2. ASSUME NEW c \in Caller
        PROVE  /\ call'[c] \in CallType
               /\ call'[c].pc \in Connecting => call'[c].next <= Len(Seeds)
               /\ call[c].pc = "returned" => call'[c] = call[c]
    <3>1. /\ call[c] \in CallType
          /\ call[c].pc \in Connecting => call[c].next <= Len(Seeds)
      BY DEF Inv, CallsInv
    <3>2. CASE call[c].pc \in Connecting /\ Peer(c) = n
      <4>1. call'[c] = NextAddress(c, FALSE) /\ call[c].pc # "returned"
        BY <2>1, <3>2 DEF Connecting
      <4>2. NextAddress(c, FALSE) \in CallType /\ NextAddress(c, FALSE).pc = "round"
        BY <3>1, <3>2, NextAddressType DEF Inv
      <4> QED
        BY <4>1, <4>2 DEF Connecting
    <3>3. CASE ~(call[c].pc \in Connecting /\ Peer(c) = n)
      BY <2>1, <3>1, <3>3
    <3> QED
      BY <3>2, <3>3
  <2>3. CallsInv'
    BY <2>1, <2>2 DEF Inv, CallsInv
  <2>4. OfflineExplained'
    BY <2>1, <2>2 DEF Inv, OfflineExplained
  <2> QED
    BY <2>3, <2>4
<1> QED
  BY <1>1, <1>2

(* Every step keeps the invariant. *)
LEMMA InvStep ==
    ASSUME Inv, [Next]_vars
    PROVE  Inv'
<1>1. CASE UNCHANGED vars
  BY <1>1 DEF vars, nodeVars, Inv, NodesInv, KeysSaved, Running, CallsInv, OfflineExplained
<1>2. CASE NodeStep
  <2>1. NodesInv' /\ KeysSaved'
    BY <1>2, NodeStepKeeps DEF Inv
  <2>2. CASE UNCHANGED <<call, connected, offline>>
    BY <2>1, <2>2 DEF Inv, CallsInv, OfflineExplained
  <2>3. CASE \E n \in Node : Ends(n)
    BY <2>1, <2>3, EndsKeeps DEF Inv
  <2> QED
    BY <1>2, <2>2, <2>3 DEF NodeStep
<1>3. CASE RunBootstrapLoop
  <2> DEFINE r == [Idle EXCEPT !.pc = "round"]
  <2>1. /\ "loop" \in Caller /\ call["loop"].pc = "idle" /\ CallStep("loop", r)
        /\ connected' = connected /\ offline' = offline
    BY <1>3 DEF RunBootstrapLoop, Caller
  <2>2. r \in CallType /\ r.pc = "round"
    BY IdleCall DEF CallType
  <2> HIDE DEF r
  <2> QED
    BY <2>1, <2>2, CallStepKeeps DEF Inv, CallsInv, Connecting
<1>4. CASE Reconnect
  <2> DEFINE pc == IF Seeds = <<>> THEN "returned" ELSE "round"
             r == [Idle EXCEPT !.pc = pc]
  <2>1. /\ "reconnect" \in Caller /\ CallStep("reconnect", r)
        /\ connected' = connected /\ offline' = FALSE
    BY <1>4 DEF Reconnect, Caller
  <2>2. pc \in {"returned", "round"}
    OBVIOUS
  <2> HIDE DEF pc
  <2>3. r \in CallType /\ r.pc = pc
    BY <2>2, IdleCall DEF CallType
  <2> HIDE DEF r
  <2> QED
    BY <2>1, <2>2, <2>3, CallStepKeeps DEF Inv, CallsInv, Connecting
<1>5. ASSUME NEW p \in ToSet(Seeds), ConnectionMapChanges(p) PROVE Inv'
  <2>1. connected' \subseteq ToSet(Seeds) /\ UNCHANGED <<setup, keyFile, node, clock, call, offline>>
    BY <1>5 DEF ConnectionMapChanges, nodeVars, Inv, CallsInv
  <2> QED
    BY <2>1 DEF Inv, NodesInv, KeysSaved, Running, CallsInv, OfflineExplained
<1> QED
  BY <1>1, <1>2, <1>3, <1>4, <1>5, BootstrapStepKeeps DEF Next

(* It holds before any process has started. *)
LEMMA InitInv ==
    ASSUME Init
    PROVE  Inv
<1>1. /\ setup \in DOMAIN Cluster /\ keyFile = [n \in Node |-> "absent"]
      /\ node = [n \in Node |-> Down] /\ clock = 0
      /\ call = [c \in Caller |-> Idle] /\ connected = {} /\ offline = FALSE
  BY DEF Init, NodeInit
<1>2. 0 \in 0..MaxClock
  BY Constants
<1>3. NodesInv /\ KeysSaved
  BY <1>1, <1>2, DownProcess DEF NodesInv, KeysSaved, Running
<1>4. CallsInv /\ OfflineExplained
  BY <1>1, IdleCall DEF CallsInv, OfflineExplained, Connecting
<1> QED
  BY <1>3, <1>4 DEF Inv

-----------------------------------------------------------------------------
(* Theorems *)

(* Spec's invariant, from which the theorems follow. *)
LEMMA InvAlways == Spec => []Inv
<1>1. Inv /\ [Next]_vars => Inv'
  BY InvStep
<1> QED
  BY InitInv, <1>1, PTL DEF Spec

(* Every variable has its type: next never passes the end of the addresses   *)
(* and attempt never passes MaxRetries (bootstrap.go, attemptBootstrap).     *)
THEOREM TypeCorrect == Spec => []TypeOK
<1>1. Inv => TypeOK
  BY DEF Inv, NodesInv, CallsInv, CallType, TypeOK
<1> QED
  BY InvAlways, <1>1, PTL

(* The offline flag stands for a call that used up its retries and joined    *)
(* nobody, although the loop and Reconnect share it without knowing of each  *)
(* other (bootstrap.go, attemptBootstrap; carrier.go, Reconnect).            *)
THEOREM OfflineIsEarned == Spec => []OfflineExplained
<1>1. Inv => OfflineExplained
  BY DEF Inv
<1> QED
  BY InvAlways, <1>1, PTL

(* No process runs under a NodeID that a later one on its directory would    *)
(* not load: the key file is complete before the process goes on, and is     *)
(* left alone after (node.go, loadOrCreateCrypt).                            *)
THEOREM NodeIDPermanent == Spec => NodeIDKept
<1>1. Inv /\ Inv' /\ [Next]_vars =>
         [\A n \in Node : Running(n) => keyFile[n] = "saved" /\ keyFile'[n] = "saved"]_vars
  <2> SUFFICES ASSUME Inv, Next, NEW n \in Node, Running(n)
               PROVE  keyFile[n] = "saved" /\ keyFile'[n] = "saved"
    OBVIOUS
  <2>1. keyFile[n] = "saved" /\ keyFile \in [Node -> {"absent", "damaged", "saved"}]
    BY DEF Inv, KeysSaved, NodesInv
  <2>2. CASE keyFile' = keyFile
    BY <2>1, <2>2
  <2>3. ASSUME NEW m \in Node, KeySaved(m) PROVE keyFile'[n] = "saved"
    BY <2>1, <2>3 DEF KeySaved
  <2>4. ASSUME NEW m \in Node, NEW left \in {"absent", "damaged"}, SaveInterrupted(m, left)
        PROVE  keyFile'[n] = "saved"
    <3>1. m # n
      BY <2>4 DEF SaveInterrupted, Running
    <3> QED
      BY <2>1, <2>4, <3>1 DEF SaveInterrupted
  <2> QED
    BY <2>1, <2>2, <2>3, <2>4
    DEF Next, NodeStep, LoadOrCreateCrypt, StartListener, RotateSession, Tick, Ends, ProcessEnds,
        RunBootstrapLoop, Reconnect, BootstrapStep, DialFails, RoundEnds, Dial, DialAndAuth,
        WriteLocalAuth, HandleIncomingConn, AwaitPeerAuth, CallStep, ConnectionMapChanges,
        nodeVars
<1>2. Inv /\ [Next]_vars => Inv'
  BY InvStep
<1> QED
  BY InvAlways, <1>1, <1>2, PTL DEF Spec, NodeIDKept

-----------------------------------------------------------------------------
(* Admission *)

(* Whatever a trust store holds, a handshake that p wrote to connection chan *)
(* in session k at time at, and that arrives over TLS session 0, admits only *)
(* p, in time, and only if that is its session.                              *)
LEMMA VerdictGenuine ==
    ASSUME NEW p \in Node, NEW snap, NEW chan, NEW k, NEW at, NEW now
    PROVE  LET hs == ReadAuthHandshake(WriteAuthHandshake(p, k, at, chan), Session(p, 0), chan)
               r == VerifyPeerCert(snap, hs, now)
               cert == config[p].certFile.cert
           IN r.ok => /\ r.node = p
                      /\ cert.validFrom <= now /\ now <= cert.validUntil
                      /\ now <= at + MaxDelegationTTL
                      /\ k = 0
<1> DEFINE msg == WriteAuthHandshake(p, k, at, chan)
           hs == ReadAuthHandshake(msg, Session(p, 0), chan)
           ts == WithEmbeddedAuthorities(snap, hs.authorities)
           r == VerifyPeerCert(snap, hs, now)
           cert == config[p].certFile.cert
           V == VerifiedCerts(ts, hs, now)
<1>1. /\ hs.certs = <<cert>> /\ hs.delegationSig = p
      /\ hs.proof.session = Session(p, k) /\ hs.tls.session = Session(p, 0)
      /\ hs.proof.notAfter = at + MaxDelegationTTL
  BY DEF ReadAuthHandshake, WriteAuthHandshake, SignDelegation, TLSBindingsOf, Identity,
         NodeCertToIdentity
<1> SUFFICES ASSUME r.ok
             PROVE  /\ r.node = p
                    /\ cert.validFrom <= now /\ now <= cert.validUntil
                    /\ now <= at + MaxDelegationTTL
                    /\ k = 0
  OBVIOUS
<1> HIDE DEF hs
<1>2. /\ V # {} /\ VerifyDelegation(hs, ChainNode(ts, hs, now)) /\ VerifyFreshness(hs, now)
      /\ r.node = ChainNode(ts, hs, now)
  BY DEF VerifyPeerCert, Rejected, VerifyAuthority, DeriveScope
<1>3. \A i \in V : i = 1 /\ IsCertValid(ts, cert, now)
  BY <1>1 DEF VerifiedCerts
<1>4. cert.validFrom <= now /\ now <= cert.validUntil
  BY <1>2, <1>3 DEF IsCertValid
<1>5. r.node = p
  BY <1>1, <1>2 DEF VerifyDelegation
<1>6. Session(p, k) = Session(p, 0)
  BY <1>1, <1>2 DEF VerifyDelegation
<1>7. k = 0
  BY <1>6 DEF Session
<1>8. now <= at + MaxDelegationTTL
  BY <1>1, <1>2 DEF VerifyFreshness
<1> QED
  BY <1>4, <1>5, <1>7, <1>8

-----------------------------------------------------------------------------
(* Trust stores as loaded *)

(* The store of a new process is a load without errors. *)
LEMMA NewLoadType == NewLoad \in Load /\ NewLoad.ok /\ NewLoad.store = EmptyStore
BY DEF NewLoad, Load, EmptyStore, TrustSnapshot

(* A store without revocations in which every user CA's anchor is trusted:   *)
(* what every process starts with.                                           *)
Sound(store) ==
    /\ store \in TrustSnapshot
    /\ store.revAdmins = {} /\ store.revUsers = {} /\ store.revNodes = {}
    /\ \A h \in CA : IsUser(store, h) => store.users[h] \in store.admins

(* Store t is store s with an admin CA, or a user CA, more. *)
AdminAdded(s, h, t) ==
    Sound(s) => /\ Sound(t) /\ t.admins = s.admins \cup {h}
                /\ \A g \in CA : IsUser(t, g) <=> IsUser(s, g)

UserAdded(s, h, t) ==
    Sound(s) => /\ Sound(t) /\ t.admins = s.admins
                /\ \A g \in CA : IsUser(t, g) <=> g = h \/ IsUser(s, g)

(* What the two ways to add a CA make of a load: an error or the CA added.   *)
LEMMA LoadAdminIs ==
    ASSUME NEW load \in Load, NEW h \in CA
    PROVE  /\ LoadAdmin(load, h) \in Load
           /\ LoadAdmin(load, h).ok <=> load.ok /\ h \notin load.store.admins
           /\ LoadAdmin(load, h).ok => AdminAdded(load.store, h, LoadAdmin(load, h).store)
<1> DEFINE t == [load.store EXCEPT !.admins = @ \cup {h}]
<1>1. load.ok \in BOOLEAN /\ load.store \in TrustSnapshot
  BY DEF Load
<1>2. t \in TrustSnapshot
  BY <1>1 DEF TrustSnapshot
<1>3. CASE ~load.ok \/ h \in load.store.admins
  <2>1. LoadAdmin(load, h) = [load EXCEPT !.ok = FALSE]
    BY <1>3 DEF LoadAdmin, LoadFails
  <2> QED
    BY <1>1, <1>3, <2>1 DEF Load
<1>4. CASE load.ok /\ h \notin load.store.admins
  <2>1. LoadAdmin(load, h) = [load EXCEPT !.store = t]
    BY <1>1, <1>4 DEF LoadAdmin, Load, TrustSnapshot
  <2>2. AdminAdded(load.store, h, t)
    BY <1>1, <1>2 DEF AdminAdded, Sound, TrustSnapshot, IsUser
  <2> HIDE DEF t
  <2> QED
    BY <1>1, <1>2, <1>4, <2>1, <2>2 DEF Load
<1> QED
  BY <1>1, <1>3, <1>4

LEMMA LoadUserIs ==
    ASSUME NEW load \in Load, NEW h \in CA, NEW anchor \in CA \cup {NoCA}, NEW sig
    PROVE  /\ LoadUser(load, h, anchor, sig) \in Load
           /\ LoadUser(load, h, anchor, sig).ok <=>
                 load.ok /\ ~IsUser(load.store, h) /\ anchor \in load.store.admins /\ sig = anchor
           /\ LoadUser(load, h, anchor, sig).ok =>
                 UserAdded(load.store, h, LoadUser(load, h, anchor, sig).store)
<1> DEFINE good == load.ok /\ ~IsUser(load.store, h) /\ anchor \in load.store.admins /\ sig = anchor
           s == load.store
           t == [s EXCEPT !.users[h] = anchor]
<1>1. load.ok \in BOOLEAN /\ s \in TrustSnapshot
  BY DEF Load
<1>2. t \in TrustSnapshot
  BY <1>1 DEF TrustSnapshot
<1>3. CASE ~good
  <2>1. LoadUser(load, h, anchor, sig) = [load EXCEPT !.ok = FALSE]
    BY <1>3 DEF LoadUser, LoadFails
  <2> QED
    BY <1>1, <1>3, <2>1 DEF Load
<1>4. CASE good
  <2>1. LoadUser(load, h, anchor, sig) = [load EXCEPT !.store = t]
    BY <1>1, <1>4 DEF LoadUser, Load, TrustSnapshot
  <2>2. anchor \in s.admins /\ anchor # NoCA
    BY <1>1, <1>4, NoCAAssumption DEF TrustSnapshot
  <2>3. /\ t.admins = s.admins /\ t.revAdmins = s.revAdmins
        /\ t.revUsers = s.revUsers /\ t.revNodes = s.revNodes
        /\ t.users[h] = anchor /\ \A g \in CA \ {h} : t.users[g] = s.users[g]
    BY <1>1 DEF TrustSnapshot
  <2> HIDE DEF t, s
  <2>4. \A g \in CA : IsUser(t, g) <=> g = h \/ IsUser(s, g)
    BY <2>2, <2>3 DEF IsUser
  <2>5. UserAdded(s, h, t)
    BY <1>2, <2>2, <2>3, <2>4 DEF UserAdded, Sound, IsUser
  <2>6. LoadUser(load, h, anchor, sig).ok /\ LoadUser(load, h, anchor, sig).store = t
    BY <1>1, <1>4, <2>1 DEF Load
  <2>7. LoadUser(load, h, anchor, sig) \in Load
    BY <1>1, <1>2, <2>1 DEF Load
  <2> QED
    BY <1>4, <2>5, <2>6, <2>7 DEF s
<1> QED
  BY <1>1, <1>3, <1>4

(* Either way the result is a load. *)
LEMMA LoadTypes ==
    ASSUME NEW load \in Load, NEW h \in CA, NEW anchor \in CA \cup {NoCA}, NEW sig
    PROVE  LoadAdmin(load, h) \in Load /\ LoadUser(load, h, anchor, sig) \in Load
BY LoadAdminIs, LoadUserIs

(* The loop over CA files has a load after every file. *)
LEMMA FilesRounds ==
    ASSUME NEW files \in Seq(CAKeyFile)
    PROVE  \E l \in [0..Len(files) -> Load] :
              /\ AddCAFiles(NewLoad, files) = l[Len(files)]
              /\ l[0] = NewLoad
              /\ \A i \in 1..Len(files) : l[i] = AddCAFile(l[i - 1], files[i])
<1> DEFINE n == Len(files)
           round == [p \in Load \X (1..n) |-> AddCAFile(p[1], files[p[2]])]
           Eqn(f) == f = [i \in 0..n |-> IF i = 0 THEN NewLoad ELSE AddCAFile(f[i - 1], files[i])]
           loaded == CHOOSE f : Eqn(f)
<1>1. n \in Nat /\ \A i \in 1..n : files[i] \in CAKeyFile
  OBVIOUS
<1>2. ASSUME NEW l \in Load, NEW i \in 1..n PROVE AddCAFile(l, files[i]) \in Load
  <2>1. files[i].ca \in CA /\ files[i].anchor \in CA \cup {NoCA}
    BY <1>1 DEF CAKeyFile
  <2>2. LoadAdmin(l, files[i].ca) \in Load
    BY <2>1, LoadTypes
  <2>3. LoadUser(l, files[i].ca, files[i].anchor, files[i].anchorSig) \in Load
    BY <2>1, LoadTypes
  <2> QED
    BY <2>2, <2>3 DEF AddCAFile
<1>3. round \in [Load \X (1..n) -> Load]
  BY <1>2
<1>4. \A l \in Load, i \in 1..n : round[<<l, i>>] = AddCAFile(l, files[i])
  OBVIOUS
<1> HIDE DEF round, n
<1>5. PICK g \in [0..n -> Load] : g[0] = NewLoad /\ \A i \in 1..n : g[i] = round[<<g[i - 1], i>>]
  <2>1. Runs(n, Load, NewLoad, round) # {}
    BY <1>1, <1>3, NewLoadType, LoopRuns
  <2> QED
    BY <2>1 DEF Runs
<1>6. Eqn(g)
  <2>1. ASSUME NEW i \in 0..n
        PROVE  g[i] = IF i = 0 THEN NewLoad ELSE AddCAFile(g[i - 1], files[i])
    <3>1. CASE i = 0
      BY <1>5, <3>1
    <3>2. CASE i # 0
      <4>1. i \in 1..n /\ g[i - 1] \in Load
        BY <1>1, <3>2
      <4> QED
        BY <1>4, <1>5, <3>2, <4>1
    <3> QED
      BY <3>1, <3>2
  <2> QED
    BY <2>1
<1>7. Eqn(loaded)
  <2> HIDE DEF Eqn
  <2> QED
    BY <1>6
<1>8. AddCAFiles(NewLoad, files) = loaded[n]
  BY DEF AddCAFiles, n
<1> HIDE DEF loaded
<1>9. loaded[0] = NewLoad
  BY <1>1, <1>7
<1>10. ASSUME NEW i \in 1..n PROVE loaded[i] = AddCAFile(loaded[i - 1], files[i])
  <2>1. i \in 0..n /\ i # 0
    BY <1>1
  <2> QED
    BY <1>7, <2>1
<1>11. loaded \in [0..n -> Load]
  <2> DEFINE P == {i \in 0..n : loaded[i] \in Load}
  <2>1. 0 \in P
    BY <1>1, <1>9, NewLoadType
  <2>2. ASSUME NEW i \in 1..n, i - 1 \in P PROVE i \in P
    <3>1. i \in 0..n /\ loaded[i - 1] \in Load
      BY <1>1, <2>2
    <3> QED
      BY <1>2, <1>10, <3>1
  <2>3. 0..n \subseteq P
    <3> HIDE DEF P
    <3> QED
      BY <1>1, <2>1, <2>2, RoundInduction
  <2>4. \A i \in 0..n : loaded[i] \in Load
    BY <2>3
  <2>5. loaded = [i \in 0..n |-> loaded[i]]
    BY <1>7
  <2> QED
    BY <2>4, <2>5
<1> QED
  BY <1>8, <1>9, <1>10, <1>11 DEF n

(* The loops over the authorities of a certificate have a load after every   *)
(* authority.                                                                *)
LEMMA AuthoritiesRounds ==
    ASSUME NEW load \in Load, NEW auths \in Seq(EmbeddedCA), NEW type
    PROVE  \E l \in [0..Len(auths) -> Load] :
              /\ AddAuthorities(load, auths, type) = l[Len(auths)]
              /\ l[0] = load
              /\ \A i \in 1..Len(auths) :
                    l[i] = IF auths[i].type # type THEN l[i - 1] ELSE AddAuthority(l[i - 1], auths[i])
<1> DEFINE n == Len(auths)
           Body(l, i) == IF auths[i].type # type THEN l ELSE AddAuthority(l, auths[i])
           round == [p \in Load \X (1..n) |-> Body(p[1], p[2])]
           Eqn(f) == f = [i \in 0..n |-> IF i = 0 THEN load
                                         ELSE IF auths[i].type # type THEN f[i - 1]
                                         ELSE AddAuthority(f[i - 1], auths[i])]
           loaded == CHOOSE f : Eqn(f)
<1>1. n \in Nat /\ \A i \in 1..n : auths[i] \in EmbeddedCA
  OBVIOUS
<1>2. ASSUME NEW l \in Load, NEW i \in 1..n PROVE Body(l, i) \in Load
  <2>1. auths[i].ca \in CA /\ auths[i].anchor \in CA \cup {NoCA}
    BY <1>1 DEF EmbeddedCA
  <2>2. LoadAdmin(l, auths[i].ca) \in Load
    BY <2>1, LoadTypes
  <2>3. LoadUser(l, auths[i].ca, auths[i].anchor, auths[i].anchorSig) \in Load
    BY <2>1, LoadTypes
  <2> QED
    BY <2>2, <2>3 DEF AddAuthority
<1>3. round \in [Load \X (1..n) -> Load]
  <2> HIDE DEF Body
  <2> QED
    BY <1>2
<1>4. \A l \in Load, i \in 1..n : round[<<l, i>>] = Body(l, i)
  <2> HIDE DEF Body
  <2> QED
    OBVIOUS
<1> HIDE DEF round, n
<1>5. PICK g \in [0..n -> Load] : g[0] = load /\ \A i \in 1..n : g[i] = round[<<g[i - 1], i>>]
  <2>1. Runs(n, Load, load, round) # {}
    BY <1>1, <1>3, LoopRuns
  <2> QED
    BY <2>1 DEF Runs
<1>6. Eqn(g)
  <2>1. ASSUME NEW i \in 0..n
        PROVE  g[i] = IF i = 0 THEN load ELSE Body(g[i - 1], i)
    <3> HIDE DEF Body
    <3>1. CASE i = 0
      BY <1>5, <3>1
    <3>2. CASE i # 0
      <4>1. i \in 1..n /\ g[i - 1] \in Load
        BY <1>1, <3>2
      <4> QED
        BY <1>4, <1>5, <3>2, <4>1
    <3> QED
      BY <3>1, <3>2
  <2> QED
    BY <2>1
<1>7. Eqn(loaded)
  <2> HIDE DEF Eqn
  <2> QED
    BY <1>6
<1>8. AddAuthorities(load, auths, type) = loaded[n]
  BY DEF AddAuthorities, n
<1> HIDE DEF loaded
<1>9. loaded[0] = load
  BY <1>1, <1>7
<1>10. ASSUME NEW i \in 1..n PROVE loaded[i] = Body(loaded[i - 1], i)
  <2>1. i \in 0..n /\ i # 0
    BY <1>1
  <2> QED
    BY <1>7, <2>1
<1>11. loaded \in [0..n -> Load]
  <2> DEFINE P == {i \in 0..n : loaded[i] \in Load}
  <2> HIDE DEF Body
  <2>1. 0 \in P
    BY <1>1, <1>9
  <2>2. ASSUME NEW i \in 1..n, i - 1 \in P PROVE i \in P
    <3>1. i \in 0..n /\ loaded[i - 1] \in Load
      BY <1>1, <2>2
    <3> QED
      BY <1>2, <1>10, <3>1
  <2>3. 0..n \subseteq P
    <3> HIDE DEF P
    <3> QED
      BY <1>1, <2>1, <2>2, RoundInduction
  <2>4. \A i \in 0..n : loaded[i] \in Load
    BY <2>3
  <2>5. loaded = [i \in 0..n |-> loaded[i]]
    BY <1>7
  <2> QED
    BY <2>4, <2>5
<1> QED
  BY <1>8, <1>9, <1>10, <1>11 DEF n

(* What certgen put into a CA's file. *)
LEMMA KeyFileIs ==
    ASSUME NEW f \in KeyFiles
    PROVE  /\ f \in CAKeyFile /\ f.ca \in CA /\ f.type \in {"admin-ca", "user-ca"}
           /\ f.type = "user-ca" => /\ f.anchor \in CA /\ f.anchorSig = f.anchor
                                    /\ f.anchorPub \in {f.anchor, NoCA}
                                    /\ \E g \in KeyFiles : g.type = "admin-ca" /\ g.ca = f.anchor
<1>1. f \in CAKeyFile
  BY KeyFilesAssumption DEF MadeByCertgen
<1>2. f.ca \in CA /\ f.type \in {"admin-ca", "user-ca"}
  BY <1>1 DEF CAKeyFile
<1>3. ASSUME f.type = "user-ca"
      PROVE  /\ f.anchor \in CA /\ f.anchorSig = f.anchor /\ f.anchorPub \in {f.anchor, NoCA}
             /\ \E g \in KeyFiles : g.type = "admin-ca" /\ g.ca = f.anchor
  <2>1. f # CmdAdminCA(f.ca)
    BY <1>3 DEF CmdAdminCA
  <2>2. PICK g \in KeyFiles : /\ CanAnchor(g)
                              /\ f \in {CmdUserCA(g, f.ca), LegacyUserCA(CmdUserCA(g, f.ca))}
    BY <2>1, KeyFilesAssumption DEF MadeByCertgen
  <2>3. g.ca \in CA /\ g.type = "admin-ca"
    BY <2>2, KeyFilesAssumption DEF MadeByCertgen, CAKeyFile, CanAnchor
  <2>4. f.anchor = g.ca /\ f.anchorSig = g.ca /\ f.anchorPub \in {g.ca, NoCA}
    <3>1. CASE f = CmdUserCA(g, f.ca)
      BY <3>1 DEF CmdUserCA
    <3>2. CASE f = LegacyUserCA(CmdUserCA(g, f.ca))
      BY <3>2 DEF CmdUserCA, LegacyUserCA
    <3> QED
      BY <2>2, <3>1, <3>2
  <2> QED
    BY <2>3, <2>4
<1> QED
  BY <1>1, <1>2, <1>3

(* Two files of one CA are the same. *)
LEMMA OneFilePerCA ==
    ASSUME NEW f \in KeyFiles, NEW g \in KeyFiles, f.ca = g.ca
    PROVE  f = g
BY KeyFilesAssumption DEF MadeByCertgen

(* The first i files can be loaded in their order, and the store holds what  *)
(* they name.                                                                *)
PrefixLoads(files, i) ==
    /\ \A a, b \in 1..i : a # b => files[a].ca # files[b].ca
    /\ \A a \in 1..i : files[a].type = "user-ca" =>
          \E j \in 1..a - 1 : files[j].type = "admin-ca" /\ files[j].ca = files[a].anchor

HoldsPrefix(store, files, i) ==
    /\ Sound(store)
    /\ \A h \in CA : /\ h \in store.admins <=> \E a \in 1..i : files[a].type = "admin-ca" /\ files[a].ca = h
                     /\ IsUser(store, h) <=> \E a \in 1..i : files[a].type = "user-ca" /\ files[a].ca = h

(* One file more: it loads exactly when its CA is new and its anchor, if it  *)
(* has one, is among the files before it.                                    *)
LEMMA FileLoads ==
    ASSUME NEW files \in Seq(CAKeyFile), \A a \in 1..Len(files) : files[a] \in KeyFiles,
           NEW i \in 1..Len(files), NEW load \in Load,
           load.ok <=> PrefixLoads(files, i - 1),
           load.ok => HoldsPrefix(load.store, files, i - 1)
    PROVE  LET next == AddCAFile(load, files[i]) IN
           /\ next.ok <=> PrefixLoads(files, i)
           /\ next.ok => HoldsPrefix(next.store, files, i)
<1> DEFINE f == files[i]
           next == AddCAFile(load, f)
           store == load.store
           known == \E a \in 1..i - 1 : files[a].ca = f.ca
           anchored == \E a \in 1..i - 1 : files[a].type = "admin-ca" /\ files[a].ca = f.anchor
<1>1. /\ f \in KeyFiles /\ f.ca \in CA /\ f.type \in {"admin-ca", "user-ca"}
      /\ f.type = "user-ca" => f.anchor \in CA /\ f.anchorSig = f.anchor
      /\ \A a \in 1..i - 1 : /\ files[a] \in KeyFiles /\ files[a].ca \in CA
                             /\ files[a].ca = f.ca => files[a] = f
      /\ i \in Nat /\ f \in CAKeyFile /\ 1..i = 1..i - 1 \cup {i} /\ i \notin 1..i - 1
  <2>1. f \in KeyFiles /\ i \in Nat /\ \A a \in 1..i - 1 : files[a] \in KeyFiles
    OBVIOUS
  <2>2. 1..i = 1..i - 1 \cup {i} /\ i \notin 1..i - 1
    BY <2>1
  <2>3. \A a \in 1..i - 1 : files[a].ca \in CA /\ (files[a].ca = f.ca => files[a] = f)
    BY <2>1, KeyFileIs, OneFilePerCA
  <2> QED
    BY <2>1, <2>2, <2>3, KeyFileIs
<1>2. /\ load.ok \in BOOLEAN /\ known \in BOOLEAN /\ anchored \in BOOLEAN
      /\ PrefixLoads(files, i - 1) \in BOOLEAN /\ PrefixLoads(files, i) \in BOOLEAN
  BY DEF Load, PrefixLoads
<1> HIDE DEF f
<1>3. PrefixLoads(files, i) <=> /\ PrefixLoads(files, i - 1) /\ ~known
                                /\ f.type = "user-ca" => anchored
  BY <1>1 DEF PrefixLoads, f
<1>4. load.ok => /\ f.type = "admin-ca" => (f.ca \in store.admins <=> known)
                 /\ f.type = "user-ca" => /\ IsUser(store, f.ca) <=> known
                                          /\ f.anchor \in store.admins <=> anchored
  BY <1>1 DEF HoldsPrefix
<1>5. CASE f.type = "admin-ca"
  <2>1. /\ next \in Load
        /\ next.ok <=> (load.ok /\ f.ca \notin store.admins)
        /\ next.ok => AdminAdded(store, f.ca, next.store)
    BY <1>1, <1>5, LoadAdminIs DEF AddCAFile
  <2> HIDE DEF next, known, anchored
  <2>2. next.ok <=> PrefixLoads(files, i)
    BY <1>2, <1>3, <1>4, <1>5, <2>1
  <2>3. ASSUME next.ok PROVE HoldsPrefix(next.store, files, i)
    <3>1. load.ok /\ HoldsPrefix(store, files, i - 1)
      BY <1>2, <2>1, <2>3
    <3>4. Sound(store)
      BY <3>1 DEF HoldsPrefix
    <3> DEFINE t == next.store
    <3>2. /\ Sound(t) /\ t.admins = store.admins \cup {f.ca}
          /\ \A g \in CA : IsUser(t, g) <=> IsUser(store, g)
      BY <2>1, <2>3, <3>4 DEF AdminAdded
    <3> HIDE DEF t
    <3>3. HoldsPrefix(t, files, i)
      <4>1. ASSUME NEW h \in CA
            PROVE  /\ h \in t.admins <=> \E a \in 1..i : files[a].type = "admin-ca" /\ files[a].ca = h
                   /\ IsUser(t, h) <=> \E a \in 1..i : files[a].type = "user-ca" /\ files[a].ca = h
        <5>1. /\ h \in store.admins <=> \E a \in 1..i - 1 : files[a].type = "admin-ca" /\ files[a].ca = h
              /\ IsUser(store, h) <=> \E a \in 1..i - 1 : files[a].type = "user-ca" /\ files[a].ca = h
          BY <3>1 DEF HoldsPrefix
        <5> QED
          BY <1>1, <1>5, <3>2, <5>1 DEF f
      <4> QED
        BY <3>2, <4>1 DEF HoldsPrefix
    <3> QED
      BY <3>3 DEF t
  <2> QED
    BY <2>2, <2>3 DEF next, f
<1>6. CASE f.type = "user-ca"
  <2>1. /\ next \in Load
        /\ next.ok <=> (load.ok /\ ~IsUser(store, f.ca) /\ f.anchor \in store.admins /\ f.anchorSig = f.anchor)
        /\ next.ok => UserAdded(store, f.ca, next.store)
    <3>1. next = LoadUser(load, f.ca, f.anchor, f.anchorSig)
      BY <1>6 DEF AddCAFile
    <3> HIDE DEF next
    <3> QED
      BY <1>1, <1>6, <3>1, LoadUserIs
  <2> HIDE DEF next, known, anchored
  <2>2. next.ok <=> PrefixLoads(files, i)
    BY <1>1, <1>2, <1>3, <1>4, <1>6, <2>1
  <2>3. ASSUME next.ok PROVE HoldsPrefix(next.store, files, i)
    <3>1. load.ok /\ HoldsPrefix(store, files, i - 1) /\ f.anchor \in store.admins
      BY <1>2, <2>1, <2>3
    <3>4. Sound(store)
      BY <3>1 DEF HoldsPrefix
    <3> DEFINE t == next.store
    <3>2. /\ Sound(t) /\ t.admins = store.admins
          /\ \A g \in CA : IsUser(t, g) <=> g = f.ca \/ IsUser(store, g)
      BY <2>1, <2>3, <3>4 DEF UserAdded
    <3> HIDE DEF t
    <3>3. HoldsPrefix(t, files, i)
      <4>1. ASSUME NEW h \in CA
            PROVE  /\ h \in t.admins <=> \E a \in 1..i : files[a].type = "admin-ca" /\ files[a].ca = h
                   /\ IsUser(t, h) <=> \E a \in 1..i : files[a].type = "user-ca" /\ files[a].ca = h
        <5>1. /\ h \in store.admins <=> \E a \in 1..i - 1 : files[a].type = "admin-ca" /\ files[a].ca = h
              /\ IsUser(store, h) <=> \E a \in 1..i - 1 : files[a].type = "user-ca" /\ files[a].ca = h
          BY <3>1 DEF HoldsPrefix
        <5> QED
          BY <1>1, <1>6, <3>2, <5>1 DEF f
      <4> QED
        BY <3>2, <4>1 DEF HoldsPrefix
    <3> QED
      BY <3>3 DEF t
  <2> QED
    BY <2>2, <2>3 DEF next, f
<1> QED
  BY <1>1, <1>5, <1>6

(* The whole list. *)
LEMMA FilesLoad ==
    ASSUME NEW files \in Seq(CAKeyFile), \A a \in 1..Len(files) : files[a] \in KeyFiles
    PROVE  LET load == AddCAFiles(NewLoad, files) IN
           /\ load.ok <=> PrefixLoads(files, Len(files))
           /\ load.ok => HoldsPrefix(load.store, files, Len(files))
<1> DEFINE n == Len(files)
<1>1. n \in Nat
  OBVIOUS
<1>2. PICK l \in [0..n -> Load] : /\ AddCAFiles(NewLoad, files) = l[n] /\ l[0] = NewLoad
                                  /\ \A i \in 1..n : l[i] = AddCAFile(l[i - 1], files[i])
  BY FilesRounds
<1> DEFINE P == {i \in 0..n : /\ l[i].ok <=> PrefixLoads(files, i)
                              /\ l[i].ok => HoldsPrefix(l[i].store, files, i)}
<1>3. 0 \in P
  <2>1. l[0].ok /\ l[0].store = EmptyStore /\ l[0] \in Load
    BY <1>2, NewLoadType DEF NewLoad
  <2>2. PrefixLoads(files, 0)
    BY DEF PrefixLoads
  <2>3. HoldsPrefix(EmptyStore, files, 0)
    BY DEF HoldsPrefix, Sound, EmptyStore, TrustSnapshot, IsUser
  <2> QED
    BY <1>1, <2>1, <2>2, <2>3
<1>4. ASSUME NEW i \in 1..n, i - 1 \in P PROVE i \in P
  <2>1. i \in 0..n /\ l[i - 1] \in Load /\ l[i] = AddCAFile(l[i - 1], files[i])
    BY <1>1, <1>2
  <2>2. /\ l[i - 1].ok <=> PrefixLoads(files, i - 1)
        /\ l[i - 1].ok => HoldsPrefix(l[i - 1].store, files, i - 1)
    BY <1>4
  <2>3. /\ l[i].ok <=> PrefixLoads(files, i)
        /\ l[i].ok => HoldsPrefix(l[i].store, files, i)
    BY <2>1, <2>2, FileLoads
  <2> QED
    BY <2>1, <2>3
<1>5. n \in P
  <2>1. 0..n \subseteq P
    <3> HIDE DEF P, n
    <3> QED
      BY <1>1, <1>3, <1>4, RoundInduction
  <2> QED
    BY <1>1, <2>1
<1> QED
  BY <1>2, <1>5

(* A certificate's authorities: its issuer, an admin CA; or an admin CA and  *)
(* the issuer, a user CA that it anchors.                                    *)
AdminChain(h) == <<Authority("admin-ca", h, h, NoCA)>>
UserChain(h, anchor) == <<Authority("admin-ca", anchor, anchor, NoCA),
                          Authority("user-ca", h, anchor, anchor)>>

(* They are authorities of their type. *)
LEMMA ChainTypes ==
    ASSUME NEW h \in CA, NEW a \in CA
    PROVE  /\ AdminChain(h) \in Seq(EmbeddedCA) /\ Len(AdminChain(h)) = 1
           /\ AdminChain(h)[1] = Authority("admin-ca", h, h, NoCA)
           /\ UserChain(h, a) \in Seq(EmbeddedCA) /\ Len(UserChain(h, a)) = 2
           /\ UserChain(h, a)[1] = Authority("admin-ca", a, a, NoCA)
           /\ UserChain(h, a)[2] = Authority("user-ca", h, a, a)
<1>1. \A g \in CA : Authority("admin-ca", g, g, NoCA) \in EmbeddedCA
  BY DEF Authority, EmbeddedCA
<1>2. Authority("user-ca", h, a, a) \in EmbeddedCA
  BY DEF Authority, EmbeddedCA
<1> QED
  BY <1>1, <1>2 DEF AdminChain, UserChain

(* The fields of an authority. *)
LEMMA AuthorityFields ==
    ASSUME NEW type, NEW h, NEW anchor, NEW sig
    PROVE  LET a == Authority(type, h, anchor, sig) IN
           a.type = type /\ a.ca = h /\ a.anchor = anchor /\ a.anchorSig = sig
BY DEF Authority

(* The store of a new process trusts nobody. *)
LEMMA EmptySound ==
    Sound(EmptyStore) /\ EmptyStore.admins = {} /\ \A h \in CA : ~IsUser(EmptyStore, h)
BY DEF Sound, EmptyStore, TrustSnapshot, IsUser

(* One round of AddEmbeddedTrust's loops. *)
Round(load, a, type) == IF a.type # type THEN load ELSE AddAuthority(load, a)

(* The loops over one authority, and over two. *)
LEMMA LoopOverOne ==
    ASSUME NEW load \in Load, NEW auths \in Seq(EmbeddedCA), NEW type, Len(auths) = 1
    PROVE  AddAuthorities(load, auths, type) = Round(load, auths[1], type)
<1>1. PICK l \in [0..1 -> Load] :
         /\ AddAuthorities(load, auths, type) = l[1] /\ l[0] = load
         /\ \A i \in 1..1 : l[i] = IF auths[i].type # type THEN l[i - 1]
                                   ELSE AddAuthority(l[i - 1], auths[i])
  BY AuthoritiesRounds
<1>2. 1 \in 1..1 /\ 1 - 1 = 0
  OBVIOUS
<1> QED
  BY <1>1, <1>2 DEF Round

LEMMA LoopOverTwo ==
    ASSUME NEW load \in Load, NEW auths \in Seq(EmbeddedCA), NEW type, Len(auths) = 2
    PROVE  AddAuthorities(load, auths, type) = Round(Round(load, auths[1], type), auths[2], type)
<1>1. PICK l \in [0..2 -> Load] :
         /\ AddAuthorities(load, auths, type) = l[2] /\ l[0] = load
         /\ \A i \in 1..2 : l[i] = IF auths[i].type # type THEN l[i - 1]
                                   ELSE AddAuthority(l[i - 1], auths[i])
  BY AuthoritiesRounds
<1>2. 1 \in 1..2 /\ 2 \in 1..2 /\ 1 - 1 = 0 /\ 2 - 1 = 1
  OBVIOUS
<1>3. l[1] = Round(load, auths[1], type)
  BY <1>1, <1>2 DEF Round
<1>4. l[2] = Round(l[1], auths[2], type)
  BY <1>1, <1>2 DEF Round
<1> QED
  BY <1>1, <1>3, <1>4

(* What a load makes of the authorities of a certificate. *)
ChainLoad(auths) == AddAuthorities(AddAuthorities(NewLoad, auths, "admin-ca"), auths, "user-ca")

(* An admin CA always loads: it becomes the only CA trusted. *)
LEMMA AdminChainLoads ==
    ASSUME NEW h \in CA
    PROVE  LET load == ChainLoad(AdminChain(h)) IN
           /\ load.ok /\ Sound(load.store) /\ load.store.admins = {h}
           /\ \A g \in CA : ~IsUser(load.store, g)
<1> DEFINE auths == AdminChain(h)
           l == LoadAdmin(NewLoad, h)
<1>1. auths \in Seq(EmbeddedCA) /\ Len(auths) = 1 /\ auths[1].type = "admin-ca" /\ auths[1].ca = h
  BY ChainTypes, AuthorityFields
<1>2. /\ l \in Load
      /\ l.ok <=> (NewLoad.ok /\ h \notin NewLoad.store.admins)
      /\ l.ok => AdminAdded(NewLoad.store, h, l.store)
  <2>1. NewLoad \in Load
    BY NewLoadType
  <2> QED
    BY <2>1, LoadAdminIs
<1> HIDE DEF auths, l
<1>3. AddAuthorities(NewLoad, auths, "admin-ca") = l
  BY <1>1, NewLoadType, LoopOverOne DEF Round, AddAuthority, l
<1>4. ChainLoad(auths) = l
  BY <1>1, <1>2, <1>3, LoopOverOne DEF Round, ChainLoad
<1>5. l.ok /\ Sound(l.store) /\ l.store.admins = {h} /\ \A g \in CA : ~IsUser(l.store, g)
  BY <1>2, NewLoadType, EmptySound DEF AdminAdded
<1> QED
  BY <1>4, <1>5 DEF auths

(* So does the chain of a user CA. *)
LEMMA UserChainLoads ==
    ASSUME NEW h \in CA, NEW a \in CA
    PROVE  LET load == ChainLoad(UserChain(h, a)) IN
           /\ load.ok /\ Sound(load.store) /\ load.store.admins = {a}
           /\ \A g \in CA : IsUser(load.store, g) <=> g = h
<1> DEFINE auths == UserChain(h, a)
           l == LoadAdmin(NewLoad, a)
           m == LoadUser(l, h, a, a)
<1>1. /\ auths \in Seq(EmbeddedCA) /\ Len(auths) = 2
      /\ auths[1].type = "admin-ca" /\ auths[1].ca = a
      /\ auths[2].type = "user-ca" /\ auths[2].ca = h /\ auths[2].anchor = a
      /\ auths[2].anchorSig = a
  BY ChainTypes, AuthorityFields
<1>2. /\ l \in Load
      /\ l.ok <=> (NewLoad.ok /\ a \notin NewLoad.store.admins)
      /\ l.ok => AdminAdded(NewLoad.store, a, l.store)
  <2>1. NewLoad \in Load
    BY NewLoadType
  <2> QED
    BY <2>1, LoadAdminIs
<1> HIDE DEF auths, l
<1>3. l.ok /\ Sound(l.store) /\ l.store.admins = {a} /\ \A g \in CA : ~IsUser(l.store, g)
  BY <1>2, NewLoadType, EmptySound DEF AdminAdded
<1>4. /\ m \in Load
      /\ m.ok <=> l.ok /\ ~IsUser(l.store, h) /\ a \in l.store.admins /\ a = a
      /\ m.ok => UserAdded(l.store, h, m.store)
  <2>1. a \in CA \cup {NoCA}
    OBVIOUS
  <2> QED
    BY <1>2, <2>1, LoadUserIs
<1> HIDE DEF m
<1>5. m.ok /\ Sound(m.store) /\ m.store.admins = {a} /\ \A g \in CA : IsUser(m.store, g) <=> g = h
  <2>1. m.ok /\ UserAdded(l.store, h, m.store)
    BY <1>3, <1>4
  <2> QED
    BY <1>3, <2>1 DEF UserAdded
<1>6. AddAuthorities(NewLoad, auths, "admin-ca") = l
  <2>1. Round(NewLoad, auths[1], "admin-ca") = l
    BY <1>1 DEF Round, AddAuthority, l
  <2>2. Round(l, auths[2], "admin-ca") = l
    BY <1>1 DEF Round
  <2> QED
    BY <1>1, <2>1, <2>2, NewLoadType, LoopOverTwo
<1>7. AddAuthorities(l, auths, "user-ca") = m
  <2>1. Round(l, auths[1], "user-ca") = l
    BY <1>1 DEF Round
  <2>2. Round(l, auths[2], "user-ca") = m
    BY <1>1 DEF Round, AddAuthority, m
  <2> QED
    BY <1>1, <1>2, <2>1, <2>2, LoopOverTwo
<1>8. ChainLoad(auths) = m
  BY <1>6, <1>7 DEF ChainLoad
<1> QED
  BY <1>5, <1>8 DEF auths

(* A node certificate that certgen made with CA file f, with the chain of    *)
(* the CA or, an older one, without.                                         *)
CertMadeWith(f, n, certFile) ==
    /\ certFile.cert \in Cert /\ certFile.cert.node = n /\ certFile.cert.issuer = f.ca
    /\ certFile.caSig = f.ca /\ certFile.caPub = f.ca
    /\ \/ certFile.authorities = <<>>
       \/ f.type = "admin-ca" /\ certFile.authorities = AdminChain(f.ca)
       \/ f.type = "user-ca" /\ certFile.authorities = UserChain(f.ca, f.anchor)

(* Every node has one. *)
LEMMA CertFileIs ==
    ASSUME NEW s \in DOMAIN Cluster, NEW n \in Node
    PROVE  /\ Cluster[s][n] \in Config
           /\ \E f \in KeyFiles : CertMadeWith(f, n, Cluster[s][n].certFile)
<1> DEFINE cf == Cluster[s][n].certFile
           cert == cf.cert
           signed(f) == CmdSignNode(f, n, cert.validFrom, cert.validUntil - cert.validFrom)
<1>1. Cluster[s][n] \in Config
  BY ClusterAssumption
<1>2. cf \in NodeCertFile
  BY <1>1 DEF Config
<1>3. cert \in Cert
  BY <1>2 DEF NodeCertFile
<1>4. PICK f \in KeyFiles : \/ HasTrustChain(f) /\ cf = signed(f)
                            \/ cf = Legacy(signed(f))
  BY IssuedAssumption DEF SignedWith
<1>5. /\ cf.cert.node = n /\ cf.cert.issuer = f.ca /\ cf.caSig = f.ca /\ cf.caPub = f.ca
      /\ cf.authorities = <<>> \/ (HasTrustChain(f) /\ cf.authorities = BuildEmbeddedTrustChain(f))
  <2>1. /\ signed(f).cert.node = n /\ signed(f).cert.issuer = f.ca
        /\ signed(f).caSig = f.ca /\ signed(f).caPub = f.ca
        /\ signed(f).authorities = BuildEmbeddedTrustChain(f)
    BY DEF CmdSignNode
  <2>2. /\ Legacy(signed(f)).cert = signed(f).cert /\ Legacy(signed(f)).caSig = signed(f).caSig
        /\ Legacy(signed(f)).caPub = signed(f).caPub /\ Legacy(signed(f)).authorities = <<>>
    BY DEF CmdSignNode, Legacy
  <2> HIDE DEF cf, signed
  <2>3. CASE HasTrustChain(f) /\ cf = signed(f)
    BY <2>1, <2>3
  <2>4. CASE cf = Legacy(signed(f))
    BY <2>1, <2>2, <2>4
  <2> QED
    BY <1>4, <2>3, <2>4
<1>6. ASSUME HasTrustChain(f)
      PROVE  \/ f.type = "admin-ca" /\ BuildEmbeddedTrustChain(f) = AdminChain(f.ca)
             \/ f.type = "user-ca" /\ BuildEmbeddedTrustChain(f) = UserChain(f.ca, f.anchor)
  <2>1. CASE f.type = "admin-ca"
    BY <2>1 DEF BuildEmbeddedTrustChain, AdminChain
  <2>2. CASE f.type = "user-ca"
    <3>1. f.anchorPub = f.anchor /\ f.anchorSig = f.anchor
      BY <1>6, <2>2, KeyFileIs DEF HasTrustChain
    <3> QED
      BY <2>2, <3>1 DEF BuildEmbeddedTrustChain, UserChain
  <2> QED
    BY <2>1, <2>2, KeyFileIs
<1>7. CertMadeWith(f, n, cf)
  <2> HIDE DEF cf
  <2> QED
    BY <1>3, <1>5, <1>6 DEF CertMadeWith
<1> QED
  BY <1>1, <1>7

(* What a node trusts when it has started. *)
TrustIs(load, conf) ==
    /\ Sound(load.store) /\ load.store.admins = AdminsOf(conf)
    /\ UsersOf(conf) \subseteq CA
    /\ \A h \in CA : IsUser(load.store, h) <=> h \in UsersOf(conf)

(* A list of CA files loads exactly if it is loadable, and gives what it     *)
(* names.                                                                    *)
LEMMA ListedLoads ==
    ASSUME NEW conf, NEW files \in Seq(CAKeyFile), files = CAFiles(conf), files # <<>>,
           ToSet(files) \subseteq KeyFiles
    PROVE  LET load == AddCAFiles(NewLoad, files) IN
           /\ load.ok <=> Loadable(conf)
           /\ load.ok => TrustIs(load, conf)
<1> DEFINE load == AddCAFiles(NewLoad, files)
           n == Len(files)
<1>1. DOMAIN files = 1..n /\ n \in Nat /\ \A a \in 1..n : files[a] \in KeyFiles /\ files[a].ca \in CA
  <2>1. DOMAIN files = 1..n /\ n \in Nat
    OBVIOUS
  <2>2. \A a \in 1..n : files[a] \in KeyFiles
    BY <2>1 DEF ToSet
  <2> QED
    BY <2>1, <2>2, KeyFileIs
<1>2. /\ load.ok <=> PrefixLoads(files, n)
      /\ load.ok => HoldsPrefix(load.store, files, n)
  BY <1>1, FilesLoad
<1> HIDE DEF load, n
<1>3. PrefixLoads(files, n) <=> Loadable(conf)
  BY <1>1 DEF PrefixLoads, Loadable
<1>4. \A h : /\ h \in AdminsOf(conf) <=> \E a \in 1..n : files[a].type = "admin-ca" /\ files[a].ca = h
             /\ h \in UsersOf(conf) <=> \E a \in 1..n : files[a].type = "user-ca" /\ files[a].ca = h
  BY <1>1 DEF AdminsOf, UsersOf, ToSet
<1>5. ASSUME load.ok PROVE TrustIs(load, conf)
  <2>1. HoldsPrefix(load.store, files, n)
    BY <1>2, <1>5
  <2>2. load.store.admins \subseteq CA /\ AdminsOf(conf) \subseteq CA /\ UsersOf(conf) \subseteq CA
    BY <1>1, <1>4, <2>1 DEF HoldsPrefix, Sound, TrustSnapshot
  <2>3. load.store.admins = AdminsOf(conf)
    <3>1. \A h \in CA : h \in load.store.admins <=> h \in AdminsOf(conf)
      BY <1>4, <2>1 DEF HoldsPrefix
    <3> QED
      BY <2>2, <3>1
  <2>4. \A h \in CA : IsUser(load.store, h) <=> h \in UsersOf(conf)
    BY <1>4, <2>1 DEF HoldsPrefix
  <2> QED
    BY <2>1, <2>2, <2>3, <2>4 DEF TrustIs, HoldsPrefix
<1> QED
  BY <1>2, <1>3, <1>5 DEF load

(* Every configuration loads exactly if its CA files can be loaded in their  *)
(* order, and gives what it names.                                           *)
LEMMA ConfigLoads ==
    ASSUME NEW s \in DOMAIN Cluster, NEW n \in Node
    PROVE  LET conf == Cluster[s][n]
               load == LoadCarrierAuth(conf)
           IN  /\ load.ok <=> Loadable(conf)
               /\ load.ok => TrustIs(load, conf)
<1> DEFINE conf == Cluster[s][n]
           load == LoadCarrierAuth(conf)
           cf == conf.certFile
           files == CAFiles(conf)
           Good == (load.ok <=> Loadable(conf)) /\ (load.ok => TrustIs(load, conf))
<1>1. /\ conf \in Config /\ ToSet(files) \subseteq KeyFiles
      /\ conf.adminCAs \in Seq(CAKeyFile) /\ conf.userCAs \in Seq(CAKeyFile)
  BY CertFileIs, IssuedAssumption DEF Config
<1>2. PICK f \in KeyFiles : CertMadeWith(f, n, cf)
  BY CertFileIs
<1>3. f.ca \in CA /\ (f.type = "user-ca" => f.anchor \in CA)
  BY KeyFileIs
<1> SUFFICES Good
  OBVIOUS
<1> HIDE DEF conf
<1>4. files \in Seq(CAKeyFile) /\ (files = <<>> <=> conf.adminCAs = <<>> /\ conf.userCAs = <<>>)
  BY <1>1 DEF CAFiles
<1>5. CASE files # <<>>
  <2>1. load = AddCAFiles(NewLoad, files)
    BY <1>4, <1>5 DEF LoadCarrierAuth
  <2> HIDE DEF files
  <2> QED
    BY <1>1, <1>4, <1>5, <2>1, ListedLoads DEF files
<1>6. CASE files = <<>>
  <2>1. load = ChainLoad(EmbeddedAuthorities(cf))
    BY <1>4, <1>6 DEF LoadCarrierAuth, AddEmbeddedTrust, ChainLoad
  <2>2. Loadable(conf)
    BY <1>6 DEF Loadable
  <2>3. /\ AdminsOf(conf) = IF cf.authorities = <<>> THEN {cf.cert.issuer} ELSE {cf.authorities[1].ca}
        /\ UsersOf(conf) = IF Len(cf.authorities) = 2 THEN {cf.cert.issuer} ELSE {}
    BY <1>6 DEF AdminsOf, UsersOf
  <2> HIDE DEF load, cf
  <2>4. ASSUME EmbeddedAuthorities(cf) = AdminChain(f.ca), AdminsOf(conf) = {f.ca}, UsersOf(conf) = {}
        PROVE  load.ok /\ TrustIs(load, conf)
    BY <1>3, <2>1, <2>4, AdminChainLoads DEF TrustIs
  <2>5. CASE cf.authorities = <<>>
    <3>1. EmbeddedAuthorities(cf) = AdminChain(f.ca)
      BY <1>2, <2>5 DEF CertMadeWith, EmbeddedAuthorities, AdminChain
    <3>2. Len(cf.authorities) # 2
      BY <2>5
    <3> QED
      BY <1>2, <2>2, <2>3, <2>4, <2>5, <3>1, <3>2 DEF CertMadeWith
  <2>6. CASE f.type = "admin-ca" /\ cf.authorities = AdminChain(f.ca)
    <3>1. Len(cf.authorities) = 1 /\ cf.authorities # <<>> /\ cf.authorities[1].ca = f.ca
      BY <1>3, <2>6, ChainTypes, AuthorityFields
    <3> QED
      BY <2>2, <2>3, <2>4, <2>6, <3>1 DEF EmbeddedAuthorities
  <2>7. CASE f.type = "user-ca" /\ cf.authorities = UserChain(f.ca, f.anchor)
    <3>1. /\ Len(cf.authorities) = 2 /\ cf.authorities # <<>> /\ cf.authorities[1].ca = f.anchor
          /\ f.anchor \in CA
      BY <1>3, <2>7, ChainTypes, AuthorityFields
    <3>2. EmbeddedAuthorities(cf) = UserChain(f.ca, f.anchor)
      BY <2>7, <3>1 DEF EmbeddedAuthorities
    <3>3. AdminsOf(conf) = {f.anchor} /\ UsersOf(conf) = {f.ca}
      BY <1>2, <2>3, <3>1 DEF CertMadeWith
    <3>4. load.ok /\ TrustIs(load, conf)
      BY <1>3, <2>1, <3>1, <3>2, <3>3, UserChainLoads DEF TrustIs
    <3> QED
      BY <2>2, <3>4
  <2> QED
    BY <1>2, <2>5, <2>6, <2>7 DEF CertMadeWith
<1> QED
  BY <1>5, <1>6

(* The trust store of a node is what its configuration loads to. *)
LEMMA StoreIs ==
    ASSUME Inv, NEW n \in Node
    PROVE  /\ carrierAuth[n].ok <=> Loadable(config[n])
           /\ carrierAuth[n].ok => TrustIs(carrierAuth[n], config[n])
<1>1. setup \in DOMAIN Cluster
  BY DEF Inv, NodesInv
<1>2. carrierAuth[n] = LoadCarrierAuth(Cluster[setup][n])
  BY <1>1 DEF carrierAuth, Loaded
<1> QED
  BY <1>1, <1>2, ConfigLoads DEF config

-----------------------------------------------------------------------------
(* Who is running while a handshake is on its way *)

(***************************************************************************)
(* A process is up only with a trust store that loaded without an error;   *)
(* a call runs in a dialer that is up; a connection has a peer that is up; *)
(* and a handshake was not written later than now.  Without this a verdict *)
(* could be asked of a node whose trust store was never loaded.            *)
(***************************************************************************)
StartedInv ==
    /\ \A n \in Node : node[n].pc = "up" => carrierAuth[n].ok
    /\ \A c \in Caller : /\ call[c].pc # "idle" => node[Dialer].pc = "up"
                         /\ call[c].pc \in Connecting => node[Peer(c)].pc = "up"
                         /\ call[c].written.at <= clock

(* A step of a call keeps that if it says so of what it makes of the call. *)
LEMMA CallStarted ==
    ASSUME Inv, StartedInv, NEW c \in Caller, NEW r, CallStep(c, r), node[Dialer].pc = "up",
           r.pc \in Connecting => node[Seeds[r.next]].pc = "up", r.written.at <= clock
    PROVE  StartedInv'
<1>1. /\ call' = [call EXCEPT ![c] = r] /\ UNCHANGED <<setup, node, clock>>
      /\ call \in [Caller -> CallType]
  BY DEF CallStep, nodeVars, Inv, CallsInv
<1>2. call'[c] = r /\ \A d \in Caller \ {c} : call'[d] = call[d]
  BY <1>1
<1>3. carrierAuth' = carrierAuth
  BY <1>1 DEF carrierAuth
<1>4. \A n \in Node : node'[n].pc = "up" => carrierAuth'[n].ok
  BY <1>1, <1>3 DEF StartedInv
<1>5. ASSUME NEW d \in Caller
      PROVE  /\ call'[d].pc # "idle" => node'[Dialer].pc = "up"
             /\ call'[d].pc \in Connecting => node'[Seeds[call'[d].next]].pc = "up"
             /\ call'[d].written.at <= clock'
  <2>1. CASE d = c
    BY <1>1, <1>2, <2>1
  <2>2. CASE d # c
    BY <1>1, <1>2, <2>2 DEF StartedInv, Peer
  <2> QED
    BY <2>1, <2>2
<1> QED
  BY <1>4, <1>5 DEF StartedInv, Peer

(* The calls start in a dialer that is up. *)
LEMMA StartsStarted ==
    ASSUME Inv, StartedInv, RunBootstrapLoop \/ Reconnect
    PROVE  StartedInv'
<1>1. Idle.written.at = 0 /\ 0 <= clock
  BY Constants DEF Idle, Inv, NodesInv
<1>2. ASSUME NEW pc \in {"round", "returned"}
      PROVE  /\ [Idle EXCEPT !.pc = pc].pc = pc /\ pc \notin Connecting
             /\ [Idle EXCEPT !.pc = pc].written.at <= clock
  BY <1>1 DEF Idle, Connecting
<1>3. CASE RunBootstrapLoop
  <2> DEFINE r == [Idle EXCEPT !.pc = "round"]
  <2>1. "loop" \in Caller /\ CallStep("loop", r) /\ node[Dialer].pc = "up"
    BY <1>3 DEF RunBootstrapLoop, Caller
  <2>2. r.pc \notin Connecting /\ r.written.at <= clock
    BY <1>2
  <2> HIDE DEF r
  <2> QED
    BY <2>1, <2>2, CallStarted
<1>4. CASE Reconnect
  <2> DEFINE pc == IF Seeds = <<>> THEN "returned" ELSE "round"
             r == [Idle EXCEPT !.pc = pc]
  <2>1. "reconnect" \in Caller /\ CallStep("reconnect", r) /\ node[Dialer].pc = "up"
    BY <1>4 DEF Reconnect, Caller
  <2>2. pc \in {"round", "returned"}
    OBVIOUS
  <2> HIDE DEF pc
  <2>3. r.pc \notin Connecting /\ r.written.at <= clock
    BY <1>2, <2>2
  <2> HIDE DEF r
  <2> QED
    BY <2>1, <2>3, CallStarted
<1> QED
  BY <1>3, <1>4

(* Every step of a bootstrap call. *)
LEMMA BootstrapStarted ==
    ASSUME Inv, StartedInv, NEW c \in Caller, BootstrapStep(c)
    PROVE  StartedInv'
<1>1. /\ call[c] \in CallType /\ clock \in Nat /\ call[c].written.at <= clock
      /\ call[c].pc # "idle" => node[Dialer].pc = "up"
      /\ call[c].pc \in Connecting => node[Seeds[call[c].next]].pc = "up"
  BY Constants DEF Inv, NodesInv, CallsInv, StartedInv, Peer
<1>2. Idle.written.at = 0 /\ 0 <= clock
  BY <1>1 DEF Idle
<1>3. ASSUME NEW success
      PROVE  /\ NextAddress(c, success).pc \notin Connecting
             /\ NextAddress(c, success).written.at <= clock
  BY <1>1, <1>2 DEF NextAddress, Idle, Connecting
<1>4. CASE DialFails(c)
  <2>1. CallStep(c, NextAddress(c, FALSE)) /\ call[c].pc # "idle"
    BY <1>4 DEF DialFails, Connecting
  <2> QED
    BY <1>1, <1>3, <2>1, CallStarted
<1>5. CASE AwaitPeerAuth(c)
  <2>1. CallStep(c, NextAddress(c, TRUE)) /\ call[c].pc # "idle"
    BY <1>5 DEF AwaitPeerAuth
  <2> QED
    BY <1>1, <1>3, <2>1, CallStarted
<1>6. CASE RoundEnds(c)
  <2>1. call[c].pc # "idle"
    BY <1>6 DEF RoundEnds
  <2>2. CASE CallStep(c, [call[c] EXCEPT !.pc = "returned"])
    <3> DEFINE r == [call[c] EXCEPT !.pc = "returned"]
    <3>1. r.pc \notin Connecting /\ r.written.at <= clock
      BY <1>1 DEF CallType, Connecting
    <3> HIDE DEF r
    <3>2. CallStep(c, r)
      BY <2>2 DEF r
    <3> QED
      BY <1>1, <2>1, <3>1, <3>2, CallStarted
  <2>3. CASE CallStep(c, [Idle EXCEPT !.pc = "round", !.attempt = call[c].attempt + 1])
    <3> DEFINE r == [Idle EXCEPT !.pc = "round", !.attempt = call[c].attempt + 1]
    <3>1. r.pc \notin Connecting /\ r.written.at <= clock
      BY <1>1, <1>2 DEF Idle, Connecting
    <3> HIDE DEF r
    <3>2. CallStep(c, r)
      BY <2>3 DEF r
    <3> QED
      BY <1>1, <2>1, <3>1, <3>2, CallStarted
  <2> QED
    BY <1>6, <2>2, <2>3 DEF RoundEnds
<1>7. CASE Dial(c)
  <2> DEFINE r == [call[c] EXCEPT !.pc = "dialed", !.dialerTLS = node[Dialer].tls,
                                  !.peerTLS = node[Peer(c)].tls]
  <2>1. CallStep(c, r) /\ call[c].pc # "idle" /\ node[Seeds[call[c].next]].pc = "up"
    BY <1>7 DEF Dial, Peer
  <2>2. r.next = call[c].next /\ r.written = call[c].written
    BY <1>1 DEF CallType
  <2> HIDE DEF r
  <2> QED
    BY <1>1, <2>1, <2>2, CallStarted
<1>8. ASSUME NEW pc, NEW w, w.at <= clock, call[c].pc \in Connecting,
             CallStep(c, [call[c] EXCEPT !.pc = pc, !.written = w])
      PROVE  StartedInv'
  <2> DEFINE r == [call[c] EXCEPT !.pc = pc, !.written = w]
  <2>1. r.next = call[c].next /\ r.written = w
    BY <1>1 DEF CallType
  <2>2. CallStep(c, r) /\ call[c].pc # "idle"
    BY <1>8 DEF Connecting
  <2> HIDE DEF r
  <2> QED
    BY <1>1, <1>8, <2>1, <2>2, CallStarted
<1>9. \A n : Written(n).at <= clock
  BY <1>1 DEF Written
<1>10. CASE DialAndAuth(c)
  BY <1>8, <1>9, <1>10 DEF DialAndAuth, Connecting
<1>11. CASE WriteLocalAuth(c)
  BY <1>8, <1>9, <1>11 DEF WriteLocalAuth, Connecting
<1>12. CASE HandleIncomingConn(c)
  <2>1. Idle.written.at <= clock
    BY <1>1, <1>2
  <2> QED
    BY <1>8, <1>12, <2>1 DEF HandleIncomingConn, Connecting
<1> QED
  BY <1>4, <1>5, <1>6, <1>7, <1>10, <1>11, <1>12 DEF BootstrapStep

(* A step of a process that does not end leaves whoever is up up, and only   *)
(* StartListener, which looks at the trust store, adds to them.              *)
LEMMA NodeStarted ==
    ASSUME Inv, StartedInv, NodeStep, \A n \in Node : ~Ends(n)
    PROVE  StartedInv'
<1>1. /\ setup' = setup /\ call' = call /\ node \in [Node -> Process]
      /\ clock \in Nat /\ clock' \in Nat /\ clock <= clock'
  BY Constants DEF NodeStep, LoadOrCreateCrypt, KeySaved, StartListener, RotateSession,
                   SaveInterrupted, Tick, Inv, NodesInv
<1>2. carrierAuth' = carrierAuth
  BY <1>1 DEF carrierAuth
<1>3. ASSUME NEW n \in Node
      PROVE  /\ node[n].pc = "up" => node'[n].pc = "up"
             /\ node'[n].pc = "up" => node[n].pc = "up" \/ carrierAuth[n].ok
  <2>1. ASSUME NEW m \in Node, NEW p, p.pc # "up" \/ node[m].pc = "up" \/ carrierAuth[m].ok,
               node[m].pc = "up" => p.pc = "up", node' = [node EXCEPT ![m] = p]
        PROVE  /\ node[n].pc = "up" => node'[n].pc = "up"
               /\ node'[n].pc = "up" => node[n].pc = "up" \/ carrierAuth[n].ok
    <3>1. CASE m = n
      <4>1. node'[n] = p
        BY <1>1, <2>1, <3>1
      <4> QED
        BY <2>1, <3>1, <4>1
    <3>2. CASE m # n
      <4>1. node'[n] = node[n]
        BY <1>1, <2>1, <3>2
      <4> QED
        BY <4>1
    <3> QED
      BY <3>1, <3>2
  <2>2. CASE Tick
    BY <2>2 DEF Tick
  <2>3. ASSUME NEW m \in Node, LoadOrCreateCrypt(m)
        PROVE  /\ node[n].pc = "up" => node'[n].pc = "up"
               /\ node'[n].pc = "up" => node[n].pc = "up" \/ carrierAuth[n].ok
    <3> DEFINE pc == IF keyFile[m] = "absent" THEN "saving" ELSE "loading"
               p == [node[m] EXCEPT !.pc = pc]
    <3>1. /\ node[m].pc = "down" /\ node[m] \in Process
          /\ node' = [node EXCEPT ![m] = p] /\ pc \in {"saving", "loading"}
      BY <1>1, <2>3 DEF LoadOrCreateCrypt
    <3> HIDE DEF pc
    <3>2. p.pc = pc
      BY <3>1 DEF Process
    <3> HIDE DEF p
    <3> QED
      BY <2>1, <3>1, <3>2
  <2>4. ASSUME NEW m \in Node, KeySaved(m)
        PROVE  /\ node[n].pc = "up" => node'[n].pc = "up"
               /\ node'[n].pc = "up" => node[n].pc = "up" \/ carrierAuth[n].ok
    <3> DEFINE p == [node[m] EXCEPT !.pc = "loading"]
    <3>1. node[m].pc = "saving" /\ node[m] \in Process /\ node' = [node EXCEPT ![m] = p]
      BY <1>1, <2>4 DEF KeySaved
    <3>2. p.pc = "loading"
      BY <3>1 DEF Process
    <3> HIDE DEF p
    <3> QED
      BY <2>1, <3>1, <3>2
  <2>5. ASSUME NEW m \in Node, NEW left, SaveInterrupted(m, left)
        PROVE  /\ node[n].pc = "up" => node'[n].pc = "up"
               /\ node'[n].pc = "up" => node[n].pc = "up" \/ carrierAuth[n].ok
    <3>1. node[m].pc = "saving" /\ node' = [node EXCEPT ![m] = Down]
      BY <2>5 DEF SaveInterrupted
    <3> QED
      BY <2>1, <3>1, DownProcess
  <2>6. ASSUME NEW m \in Node, StartListener(m)
        PROVE  /\ node[n].pc = "up" => node'[n].pc = "up"
               /\ node'[n].pc = "up" => node[n].pc = "up" \/ carrierAuth[n].ok
    <3> DEFINE p == IF carrierAuth[m].ok THEN [Down EXCEPT !.pc = "up"] ELSE Down
    <3>1. node[m].pc = "loading" /\ node' = [node EXCEPT ![m] = p]
      BY <2>6 DEF StartListener
    <3>2. p.pc # "up" \/ carrierAuth[m].ok
      BY DownProcess
    <3> HIDE DEF p
    <3> QED
      BY <2>1, <3>1, <3>2
  <2>7. ASSUME NEW m \in Node, RotateSession(m)
        PROVE  /\ node[n].pc = "up" => node'[n].pc = "up"
               /\ node'[n].pc = "up" => node[n].pc = "up" \/ carrierAuth[n].ok
    <3> DEFINE p == [node[m] EXCEPT !.session = @ + 1]
    <3>1. node[m].pc = "up" /\ node[m] \in Process /\ node' = [node EXCEPT ![m] = p]
      BY <1>1, <2>7 DEF RotateSession
    <3>2. p.pc = "up"
      BY <3>1 DEF Process
    <3> HIDE DEF p
    <3> QED
      BY <2>1, <3>1, <3>2
  <2> QED
    BY <2>2, <2>3, <2>4, <2>5, <2>6, <2>7 DEF NodeStep
<1>4. \A n \in Node : node'[n].pc = "up" => carrierAuth'[n].ok
  BY <1>2, <1>3 DEF StartedInv
<1>5. ASSUME NEW c \in Caller
      PROVE  /\ call'[c].pc # "idle" => node'[Dialer].pc = "up"
             /\ call'[c].pc \in Connecting => node'[Seeds[call'[c].next]].pc = "up"
             /\ call'[c].written.at <= clock'
  <2>1. /\ call[c].pc \in Connecting => Seeds[call[c].next] \in Node
        /\ call[c].written.at \in Nat
    BY Constants DEF Inv, CallsInv, CallType
  <2> QED
    BY <1>1, <1>3, <2>1, Constants DEF StartedInv, Peer
<1> QED
  BY <1>4, <1>5 DEF StartedInv, Peer

(* The end of a process takes its calls, or the connections to it, along. *)
LEMMA EndsStarted ==
    ASSUME Inv, StartedInv, NEW n \in Node, Ends(n)
    PROVE  StartedInv'
<1>1. /\ setup' = setup /\ clock' = clock /\ clock \in Nat
      /\ node' = [node EXCEPT ![n] = Down] /\ node \in [Node -> Process]
  BY Constants DEF Ends, ProcessEnds, Inv, NodesInv
<1>2. node'[n].pc = "down" /\ \A m \in Node \ {n} : node'[m] = node[m]
  BY <1>1, DownProcess
<1>3. carrierAuth' = carrierAuth
  BY <1>1 DEF carrierAuth
<1>4. \A m \in Node : node'[m].pc = "up" => carrierAuth'[m].ok
  BY <1>2, <1>3 DEF StartedInv
<1>5. Idle.pc = "idle" /\ Idle.written.at = 0 /\ 0 <= clock
  BY <1>1 DEF Idle
<1>6. ASSUME NEW c \in Caller
      PROVE  /\ call'[c].pc # "idle" => node'[Dialer].pc = "up"
             /\ call'[c].pc \in Connecting => node'[Seeds[call'[c].next]].pc = "up"
             /\ call'[c].written.at <= clock'
  <2>1. CASE n = Dialer
    <3>1. call'[c] = Idle
      BY <2>1 DEF Ends
    <3> QED
      BY <1>1, <1>5, <3>1 DEF Connecting
  <2>2. CASE n # Dialer
    <3>1. call'[c] = IF call[c].pc \in Connecting /\ Peer(c) = n THEN NextAddress(c, FALSE) ELSE call[c]
      BY <2>2 DEF Ends
    <3>2. node'[Dialer] = node[Dialer]
      BY <1>2, <2>2, Constants
    <3>3. CASE call[c].pc \in Connecting /\ Peer(c) = n
      <4>1. call'[c] = NextAddress(c, FALSE)
        BY <3>1, <3>3
      <4>2. /\ NextAddress(c, FALSE).pc = "round"
            /\ NextAddress(c, FALSE).written.at <= clock
        BY <1>5 DEF NextAddress, Idle
      <4>3. node[Dialer].pc = "up"
        BY <3>3 DEF StartedInv, Connecting
      <4> QED
        BY <1>1, <3>2, <4>1, <4>2, <4>3 DEF Connecting
    <3>4. CASE ~(call[c].pc \in Connecting /\ Peer(c) = n)
      <4>1. call'[c] = call[c]
        BY <3>1, <3>4
      <4>2. call[c].pc \in Connecting => Peer(c) \in Node \ {n}
        BY <3>4, Constants DEF Inv, CallsInv, CallType, Peer
      <4> QED
        BY <1>1, <1>2, <3>2, <4>1, <4>2 DEF StartedInv, Peer
    <3> QED
      BY <3>3, <3>4
  <2> QED
    BY <2>1, <2>2
<1> QED
  BY <1>4, <1>6 DEF StartedInv, Peer

(* It holds always. *)
LEMMA StartedAlways == Spec => [](Inv /\ StartedInv)
<1>1. Init => StartedInv
  <2> SUFFICES ASSUME Init PROVE StartedInv
    OBVIOUS
  <2>1. /\ node = [n \in Node |-> Down] /\ clock = 0 /\ call = [c \in Caller |-> Idle]
    BY DEF Init, NodeInit
  <2>2. Idle.pc = "idle" /\ Idle.written.at = 0
    BY DEF Idle
  <2> QED
    BY <2>1, <2>2, DownProcess DEF StartedInv, Connecting
<1>2. Inv /\ StartedInv /\ [Next]_vars => StartedInv'
  <2> SUFFICES ASSUME Inv, StartedInv, [Next]_vars PROVE StartedInv'
    OBVIOUS
  <2>1. CASE UNCHANGED vars
    BY <2>1 DEF vars, nodeVars, StartedInv, carrierAuth, Peer
  <2>2. CASE NodeStep
    BY <2>2, NodeStarted, EndsStarted
  <2>3. ASSUME NEW p \in ToSet(Seeds), ConnectionMapChanges(p) PROVE StartedInv'
    BY <2>3 DEF ConnectionMapChanges, nodeVars, StartedInv, carrierAuth, Peer
  <2> QED
    BY <2>1, <2>2, <2>3, StartsStarted, BootstrapStarted DEF Next
<1>3. Inv /\ [Next]_vars => Inv'
  BY InvStep
<1> QED
  BY InitInv, <1>1, <1>2, <1>3, PTL DEF Spec

(* A node's trust store loads exactly if its files can be loaded in the      *)
(* order given, and a node that is up trusts the CAs that its files name and *)
(* no others, whatever files certgen made and however they are passed        *)
(* (interactive main.go 377-443, authfile.go 350-391).                       *)
THEOREM TrustIsConfigured == Spec => []TrustAsConfigured
<1>1. Inv /\ StartedInv => TrustAsConfigured
  <2> SUFFICES ASSUME Inv, StartedInv, NEW n \in Node
               PROVE  /\ node[n].pc = "loading" => (carrierAuth[n].ok <=> Loadable(config[n]))
                      /\ node[n].pc = "up" =>
                            /\ Loadable(config[n])
                            /\ carrierAuth[n].store.admins = AdminsOf(config[n])
                            /\ {h \in CA : IsUser(carrierAuth[n].store, h)} = UsersOf(config[n])
    BY DEF TrustAsConfigured
  <2>1. carrierAuth[n].ok <=> Loadable(config[n])
    BY StoreIs
  <2>2. ASSUME node[n].pc = "up"
        PROVE  carrierAuth[n].ok /\ TrustIs(carrierAuth[n], config[n])
    BY <2>2, StoreIs DEF StartedInv
  <2>3. ASSUME TrustIs(carrierAuth[n], config[n])
        PROVE  /\ carrierAuth[n].store.admins = AdminsOf(config[n])
               /\ {h \in CA : IsUser(carrierAuth[n].store, h)} = UsersOf(config[n])
    BY <2>3 DEF TrustIs
  <2> QED
    BY <2>1, <2>2, <2>3
<1> QED
  BY StartedAlways, <1>1, PTL

-----------------------------------------------------------------------------
(* Verdicts *)

(* A trust store vouches for a certificate. *)
Trusts(snap, cf) ==
    IF cf.authorities = <<>> THEN cf.cert.issuer \in snap.admins \/ IsUser(snap, cf.cert.issuer)
    ELSE cf.authorities[1].ca \in snap.admins

(* The checks of the issuer that VerifyPeerCert makes on the store with the  *)
(* embedded authorities.                                                     *)
IssuerPasses(snap, ts, cf) ==
    /\ AuthoritiesOK(snap, cf.authorities)
    /\ HasIssuer(ts, cf.cert.issuer) /\ IsUserCAAnchorValid(ts, cf.cert.issuer)

(* What embedding authorities changes. *)
LEMMA EmbeddedStore ==
    ASSUME NEW snap \in TrustSnapshot, NEW auths
    PROVE  LET ts == WithEmbeddedAuthorities(snap, auths) IN
           /\ ts.admins = snap.admins /\ ts.revAdmins = snap.revAdmins
           /\ ts.revUsers = snap.revUsers /\ ts.revNodes = snap.revNodes
           /\ \A h \in CA : ts.users[h] = IF ~IsUser(snap, h) /\ EmbeddedUserAt(auths, h) # {}
                                          THEN auths[FirstEmbeddedUser(auths, h)].anchor
                                          ELSE snap.users[h]
<1> DEFINE users == [h \in CA |-> IF ~IsUser(snap, h) /\ EmbeddedUserAt(auths, h) # {}
                                  THEN auths[FirstEmbeddedUser(auths, h)].anchor
                                  ELSE snap.users[h]]
<1>1. WithEmbeddedAuthorities(snap, auths) = [snap EXCEPT !.users = users]
  BY DEF WithEmbeddedAuthorities
<1>2. \A h \in CA : users[h] = IF ~IsUser(snap, h) /\ EmbeddedUserAt(auths, h) # {}
                               THEN auths[FirstEmbeddedUser(auths, h)].anchor
                               ELSE snap.users[h]
  OBVIOUS
<1> HIDE DEF users
<1>3. /\ [snap EXCEPT !.users = users].admins = snap.admins
      /\ [snap EXCEPT !.users = users].revAdmins = snap.revAdmins
      /\ [snap EXCEPT !.users = users].revUsers = snap.revUsers
      /\ [snap EXCEPT !.users = users].revNodes = snap.revNodes
      /\ [snap EXCEPT !.users = users].users = users
  BY DEF TrustSnapshot
<1> QED
  BY <1>1, <1>2, <1>3

(* On a sound store and a certificate that certgen made, they come down to   *)
(* whether the store vouches for it.                                         *)
LEMMA IssuerPassesIs ==
    ASSUME NEW snap, Sound(snap), NEW f \in KeyFiles, NEW p, NEW cf, CertMadeWith(f, p, cf)
    PROVE  IssuerPasses(snap, WithEmbeddedAuthorities(snap, cf.authorities), cf) <=> Trusts(snap, cf)
<1> DEFINE auths == cf.authorities
           ts == WithEmbeddedAuthorities(snap, auths)
           h == f.ca
<1>1. /\ h \in CA /\ cf.cert.issuer = h /\ (f.type = "user-ca" => f.anchor \in CA)
      /\ snap \in TrustSnapshot /\ snap.revAdmins = {} /\ snap.revUsers = {}
      /\ IsUser(snap, h) => snap.users[h] \in snap.admins
  BY KeyFileIs DEF CertMadeWith, Sound
<1>2. /\ ts.admins = snap.admins /\ ts.revAdmins = {}
      /\ ts.users[h] = IF ~IsUser(snap, h) /\ EmbeddedUserAt(auths, h) # {}
                       THEN auths[FirstEmbeddedUser(auths, h)].anchor
                       ELSE snap.users[h]
  BY <1>1, EmbeddedStore
<1>3. ASSUME EmbeddedUserAt(auths, h) = {}
      PROVE  HasIssuer(ts, h) /\ IsUserCAAnchorValid(ts, h) <=> h \in snap.admins \/ IsUser(snap, h)
  <2>1. ts.users[h] = snap.users[h]
    BY <1>2, <1>3
  <2> HIDE DEF ts
  <2> QED
    BY <1>1, <1>2, <2>1 DEF HasIssuer, IsUserCAAnchorValid, IsUser
<1>4. CASE auths = <<>>
  <2>1. EmbeddedUserAt(auths, h) = {} /\ AuthoritiesOK(snap, auths)
    BY <1>4 DEF EmbeddedUserAt, AuthoritiesOK
  <2> QED
    BY <1>1, <1>3, <1>4, <2>1 DEF IssuerPasses, Trusts
<1>5. CASE auths = AdminChain(h)
  <2>1. /\ DOMAIN auths = {1} /\ auths # <<>>
        /\ auths[1].type = "admin-ca" /\ auths[1].ca = h
    BY <1>1, <1>5, ChainTypes, AuthorityFields
  <2> HIDE DEF auths
  <2>2. EmbeddedUserAt(auths, h) = {}
    BY <2>1 DEF EmbeddedUserAt
  <2>3. AuthoritiesOK(snap, auths) <=> h \in snap.admins
    BY <1>1, <2>1 DEF AuthoritiesOK, AddEmbeddedAdmin
  <2>4. IssuerPasses(snap, ts, cf) <=> h \in snap.admins
    BY <1>1, <1>3, <2>2, <2>3 DEF IssuerPasses, auths
  <2> QED
    BY <2>1, <2>4 DEF Trusts, auths
<1>6. CASE f.type = "user-ca" /\ auths = UserChain(h, f.anchor)
  <2> DEFINE a == f.anchor
  <2>1. /\ DOMAIN auths = {1, 2} /\ auths # <<>> /\ a \in CA
        /\ auths[1].type = "admin-ca" /\ auths[1].ca = a
        /\ auths[2].type = "user-ca" /\ auths[2].ca = h
        /\ auths[2].anchor = a /\ auths[2].anchorSig = a
    <3>1. a \in CA
      BY <1>1, <1>6
    <3> QED
      BY <1>1, <1>6, <3>1, ChainTypes, AuthorityFields
  <2> HIDE DEF auths, a
  <2>2. EmbeddedUserAt(auths, h) = {2}
    BY <2>1 DEF EmbeddedUserAt
  <2>3. FirstEmbeddedUser(auths, h) = 2
    BY <2>2 DEF FirstEmbeddedUser
  <2>4. AuthoritiesOK(snap, auths) <=> a \in snap.admins
    <3>1. a \in snap.admins => AddEmbeddedUser(snap, auths, 2)
      BY <1>1, <2>1 DEF AddEmbeddedUser, AnchorVerifies
    <3>2. AddEmbeddedAdmin(snap, auths[1]) <=> a \in snap.admins
      BY <1>1, <2>1 DEF AddEmbeddedAdmin
    <3> QED
      BY <2>1, <3>1, <3>2 DEF AuthoritiesOK
  <2>5. ts.users[h] = IF ~IsUser(snap, h) THEN a ELSE snap.users[h]
    BY <1>2, <2>1, <2>2, <2>3 DEF auths
  <2> HIDE DEF ts
  <2>6. ASSUME a \in snap.admins PROVE HasIssuer(ts, h) /\ IsUserCAAnchorValid(ts, h)
    <3>1. ts.users[h] \in snap.admins /\ ts.users[h] # NoCA
      BY <1>1, <2>1, <2>5, <2>6, NoCAAssumption DEF IsUser
    <3> QED
      BY <1>2, <3>1 DEF HasIssuer, IsUserCAAnchorValid, IsUser
  <2>7. IssuerPasses(snap, ts, cf) <=> a \in snap.admins
    BY <1>1, <2>4, <2>6 DEF IssuerPasses, auths
  <2> QED
    BY <2>1, <2>7 DEF Trusts, auths, ts
<1> QED
  BY <1>4, <1>5, <1>6 DEF CertMadeWith

(* The verdict on the handshake that p wrote to connection chan in session k *)
(* at time at, and that arrives over TLS session 0.                          *)
VerdictAt(snap, p, k, at, chan, now) ==
    VerifyPeerCert(snap, ReadAuthHandshake(WriteAuthHandshake(p, k, at, chan), Session(p, 0), chan), now)

(* What calls for admission. *)
InOrder(snap, p, k, at, now) ==
    LET cf == config[p].certFile IN
    /\ Trusts(snap, cf)
    /\ cf.cert.validFrom <= now /\ now <= cf.cert.validUntil
    /\ now <= at + MaxDelegationTTL
    /\ k = 0

(* The two agree, and the scope follows from the issuer, CA file f. *)
Decides(snap, f, p, k, at, chan, now) ==
    LET r == VerdictAt(snap, p, k, at, chan, now) IN
    /\ r.ok <=> InOrder(snap, p, k, at, now)
    /\ r.ok => /\ r.scope = IF f.ca \in snap.admins THEN "admin" ELSE "user"
               /\ r.owners = IF f.ca \in snap.admins THEN {} ELSE {f.ca}

(* So it is for every store that a node starts with. *)
LEMMA VerdictIs ==
    ASSUME NEW p \in Node, NEW snap, Sound(snap), NEW f \in KeyFiles,
           CertMadeWith(f, p, config[p].certFile), NEW chan, NEW k, NEW at \in Nat, NEW now \in Nat,
           at <= now
    PROVE  Decides(snap, f, p, k, at, chan, now)
<1> DEFINE cf == config[p].certFile
           cert == cf.cert
           msg == WriteAuthHandshake(p, k, at, chan)
           hs == ReadAuthHandshake(msg, Session(p, 0), chan)
           ts == WithEmbeddedAuthorities(snap, cf.authorities)
           r == VerifyPeerCert(snap, hs, now)
           V == VerifiedCerts(ts, hs, now)
<1>1. /\ hs.certs = <<cert>> /\ hs.caSigs = <<cf.caSig>> /\ hs.authorities = cf.authorities
      /\ hs.delegationSig = p /\ hs.wellFormed
      /\ hs.proof.session = Session(p, k) /\ hs.tls.session = Session(p, 0)
      /\ hs.proof.bundle = <<cert>>
      /\ hs.proof.channel = chan /\ hs.tls.channel = chan
      /\ hs.proof.notBefore = at /\ hs.proof.notAfter = at + MaxDelegationTTL
  BY DEF ReadAuthHandshake, WriteAuthHandshake, SignDelegation, TLSBindingsOf, Identity,
         NodeCertToIdentity
<1>2. /\ cert.node = p /\ cert.issuer = f.ca /\ cf.caSig = f.ca /\ f.ca \in CA
      /\ snap \in TrustSnapshot /\ snap.revAdmins = {} /\ snap.revUsers = {} /\ snap.revNodes = {}
  BY KeyFileIs DEF CertMadeWith, Sound
<1>3. ts.admins = snap.admins /\ ts.revAdmins = {} /\ ts.revUsers = {} /\ ts.revNodes = {}
  BY <1>2, EmbeddedStore
<1>4. IssuerPasses(snap, ts, cf) <=> Trusts(snap, cf)
  BY IssuerPassesIs
<1>5. VerdictAt(snap, p, k, at, chan, now) = r
  BY DEF VerdictAt
<1>6. InOrder(snap, p, k, at, now) <=>
         /\ Trusts(snap, cf) /\ cert.validFrom <= now /\ now <= cert.validUntil
         /\ now <= at + MaxDelegationTTL /\ k = 0
  BY DEF InOrder
<1> HIDE DEF hs, ts, cf
<1>7. V = {i \in {1} : IsCertValid(ts, cert, now)}
  BY <1>1, <1>2 DEF VerifiedCerts
<1>8. IsCertValid(ts, cert, now) <=>
         /\ HasIssuer(ts, cert.issuer) /\ IsUserCAAnchorValid(ts, cert.issuer)
         /\ cert.validFrom <= now /\ now <= cert.validUntil
  BY <1>3 DEF IsCertValid, IsCARevoked
<1>9. ASSUME IsCertValid(ts, cert, now)
      PROVE  V = {1} /\ VerifyAuthority(ts, hs, now) /\ ChainNode(ts, hs, now) = p
  <2>1. V = {1}
    BY <1>7, <1>9
  <2> HIDE DEF V
  <2> QED
    BY <1>1, <1>2, <2>1 DEF VerifyAuthority, ChainNode, V
<1>10. VerifyAuthority(ts, hs, now) => IsCertValid(ts, cert, now)
  BY <1>7 DEF VerifyAuthority
<1>11. Len(hs.certs) = 1 /\ Len(hs.caSigs) = 1 /\ SameBundle(hs.proof.bundle, hs.certs)
  BY <1>1 DEF SameBundle
<1>12. ValidateHandshake(hs)
  BY <1>1, <1>11, BundleAssumption DEF ValidateHandshake
<1>13. VerifyDelegation(hs, p) <=> k = 0
  <2>1. Session(p, k) = Session(p, 0) <=> k = 0
    BY DEF Session
  <2> QED
    BY <1>1, <1>11, <2>1 DEF VerifyDelegation
<1>14. VerifyFreshness(hs, now) <=> now <= at + MaxDelegationTTL
  <2>1. (at + MaxDelegationTTL) - at \in 0..MaxDelegationTTL
    BY TTLAssumption
  <2> QED
    BY <1>1, <2>1 DEF VerifyFreshness
<1> DEFINE good == /\ AuthoritiesOK(snap, cf.authorities) /\ VerifyAuthority(ts, hs, now)
                   /\ VerifyDelegation(hs, ChainNode(ts, hs, now)) /\ VerifyFreshness(hs, now)
<1>15. r = IF good THEN DeriveScope(ts, hs, now) ELSE Rejected
  BY <1>1, <1>12 DEF VerifyPeerCert, ts
<1>16. good <=> InOrder(snap, p, k, at, now)
  BY <1>4, <1>6, <1>8, <1>9, <1>10, <1>13, <1>14 DEF IssuerPasses
<1>17. ASSUME good
       PROVE  /\ r.ok /\ r.scope = IF f.ca \in snap.admins THEN "admin" ELSE "user"
              /\ r.owners = IF f.ca \in snap.admins THEN {} ELSE {f.ca}
  <2>1. V = {1}
    BY <1>9, <1>10, <1>17
  <2>2. (\E i \in V : hs.certs[i].issuer \in ts.admins) <=> f.ca \in snap.admins
    BY <1>1, <1>2, <1>3, <2>1
  <2>3. {hs.certs[i].issuer : i \in V} = {f.ca}
    BY <1>1, <1>2, <2>1
  <2>4. r = DeriveScope(ts, hs, now)
    BY <1>15, <1>17
  <2> HIDE DEF V, r
  <2> QED
    BY <2>2, <2>3, <2>4 DEF DeriveScope, V
<1>18. ASSUME ~good PROVE ~r.ok
  BY <1>15, <1>18 DEF Rejected
<1> HIDE DEF good, r
<1> QED
  BY <1>5, <1>16, <1>17, <1>18 DEF Decides

(* What q's files say of p's certificate is what q's store says of it. *)
LEMMA TrustsIsVouchedFor ==
    ASSUME NEW p \in Node, NEW q \in Node, TrustIs(carrierAuth[q], config[q]),
           config[p].certFile.cert.issuer \in CA
    PROVE  Trusts(carrierAuth[q].store, config[p].certFile) <=> VouchedFor(p, q)
BY DEF Trusts, VouchedFor, TrustIs

(* q's verdict r on p's handshake of call c, over TLS session tls, is right, *)
(* and so is what it grants.                                                 *)
AsIssued(p, q, c, tls, r) ==
    LET issuer == config[p].certFile.cert.issuer IN
    /\ VerdictRight(p, q, c, tls, r)
    /\ r.ok => /\ r.scope = IF issuer \in AdminsOf(config[q]) THEN "admin" ELSE "user"
               /\ r.owners = IF issuer \in AdminsOf(config[q]) THEN {} ELSE {issuer}

(* The verdict of a node that is up on the handshake of a call is right. *)
LEMMA CallVerdict ==
    ASSUME Inv, StartedInv, NEW c \in Caller, NEW p \in Node, NEW q \in Node, node[q].pc = "up"
    PROVE  AsIssued(p, q, c, 0, VerdictAt(carrierAuth[q].store, p, call[c].written.session,
                                          call[c].written.at, c, clock))
<1> DEFINE cf == config[p].certFile
           w == call[c].written
           snap == carrierAuth[q].store
           r == VerdictAt(snap, p, w.session, w.at, c, clock)
<1>1. setup \in DOMAIN Cluster /\ clock \in Nat /\ w.at \in Nat /\ w.at <= clock
  BY Constants DEF Inv, NodesInv, CallsInv, CallType, StartedInv
<1>2. PICK f \in KeyFiles : CertMadeWith(f, p, cf)
  BY <1>1, CertFileIs DEF config
<1>3. cf.cert.issuer = f.ca /\ f.ca \in CA
  BY <1>2, KeyFileIs DEF CertMadeWith
<1>4. TrustIs(carrierAuth[q], config[q])
  BY StoreIs DEF StartedInv
<1>5. Sound(snap) /\ snap.admins = AdminsOf(config[q])
  BY <1>4 DEF TrustIs
<1>6. Trusts(snap, cf) <=> VouchedFor(p, q)
  BY <1>3, <1>4, TrustsIsVouchedFor
<1>7. /\ r.ok <=> InOrder(snap, p, w.session, w.at, clock)
      /\ r.ok => /\ r.scope = IF f.ca \in snap.admins THEN "admin" ELSE "user"
                 /\ r.owners = IF f.ca \in snap.admins THEN {} ELSE {f.ca}
  <2> HIDE DEF w, snap
  <2>1. Decides(snap, f, p, w.session, w.at, c, clock)
    BY <1>1, <1>2, <1>5, VerdictIs
  <2> QED
    BY <2>1 DEF Decides
<1>8. r.ok => r.node = p
  BY VerdictGenuine DEF VerdictAt
<1>9. InOrder(snap, p, w.session, w.at, clock) <=>
         /\ VouchedFor(p, q) /\ cf.cert.validFrom <= clock /\ clock <= cf.cert.validUntil
         /\ clock <= w.at + MaxDelegationTTL /\ w.session = 0
  BY <1>6 DEF InOrder
<1> HIDE DEF r
<1>10. VerdictRight(p, q, c, 0, r)
  BY <1>3, <1>5, <1>7, <1>8, <1>9 DEF VerdictRight
<1> QED
  <2>1. AsIssued(p, q, c, 0, r)
    BY <1>3, <1>5, <1>7, <1>10 DEF AsIssued
  <2> QED
    BY <2>1 DEF r

(* The two verdicts of a dial are of that form. *)
LEMMA DialVerdicts ==
    ASSUME Inv, StartedInv, NEW c \in Caller, call[c].pc \in Connecting
    PROVE  /\ Peer(c) \in Node /\ node[Peer(c)].pc = "up" /\ node[Dialer].pc = "up"
           /\ call[c].dialerTLS = 0 /\ call[c].peerTLS = 0
           /\ DialerVerdict(c) = VerdictAt(carrierAuth[Peer(c)].store, Dialer,
                                           call[c].written.session, call[c].written.at, c, clock)
           /\ PeerVerdict(c) = VerdictAt(carrierAuth[Dialer].store, Peer(c),
                                         call[c].written.session, call[c].written.at, c, clock)
<1>1. /\ call[c].dialerTLS = 0 /\ call[c].peerTLS = 0
      /\ call[c].next \in 1..Len(Seeds) + 1 /\ call[c].next <= Len(Seeds)
  BY DEF Inv, CallsInv, CallType
<1>2. Peer(c) \in Node
  BY <1>1, Constants DEF Peer
<1>3. node[Peer(c)].pc = "up" /\ node[Dialer].pc = "up"
  BY DEF StartedInv, Connecting
<1> QED
  BY <1>1, <1>2, <1>3 DEF DialerVerdict, PeerVerdict, Verdict, Message, VerdictAt

(* Both handshakes of every dial are decided as the files, the time and the  *)
(* sender's sessions call for, whoever restarts, rotates its session or waits *)
(* between the writing of a handshake and its verification, and for every    *)
(* cluster whose files certgen made (carrier_cluster.go 83-228,              *)
(* carrier_auth_verify.go VerifyPeerCert).                                   *)
THEOREM VerdictsAreRight == Spec => []VerdictAsIssued
<1>1. Inv /\ StartedInv => VerdictAsIssued
  <2> SUFFICES ASSUME Inv, StartedInv, NEW c \in Caller
               PROVE  /\ call[c].pc = "sent" =>
                            VerdictRight(Dialer, Peer(c), c, call[c].dialerTLS, DialerVerdict(c))
                      /\ call[c].pc = "answered" =>
                            VerdictRight(Peer(c), Dialer, c, call[c].peerTLS, PeerVerdict(c))
    BY DEF VerdictAsIssued
  <2>1. ASSUME call[c].pc = "sent"
        PROVE  VerdictRight(Dialer, Peer(c), c, call[c].dialerTLS, DialerVerdict(c))
    BY <2>1, Constants, DialVerdicts, CallVerdict DEF Connecting, AsIssued
  <2>2. ASSUME call[c].pc = "answered"
        PROVE  VerdictRight(Peer(c), Dialer, c, call[c].peerTLS, PeerVerdict(c))
    BY <2>2, Constants, DialVerdicts, CallVerdict DEF Connecting, AsIssued
  <2> QED
    BY <2>1, <2>2
<1> QED
  BY StartedAlways, <1>1, PTL

-----------------------------------------------------------------------------
(* Access *)

(* A node that vouches for a user CA's certificate by way of its admin does  *)
(* not have that user CA among its admins: no CA has two files, and a node   *)
(* without CA files knows one admin only.                                    *)
LEMMA UserIssuerIsNoAdmin ==
    ASSUME Inv, NEW p \in Node, NEW q \in Node, VouchedFor(p, q),
           Len(config[p].certFile.authorities) = 2
    PROVE  config[p].certFile.cert.issuer \notin AdminsOf(config[q])
<1> DEFINE cf == config[p].certFile
           conf == config[q]
           files == CAFiles(conf)
<1>1. setup \in DOMAIN Cluster
  BY DEF Inv, NodesInv
<1>2. PICK f \in KeyFiles : CertMadeWith(f, p, cf)
  BY <1>1, CertFileIs DEF config
<1>3. ToSet(files) \subseteq KeyFiles
  BY <1>1, IssuedAssumption DEF config
<1>4. f.ca \in CA /\ cf.cert.issuer = f.ca
  BY <1>2, KeyFileIs DEF CertMadeWith
<1>5. /\ f.type = "user-ca" /\ f.anchor \in CA
      /\ cf.authorities # <<>> /\ cf.authorities[1].ca = f.anchor
  <2>1. Len(cf.authorities) = 2
    OBVIOUS
  <2> HIDE DEF cf
  <2>2. cf.authorities # <<>>
    <3>1. Len(<<>>) # 2
      OBVIOUS
    <3> QED
      BY <2>1, <3>1, Zenon
  <2>3. cf.authorities # AdminChain(f.ca)
    BY <1>4, <2>1, ChainTypes
  <2>4. f.type = "user-ca" /\ cf.authorities = UserChain(f.ca, f.anchor)
    BY <1>2, <2>2, <2>3 DEF CertMadeWith
  <2>5. f.anchor \in CA
    BY <2>4, KeyFileIs
  <2> QED
    BY <1>4, <2>2, <2>4, <2>5, ChainTypes, AuthorityFields
<1>6. f.anchor \in AdminsOf(conf)
  BY <1>5 DEF VouchedFor
<1>7. \A g \in KeyFiles : g.type = "admin-ca" => g.ca # f.ca
  BY <1>5, KeyFilesAssumption DEF MadeByCertgen
<1>8. f.anchor # f.ca
  BY <1>5, <1>7, KeyFileIs
<1> HIDE DEF files, conf, cf
<1>9. CASE files # <<>>
  <2>1. AdminsOf(conf) = {g.ca : g \in {h \in ToSet(files) : h.type = "admin-ca"}}
    BY <1>9 DEF AdminsOf, files
  <2> QED
    BY <1>3, <1>4, <1>7, <2>1 DEF cf, conf
<1>10. CASE files = <<>>
  <2>1. \E h : AdminsOf(conf) = {h}
    BY <1>10 DEF AdminsOf, files
  <2> QED
    BY <1>4, <1>6, <1>8, <2>1 DEF cf, conf
<1> QED
  BY <1>9, <1>10

(* What the peer that a dialer was admitted by lets it read follows from who *)
(* issued the dialer's certificate: all for an admin CA that the peer's      *)
(* files name, else what that CA owns; and nothing else for a node that      *)
(* presents the chain of a user CA (carrier_auth_verify.go deriveScope,      *)
(* privilege_checker.go CanAccessData).                                      *)
THEOREM AccessIsIssued == Spec => []AccessFollowsIssuer
<1>1. Inv /\ StartedInv => AccessFollowsIssuer
  <2> SUFFICES ASSUME Inv, StartedInv, NEW c \in Caller, NEW owner \in CA \cup {NoCA},
                      call[c].pc = "sent", DialerVerdict(c).ok
               PROVE  LET f == config[Dialer].certFile
                          q == Peer(c)
                          can == CanAccessData(NewAccessContext(DialerVerdict(c)), owner)
                          issuedByUser == Len(f.authorities) = 2
                      IN  /\ can <=> owner = f.cert.issuer \/ f.cert.issuer \in AdminsOf(config[q])
                          /\ issuedByUser /\ can => owner = f.cert.issuer
    BY DEF AccessFollowsIssuer
  <2> DEFINE issuer == config[Dialer].certFile.cert.issuer
             q == Peer(c)
             r == DialerVerdict(c)
             can == CanAccessData(NewAccessContext(r), owner)
  <2>1. /\ q \in Node /\ Dialer \in Node
        /\ VerdictRight(Dialer, q, c, 0, r)
        /\ r.ok => /\ r.scope = IF issuer \in AdminsOf(config[q]) THEN "admin" ELSE "user"
                   /\ r.owners = IF issuer \in AdminsOf(config[q]) THEN {} ELSE {issuer}
    <3>1. q \in Node /\ Dialer \in Node /\ AsIssued(Dialer, q, c, 0, r)
      BY Constants, DialVerdicts, CallVerdict DEF Connecting
    <3> QED
      BY <3>1 DEF AsIssued
  <2>2. issuer \in CA
    <3>1. setup \in DOMAIN Cluster
      BY DEF Inv, NodesInv
    <3>2. PICK f \in KeyFiles : CertMadeWith(f, Dialer, config[Dialer].certFile)
      BY <2>1, <3>1, CertFileIs DEF config
    <3> QED
      BY <3>2, KeyFileIs DEF CertMadeWith
  <2>3. r.ok
    OBVIOUS
  <2>4. VouchedFor(Dialer, q)
    BY <2>1, <2>3 DEF VerdictRight
  <2>5. Len(config[Dialer].certFile.authorities) = 2 => issuer \notin AdminsOf(config[q])
    BY <2>1, <2>4, UserIssuerIsNoAdmin
  <2> DEFINE A == AdminsOf(config[q])
             access == NewAccessContext(r)
  <2>6. access.scope = r.scope /\ access.owners = r.owners \ {NoCA}
    BY DEF NewAccessContext
  <2>7. can <=> \/ access.scope = "admin"
                \/ access.scope = "user" /\ owner # NoCA /\ owner \in access.owners
    BY DEF CanAccessData
  <2>8. can <=> owner = issuer \/ issuer \in A
    <3> HIDE DEF issuer, r, A, access, can
    <3>1. CASE issuer \in A
      BY <2>1, <2>3, <2>6, <2>7, <3>1 DEF A
    <3>2. CASE issuer \notin A
      <4>1. access.scope = "user" /\ access.owners = {issuer} \ {NoCA}
        BY <2>1, <2>3, <2>6, <3>2 DEF A
      <4> QED
        BY <2>2, <2>7, <3>2, <4>1, NoCAAssumption
    <3> QED
      BY <3>1, <3>2
  <2> QED
    BY <2>5, <2>8
<1> QED
  BY StartedAlways, <1>1, PTL
=============================================================================
