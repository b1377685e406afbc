----------------------------- MODULE NodeSession ----------------------------
(***************************************************************************)
(* A node process: its start (cmd/interactive run, ouroboros.New and the   *)
(* node.key file), its TLS session (NodeIdentity and the transport that    *)
(* takes its TLS configuration from it) and both halves of the auth        *)
(* handshake that it writes to, and reads from, a QUIC connection.         *)
(***************************************************************************)
EXTENDS Credentials

CONSTANTS
    KeyFiles,     \* the .oukey files of the CAs
    Cluster,      \* the configurations that the nodes may be started with, by name
    MaxRotations, \* bound on RotateSession calls of a process
    MaxClock      \* bound on the wall clock

ASSUME ClusterAssumption == \A s \in DOMAIN Cluster : Cluster[s] \in [Node -> Config]
ASSUME KeyFilesAssumption == MadeByCertgen(KeyFiles)
ASSUME IssuedAssumption ==
    \A s \in DOMAIN Cluster : \A n \in Node :
        /\ ToSet(CAFiles(Cluster[s][n])) \subseteq KeyFiles
        /\ SignedWith(KeyFiles, n, Cluster[s][n].certFile)
ASSUME RotationsAssumption == MaxRotations \in Nat
ASSUME ClockAssumption == MaxClock \in Nat

VARIABLES
    setup,    \* which of the configurations; it does not change
    keyFile,  \* <dataDir>/node.key
    node,     \* each node's process
    clock     \* unix time

nodeVars == <<setup, keyFile, node, clock>>

(* saving: the key is generated and not yet written.  loading: ouroboros.New *)
(* has returned.  session: which of its session identities the process uses, *)
(* tls: the one that the transport's TLS configuration was made from.        *)
Process == [pc : {"down", "saving", "loading", "up"}, session : 0..MaxRotations,
            tls : 0..MaxRotations]

Down == [pc |-> "down", session |-> 0, tls |-> 0]

(* What each node makes of its configuration when it starts. *)
Loaded == [s \in DOMAIN Cluster |-> [n \in Node |-> LoadCarrierAuth(Cluster[s][n])]]

config == Cluster[setup]
carrierAuth == Loaded[setup]

NodeInit ==
    /\ setup \in DOMAIN Cluster
    /\ keyFile = [n \in Node |-> "absent"]
    /\ node = [n \in Node |-> Down]
    /\ clock = 0

-----------------------------------------------------------------------------
(* Start-up *)

(* loadOrCreateCrypt: a key file that exists is loaded; one that can not be *)
(* read ends the process.                                                   *)
LoadOrCreateCrypt(n) ==
    /\ node[n].pc = "down" /\ keyFile[n] # "damaged"
    /\ node' = [node EXCEPT ![n].pc = IF keyFile[n] = "absent" THEN "saving" ELSE "loading"]
    /\ UNCHANGED <<setup, keyFile, clock>>

KeySaved(n) ==
    /\ node[n].pc = "saving"
    /\ keyFile' = [keyFile EXCEPT ![n] = "saved"]
    /\ node' = [node EXCEPT ![n].pc = "loading"]
    /\ UNCHANGED <<setup, clock>>

(* Fault: the process goes on with a key that was not written. *)
FaultySaveInterrupted(n, left) ==
    /\ node[n].pc = "saving"
    /\ keyFile' = [keyFile EXCEPT ![n] = left]
    /\ node' = [node EXCEPT ![n].pc = "loading"]
    /\ UNCHANGED <<setup, clock>>

(* SaveToFile fails, or the process dies in it. *)
SaveInterrupted(n, left) ==
    /\ node[n].pc = "saving"
    /\ keyFile' = [keyFile EXCEPT ![n] = left]
    /\ node' = [node EXCEPT ![n] = Down]
    /\ UNCHANGED <<setup, clock>>

(* Identity, trust store, transport, controller, handler, listener; a trust *)
(* store that can not be loaded ends the process.  The transport takes the  *)
(* TLS configurations from the identity's first session.                    *)
StartListener(n) ==
    /\ node[n].pc = "loading"
    /\ node' = [node EXCEPT ![n] = IF carrierAuth[n].ok THEN [Down EXCEPT !.pc = "up"] ELSE Down]
    /\ UNCHANGED <<setup, keyFile, clock>>

RotateSession(n) ==
    /\ node[n].pc = "up" /\ node[n].session < MaxRotations
    /\ node' = [node EXCEPT ![n].session = @ + 1]
    /\ UNCHANGED <<setup, keyFile, clock>>

(* quit, a signal or a crash *)
ProcessEnds(n) ==
    /\ node[n].pc \in {"loading", "up"}
    /\ node' = [node EXCEPT ![n] = Down]
    /\ UNCHANGED <<setup, keyFile, clock>>

Tick ==
    /\ clock < MaxClock
    /\ clock' = clock + 1
    /\ UNCHANGED <<setup, keyFile, node>>

Running(n) == node[n].pc \in {"loading", "up"}

-----------------------------------------------------------------------------
(* The handshake.  chan: the TLS connection it is written to, which is what *)
(* the exporter and the transcript binding are derived from.  k: the        *)
(* sender's session, now: the time, both when it is written.                *)

Session(n, k) == [node |-> n, session |-> k]

Identity(n) == NodeCertToIdentity(config[n].certFile)

(* Fault: the delegation outlives its longest permitted lifetime. *)
FaultySignDelegation(n, k, now, chan) ==
    [session |-> Session(n, k), channel |-> chan, bundle |-> Identity(n).certs,
     notBefore |-> now, notAfter |-> now + MaxDelegationTTL + 1]

SignDelegation(n, k, now, chan) ==
    [session |-> Session(n, k), channel |-> chan, bundle |-> Identity(n).certs,
     notBefore |-> now, notAfter |-> now + MaxDelegationTTL]

(* The message; it carries no TLS bindings. *)
WriteAuthHandshake(n, k, now, chan) ==
    [certs |-> Identity(n).certs, caSigs |-> Identity(n).caSigs,
     authorities |-> Identity(n).authorities,
     proof |-> SignDelegation(n, k, now, chan), delegationSig |-> n]

(* The verifier adds the bindings of its own end of the connection; peer is *)
(* the session certificate that the other end presented.                    *)
TLSBindingsOf(peer, chan) == [session |-> peer, channel |-> chan]

ReadAuthHandshake(msg, peer, chan) ==
    [certs |-> msg.certs, caSigs |-> msg.caSigs, authorities |-> msg.authorities,
     proof |-> msg.proof, delegationSig |-> msg.delegationSig,
     tls |-> TLSBindingsOf(peer, chan), wellFormed |-> TRUE]

(* What node q decides now on a message read from the connection. *)
Verdict(q, msg, peer, chan) ==
    VerifyPeerCert(carrierAuth[q].store, ReadAuthHandshake(msg, peer, chan), clock)
=============================================================================
