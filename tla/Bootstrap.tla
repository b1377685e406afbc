------------------------------ MODULE Bootstrap -----------------------------
(***************************************************************************)
(* internal/transport/bootstrap.go and Reconnect: a node joins its cluster *)
(* through its bootstrap addresses.  Two calls of attemptBootstrap may run *)
(* side by side, that of the background loop and that of Reconnect, and    *)
(* share the connection map and the offline flag.  Each dials address      *)
(* after address; a dial is a QUIC connection and the two handshakes of    *)
(* NodeSession over it.  The connection map is kept as the set of peers    *)
(* that it has an entry for (Carrier has the rest of it).                  *)
(***************************************************************************)
EXTENDS NodeSession

CONSTANTS
    Dialer,     \* the node that joins
    Seeds,      \* whose addresses BootstrapAddresses holds, in order; its own may be one
    MaxRetries  \* BootstrapMaxRetries; New replaces values below 1

ASSUME DialerAssumption == Dialer \in Node
ASSUME SeedsAssumption == Seeds \in Seq(Node)
ASSUME RetriesAssumption == MaxRetries \in Nat \ {0}

VARIABLES
    call,       \* the two attemptBootstrap calls
    connected,  \* the keys of the dialer's connection map
    offline     \* nodeStatus is nodeStatusOffline

vars == <<nodeVars, call, connected, offline>>

Caller == {"loop", "reconnect"}

(* next: the address being dialled.  joined: a dial of this round succeeded. *)
(* dialerTLS, peerTLS: the sessions whose certificates the two ends of the   *)
(* connection presented.  written: the sender's session and the time of the  *)
(* handshake on its way, from which the message is made.                     *)
Idle == [pc |-> "idle", attempt |-> 0, next |-> 1, joined |-> FALSE,
         dialerTLS |-> 0, peerTLS |-> 0, written |-> [session |-> 0, at |-> 0]]

Connecting == {"dialed", "sent", "accepted", "answered"}

Init ==
    /\ NodeInit
    /\ call = [c \in Caller |-> Idle]
    /\ connected = {}
    /\ offline = FALSE

CallStep(c, next) ==
    /\ call' = [call EXCEPT ![c] = next]
    /\ UNCHANGED nodeVars

-----------------------------------------------------------------------------
(* The calls *)

(* ensureBackgroundLoops starts the loop once in a process's life; without *)
(* addresses it has nothing to do.                                         *)
RunBootstrapLoop ==
    /\ node[Dialer].pc = "up" /\ call["loop"].pc = "idle" /\ Seeds # <<>>
    /\ CallStep("loop", [Idle EXCEPT !.pc = "round"])
    /\ UNCHANGED <<connected, offline>>

(* The operator's command; the command line waits for it to return. *)
Reconnect ==
    /\ node[Dialer].pc = "up" /\ call["reconnect"].pc \in {"idle", "returned"}
    /\ offline' = FALSE
    /\ CallStep("reconnect", [Idle EXCEPT !.pc = IF Seeds = <<>> THEN "returned" ELSE "round"])
    /\ UNCHANGED connected

(* Fault: one round too few. *)
FaultyRoundEnds(c) ==
    /\ call[c].pc = "round" /\ call[c].next > Len(Seeds)
    /\ IF call[c].joined \/ call[c].attempt + 1 = MaxRetries
       THEN /\ CallStep(c, [call[c] EXCEPT !.pc = "returned"])
            /\ offline' = (offline \/ ~call[c].joined)
       ELSE /\ CallStep(c, [Idle EXCEPT !.pc = "round", !.attempt = call[c].attempt + 1])
            /\ UNCHANGED offline
    /\ UNCHANGED connected

(* Fault: one round too many. *)
FaultyRoundLimit(c) ==
    /\ call[c].pc = "round" /\ call[c].next > Len(Seeds)
    /\ IF call[c].joined \/ call[c].attempt > MaxRetries
       THEN /\ CallStep(c, [call[c] EXCEPT !.pc = "returned"])
            /\ offline' = (offline \/ ~call[c].joined)
       ELSE /\ CallStep(c, [Idle EXCEPT !.pc = "round", !.attempt = call[c].attempt + 1])
            /\ UNCHANGED offline
    /\ UNCHANGED connected

(* attemptBootstrap after a round: one success ends it, and so does the last *)
(* failure, which sets the node offline.  Nothing ever cancels the context   *)
(* that it waits with between rounds.                                        *)
RoundEnds(c) ==
    /\ call[c].pc = "round" /\ call[c].next > Len(Seeds)
    /\ IF call[c].joined \/ call[c].attempt = MaxRetries
       THEN /\ CallStep(c, [call[c] EXCEPT !.pc = "returned"])
            /\ offline' = (offline \/ ~call[c].joined)
       ELSE /\ CallStep(c, [Idle EXCEPT !.pc = "round", !.attempt = call[c].attempt + 1])
            /\ UNCHANGED offline
    /\ UNCHANGED connected

-----------------------------------------------------------------------------
(* dialBootstrapAddr *)

Peer(c) == Seeds[call[c].next]

(* Fault: an address that fails is dialled again. *)
FaultyNextAddress(c, success) ==
    [Idle EXCEPT !.pc = "round", !.attempt = call[c].attempt,
                 !.next = IF success THEN call[c].next + 1 ELSE call[c].next,
                 !.joined = call[c].joined \/ success]

NextAddress(c, success) ==
    [Idle EXCEPT !.pc = "round", !.attempt = call[c].attempt, !.next = call[c].next + 1,
                 !.joined = call[c].joined \/ success]

(* The connection is up; each end presents the session that its transport's *)
(* TLS configuration was made from.                                         *)
Dial(c) ==
    /\ call[c].pc = "round" /\ call[c].next <= Len(Seeds) /\ node[Peer(c)].pc = "up"
    /\ CallStep(c, [call[c] EXCEPT !.pc = "dialed",
                        !.dialerTLS = node[Dialer].tls, !.peerTLS = node[Peer(c)].tls])
    /\ UNCHANGED <<connected, offline>>

(* No connection, a refused handshake, or a connection that ends. *)
DialFails(c) ==
    /\ \/ call[c].pc = "round" /\ call[c].next <= Len(Seeds)
       \/ call[c].pc \in Connecting
    /\ CallStep(c, NextAddress(c, FALSE))
    /\ UNCHANGED <<connected, offline>>

Written(n) == [session |-> node[n].session, at |-> clock]
Message(n, c) == WriteAuthHandshake(n, call[c].written.session, call[c].written.at, c)

DialAndAuth(c) ==
    /\ call[c].pc = "dialed"
    /\ CallStep(c, [call[c] EXCEPT !.pc = "sent", !.written = Written(Dialer)])
    /\ UNCHANGED <<connected, offline>>

DialerVerdict(c) ==
    Verdict(Peer(c), Message(Dialer, c), Session(Dialer, call[c].dialerTLS), c)
PeerVerdict(c) ==
    Verdict(Dialer, Message(Peer(c), c), Session(Peer(c), call[c].peerTLS), c)

(* handleIncomingConn of the peer; a peer it rejects is closed (DialFails). *)
HandleIncomingConn(c) ==
    /\ call[c].pc = "sent"
    /\ CallStep(c, [call[c] EXCEPT !.pc = "accepted", !.written = Idle.written])
    /\ UNCHANGED <<connected, offline>>
    /\ DialerVerdict(c).ok

WriteLocalAuth(c) ==
    /\ call[c].pc = "accepted"
    /\ CallStep(c, [call[c] EXCEPT !.pc = "answered", !.written = Written(Peer(c))])
    /\ UNCHANGED <<connected, offline>>

(* A peer that is connected already counts as a success, and so does one    *)
(* that registerPeer adds now.                                              *)
AwaitPeerAuth(c) ==
    /\ call[c].pc = "answered"
    /\ connected' = connected \cup {Peer(c)}
    /\ CallStep(c, NextAddress(c, TRUE))
    /\ UNCHANGED offline
    /\ PeerVerdict(c).ok

BootstrapStep(c) ==
    \/ DialFails(c) \/ RoundEnds(c) \/ Dial(c) \/ DialAndAuth(c) \/ WriteLocalAuth(c)
    \/ HandleIncomingConn(c) \/ AwaitPeerAuth(c)

-----------------------------------------------------------------------------
(* The process and the other paths that change the connection map. *)

(* An inbound or dialled connection is registered, or one is dropped. *)
ConnectionMapChanges(p) ==
    /\ node[Dialer].pc = "up"
    /\ connected' = IF p \in connected THEN connected \ {p} ELSE connected \cup {p}
    /\ UNCHANGED <<nodeVars, call, offline>>

(* The process of n is gone: so are its connections, and what it kept in memory. *)
Ends(n) ==
    /\ ProcessEnds(n)
    /\ IF n = Dialer
       THEN /\ call' = [c \in Caller |-> Idle]
            /\ connected' = {} /\ offline' = FALSE
       ELSE /\ call' = [c \in Caller |-> IF call[c].pc \in Connecting /\ Peer(c) = n
                                         THEN NextAddress(c, FALSE) ELSE call[c]]
            /\ UNCHANGED <<connected, offline>>

NodeStep ==
    \/ /\ \/ \E n \in Node : \/ LoadOrCreateCrypt(n) \/ KeySaved(n) \/ StartListener(n)
                             \/ RotateSession(n)
                             \/ \E left \in {"absent", "damaged"} : SaveInterrupted(n, left)
          \/ Tick
       /\ UNCHANGED <<call, connected, offline>>
    \/ \E n \in Node : Ends(n)

Next ==
    \/ NodeStep
    \/ RunBootstrapLoop \/ Reconnect
    \/ \E c \in Caller : BootstrapStep(c)
    \/ \E p \in ToSet(Seeds) : ConnectionMapChanges(p)

(* Goroutines run, a dial that gets no answer ends with QUIC's handshake     *)
(* timeout, and a wait between rounds with time.After.  Nothing is assumed   *)
(* of the peer of a connection: neither awaitPeerAuth nor handleIncomingConn *)
(* has a deadline (carrier_cluster.go 211-219, 96-106), and QUIC's idle      *)
(* timeout does not end a connection that the peer keeps alive.              *)
Fairness == \A c \in Caller : WF_vars(call[c].pc \notin Connecting /\ BootstrapStep(c))

Spec == Init /\ [][Next]_vars /\ Fairness

-----------------------------------------------------------------------------
(* Properties *)

(* Every variable has its type. *)
TypeOK ==
    /\ setup \in DOMAIN Cluster
    /\ keyFile \in [Node -> {"absent", "damaged", "saved"}]
    /\ node \in [Node -> Process]
    /\ clock \in 0..MaxClock
    /\ \A c \in Caller : /\ call[c].pc \in {"idle", "round", "returned"} \cup Connecting
                         /\ call[c].attempt \in 0..MaxRetries
                         /\ call[c].next \in 1..Len(Seeds) + 1
                         /\ call[c].joined \in BOOLEAN
    /\ connected \subseteq ToSet(Seeds)
    /\ offline \in BOOLEAN

(* q's files vouch for p's certificate: they name the issuer, or the admin   *)
(* that p's own embedded chain leads to.                                     *)
VouchedFor(p, q) ==
    LET f == config[p].certFile IN
    IF f.authorities = <<>> THEN f.cert.issuer \in AdminsOf(config[q]) \cup UsersOf(config[q])
    ELSE f.authorities[1].ca \in AdminsOf(config[q])

(* The verdict r that q gives now on p's handshake, over a connection where  *)
(* p presented the certificate of its session tls, is the one that q's       *)
(* files, the time and the session call for: p is admitted exactly when q's  *)
(* files vouch for it, its certificate and its delegation are in their time, *)
(* and the delegation is of the session that p presented; and as admin       *)
(* exactly when q's files name the issuer as an admin CA.                    *)
VerdictRight(p, q, c, tls, r) ==
    LET cert == config[p].certFile.cert IN
    /\ r.ok <=> /\ VouchedFor(p, q)
                /\ cert.validFrom <= clock /\ clock <= cert.validUntil
                /\ clock <= call[c].written.at + MaxDelegationTTL
                /\ call[c].written.session = tls
    /\ r.ok => /\ r.node = p
               /\ r.scope = "admin" <=> cert.issuer \in AdminsOf(config[q])

(* So it is for both handshakes of every dial (carrier_cluster.go 83-228),   *)
(* although processes restart, rotate their sessions and let time pass       *)
(* between the writing of a handshake and its verification.                  *)
VerdictAsIssued ==
    \A c \in Caller :
        /\ call[c].pc = "sent" =>
              VerdictRight(Dialer, Peer(c), c, call[c].dialerTLS, DialerVerdict(c))
        /\ call[c].pc = "answered" =>
              VerdictRight(Peer(c), Dialer, c, call[c].peerTLS, PeerVerdict(c))

(* node_identity.go 132-134, of RotateSession: "Existing connections are     *)
(* unaffected; new connections will use the new session."                    *)
NewConnectionsUseSession ==
    [][\A c \in Caller : call[c].pc = "round" /\ call'[c].pc = "dialed" =>
          /\ call'[c].dialerTLS = node[Dialer].session
          /\ call'[c].peerTLS = node[Peer(c)].session]_vars

(* What an admitted peer may read of the CAS follows from who issued its     *)
(* certificate: everything for an admin CA, and else only what that CA owns; *)
(* a user CA's nodes get no more than that unless the verifier itself was    *)
(* started from a legacy certificate of that CA (authfile.go 354-361).       *)
AccessFollowsIssuer ==
    \A c \in Caller, owner \in CA \cup {NoCA} :
        LET f == config[Dialer].certFile
            q == Peer(c)
            can == CanAccessData(NewAccessContext(DialerVerdict(c)), owner)
            issuedByUser == Len(f.authorities) = 2
        IN call[c].pc = "sent" /\ DialerVerdict(c).ok =>
              /\ can <=> owner = f.cert.issuer \/ f.cert.issuer \in AdminsOf(config[q])
              /\ issuedByUser /\ can => owner = f.cert.issuer

(* A trust store loads exactly when its CA files can be loaded in the order  *)
(* given, and then holds the CAs that the files name, user CAs under the     *)
(* admin that signed them (interactive main.go 377-443, authfile 350-391).   *)
TrustAsConfigured ==
    \A n \in Node :
        /\ node[n].pc = "loading" => (carrierAuth[n].ok <=> Loadable(config[n]))
        /\ node[n].pc = "up" =>
              /\ Loadable(config[n])
              /\ carrierAuth[n].store.admins = AdminsOf(config[n])
              /\ {h \in CA : IsUser(carrierAuth[n].store, h)} = UsersOf(config[n])

(* A node is set offline only by a call all of whose MaxRetries + 1 rounds   *)
(* failed at every address, whatever a second call does to the flag and the  *)
(* connection map meanwhile.                                                 *)
OfflineExplained ==
    offline => \E c \in Caller : /\ call[c].pc = "returned" /\ ~call[c].joined
                                 /\ call[c].attempt = MaxRetries

(* The NodeID a process runs under is the one that every later process on    *)
(* the directory loads, although saving the key file may fail or be cut off  *)
(* by a crash.                                                               *)
NodeIDKept == [][\A n \in Node : Running(n) => keyFile[n] = "saved" /\ keyFile'[n] = "saved"]_vars

(* A bootstrap call returns, or hangs for ever in one dial whose peer keeps  *)
(* the connection alive and does not end its handshake (carrier_cluster.go   *)
(* 211-219): no address is dialled over and over, and no round is repeated   *)
(* without end.                                                              *)
BootstrapReturns ==
    \A c \in Caller :
        call[c].pc = "round" ~> \/ call[c].pc \in {"returned", "idle"}
                               \/ [](call[c].pc \in Connecting)
=============================================================================
