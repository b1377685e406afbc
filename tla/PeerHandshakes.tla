--------------------------- MODULE PeerHandshakes ---------------------------
(* What VerifyPeerCert is called with: the peers' handshakes and the time. *)
EXTENDS TrustStore

CONSTANTS
    Handshake,  \* the handshakes peers present
    MaxClock    \* the wall clock is in 0..MaxClock

ASSUME HandshakeAssumption == Handshake \subseteq PeerHandshake
ASSUME ClockAssumption == MaxClock \in Nat
=============================================================================
