---------------------------- MODULE MCBootstrap -----------------------------
(* Node n1 joins through two addresses of node n2.  Admin CAs a1 and a2,    *)
(* user CA u1 anchored by a1; each node is started from a certificate of    *)
(* one of them, with CA files or without, in an order that loads or not.    *)
EXTENDS Bootstrap

CONSTANTS a1, a2, u1, n1, n2

MCSeeds == <<n2, n2>>

FileA1 == CmdAdminCA(a1)
FileA2 == CmdAdminCA(a2)
FileU1 == CmdUserCA(FileA1, u1)

MCKeyFiles == {FileA1, FileA2, FileU1}

Embedded(certFile) == [certFile |-> certFile, adminCAs |-> <<>>, userCAs |-> <<>>]
Listed(certFile, admins, users) ==
    [certFile |-> certFile, adminCAs |-> admins, userCAs |-> users]

(* The dialer's certificate, then the peer's and its CA files. *)
UserDialer == Embedded(CmdSignNode(FileU1, n1, 0, 0))
LegacyDialer == Embedded(Legacy(CmdSignNode(FileU1, n1, 0, 1)))
AdminDialer == Listed(CmdSignNode(FileA1, n1, 0, 1), <<FileA1, FileU1>>, <<>>)

AdminPeer == Embedded(CmdSignNode(FileA1, n2, 0, 1))
LegacyPeer == Embedded(Legacy(CmdSignNode(FileU1, n2, 0, 1)))
ListedPeer == Listed(CmdSignNode(FileU1, n2, 0, 1), <<FileA2, FileA1>>, <<FileU1>>)
MisorderedPeer == Listed(CmdSignNode(FileA1, n2, 0, 1), <<FileU1, FileA1>>, <<>>)

With(d, p) == [n \in Node |-> IF n = n1 THEN d ELSE p]

MCCluster ==
    <<With(UserDialer, AdminPeer), With(LegacyDialer, LegacyPeer), With(AdminDialer, ListedPeer),
      With(UserDialer, LegacyPeer), With(LegacyDialer, ListedPeer),
      With(AdminDialer, MisorderedPeer)>>
=============================================================================
