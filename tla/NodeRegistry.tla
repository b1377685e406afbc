---------------------------- MODULE NodeRegistry ----------------------------
(***************************************************************************)
(* internal/transport/node_registry.go: the map of known peers.  Each of   *)
(* its methods holds the registry's own mutex from start to end, so each   *)
(* is an operator from registry to registry that its callers apply in one  *)
(* step.  Addresses and certificates only ever accumulate and decide       *)
(* nothing here; they are left out.                                        *)
(*                                                                         *)
(* A timestamp is kept as what failStalePeers asks about it: never set,    *)
(* younger than HeartbeatTimeout, or older.                                *)
(***************************************************************************)

CONSTANT Peer  \* NodeIDs of the other nodes

Status == {"absent", "disconnected", "connected", "failed"}
(* NodeRole is an int cast unchecked from the wire: "other" stands for every *)
(* value that is neither NodeRoleServer nor NodeRoleClient.                  *)
Role == {"server", "client", "other"}
LastSeen == {"zero", "fresh", "stale"}
Entry == [status : Status, role : Role, lastSeen : LastSeen]

Absent == [status |-> "absent", role |-> "server", lastSeen |-> "zero"]
Known(r, p) == r[p].status # "absent"

(* Whatever is not a client is served like a server. *)
IsServer(r, p) == r[p].role # "client"

(* Fault: the role is overwritten. *)
FaultyMergeNode(existing, incoming) ==
    [status |-> IF incoming.status = "disconnected" THEN existing.status ELSE incoming.status,
     role |-> incoming.role,
     lastSeen |-> IF incoming.lastSeen = "zero" THEN existing.lastSeen ELSE incoming.lastSeen]

(* What AddNode makes of an entry it already has: only against "server" does *)
(* it keep "client".                                                         *)
MergeNode(existing, incoming) ==
    [status |-> IF incoming.status = "disconnected" THEN existing.status ELSE incoming.status,
     role |-> IF incoming.role = "server" /\ existing.role = "client" THEN "client"
                                                                     ELSE incoming.role,
     lastSeen |-> IF incoming.lastSeen = "zero" THEN existing.lastSeen ELSE incoming.lastSeen]

AddNode(r, p, n) ==
    [r EXCEPT ![p] = IF Known(r, p) THEN MergeNode(r[p], n) ELSE n]

RemoveEntry(r, p) == [r EXCEPT ![p] = Absent]

SetStatus(r, p, status) ==
    IF Known(r, p) THEN [r EXCEPT ![p].status = status] ELSE r

SetRole(r, p, role) ==
    IF Known(r, p) THEN [r EXCEPT ![p].role = role] ELSE r

UpdateLastSeen(r, p) ==
    IF Known(r, p) THEN [r EXCEPT ![p].lastSeen = "fresh"] ELSE r

GetUnreachableNodes(r) == {p \in Peer : r[p].status \in {"disconnected", "failed"}}

(* Time passes: every timestamp taken so far is older than HeartbeatTimeout. *)
Aged(e) == [e EXCEPT !.lastSeen = IF @ = "fresh" THEN "stale" ELSE @]
=============================================================================
