----------------------------- MODULE Membership -----------------------------
(***************************************************************************)
(* What the Carrier promises about who is in the cluster, without its      *)
(* goroutines, messages, registry and locks.  A session is one connection. *)
(* A peer becomes a member only through a session that was authenticated   *)
(* as that peer, at most once for each authentication, and with the scope  *)
(* that this authentication granted.  It stops being one only together     *)
(* with the session it is a member through.                                *)
(***************************************************************************)
CONSTANTS
    Peer,
    Session,
    Scope,
    Granted,    \* the scopes that authentication may grant
    NoPeer,
    NoSession

VARIABLES
    live,    \* the open sessions
    stage,   \* each session: new, granted (authenticated, not yet used) or over
    grant,   \* what its authentication granted
    member,  \* the session through which each peer is a member
    scopes   \* the scope each member has

vars == <<live, stage, grant, member, scopes>>

NoGrant == [peer |-> NoPeer, scope |-> "user"]

Init ==
    /\ live = {}
    /\ stage = [s \in Session |-> "over"]
    /\ grant = [s \in Session |-> NoGrant]
    /\ member = [p \in Peer |-> NoSession]
    /\ scopes = [p \in Peer |-> "none"]

Begin(s) ==
    /\ stage[s] = "over" /\ s \notin live
    /\ \A p \in Peer : member[p] # s
    /\ live' = live \cup {s}
    /\ stage' = [stage EXCEPT ![s] = "new"]
    /\ grant' = [grant EXCEPT ![s] = NoGrant]
    /\ UNCHANGED <<member, scopes>>

Refuse(s) ==
    /\ stage[s] = "new"
    /\ live' = live \ {s}
    /\ stage' = [stage EXCEPT ![s] = "over"]
    /\ UNCHANGED <<grant, member, scopes>>

Authenticate(s, p, scope) ==
    /\ stage[s] = "new" /\ s \in live
    /\ stage' = [stage EXCEPT ![s] = "granted"]
    /\ grant' = [grant EXCEPT ![s] = [peer |-> p, scope |-> scope]]
    /\ UNCHANGED <<live, member, scopes>>

Admit(s) ==
    /\ stage[s] = "granted"
    /\ stage' = [stage EXCEPT ![s] = "over"]
    /\ member' = [member EXCEPT ![grant[s].peer] = s]
    /\ scopes' = [scopes EXCEPT ![grant[s].peer] = grant[s].scope]
    /\ UNCHANGED <<live, grant>>

Break(s) ==
    /\ s \in live
    /\ live' = live \ {s}
    /\ UNCHANGED <<stage, grant, member, scopes>>

Leave(p) ==
    /\ member[p] # NoSession
    /\ live' = live \ {member[p]}
    /\ member' = [member EXCEPT ![p] = NoSession]
    /\ scopes' = [scopes EXCEPT ![p] = "none"]
    /\ UNCHANGED <<stage, grant>>

Next ==
    \/ \E s \in Session : \/ Begin(s) \/ Refuse(s) \/ Admit(s) \/ Break(s)
                          \/ \E p \in Peer, scope \in Granted : Authenticate(s, p, scope)
    \/ \E p \in Peer : Leave(p)

Spec == Init /\ [][Next]_vars
=============================================================================
