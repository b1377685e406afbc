-------------------------- MODULE ClusterController -------------------------
(***************************************************************************)
(* internal/control: the table of message handlers and the dispatch of an  *)
(* inbound message to one of them.  Register and Unregister hold the write *)
(* lock; HandleIncomingMessage takes the read lock twice, once to check    *)
(* access and once to fetch the handler, and runs it without the lock.     *)
(***************************************************************************)
EXTENDS Naturals

CONSTANTS
    MessageType,
    Schema,           \* the message types that have a payload schema
    Call,             \* goroutines that dispatch messages
    MaxRegistrations  \* bound on RegisterHandler calls

ASSUME TypesAssumption == MessageType # {}
ASSUME SchemaAssumption == Schema \subseteq MessageType
ASSUME RegistrationsAssumption == MaxRegistrations \in Nat

Scope == {"admin", "user"}

(* id tells registrations apart: the n-th one that succeeded (history).  0 is *)
(* no registration.                                                           *)
Registration == [id : Nat, allowedScopes : SUBSET Scope]
NoHandler == [id |-> 0, allowedScopes |-> {}]

VARIABLES
    handlers,    \* clusterController.handlers
    registered,  \* how many registrations succeeded (history)
    calls        \* the HandleIncomingMessage call of each goroutine

vars == <<handlers, registered, calls>>

(* checked: the registration that CheckAccess saw (history) *)
CallState == [pc : {"idle", "checked", "fetched", "running"}, type : MessageType, scope : Scope,
              checked : Registration, reg : Registration]

IdleCall == [pc |-> "idle", type |-> CHOOSE t \in MessageType : TRUE, scope |-> "user",
             checked |-> NoHandler, reg |-> NoHandler]

Init ==
    /\ handlers = [t \in MessageType |-> NoHandler]
    /\ registered = 0
    /\ calls = [k \in Call |-> IdleCall]

-----------------------------------------------------------------------------
(* Registration; a call that returns an error changes nothing. *)

RegisterHandler(t, scopes) ==
    /\ scopes # {}
    /\ handlers[t] = NoHandler
    /\ t \in Schema
    /\ registered < MaxRegistrations
    /\ registered' = registered + 1
    /\ handlers' = [handlers EXCEPT ![t] = [id |-> registered + 1, allowedScopes |-> scopes]]
    /\ UNCHANGED calls

UnregisterHandler(t) ==
    /\ handlers[t] # NoHandler
    /\ handlers' = [handlers EXCEPT ![t] = NoHandler]
    /\ UNCHANGED <<registered, calls>>

-----------------------------------------------------------------------------
(* HandleIncomingMessage *)

GetEffectiveScopes(scope) == IF scope = "admin" THEN {"admin", "user"} ELSE {"user"}

Allowed(reg, scope) == GetEffectiveScopes(scope) \cap reg.allowedScopes # {}

Permitted(t, scope) == handlers[t] # NoHandler /\ Allowed(handlers[t], scope)

(* Fault: any registered handler may be called. *)
FaultyCheckAccess(k, t, scope) ==
    /\ calls[k].pc = "idle" /\ handlers[t] # NoHandler
    /\ calls' = [calls EXCEPT ![k].pc = "checked", ![k].type = t, ![k].scope = scope,
                              ![k].checked = handlers[t]]
    /\ UNCHANGED <<handlers, registered>>

(* Fault: the call goes on without the peer's scope. *)
FaultyCheckAccessScope(k, t, scope) ==
    /\ calls[k].pc = "idle" /\ Permitted(t, scope)
    /\ calls' = [calls EXCEPT ![k].pc = "checked", ![k].type = t, ![k].scope = "none",
                              ![k].checked = handlers[t]]
    /\ UNCHANGED <<handlers, registered>>

(* First lock section. *)
CheckAccess(k, t, scope) ==
    /\ calls[k].pc = "idle" /\ Permitted(t, scope)
    /\ calls' = [calls EXCEPT ![k].pc = "checked", ![k].type = t, ![k].scope = scope,
                              ![k].checked = handlers[t]]
    /\ UNCHANGED <<handlers, registered>>

(* No handler, or none for this scope: the call ends with an error. *)
AccessDenied(k, t, scope) ==
    /\ calls[k].pc = "idle" /\ ~Permitted(t, scope)
    /\ UNCHANGED vars

(* Second lock section: the handler is looked up again. *)
FetchHandler(k) ==
    /\ calls[k].pc = "checked"
    /\ calls' = [calls EXCEPT ![k] =
          IF handlers[calls[k].type] = NoHandler THEN IdleCall
          ELSE [@ EXCEPT !.pc = "fetched", !.reg = handlers[calls[k].type]]]
    /\ UNCHANGED <<handlers, registered>>

DecodeFails(k) ==
    /\ calls[k].pc = "fetched"
    /\ calls' = [calls EXCEPT ![k] = IdleCall]
    /\ UNCHANGED <<handlers, registered>>

RunHandler(k) ==
    /\ calls[k].pc = "fetched"
    /\ calls' = [calls EXCEPT ![k].pc = "running"]
    /\ UNCHANGED <<handlers, registered>>

HandlerReturns(k) ==
    /\ calls[k].pc = "running"
    /\ calls' = [calls EXCEPT ![k] = IdleCall]
    /\ UNCHANGED <<handlers, registered>>

Next ==
    \/ \E t \in MessageType : \/ \E scopes \in SUBSET Scope : RegisterHandler(t, scopes)
                              \/ UnregisterHandler(t)
    \/ \E k \in Call : \/ \E t \in MessageType, scope \in Scope : \/ CheckAccess(k, t, scope)
                                                               \/ AccessDenied(k, t, scope)
                       \/ FetchHandler(k)
                       \/ DecodeFails(k) \/ RunHandler(k) \/ HandlerReturns(k)

Spec == Init /\ [][Next]_vars

-----------------------------------------------------------------------------
(* Properties *)

(* Every variable has its type. *)
TypeOK ==
    /\ handlers \in [MessageType -> Registration]
    /\ registered \in 0..MaxRegistrations
    /\ calls \in [Call -> CallState]

(* A handler runs for a peer whose scope its registration does not allow    *)
(* only when it was registered while the call was between its two lock      *)
(* sections; and a handler that was unregistered before the call began      *)
(* never runs.                                                              *)
CheckedOrReplaced ==
    \A k \in Call : calls[k].pc = "running" =>
        /\ calls[k].checked.id <= calls[k].reg.id
        /\ calls[k].reg.id = calls[k].checked.id => Allowed(calls[k].reg, calls[k].scope)
=============================================================================
