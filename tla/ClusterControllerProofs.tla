---------------------- MODULE ClusterControllerProofs -----------------------
(***************************************************************************)
(* For any message types, number of dispatching goroutines and number of   *)
(* registrations: what the two lock sections of HandleIncomingMessage do   *)
(* guarantee.                                                              *)
(***************************************************************************)
EXTENDS ClusterController, TLAPS

(* Registrations are numbered in the order they were made. *)
Numbered == \A t \in MessageType : handlers[t].id <= registered

(* A call past its access check saw a registration that allows its scope. *)
AccessGiven ==
    \A k \in Call : calls[k].pc # "idle" =>
        /\ calls[k].checked.id <= registered
        /\ Allowed(calls[k].checked, calls[k].scope)

(* Registration r, met after c was checked, is c itself or a newer one. *)
SameOrNewer(r, c) == r = c \/ c.id < r.id

(* What a call still has to fetch, or has fetched, is what it checked or newer. *)
NothingStale ==
    \A k \in Call :
        /\ calls[k].pc = "checked" =>
              \/ handlers[calls[k].type] = NoHandler
              \/ SameOrNewer(handlers[calls[k].type], calls[k].checked)
        /\ calls[k].pc \in {"fetched", "running"} => SameOrNewer(calls[k].reg, calls[k].checked)

Inv == TypeOK /\ Numbered /\ AccessGiven /\ NothingStale

LEMMA IdleCallType == IdleCall \in CallState
BY TypesAssumption DEF IdleCall, CallState, Registration, NoHandler, Scope

LEMMA InvInit == Init => Inv
<1> SUFFICES ASSUME Init PROVE Inv
  OBVIOUS
<1>1. TypeOK
  BY IdleCallType, RegistrationsAssumption DEF Init, TypeOK, Registration, NoHandler
<1>2. Numbered
  <2> SUFFICES ASSUME NEW t \in MessageType PROVE handlers[t].id <= registered
    BY DEF Numbered
  <2>1. handlers[t].id = 0 /\ registered = 0
    BY DEF Init, NoHandler
  <2> QED
    BY <2>1
<1>3. AccessGiven /\ NothingStale
  BY DEF Init, AccessGiven, NothingStale, IdleCall
<1> QED
  BY <1>1, <1>2, <1>3 DEF Inv

(* The write lock: a new registration is newer than whatever a call checked. *)
LEMMA RegisterStep ==
    ASSUME Inv, NEW t \in MessageType, NEW scopes \in SUBSET Scope, RegisterHandler(t, scopes)
    PROVE  Inv'
<1> USE DEF Inv, RegisterHandler
<1>1. TypeOK'
  BY RegistrationsAssumption DEF TypeOK, Registration
<1>2. Numbered'
  BY RegistrationsAssumption DEF TypeOK, Registration, Numbered
<1>3. AccessGiven'
  BY RegistrationsAssumption DEF TypeOK, CallState, Registration, AccessGiven, Allowed
<1>4. NothingStale'
  <2> SUFFICES ASSUME NEW k \in Call, calls[k].pc = "checked"
               PROVE  \/ handlers'[calls[k].type] = NoHandler
                      \/ SameOrNewer(handlers'[calls[k].type], calls[k].checked)
    BY DEF NothingStale
  <2>1. CASE calls[k].type = t
    <3>1. calls[k].checked.id < handlers'[t].id
      BY <2>1, RegistrationsAssumption DEF TypeOK, CallState, Registration, AccessGiven
    <3> QED
      BY <2>1, <3>1 DEF SameOrNewer
  <2>2. CASE calls[k].type # t
    BY <2>2 DEF NothingStale, TypeOK, CallState
  <2> QED
    BY <2>1, <2>2
<1> QED
  BY <1>1, <1>2, <1>3, <1>4

LEMMA UnregisterStep ==
    ASSUME Inv, NEW t \in MessageType, UnregisterHandler(t)
    PROVE  Inv'
<1> USE DEF Inv, UnregisterHandler
<1>1. TypeOK'
  BY DEF TypeOK, Registration, NoHandler
<1>2. Numbered'
  BY RegistrationsAssumption DEF TypeOK, Registration, Numbered, NoHandler
<1>3. AccessGiven'
  BY DEF AccessGiven, Allowed
<1>4. NothingStale'
  BY DEF NothingStale, TypeOK, CallState
<1> QED
  BY <1>1, <1>2, <1>3, <1>4

(* The two read-lock sections and what follows them. *)
LEMMA CallStep ==
    ASSUME Inv, NEW k \in Call,
           \/ \E t \in MessageType, scope \in Scope : CheckAccess(k, t, scope)
           \/ FetchHandler(k) \/ DecodeFails(k) \/ RunHandler(k) \/ HandlerReturns(k)
    PROVE  Inv'
<1> USE DEF Inv
<1>1. ASSUME NEW t \in MessageType, NEW scope \in Scope, CheckAccess(k, t, scope)
      PROVE  Inv'
  <2> USE <1>1 DEF CheckAccess, Permitted
  <2>1. TypeOK'
    <3>1. handlers[t] \in Registration /\ calls[k] \in CallState
      BY DEF TypeOK
    <3>2. [calls[k] EXCEPT !.pc = "checked", !.type = t, !.scope = scope, !.checked = handlers[t]]
              \in CallState
      BY <3>1 DEF CallState
    <3> QED
      BY <3>2 DEF TypeOK
  <2>2. Numbered'
    BY DEF Numbered
  <2>3. AccessGiven'
    BY DEF TypeOK, CallState, AccessGiven, Numbered, Allowed
  <2>4. NothingStale'
    BY DEF TypeOK, CallState, NothingStale, SameOrNewer
  <2> QED
    BY <2>1, <2>2, <2>3, <2>4
<1>2. CASE FetchHandler(k)
  <2> USE <1>2 DEF FetchHandler
  <2>1. TypeOK'
    BY IdleCallType DEF TypeOK, CallState
  <2>2. Numbered'
    BY DEF Numbered
  <2>3. AccessGiven'
    BY DEF TypeOK, CallState, AccessGiven, Allowed, IdleCall
  <2>4. NothingStale'
    BY DEF TypeOK, CallState, NothingStale, SameOrNewer, IdleCall
  <2> QED
    BY <2>1, <2>2, <2>3, <2>4
<1>3. CASE DecodeFails(k) \/ HandlerReturns(k)
  <2> USE <1>3 DEF DecodeFails, HandlerReturns
  <2>1. TypeOK'
    BY IdleCallType DEF TypeOK
  <2>2. Numbered'
    BY DEF Numbered
  <2>3. AccessGiven' /\ NothingStale'
    BY DEF TypeOK, AccessGiven, NothingStale, Allowed, SameOrNewer, IdleCall
  <2> QED
    BY <2>1, <2>2, <2>3
<1>4. CASE RunHandler(k)
  <2> USE <1>4 DEF RunHandler
  <2>1. TypeOK'
    BY DEF TypeOK, CallState
  <2>2. Numbered'
    BY DEF Numbered
  <2>3. AccessGiven'
    BY DEF TypeOK, CallState, AccessGiven, Allowed
  <2>4. NothingStale'
    BY DEF TypeOK, CallState, NothingStale, SameOrNewer
  <2> QED
    BY <2>1, <2>2, <2>3, <2>4
<1> QED
  BY <1>1, <1>2, <1>3, <1>4

LEMMA InvAlways == Spec => []Inv
<1>1. Inv /\ [Next]_vars => Inv'
  <2> SUFFICES ASSUME Inv, [Next]_vars PROVE Inv'
    OBVIOUS
  <2>1. CASE UNCHANGED vars
    BY <2>1 DEF vars, Inv, TypeOK, Numbered, AccessGiven, NothingStale, Allowed
  <2>2. ASSUME NEW k \in Call, NEW t \in MessageType, NEW scope \in Scope, AccessDenied(k, t, scope)
        PROVE  Inv'
    BY <2>1, <2>2 DEF AccessDenied
  <2> QED
    BY <2>1, <2>2, RegisterStep, UnregisterStep, CallStep DEF Next
<1> QED
  BY <1>1, InvInit, PTL DEF Spec

(* Every variable has its type in every reachable state. *)
THEOREM TypeCorrect == Spec => []TypeOK
<1>1. Inv => TypeOK
  BY DEF Inv
<1> QED
  BY <1>1, InvAlways, PTL

(* HandleIncomingMessage never runs a handler that was unregistered before   *)
(* the call began, and runs one that does not allow the peer's scope only    *)
(* when it was registered between the call's two lock sections.              *)
THEOREM DispatchChecked == Spec => []CheckedOrReplaced
<1>1. Inv => CheckedOrReplaced
  <2> SUFFICES ASSUME Inv, NEW k \in Call, calls[k].pc = "running"
               PROVE  /\ calls[k].checked.id <= calls[k].reg.id
                      /\ calls[k].reg.id = calls[k].checked.id
                            => Allowed(calls[k].reg, calls[k].scope)
    BY DEF CheckedOrReplaced
  <2>1. calls[k].checked.id \in Nat /\ calls[k].reg.id \in Nat
    BY DEF Inv, TypeOK, CallState, Registration
  <2>2. SameOrNewer(calls[k].reg, calls[k].checked) /\ Allowed(calls[k].checked, calls[k].scope)
    BY DEF Inv, NothingStale, AccessGiven
  <2> QED
    BY <2>1, <2>2 DEF SameOrNewer
<1> QED
  BY <1>1, InvAlways, PTL
=============================================================================
