----------------------------- MODULE ClusterLog -----------------------------
(***************************************************************************)
(* internal/logging/clusterlog: the log of one node.  A Log call stamps an *)
(* entry, appends it under the mutex together with a copy of the           *)
(* subscriber set, and pushes it to those subscribers after the unlock.    *)
(* One goroutine removes expired entries until Stop.                       *)
(***************************************************************************)
EXTENDS Naturals, Sequences, SequencesExt

CONSTANTS
    Node,        \* NodeIDs
    SelfID,
    Caller,      \* goroutines that log
    Level,       \* levels that callers pass to Log
    ttlByLevel,  \* lifetime of the entries of each known level
    MaxClock,    \* bound on the wall clock
    MaxEntries   \* bound on Log calls

ASSUME SelfAssumption == SelfID \in Node
ASSUME LevelAssumption == "info" \in DOMAIN ttlByLevel
ASSUME TTLAssumption == \A l \in DOMAIN ttlByLevel : ttlByLevel[l] \in Nat
ASSUME BoundsAssumption == MaxClock \in Nat /\ MaxEntries \in Nat

VARIABLES
    clock,
    entries,      \* the history
    subscribers,  \* source -> nodes that its entries are pushed to
    logs,         \* the Log call of each goroutine
    cleaner,      \* the cleanup goroutine, and Stop
    recorded,     \* how many entries were appended so far (history)
    due,          \* node -> entries recorded while it was subscribed (history)
    pushed        \* node -> entries handed to the Carrier for it (history)

logVars == <<entries, logs, recorded, due, pushed>>
vars == <<clock, logVars, subscribers, cleaner>>

(* id: the position in the order of appends, 0 before. *)
LogEntry == [id : Nat, level : Level, time : Nat]

NoEntry == [id |-> 0, level |-> CHOOSE l \in Level : TRUE, time |-> 0]
Idle == [pc |-> "idle", entry |-> NoEntry, targets |-> {}]

Init ==
    /\ clock = 0
    /\ entries = <<>> /\ recorded = 0
    /\ subscribers = [n \in Node |-> {}]
    /\ logs = [g \in Caller |-> Idle]
    /\ cleaner = [pc |-> "select", now |-> 0, stop |-> "running"]
    /\ due = [n \in Node |-> {}]
    /\ pushed = [n \in Node |-> <<>>]

-----------------------------------------------------------------------------
(* Log, Info, Warn, Debug and Err *)

(* The entry is stamped and written to slog before the lock is taken. *)
Log(g, level) ==
    /\ logs[g].pc = "idle" /\ recorded < MaxEntries
    /\ logs' = [logs EXCEPT ![g].pc = "stamped",
                            ![g].entry = [id |-> 0, level |-> level, time |-> clock]]
    /\ UNCHANGED <<clock, entries, recorded, due, pushed, subscribers, cleaner>>

(* Fault: the subscriber set is not copied. *)
FaultyRecord(g) ==
    LET e == [logs[g].entry EXCEPT !.id = recorded + 1] IN
    /\ logs[g].pc = "stamped"
    /\ entries' = Append(entries, e)
    /\ recorded' = recorded + 1
    /\ logs' = [logs EXCEPT ![g] = [pc |-> "pushing", entry |-> e, targets |-> {}]]
    /\ due' = [n \in Node |-> IF n \in subscribers[SelfID] THEN due[n] \cup {e.id} ELSE due[n]]
    /\ UNCHANGED <<clock, pushed, subscribers, cleaner>>

(* The lock section of record. *)
Record(g) ==
    LET e == [logs[g].entry EXCEPT !.id = recorded + 1] IN
    /\ logs[g].pc = "stamped"
    /\ entries' = Append(entries, e)
    /\ recorded' = recorded + 1
    /\ logs' = [logs EXCEPT ![g] = [pc |-> "pushing", entry |-> e, targets |-> subscribers[SelfID]]]
    /\ due' = [n \in Node |-> IF n \in subscribers[SelfID] THEN due[n] \cup {e.id} ELSE due[n]]
    /\ UNCHANGED <<clock, pushed, subscribers, cleaner>>

(* One round of push's loop; the local node is skipped, a failed send is logged. *)
Push(g, n) ==
    /\ logs[g].pc = "pushing" /\ n \in logs[g].targets
    /\ logs' = [logs EXCEPT ![g].targets = @ \ {n}]
    /\ pushed' = IF n = SelfID THEN pushed
                 ELSE [pushed EXCEPT ![n] = Append(@, logs[g].entry.id)]
    /\ UNCHANGED <<clock, entries, recorded, due, subscribers, cleaner>>

LogReturns(g) ==
    /\ logs[g].pc = "pushing" /\ logs[g].targets = {}
    /\ logs' = [logs EXCEPT ![g] = Idle]
    /\ UNCHANGED <<clock, entries, recorded, due, pushed, subscribers, cleaner>>

-----------------------------------------------------------------------------
(* Subscriptions: each method is one lock section. *)

SubscribeLog(source, n) ==
    /\ subscribers' = [subscribers EXCEPT ![source] = @ \cup {n}]
    /\ UNCHANGED <<clock, logVars, cleaner>>

(* nodes: what the Carrier's GetNodes returned before the lock was taken. *)
SubscribeLogAll(n, nodes) ==
    /\ subscribers' = [s \in Node |-> IF s \in nodes THEN subscribers[s] \cup {n} ELSE subscribers[s]]
    /\ UNCHANGED <<clock, logVars, cleaner>>

UnsubscribeLog(source, n) ==
    /\ subscribers' = [subscribers EXCEPT ![source] = @ \ {n}]
    /\ UNCHANGED <<clock, logVars, cleaner>>

UnsubscribeLogAll(n) ==
    /\ subscribers' = [s \in Node |-> subscribers[s] \ {n}]
    /\ UNCHANGED <<clock, logVars, cleaner>>

-----------------------------------------------------------------------------
(* Retention *)

(* Fault: an unknown level has no lifetime. *)
FaultyTTL(level) == IF level \in DOMAIN ttlByLevel THEN ttlByLevel[level] ELSE 0

(* An unknown level lives as long as info. *)
TTL(level) == IF level \in DOMAIN ttlByLevel THEN ttlByLevel[level] ELSE ttlByLevel["info"]

IsExpired(e, now) == now > e.time + TTL(e.level)

(* The ticker fires; cleanup reads the clock before it takes the lock. *)
CleanupTick ==
    /\ cleaner.pc = "select"
    /\ cleaner' = [cleaner EXCEPT !.pc = "cleaning", !.now = clock]
    /\ UNCHANGED <<clock, logVars, subscribers>>

(* Fault: only the oldest entry is looked at. *)
FaultyCleanup ==
    LET expired(e) == IsExpired(e, cleaner.now) IN
    /\ cleaner.pc = "cleaning"
    /\ entries' = IF entries # <<>> /\ expired(Head(entries)) THEN Tail(entries) ELSE entries
    /\ cleaner' = [cleaner EXCEPT !.pc = "select", !.now = 0]
    /\ UNCHANGED <<clock, logs, recorded, due, pushed, subscribers>>

(* cleanup's loop: kept[i] is what is kept of the first i entries. *)
Kept(es, now) ==
    LET kept[i \in 0..Len(es)] ==
            IF i = 0 THEN <<>>
            ELSE IF IsExpired(es[i], now) THEN kept[i - 1] ELSE Append(kept[i - 1], es[i])
    IN  kept[Len(es)]

Cleanup ==
    /\ cleaner.pc = "cleaning"
    /\ entries' = Kept(entries, cleaner.now)
    /\ cleaner' = [cleaner EXCEPT !.pc = "select", !.now = 0]
    /\ UNCHANGED <<clock, logs, recorded, due, pushed, subscribers>>

(* Fault: Stop does not wait for the goroutine. *)
FaultyStop ==
    /\ cleaner.stop = "running"
    /\ cleaner' = [cleaner EXCEPT !.stop = "stopped"]
    /\ UNCHANGED <<clock, logVars, subscribers>>

(* Stop closes stopCh and then waits for the goroutine. *)
Stop ==
    /\ cleaner.stop = "running"
    /\ cleaner' = [cleaner EXCEPT !.stop = "stopping"]
    /\ UNCHANGED <<clock, logVars, subscribers>>

(* Fault: the goroutine waits for Stop to return. *)
FaultyCleanupLoopReturns ==
    /\ cleaner.pc = "select" /\ cleaner.stop = "stopped"
    /\ cleaner' = [cleaner EXCEPT !.pc = "returned"]
    /\ UNCHANGED <<clock, logVars, subscribers>>

CleanupLoopReturns ==
    /\ cleaner.pc = "select" /\ cleaner.stop # "running"
    /\ cleaner' = [cleaner EXCEPT !.pc = "returned"]
    /\ UNCHANGED <<clock, logVars, subscribers>>

StopReturns ==
    /\ cleaner.stop = "stopping" /\ cleaner.pc = "returned"
    /\ cleaner' = [cleaner EXCEPT !.stop = "stopped"]
    /\ UNCHANGED <<clock, logVars, subscribers>>

TimePasses ==
    /\ clock < MaxClock
    /\ clock' = clock + 1
    /\ UNCHANGED <<logVars, subscribers, cleaner>>

Logging(g) ==
    \/ \E level \in Level : Log(g, level)
    \/ Record(g)
    \/ \E n \in Node : Push(g, n)
    \/ LogReturns(g)

(* The Carrier's registry may hold the local node too: registerPeer does not *)
(* exclude it, and a node that dials its own address is registered.          *)
Subscription ==
    \/ \E source, n \in Node : SubscribeLog(source, n) \/ UnsubscribeLog(source, n)
    \/ \E n \in Node, nodes \in SUBSET Node : SubscribeLogAll(n, nodes)
    \/ \E n \in Node : UnsubscribeLogAll(n)

Cleaning == CleanupTick \/ Cleanup \/ CleanupLoopReturns

Next ==
    \/ \E g \in Caller : Logging(g)
    \/ Subscription
    \/ Cleaning \/ Stop \/ StopReturns
    \/ TimePasses

(* The ticker fires again and again; when stopCh and the ticker are both     *)
(* ready select picks at random, so the closed channel is not passed over    *)
(* for ever.                                                                 *)
Fairness ==
    /\ WF_vars(Cleaning) /\ SF_vars(CleanupLoopReturns)
    /\ WF_vars(StopReturns)

Spec == Init /\ [][Next]_vars
FairSpec == Spec /\ Fairness

-----------------------------------------------------------------------------
(* Properties *)

(* Although pushes run after the unlock and race with (un)subscriptions, a   *)
(* node is handed every entry recorded while it was subscribed exactly once, *)
(* and no other; the local node is handed none.                              *)
InFlight(n) == {logs[g].entry.id : g \in {h \in Caller : logs[h].pc = "pushing" /\ n \in logs[h].targets}}
PushedExactlyOnce ==
    /\ pushed[SelfID] = <<>>
    /\ \A n \in Node \ {SelfID} :
          /\ IsInjective(pushed[n])
          /\ ToSet(pushed[n]) = due[n] \ InFlight(n)

(* The history keeps the order of the appends through every cleanup, and a   *)
(* live entry stays in it.                                                   *)
Lifetime(level) == ttlByLevel[IF level \in DOMAIN ttlByLevel THEN level ELSE "info"]
HistoryKept ==
    [][/\ \A i, j \in DOMAIN entries' : i < j => entries'[i].id < entries'[j].id
       /\ \A i \in DOMAIN entries : clock <= entries[i].time + Lifetime(entries[i].level)
                                       => entries[i] \in ToSet(entries')]_vars

(* Once Stop has returned nothing removes or moves entries any more: the     *)
(* history changes only by entries that Log calls append.                    *)
StopIsFinal ==
    [][cleaner.stop = "stopped" /\ entries' # entries =>
          \E g \in Caller : entries' = Append(entries, logs'[g].entry)]_vars

(* An entry that expired leaves the history, unless the log is stopped. *)
ExpiredRemoved ==
    \A id \in 1..MaxEntries :
        (\E e \in ToSet(entries) : e.id = id /\ IsExpired(e, clock))
            ~> (cleaner.stop # "running" \/ ~\E e \in ToSet(entries) : e.id = id)

(* Stop returns, whatever the ticker does. *)
StopTerminates == cleaner.stop = "stopping" ~> cleaner.stop = "stopped"
=============================================================================
