-------------------------- MODULE ClusterLogProofs --------------------------
(***************************************************************************)
(* The log of one node, for any number of nodes, logging goroutines and    *)
(* entries.                                                                *)
(***************************************************************************)
EXTENDS ClusterLog, LoopProofs

LogCall == [pc : {"idle", "stamped", "pushing"}, entry : LogEntry \cup {NoEntry},
            targets : SUBSET Node]

Types ==
    /\ clock \in Nat /\ recorded \in Nat
    /\ subscribers \in [Node -> SUBSET Node]
    /\ logs \in [Caller -> LogCall]
    /\ due \in [Node -> SUBSET (1..recorded)]
    /\ pushed \in [Node -> Seq(Nat)]

(* A call has an entry of the log in hand once it is stamped, and while it   *)
(* pushes, a number that no other call pushes.                               *)
CallsApart ==
    /\ \A g \in Caller : logs[g].pc # "idle" => logs[g].entry \in LogEntry
    /\ \A g \in Caller : logs[g].pc = "pushing" => logs[g].entry.id \in 1..recorded
    /\ \A g, h \in Caller : /\ g # h /\ logs[g].pc = "pushing" /\ logs[h].pc = "pushing"
                            => logs[g].entry.id # logs[h].entry.id

(* An entry is pushed only to nodes it is due to. *)
TargetsDue ==
    \A g \in Caller : logs[g].pc = "pushing" =>
        \A n \in logs[g].targets : logs[g].entry.id \in due[n]

(***************************************************************************)
(* The inductive invariant.  PushedExactlyOnce alone is not inductive: an  *)
(* entry that is pushed must not count as in flight for another call, and  *)
(* must be due where it goes.                                              *)
(***************************************************************************)
Inv == Types /\ CallsApart /\ TargetsDue /\ PushedExactlyOnce

(* Append adds its element to what a sequence holds, and keeps a sequence    *)
(* without repetitions so if the element is new.                             *)
LEMMA AppendNew ==
    ASSUME NEW T, NEW s \in Seq(T), NEW e \in T
    PROVE  /\ Append(s, e) \in Seq(T)
           /\ ToSet(Append(s, e)) = ToSet(s) \cup {e}
           /\ e \notin ToSet(s) /\ IsInjective(s) => IsInjective(Append(s, e))
<1>1. /\ Append(s, e) \in Seq(T) /\ Len(s) \in Nat
      /\ DOMAIN s = 1..Len(s) /\ DOMAIN Append(s, e) = 1..Len(s) + 1
      /\ \A i \in 1..Len(s) : Append(s, e)[i] = s[i]
      /\ Append(s, e)[Len(s) + 1] = e
  OBVIOUS
<1>2. ToSet(Append(s, e)) = ToSet(s) \cup {e}
  <2>1. ASSUME NEW x \in ToSet(Append(s, e)) PROVE x \in ToSet(s) \cup {e}
    <3>1. PICK i \in 1..Len(s) + 1 : x = Append(s, e)[i]
      BY <1>1, <2>1 DEF ToSet
    <3>2. CASE i \in 1..Len(s)
      BY <1>1, <3>1, <3>2 DEF ToSet
    <3>3. CASE i = Len(s) + 1
      BY <1>1, <3>1, <3>3
    <3> QED
      BY <1>1, <3>2, <3>3
  <2>2. ASSUME NEW x \in ToSet(s) PROVE x \in ToSet(Append(s, e))
    <3>1. PICK i \in 1..Len(s) : x = s[i]
      BY <1>1, <2>2 DEF ToSet
    <3>2. i \in 1..Len(s) + 1 /\ Append(s, e)[i] = x
      BY <1>1, <3>1
    <3> QED
      BY <1>1, <3>2 DEF ToSet
  <2>3. Len(s) + 1 \in 1..Len(s) + 1
    BY <1>1
  <2>4. e \in ToSet(Append(s, e))
    BY <1>1, <2>3 DEF ToSet
  <2> QED
    BY <2>1, <2>2, <2>4
<1>3. ASSUME e \notin ToSet(s), IsInjective(s) PROVE IsInjective(Append(s, e))
  <2>1. \A i \in 1..Len(s) : s[i] # e
    BY <1>1, <1>3 DEF ToSet
  <2>2. ASSUME NEW a \in 1..Len(s) + 1, NEW b \in 1..Len(s) + 1, Append(s, e)[a] = Append(s, e)[b]
        PROVE  a = b
    <3>1. CASE a \in 1..Len(s) /\ b \in 1..Len(s)
      BY <1>1, <1>3, <2>2, <3>1 DEF IsInjective
    <3>2. CASE ~(a \in 1..Len(s) /\ b \in 1..Len(s))
      BY <1>1, <2>1, <2>2, <3>2
    <3> QED
      BY <3>1, <3>2
  <2> QED
    BY <1>1, <2>2 DEF IsInjective
<1> QED
  BY <1>1, <1>2, <1>3

(* A step that leaves the calls, what is due and what was pushed alone keeps *)
(* the invariant.                                                            *)
LEMMA QuietStep ==
    ASSUME Inv, UNCHANGED <<logs, due, pushed, recorded>>,
           clock' \in Nat, subscribers' \in [Node -> SUBSET Node]
    PROVE  Inv'
BY DEF Inv, Types, CallsApart, TargetsDue, PushedExactlyOnce, InFlight

(* A step of one call after which it pushes to nobody, as before, keeps the  *)
(* invariant.                                                                *)
LEMMA OffStep ==
    ASSUME Inv, NEW g \in Caller, NEW r \in LogCall, logs' = [logs EXCEPT ![g] = r],
           r.pc # "pushing", r.pc # "idle" => r.entry \in LogEntry,
           logs[g].pc = "pushing" => logs[g].targets = {},
           UNCHANGED <<clock, recorded, due, pushed, subscribers>>
    PROVE  Inv'
<1> USE DEF Inv
<1>1. logs'[g] = r /\ \A h \in Caller \ {g} : logs'[h] = logs[h]
  BY DEF Types
<1>2. Types'
  BY DEF Types
<1>3. CallsApart'
  BY <1>1 DEF CallsApart
<1>4. TargetsDue'
  BY <1>1 DEF TargetsDue
<1>5. ASSUME NEW n \in Node PROVE InFlight(n)' = InFlight(n)
  BY <1>1 DEF InFlight
<1>6. PushedExactlyOnce'
  BY <1>5 DEF PushedExactlyOnce
<1> QED
  BY <1>2, <1>3, <1>4, <1>6

(* record numbers its entry above all others, and makes it due to, and in    *)
(* flight for, the same nodes.                                               *)
LEMMA RecordStep ==
    ASSUME Inv, NEW g \in Caller, Record(g)
    PROVE  Inv'
<1> USE DEF Inv
<1> DEFINE id == recorded + 1
           e == [logs[g].entry EXCEPT !.id = id]
           r == [pc |-> "pushing", entry |-> e, targets |-> subscribers[SelfID]]
<1>1. /\ logs[g].pc = "stamped" /\ logs[g].entry \in LogEntry
      /\ recorded \in Nat /\ subscribers[SelfID] \in SUBSET Node
  BY SelfAssumption DEF Record, Types, CallsApart
<1>2. e \in LogEntry /\ e.id = id
  BY <1>1 DEF LogEntry
<1>3. r \in LogCall /\ r.pc = "pushing" /\ r.entry.id = id /\ r.targets = subscribers[SelfID]
  BY <1>1, <1>2 DEF LogCall
<1>4. /\ recorded' = id /\ logs' = [logs EXCEPT ![g] = r] /\ UNCHANGED <<clock, pushed, subscribers>>
      /\ due' = [n \in Node |-> IF n \in subscribers[SelfID] THEN due[n] \cup {id} ELSE due[n]]
  BY <1>2 DEF Record
<1>5. r.entry \in LogEntry
  BY <1>2
<1> HIDE DEF r, e
<1>6. logs'[g] = r /\ \A h \in Caller \ {g} : logs'[h] = logs[h]
  BY <1>4 DEF Types
<1>7. due \in [Node -> SUBSET (1..recorded)] /\ 1..recorded \subseteq 1..id /\ id \in 1..id
  BY <1>1 DEF Types
<1>8. due' \in [Node -> SUBSET (1..id)]
  BY <1>4, <1>7
<1>9. Types'
  BY <1>1, <1>3, <1>4, <1>8 DEF Types
<1>10. CallsApart'
  <2>1. \A h \in Caller \ {g} : logs[h].pc = "pushing" => logs[h].entry.id \in 1..recorded
    BY DEF CallsApart
  <2>2. \A h \in Caller \ {g} : logs[h].pc = "pushing" => logs[h].entry.id # id /\ logs[h].entry.id \in 1..id
    BY <1>1, <2>1
  <2> QED
    BY <1>3, <1>4, <1>5, <1>6, <1>7, <2>2 DEF CallsApart
<1>11. TargetsDue'
  <2>1. \A n \in Node : due[n] \subseteq due'[n]
    BY <1>4, <1>7
  <2>2. \A n \in subscribers[SelfID] : id \in due'[n]
    BY <1>1, <1>4
  <2>3. \A h \in Caller : logs[h].targets \subseteq Node
    BY DEF Types, LogCall
  <2> QED
    BY <1>3, <1>6, <2>1, <2>2, <2>3 DEF TargetsDue
<1>12. ASSUME NEW n \in Node
       PROVE  due'[n] \ InFlight(n)' = due[n] \ InFlight(n)
  <2>1. id \notin due[n]
    BY <1>1, <1>7
  <2>2. CASE n \in subscribers[SelfID]
    <3>1. InFlight(n)' = InFlight(n) \cup {id}
      BY <1>1, <1>3, <1>6, <2>2 DEF InFlight
    <3>2. due'[n] = due[n] \cup {id}
      BY <1>4, <2>2
    <3> QED
      BY <2>1, <3>1, <3>2
  <2>3. CASE n \notin subscribers[SelfID]
    <3>1. InFlight(n)' = InFlight(n)
      BY <1>1, <1>3, <1>6, <2>3 DEF InFlight
    <3>2. due'[n] = due[n]
      BY <1>4, <2>3
    <3> QED
      BY <3>1, <3>2
  <2> QED
    BY <2>2, <2>3
<1>13. PushedExactlyOnce'
  BY <1>4, <1>12 DEF PushedExactlyOnce
<1> QED
  BY <1>9, <1>10, <1>11, <1>13

(* A push takes its entry out of flight for one node, which is handed it for *)
(* the first time.                                                           *)
LEMMA PushStep ==
    ASSUME Inv, NEW g \in Caller, NEW n \in Node, Push(g, n)
    PROVE  Inv'
<1> USE DEF Inv
<1> DEFINE id == logs[g].entry.id
           r == [logs[g] EXCEPT !.targets = @ \ {n}]
<1>1. /\ logs[g].pc = "pushing" /\ n \in logs[g].targets /\ logs[g].targets \in SUBSET Node
      /\ logs[g].entry \in LogEntry /\ logs[g] \in LogCall
  BY DEF Push, Types, CallsApart, LogCall
<1>2. /\ logs' = [logs EXCEPT ![g] = r] /\ UNCHANGED <<clock, recorded, due, subscribers>>
      /\ pushed' = IF n = SelfID THEN pushed ELSE [pushed EXCEPT ![n] = Append(@, id)]
  BY DEF Push, Types
<1>3. /\ r \in LogCall /\ r.pc = "pushing" /\ r.entry = logs[g].entry
      /\ r.targets = logs[g].targets \ {n}
  BY <1>1 DEF LogCall
<1>4. id \in Nat /\ id \in due[n] /\ id \in InFlight(n)
  BY <1>1 DEF LogEntry, TargetsDue, InFlight
<1> HIDE DEF r
<1>5. logs'[g] = r /\ \A h \in Caller \ {g} : logs'[h] = logs[h]
  BY <1>2 DEF Types
<1>6. Types'
  <2>1. pushed[n] \in Seq(Nat)
    BY DEF Types
  <2>2. Append(pushed[n], id) \in Seq(Nat)
    BY <1>4, <2>1, AppendNew
  <2>3. pushed' \in [Node -> Seq(Nat)]
    BY <1>2, <2>2 DEF Types
  <2> QED
    BY <1>2, <1>3, <2>3 DEF Types
<1>7. CallsApart'
  BY <1>1, <1>2, <1>3, <1>5 DEF CallsApart
<1>8. TargetsDue'
  BY <1>1, <1>2, <1>3, <1>5 DEF TargetsDue
<1>9. InFlight(n)' = InFlight(n) \ {id}
  <2>1. \A h \in Caller \ {g} : logs[h].pc = "pushing" => logs[h].entry.id # id
    BY <1>1 DEF CallsApart
  <2> QED
    BY <1>1, <1>3, <1>5, <2>1 DEF InFlight
<1>10. \A m \in Node \ {n} : InFlight(m)' = InFlight(m)
  BY <1>1, <1>3, <1>5 DEF InFlight
<1>11. PushedExactlyOnce'
  <2>1. pushed'[SelfID] = <<>>
    BY <1>2, SelfAssumption DEF PushedExactlyOnce, Types
  <2>2. ASSUME NEW m \in Node \ {SelfID}
        PROVE  IsInjective(pushed'[m]) /\ ToSet(pushed'[m]) = due[m] \ InFlight(m)'
    <3>0. IsInjective(pushed[m]) /\ ToSet(pushed[m]) = due[m] \ InFlight(m)
      BY DEF PushedExactlyOnce
    <3>1. CASE m = n
      <4>1. pushed'[m] = Append(pushed[m], id) /\ pushed[m] \in Seq(Nat)
        BY <1>2, <3>1 DEF Types
      <4>2. id \notin ToSet(pushed[m])
        BY <1>4, <3>0, <3>1
      <4>3. ToSet(pushed'[m]) = ToSet(pushed[m]) \cup {id} /\ IsInjective(pushed'[m])
        BY <1>4, <3>0, <4>1, <4>2, AppendNew
      <4> QED
        BY <1>4, <1>9, <3>0, <3>1, <4>3
    <3>2. CASE m # n
      BY <1>2, <1>10, <3>0, <3>2 DEF Types
    <3> QED
      BY <3>1, <3>2
  <2> QED
    BY <1>2, <2>1, <2>2 DEF PushedExactlyOnce
<1> QED
  BY <1>6, <1>7, <1>8, <1>11

(* Every step keeps the invariant. *)
LEMMA InvStep ==
    ASSUME Inv, [Next]_vars
    PROVE  Inv'
<1>1. CASE UNCHANGED vars
  BY <1>1, QuietStep DEF vars, logVars, Inv, Types
<1>2. ASSUME NEW g \in Caller, NEW level \in Level, Log(g, level) PROVE Inv'
  <2> DEFINE e == [id |-> 0, level |-> level, time |-> clock]
             r == [logs[g] EXCEPT !.pc = "stamped", !.entry = e]
  <2>1. logs[g] \in LogCall /\ logs[g].pc = "idle" /\ clock \in Nat
    BY <1>2 DEF Inv, Types, Log
  <2>2. e \in LogEntry
    BY <2>1 DEF LogEntry
  <2>3. r \in LogCall /\ r.pc = "stamped" /\ r.entry \in LogEntry
    BY <2>1, <2>2 DEF LogCall
  <2>4. logs' = [logs EXCEPT ![g] = r] /\ UNCHANGED <<clock, recorded, due, pushed, subscribers>>
    BY <1>2 DEF Log, Inv, Types
  <2> QED
    BY <2>1, <2>3, <2>4, OffStep
<1>3. ASSUME NEW g \in Caller, LogReturns(g) PROVE Inv'
  <2>1. Idle \in LogCall /\ Idle.pc = "idle"
    BY DEF Idle, LogCall
  <2>2. /\ logs' = [logs EXCEPT ![g] = Idle] /\ logs[g].targets = {}
        /\ UNCHANGED <<clock, recorded, due, pushed, subscribers>>
    BY <1>3 DEF LogReturns
  <2> QED
    BY <2>1, <2>2, OffStep
<1>4. ASSUME Subscription PROVE Inv'
  <2>1. subscribers \in [Node -> SUBSET Node] /\ clock \in Nat
    BY DEF Inv, Types
  <2>2. /\ subscribers' \in [Node -> SUBSET Node]
        /\ UNCHANGED <<clock, logs, due, pushed, recorded>>
    BY <1>4, <2>1 DEF Subscription, SubscribeLog, UnsubscribeLog, SubscribeLogAll,
                      UnsubscribeLogAll, logVars
  <2> QED
    BY <2>1, <2>2, QuietStep
<1>5. ASSUME Cleaning \/ Stop \/ StopReturns \/ TimePasses PROVE Inv'
  <2>1. subscribers \in [Node -> SUBSET Node] /\ clock \in Nat
    BY DEF Inv, Types
  <2>2. clock' \in Nat /\ UNCHANGED <<subscribers, logs, due, pushed, recorded>>
    BY <1>5, <2>1 DEF Cleaning, CleanupTick, Cleanup, CleanupLoopReturns, Stop, StopReturns,
                      TimePasses, logVars
  <2> QED
    BY <2>1, <2>2, QuietStep
<1> QED
  BY <1>1, <1>2, <1>3, <1>4, <1>5, RecordStep, PushStep DEF Next, Logging

(* It holds before anything is logged. *)
LEMMA InitInv ==
    ASSUME Init
    PROVE  Inv
<1>1. /\ clock = 0 /\ recorded = 0 /\ subscribers = [n \in Node |-> {}]
      /\ logs = [g \in Caller |-> Idle]
      /\ due = [n \in Node |-> {}] /\ pushed = [n \in Node |-> <<>>]
  BY DEF Init
<1>2. Idle \in LogCall /\ Idle.pc = "idle"
  BY DEF Idle, LogCall
<1>3. Types
  BY <1>1, <1>2 DEF Types
<1>4. CallsApart /\ TargetsDue
  BY <1>1, <1>2 DEF CallsApart, TargetsDue
<1>5. \A n \in Node : InFlight(n) = {}
  BY <1>1, <1>2 DEF InFlight
<1>6. ASSUME NEW n \in Node
      PROVE  pushed[n] = <<>> /\ IsInjective(pushed[n]) /\ ToSet(pushed[n]) = due[n] \ InFlight(n)
  BY <1>1, <1>5 DEF IsInjective, ToSet
<1>7. PushedExactlyOnce
  BY <1>6, SelfAssumption DEF PushedExactlyOnce
<1> QED
  BY <1>3, <1>4, <1>7 DEF Inv

(* push hands a subscriber every entry recorded while it was subscribed      *)
(* exactly once and nothing else, however many goroutines log and however    *)
(* (un)subscriptions fall between record's unlock and the pushes             *)
(* (cluster_log.go 92-102, cluster_log_subscribe.go 121-159).                         *)
THEOREM SubscribersServed == Spec => []PushedExactlyOnce
<1>1. Inv /\ [Next]_vars => Inv'
  BY InvStep
<1>2. Inv => PushedExactlyOnce
  BY DEF Inv
<1> QED
  BY InitInv, <1>1, <1>2, PTL DEF Spec

(* Stop returns only after the goroutine has: the invariant of StopIsFinal. *)
CleanerInv ==
    /\ cleaner \in [pc : {"select", "cleaning", "returned"}, now : Nat,
                    stop : {"running", "stopping", "stopped"}]
    /\ cleaner.stop = "stopped" => cleaner.pc = "returned"

(* Every step keeps that. *)
LEMMA CleanerStep ==
    ASSUME Inv, CleanerInv, [Next]_vars
    PROVE  CleanerInv'
<1>1. CASE UNCHANGED cleaner
  BY <1>1 DEF CleanerInv
<1>2. CASE CleanupTick
  BY <1>2 DEF CleanupTick, CleanerInv, Inv, Types
<1>3. CASE Cleanup
  BY <1>3 DEF Cleanup, CleanerInv
<1>4. CASE CleanupLoopReturns
  BY <1>4 DEF CleanupLoopReturns, CleanerInv
<1>5. CASE Stop
  BY <1>5 DEF Stop, CleanerInv
<1>6. CASE StopReturns
  BY <1>6 DEF StopReturns, CleanerInv
<1> QED
  BY <1>1, <1>2, <1>3, <1>4, <1>5, <1>6
  DEF Next, vars, Logging, Log, Record, Push, LogReturns, Subscription, SubscribeLog,
      UnsubscribeLog, SubscribeLogAll, UnsubscribeLogAll, Cleaning, TimePasses

(* Once Stop has returned no cleanup is under way and none starts, so the    *)
(* history only grows (cluster_log.go, Stop and cleanupLoop).                *)
THEOREM CleanupEndsWithStop == Spec => StopIsFinal
<1>1. Init => CleanerInv
  BY DEF Init, CleanerInv
<1>2. Inv /\ CleanerInv /\ [Next]_vars => CleanerInv'
  BY CleanerStep
<1>3. CleanerInv /\ Inv /\ [Next]_vars =>
         [cleaner.stop = "stopped" /\ entries' # entries =>
             \E g \in Caller : entries' = Append(entries, logs'[g].entry)]_vars
  <2> SUFFICES ASSUME CleanerInv, Inv, Next, cleaner.stop = "stopped", entries' # entries
               PROVE  \E g \in Caller : entries' = Append(entries, logs'[g].entry)
    BY DEF vars, logVars
  <2>1. ~Cleanup
    BY DEF CleanerInv, Cleanup
  <2>2. PICK g \in Caller : Record(g)
    BY <2>1 DEF Next, Logging, Log, Push, LogReturns, Subscription, SubscribeLog,
        UnsubscribeLog, SubscribeLogAll, UnsubscribeLogAll, Cleaning, CleanupTick,
        CleanupLoopReturns, Stop, StopReturns, TimePasses, logVars
  <2>3. entries' = Append(entries, logs'[g].entry)
    BY <2>2 DEF Record, Inv, Types
  <2> QED
    BY <2>3
<1>4. Inv /\ [Next]_vars => Inv'
  BY InvStep
<1> QED
  BY <1>1, <1>2, <1>3, <1>4, InitInv, PTL DEF Spec, StopIsFinal

-----------------------------------------------------------------------------
(* Retention *)

(* The entries of a history are in the order of the appends. *)
InOrder(es) == \A i, j \in DOMAIN es : i < j => es[i].id < es[j].id

(* Every level has a lifetime, that of info if it has none of its own. *)
LEMMA LevelsLive ==
    ASSUME NEW level
    PROVE  TTL(level) \in Nat /\ Lifetime(level) = TTL(level)
BY LevelAssumption, TTLAssumption DEF TTL, Lifetime

(* cleanup's loop computes what its code says: after i rounds it has what it *)
(* had before, and the entry it looked at if that is live.                   *)
LEMMA KeptRounds ==
    ASSUME NEW es \in Seq(LogEntry), NEW now
    PROVE  \E f \in [0..Len(es) -> Seq(LogEntry)] :
              /\ Kept(es, now) = f[Len(es)]
              /\ f[0] = <<>>
              /\ \A i \in 1..Len(es) :
                    f[i] = IF IsExpired(es[i], now) THEN f[i - 1] ELSE Append(f[i - 1], es[i])
<1> DEFINE n == Len(es)
           S == Seq(LogEntry)
           none == <<>>
           round == [p \in S \X (1..n) |->
                        IF IsExpired(es[p[2]], now) THEN p[1] ELSE Append(p[1], es[p[2]])]
           Eqn(f) == f = [i \in 0..n |-> IF i = 0 THEN <<>>
                                         ELSE IF IsExpired(es[i], now) THEN f[i - 1]
                                              ELSE Append(f[i - 1], es[i])]
           kept == CHOOSE f : Eqn(f)
<1>1. n \in Nat /\ none \in S /\ \A i \in 1..n : es[i] \in LogEntry
  OBVIOUS
<1>2. round \in [S \X (1..n) -> S]
  <2>1. ASSUME NEW s \in S, NEW i \in 1..n
        PROVE  (IF IsExpired(es[i], now) THEN s ELSE Append(s, es[i])) \in S
    BY <1>1
  <2> QED
    BY <2>1
<1>3. \A s \in S, i \in 1..n : round[<<s, i>>] = IF IsExpired(es[i], now) THEN s ELSE Append(s, es[i])
  OBVIOUS
<1> HIDE DEF round, S, n, none
<1>4. PICK g \in [0..n -> S] : g[0] = none /\ \A i \in 1..n : g[i] = round[<<g[i - 1], i>>]
  <2>1. Runs(n, S, none, round) # {}
    BY <1>1, <1>2, LoopRuns
  <2> QED
    BY <2>1 DEF Runs
<1>5. Eqn(g)
  <2>1. ASSUME NEW i \in 0..n
        PROVE  g[i] = IF i = 0 THEN <<>>
                      ELSE IF IsExpired(es[i], now) THEN g[i - 1] ELSE Append(g[i - 1], es[i])
    <3>2. CASE i = 0
      BY <1>4, <3>2 DEF none
    <3>3. CASE i # 0
      <4>1. i \in 1..n /\ g[i - 1] \in S
        BY <1>1, <3>3
      <4> QED
        BY <1>3, <1>4, <3>3, <4>1
    <3> QED
      BY <3>2, <3>3
  <2> QED
    BY <2>1
<1>6. Eqn(kept)
  <2> HIDE DEF Eqn
  <2> QED
    BY <1>5
<1>7. Kept(es, now) = kept[n]
  BY DEF Kept, n
<1> HIDE DEF kept
<1>8. DOMAIN kept = 0..n /\ kept[0] = <<>>
  BY <1>1, <1>6
<1>9. ASSUME NEW i \in 1..n
      PROVE  kept[i] = IF IsExpired(es[i], now) THEN kept[i - 1] ELSE Append(kept[i - 1], es[i])
  <2>1. i \in 0..n /\ i # 0
    BY <1>1
  <2> QED
    BY <1>6, <2>1
<1>10. kept \in [0..n -> S]
  <2> DEFINE P == {i \in 0..n : kept[i] \in S}
  <2>1. 0 \in P
    BY <1>1, <1>8 DEF none
  <2>2. ASSUME NEW i \in 1..n, i - 1 \in P PROVE i \in P
    <3>1. i \in 0..n /\ kept[i - 1] \in S /\ es[i] \in LogEntry
      BY <1>1, <2>2
    <3>2. kept[i] \in S
      <4>1. CASE IsExpired(es[i], now)
        BY <1>9, <3>1, <4>1
      <4>2. CASE ~IsExpired(es[i], now)
        <5>1. kept[i] = Append(kept[i - 1], es[i])
          BY <1>9, <4>2
        <5>2. Append(kept[i - 1], es[i]) \in S
          BY <3>1 DEF S
        <5> QED
          BY <5>1, <5>2
      <4> QED
        BY <4>1, <4>2
    <3> QED
      BY <3>1, <3>2
  <2>3. 0..n \subseteq P
    <3> HIDE DEF P
    <3> QED
      BY <1>1, <2>1, <2>2, RoundInduction
  <2>4. \A i \in 0..n : kept[i] \in S
    BY <2>3
  <2>5. kept = [i \in 0..n |-> kept[i]]
    BY <1>6
  <2> QED
    BY <2>4, <2>5
<1> QED
  BY <1>7, <1>8, <1>9, <1>10 DEF S, n

(* cleanup keeps exactly the live entries, in their order. *)
LEMMA KeptIsLive ==
    ASSUME NEW es \in Seq(LogEntry), NEW now
    PROVE  /\ Kept(es, now) \in Seq(LogEntry)
           /\ ToSet(Kept(es, now)) = {es[i] : i \in {j \in DOMAIN es : ~IsExpired(es[j], now)}}
           /\ InOrder(es) => InOrder(Kept(es, now))
<1> DEFINE n == Len(es)
           Live(i) == {es[j] : j \in {k \in 1..i : ~IsExpired(es[k], now)}}
<1>1. n \in Nat /\ DOMAIN es = 1..n /\ \A i \in 1..n : es[i] \in LogEntry
  OBVIOUS
<1>2. PICK f \in [0..n -> Seq(LogEntry)] :
         /\ Kept(es, now) = f[n] /\ f[0] = <<>>
         /\ \A i \in 1..n : f[i] = IF IsExpired(es[i], now) THEN f[i - 1] ELSE Append(f[i - 1], es[i])
  BY KeptRounds
<1> DEFINE P == {i \in 0..n : ToSet(f[i]) = Live(i) /\ (InOrder(es) => InOrder(f[i]))}
<1>3. 0 \in P
  <2>1. ToSet(f[0]) = {} /\ Live(0) = {} /\ DOMAIN f[0] = {}
    BY <1>2 DEF ToSet
  <2>2. InOrder(f[0])
    BY <2>1 DEF InOrder
  <2> QED
    BY <1>1, <2>1, <2>2
<1>4. ASSUME NEW i \in 1..n, i - 1 \in P PROVE i \in P
  <2> DEFINE s == f[i - 1]
             e == es[i]
  <2>1. i \in 0..n /\ i - 1 \in 0..n /\ s \in Seq(LogEntry) /\ e \in LogEntry
    BY <1>1
  <2>2. ToSet(s) = Live(i - 1) /\ (InOrder(es) => InOrder(s))
    BY <1>4
  <2>3. CASE IsExpired(e, now)
    <3>1. f[i] = s
      BY <1>2, <2>3
    <3>2. Live(i) = Live(i - 1)
      BY <1>1, <2>3
    <3> QED
      BY <2>1, <2>2, <3>1, <3>2
  <2>4. CASE ~IsExpired(e, now)
    <3>1. f[i] = Append(s, e)
      BY <1>2, <2>4
    <3>2. ToSet(Append(s, e)) = ToSet(s) \cup {e}
      BY <2>1, AppendNew
    <3>3. Live(i) = Live(i - 1) \cup {e}
      BY <1>1, <2>4
    <3>4. ASSUME InOrder(es) PROVE InOrder(Append(s, e))
      <4>1. ASSUME NEW x \in ToSet(s) PROVE x.id < e.id
        <5>1. PICK j \in 1..i - 1 : x = es[j]
          BY <2>2
        <5>2. j \in DOMAIN es /\ i \in DOMAIN es /\ j < i
          BY <1>1
        <5> QED
          BY <3>4, <5>1, <5>2 DEF InOrder
      <4> HIDE DEF s, e
      <4>2. /\ DOMAIN s = 1..Len(s) /\ DOMAIN Append(s, e) = 1..Len(s) + 1 /\ Len(s) \in Nat
            /\ \A a \in 1..Len(s) : Append(s, e)[a] = s[a] /\ s[a] \in ToSet(s)
            /\ Append(s, e)[Len(s) + 1] = e
        BY <2>1 DEF ToSet
      <4>3. InOrder(s)
        BY <2>2, <3>4
      <4>4. ASSUME NEW a \in 1..Len(s) + 1, NEW b \in 1..Len(s) + 1, a < b
            PROVE  Append(s, e)[a].id < Append(s, e)[b].id
        <5>1. CASE b \in 1..Len(s)
          <6>1. a \in 1..Len(s)
            BY <4>2, <4>4, <5>1
          <6> QED
            BY <4>2, <4>3, <4>4, <5>1, <6>1 DEF InOrder
        <5>2. CASE b = Len(s) + 1
          <6>1. a \in 1..Len(s)
            BY <4>2, <4>4, <5>2
          <6> QED
            BY <4>1, <4>2, <5>2, <6>1
        <5> QED
          BY <4>2, <5>1, <5>2
      <4> QED
        BY <4>2, <4>4 DEF InOrder
    <3> QED
      BY <2>1, <2>2, <3>1, <3>2, <3>3, <3>4
  <2> QED
    BY <2>3, <2>4
<1>5. n \in P
  <2>1. 0..n \subseteq P
    <3> HIDE DEF P, n
    <3> QED
      BY <1>1, <1>3, <1>4, RoundInduction
  <2> QED
    BY <1>1, <2>1
<1> QED
  BY <1>1, <1>2, <1>5

(* The history holds entries of the log in the order of the appends, and a   *)
(* cleanup never works with a time that is yet to come.                      *)
HistoryInv ==
    /\ entries \in Seq(LogEntry) /\ InOrder(entries)
    /\ \A i \in DOMAIN entries : entries[i].id <= recorded
    /\ cleaner.now <= clock

(* What cleanup does to the history: the order stays, and so does every      *)
(* entry that is live now.                                                   *)
LEMMA CleanupKeeps ==
    ASSUME Inv, CleanerInv, HistoryInv, Cleanup
    PROVE  /\ HistoryInv'
           /\ \A i \in DOMAIN entries : clock <= entries[i].time + Lifetime(entries[i].level)
                                           => entries[i] \in ToSet(entries')
<1> DEFINE now == cleaner.now
           Live == {entries[i] : i \in {j \in DOMAIN entries : ~IsExpired(entries[j], now)}}
<1>1. /\ entries \in Seq(LogEntry) /\ now \in Nat /\ clock \in Nat /\ now <= clock
      /\ entries' = Kept(entries, now) /\ UNCHANGED <<clock, recorded>> /\ cleaner'.now = 0
  BY DEF Inv, Types, CleanerInv, HistoryInv, Cleanup
<1> HIDE DEF now
<1>2. /\ entries' \in Seq(LogEntry) /\ ToSet(entries') = Live /\ InOrder(entries')
  BY <1>1, KeptIsLive DEF HistoryInv
<1>3. ASSUME NEW i \in DOMAIN entries' PROVE entries'[i].id <= recorded'
  <2>1. entries'[i] \in ToSet(entries')
    BY DEF ToSet
  <2>2. PICK j \in DOMAIN entries : entries'[i] = entries[j]
    BY <1>2, <2>1
  <2> QED
    BY <1>1, <2>2 DEF HistoryInv
<1>4. ASSUME NEW i \in DOMAIN entries, clock <= entries[i].time + Lifetime(entries[i].level)
      PROVE  entries[i] \in ToSet(entries')
  <2>0. entries[i] \in LogEntry
    BY <1>1
  <2>1. /\ entries[i].time \in Nat /\ TTL(entries[i].level) \in Nat
        /\ Lifetime(entries[i].level) = TTL(entries[i].level)
    <3>1. entries[i].time \in Nat
      BY <2>0 DEF LogEntry
    <3> QED
      BY <3>1, LevelsLive
  <2>2. ~IsExpired(entries[i], now)
    BY <1>1, <1>4, <2>1 DEF IsExpired
  <2> QED
    BY <1>2, <2>2
<1> QED
  BY <1>1, <1>2, <1>3, <1>4 DEF HistoryInv

(* record appends an entry that comes after all others. *)
LEMMA RecordAppends ==
    ASSUME Inv, HistoryInv, NEW g \in Caller, Record(g)
    PROVE  /\ HistoryInv'
           /\ ToSet(entries) \subseteq ToSet(entries')
<1> DEFINE id == recorded + 1
           e == [logs[g].entry EXCEPT !.id = id]
<1>1. /\ logs[g].entry \in LogEntry /\ recorded \in Nat
      /\ entries' = Append(entries, e) /\ recorded' = id /\ UNCHANGED <<clock, cleaner>>
  BY DEF Record, Inv, Types, CallsApart
<1>2. e \in LogEntry /\ e.id = id
  BY <1>1 DEF LogEntry
<1> HIDE DEF e
<1>3. /\ entries \in Seq(LogEntry) /\ Len(entries) \in Nat
      /\ DOMAIN entries = 1..Len(entries) /\ DOMAIN entries' = 1..Len(entries) + 1
      /\ \A a \in 1..Len(entries) : entries'[a] = entries[a]
      /\ entries'[Len(entries) + 1] = e
  BY <1>1, <1>2 DEF HistoryInv
<1>4. entries' \in Seq(LogEntry) /\ ToSet(entries) \subseteq ToSet(entries')
  BY <1>1, <1>2, <1>3, AppendNew
<1>5. \A i \in 1..Len(entries) : entries[i].id \in Nat /\ entries[i].id < e.id /\ entries[i].id <= id
  <2> TAKE i \in 1..Len(entries)
  <2>1. entries[i] \in LogEntry /\ entries[i].id <= recorded
    BY <1>3 DEF HistoryInv
  <2>2. entries[i].id \in Nat
    BY <2>1 DEF LogEntry
  <2> QED
    BY <1>1, <1>2, <2>1, <2>2
<1>6. ASSUME NEW i \in 1..Len(entries) + 1 PROVE entries'[i].id <= id
  <2>1. CASE i \in 1..Len(entries)
    BY <1>3, <1>5, <2>1
  <2>2. CASE i = Len(entries) + 1
    BY <1>1, <1>2, <1>3, <2>2
  <2> QED
    BY <1>3, <2>1, <2>2
<1>7. ASSUME NEW a \in 1..Len(entries) + 1, NEW b \in 1..Len(entries) + 1, a < b
      PROVE  entries'[a].id < entries'[b].id
  <2>1. a \in 1..Len(entries)
    BY <1>3, <1>7
  <2>2. CASE b \in 1..Len(entries)
    BY <1>3, <1>7, <2>1, <2>2 DEF HistoryInv, InOrder
  <2>3. CASE b = Len(entries) + 1
    BY <1>3, <1>5, <2>1, <2>3
  <2> QED
    BY <1>3, <2>2, <2>3
<1> QED
  BY <1>1, <1>3, <1>4, <1>6, <1>7 DEF HistoryInv, InOrder

(* Every other step leaves the history alone. *)
LEMMA OtherStepsKeep ==
    ASSUME Inv, CleanerInv, HistoryInv, [Next]_vars, ~Cleanup, \A g \in Caller : ~Record(g)
    PROVE  HistoryInv' /\ entries' = entries
<1>1. clock \in Nat /\ cleaner.now \in Nat
  BY DEF Inv, Types, CleanerInv
<1>2. entries' = entries /\ recorded' = recorded
  BY DEF Next, Logging, Log, Push, LogReturns, Subscription, SubscribeLog, UnsubscribeLog,
         SubscribeLogAll, UnsubscribeLogAll, Cleaning, CleanupTick, CleanupLoopReturns,
         Stop, StopReturns, TimePasses, logVars, vars
<1>3. cleaner'.now <= clock'
  <2>1. CASE CleanupTick
    BY <1>1, <2>1 DEF CleanupTick, CleanerInv
  <2>2. CASE CleanupLoopReturns \/ Stop \/ StopReturns
    BY <1>1, <2>2 DEF CleanupLoopReturns, Stop, StopReturns, CleanerInv, HistoryInv
  <2>3. CASE TimePasses
    BY <1>1, <2>3 DEF TimePasses, HistoryInv
  <2>4. CASE UNCHANGED <<clock, cleaner>>
    BY <1>1, <2>4 DEF HistoryInv
  <2> QED
    BY <2>1, <2>2, <2>3, <2>4
    DEF Next, vars, Logging, Log, Push, LogReturns, Subscription, SubscribeLog, UnsubscribeLog,
        SubscribeLogAll, UnsubscribeLogAll, Cleaning
<1> QED
  BY <1>2, <1>3 DEF HistoryInv

(* The history keeps the order of the appends, and no cleanup takes a live   *)
(* entry out of it, although cleanup reads the clock before it takes the     *)
(* lock and calls append in between (cluster_log.go, record and cleanup).    *)
THEOREM LiveEntriesStay == Spec => HistoryKept
<1>1. Init => CleanerInv /\ HistoryInv
  <2> SUFFICES ASSUME Init PROVE CleanerInv /\ HistoryInv
    OBVIOUS
  <2>1. entries = <<>> /\ clock = 0 /\ cleaner = [pc |-> "select", now |-> 0, stop |-> "running"]
    BY DEF Init
  <2>2. entries \in Seq(LogEntry) /\ DOMAIN entries = {}
    BY <2>1
  <2> QED
    BY <2>1, <2>2 DEF CleanerInv, HistoryInv, InOrder
<1>2. Inv /\ CleanerInv /\ [Next]_vars => CleanerInv'
  BY CleanerStep
<1>3. Inv /\ CleanerInv /\ HistoryInv /\ [Next]_vars => HistoryInv'
  BY CleanupKeeps, RecordAppends, OtherStepsKeep
<1>4. Inv /\ CleanerInv /\ HistoryInv /\ [Next]_vars =>
        [/\ \A i, j \in DOMAIN entries' : i < j => entries'[i].id < entries'[j].id
         /\ \A i \in DOMAIN entries : clock <= entries[i].time + Lifetime(entries[i].level)
                                         => entries[i] \in ToSet(entries')]_vars
  <2> SUFFICES ASSUME Inv, CleanerInv, HistoryInv, [Next]_vars
               PROVE  /\ \A i, j \in DOMAIN entries' : i < j => entries'[i].id < entries'[j].id
                      /\ \A i \in DOMAIN entries : clock <= entries[i].time + Lifetime(entries[i].level)
                                                      => entries[i] \in ToSet(entries')
    OBVIOUS
  <2>1. \A i, j \in DOMAIN entries' : i < j => entries'[i].id < entries'[j].id
    BY <1>3 DEF HistoryInv, InOrder
  <2>2. CASE Cleanup
    BY <2>1, <2>2, CleanupKeeps
  <2>3. CASE ~Cleanup
    <3>1. ToSet(entries) \subseteq ToSet(entries')
      BY <2>3, RecordAppends, OtherStepsKeep
    <3> QED
      BY <2>1, <3>1 DEF ToSet
  <2> QED
    BY <2>2, <2>3
<1>5. Inv /\ [Next]_vars => Inv'
  BY InvStep
<1> QED
  BY <1>1, <1>2, <1>3, <1>4, <1>5, InitInv, PTL DEF Spec, HistoryKept
=============================================================================
