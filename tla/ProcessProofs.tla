---------------------------- MODULE ProcessProofs ----------------------------
(***************************************************************************)
(* Proofs about what parts of a process share: the shutdown tokens, the    *)
(* events and the process-global cells, the process of the command line    *)
(* and its owner, and the tunnels a Python handler holds; for any number   *)
(* of threads, waiters, contexts, connections and frames.                  *)
(***************************************************************************)
EXTENDS ShutdownTokens, Operations, CliProcess, PythonTunnel, TLAPS

\* An assumption is visible to the section that needs it.
HIDE WaitsOnAssumption
HIDE TokenNameAssumption
HIDE OpsAssumption
HIDE AppSinkAssumption
HIDE GraceAssumption
HIDE TunnelBoundAssumption

-----------------------------------------------------------------------------
(* Shutdown tokens.                                                        *)

\* Flags, pending notifications and waiter states keep their types.
THEOREM TokensTypeCorrect == Spec => []TypeOK
<1>1. Init => TypeOK
  BY DEF Init, TypeOK
<1>2. TypeOK /\ [Next]_vars => TypeOK'
  <2> SUFFICES ASSUME TypeOK, [Next]_vars PROVE TypeOK'
    OBVIOUS
  <2> USE WaitsOnAssumption DEF TypeOK
  <2>1. ASSUME NEW c \in Callers, NEW t \in Tokens, Shutdown(c, t) PROVE TypeOK'
    BY <2>1 DEF Shutdown
  <2>2. ASSUME NEW c \in Callers, NotifyWaiters(c) PROVE TypeOK'
    <3>1. signalled' \in [Waiters -> BOOLEAN]
      BY <2>2, Zenon DEF NotifyWaiters, Registered
    <3> QED BY <2>2, <3>1 DEF NotifyWaiters
  <2>3. ASSUME NEW w \in Waiters, WaiterStep(w) \/ DropAndRetry(w) PROVE TypeOK'
    BY <2>3 DEF WaiterStep, Check, Enable, Recheck, Notified, DropAndRetry, Goto
  <2>4. CASE UNCHANGED vars
    BY <2>4 DEF vars
  <2> QED BY <2>1, <2>2, <2>3, <2>4 DEF Next
<1> QED BY <1>1, <1>2, PTL DEF Spec

\* No interleaving of shutdown() and cancelled() leaves a waiter parked on a
\* set token without a notification delivered or about to be delivered.
THEOREM NoWaiterIsStranded == Spec => []ParkedIsNotified
<1>1. Init => ParkedIsNotified
  BY DEF Init, ParkedIsNotified
<1>2. TypeOK /\ ParkedIsNotified /\ [Next]_vars => ParkedIsNotified'
  <2> SUFFICES ASSUME TypeOK, ParkedIsNotified, [Next]_vars,
                      NEW v \in Waiters, wpc'[v] = "await", flag'[WaitsOn[v]]
               PROVE  signalled'[v] \/ \E c \in Callers : notifying'[c] = WaitsOn[v]
    BY DEF ParkedIsNotified
  <2> USE WaitsOnAssumption, TokenNameAssumption DEF TypeOK, ParkedIsNotified
  \* Setting the flag leaves the caller about to notify, unless a ServerShutdown
  \* was already set, and then the invariant held before.
  <2>1. ASSUME NEW c \in Callers, NEW t \in Tokens, Shutdown(c, t)
        PROVE  signalled'[v] \/ \E d \in Callers : notifying'[d] = WaitsOn[v]
    <3>1. CASE t = WaitsOn[v] /\ ~SkipsNotify(t)
      BY <2>1, <3>1 DEF Shutdown
    <3>2. CASE ~(t = WaitsOn[v] /\ ~SkipsNotify(t))
      <4>1. flag[WaitsOn[v]] /\ wpc[v] = "await"
        BY <2>1, <3>2 DEF Shutdown, SkipsNotify
      <4>2. signalled[v] \/ \E d \in Callers : notifying[d] = WaitsOn[v]
        BY <4>1
      <4> QED BY <2>1, <4>2 DEF Shutdown
    <3> QED BY <3>1, <3>2
  \* The caller that notifies reaches v, which is registered.
  <2>2. ASSUME NEW c \in Callers, NotifyWaiters(c)
        PROVE  signalled'[v] \/ \E d \in Callers : notifying'[d] = WaitsOn[v]
    <3>1. wpc[v] = "await" /\ flag[WaitsOn[v]]
      BY <2>2 DEF NotifyWaiters
    <3>2. CASE notifying[c] = WaitsOn[v] \/ signalled[v]
      <4>1. signalled'[v]
        BY <2>2, <3>1, <3>2 DEF NotifyWaiters, Registered
      <4> QED BY <4>1
    <3>3. CASE notifying[c] # WaitsOn[v] /\ ~signalled[v]
      BY <2>2, <3>1, <3>3 DEF NotifyWaiters
    <3> QED BY <3>2, <3>3
  \* A waiter parks only after seeing the flag clear.
  <2>3. ASSUME NEW w \in Waiters, WaiterStep(w) \/ DropAndRetry(w)
        PROVE  signalled'[v] \/ \E d \in Callers : notifying'[d] = WaitsOn[v]
    BY <2>3 DEF WaiterStep, Check, Enable, Recheck, Notified, DropAndRetry, Goto
  <2>4. CASE UNCHANGED vars
    BY <2>4 DEF vars
  <2> QED BY <2>1, <2>2, <2>3, <2>4 DEF Next
<1> QED BY <1>1, <1>2, TokensTypeCorrect, PTL DEF Spec

-----------------------------------------------------------------------------
(* Operations.  An event is recorded under its thread and its number, so   *)
(* what a thread has still to do is told by the event it is emitting.      *)

Entries == (Emitters \X Nat) \X Targets \X Nat

OpRecords == [at : Nat, target : Targets, severity : Nat, step : {"idle", "adopting", "probe", "offer", "emit"}]

Once(s) == \A m, n \in DOMAIN s : s[m] = s[n] => m = n

LEMMA OpRecordSteps ==
    /\ Resting \in OpRecords /\ Resting.step = "idle"
    /\ \A o \in OpRecords : LET emit == [o EXCEPT !.step = "emit"] IN
           /\ emit \in OpRecords /\ emit.step = "emit" /\ emit.at = o.at
           /\ emit.target = o.target /\ emit.severity = o.severity
    /\ \A o \in OpRecords, i \in Nat : LET next == [o EXCEPT !.at = i] IN
           /\ next \in OpRecords /\ next.step = o.step /\ next.at = i
           /\ next.target = o.target /\ next.severity = o.severity
BY DEF OpRecords, Resting, Targets

\* A new element at the end of a sequence without repetitions.
LEMMA AppendOnce ==
    ASSUME NEW T, NEW s \in Seq(T), NEW x \in T
    PROVE  /\ Len(Append(s, x)) = Len(s) + 1
           /\ \A e : (\E n \in DOMAIN Append(s, x) : Append(s, x)[n] = e) <=> e = x \/ \E n \in DOMAIN s : s[n] = e
           /\ Once(s) /\ (\A n \in DOMAIN s : s[n] # x) => Once(Append(s, x))
<1>1. /\ Len(s) \in Nat /\ DOMAIN s = 1 .. Len(s) /\ DOMAIN Append(s, x) = 1 .. Len(s) + 1
      /\ Len(Append(s, x)) = Len(s) + 1
  OBVIOUS
<1>2. Append(s, x)[Len(s) + 1] = x /\ \A n \in DOMAIN s : Append(s, x)[n] = s[n]
  OBVIOUS
<1>3. \A n : n \in DOMAIN Append(s, x) <=> n \in DOMAIN s \/ n = Len(s) + 1
  BY <1>1
<1>4. \A e : (\E n \in DOMAIN Append(s, x) : Append(s, x)[n] = e) <=> e = x \/ \E n \in DOMAIN s : s[n] = e
  BY <1>2, <1>3, Zenon
<1>5. ASSUME Once(s), \A n \in DOMAIN s : s[n] # x,
             NEW m \in DOMAIN Append(s, x), NEW n \in DOMAIN Append(s, x), Append(s, x)[m] = Append(s, x)[n]
      PROVE  m = n
  <2>1. CASE m \in DOMAIN s /\ n \in DOMAIN s
    BY <1>2, <1>5, <2>1, Zenon DEF Once
  <2>2. CASE m = Len(s) + 1
    BY <1>2, <1>3, <1>5, <2>2, Zenon
  <2>3. CASE n = Len(s) + 1
    BY <1>2, <1>3, <1>5, <2>3, Zenon
  <2> QED BY <1>3, <2>1, <2>2, <2>3, Zenon
<1> QED BY <1>1, <1>4, <1>5, Zenon DEF Once

LEMMA EntryParts == \A e \in Entries : e[1][2] \in Nat /\ e[2] \in Targets /\ e[3] \in Nat
BY DEF Entries

LEMMA NextNumber ==
    /\ \A i \in Nat : i <= i /\ i < i + 1 /\ 1 .. i \subseteq Nat
    /\ \A i, j \in Nat : /\ i < j => i < j + 1 /\ i + 1 \in 1 .. j
                         /\ i >= j /\ i # j => i >= j + 1
OBVIOUS

LEMMA PastTheEnd == \A n \in Nat : \A i \in 1 .. n : ~ (i >= n + 1) /\ i # 0
OBVIOUS

IsLost(e) == \E a \in Accounts : e \in Losses(a)
IsDone(e) == e \in got \/ e \in unwound \/ IsLost(e)
IsRecorded(e) == e \in due \/ IsDone(e)
IsSpent(e) == e \in got \/ e \in unwound \/ (IsLost(e) /\ e[3] # 0)

\* Thread t is inside emit and has still to offer e to a child.
Awaits(t, e) ==
    /\ op[t].step = "emit"
    /\ \E i \in Takers(SinkOf(op[t].target), op[t].severity) : i >= op[t].at /\ e = Entry(t, i)

OpsTypes ==
    /\ sinkOf \in [Contexts -> Shapes] /\ appSink \in AppShapes
    /\ op \in [Emitters -> OpRecords]
    /\ count \in [Emitters -> Nat] /\ dropped \in [Accounts -> Nat]
    /\ seen \in [Emitters -> [Accounts -> Nat]]
    /\ due \subseteq Entries /\ got \subseteq Entries /\ unwound \subseteq Entries
    /\ lost \in [Accounts -> Seq(Entries)]

\* The cells are set once; an install that has set the first sets the second.
Cells ==
    /\ logger \in {Unset, NopLogSink, appSink} /\ globalOps \in {Unset, NopLogSink, appSink}
    /\ globalOps = appSink => logger = appSink
    /\ \A t \in Emitters : op[t].step = "adopting" => logger = appSink
    /\ logger = appSink => globalOps # Unset \/ \E t \in Emitters : op[t].step = "adopting"

\* A thread that emits has its sink, and what is recorded of its event is
\* what it has done so far.
Emitting(t) ==
    /\ op[t].step \in {"probe", "offer", "emit"} => SinkOf(op[t].target) # Unset
    /\ op[t].step \in {"probe", "offer"} => op[t].at = 1
    /\ op[t].step = "probe" => op[t].target # "logger"
    /\ op[t].step = "emit" => op[t].at \in 1 .. Len(SinkOf(op[t].target).children)

Recorded(t) ==
    /\ \A e : IsRecorded(e) /\ e[1][1] = t => e[1][2] <= count[t]
    /\ op[t].step \in {"probe", "offer"} => \A e : IsRecorded(e) => e[1] # <<t, count[t]>>
    /\ op[t].step = "emit" => /\ \A e : IsDone(e) /\ e[1] = <<t, count[t]>> => e[3] < op[t].at
                              /\ \A i \in Takers(SinkOf(op[t].target), op[t].severity) : Entry(t, i) \in due

\* Who has still to get an event, got it or lost it.
Accounted ==
    /\ \A e : e \in due <=> \/ e \in due /\ \E t \in Emitters : Awaits(t, e)
                            \/ e \in got \/ e \in unwound \/ (IsLost(e) /\ e[3] # 0)
    /\ \A e : e \in got => ~ IsLost(e) /\ e \notin unwound
    /\ \A e : e \in unwound => e[2] = "logger"

Charged ==
    \A a \in Accounts :
        /\ dropped[a] = Len(lost[a]) /\ Once(lost[a])
        /\ \A e \in Losses(a) : /\ SinkOf(e[2]) # Unset
                                /\ a = IF e[3] # 0 /\ SinkOf(e[2]).owner = "global" THEN "global" ELSE e[2]
        /\ \A t \in Emitters : seen[t][a] <= dropped[a]

OpsInv == OpsTypes /\ Cells /\ Accounted /\ Charged /\ \A t \in Emitters : Emitting(t) /\ Recorded(t)

LEMMA OpsInvImplies == OpsInv => OperationsAreSound
<1> SUFFICES ASSUME OpsInv PROVE OperationsAreSound
  BY Zenon
<1>1. \A e : e \in AllLost <=> IsLost(e)
  BY Zenon DEF AllLost, IsLost
<1>2. \A e : e \in Pending <=> e \in due /\ \E t \in Emitters : Awaits(t, e)
  BY Zenon DEF Pending, Awaits
<1>3. due = Pending \cup got \cup unwound \cup {e \in AllLost : e[3] # 0}
  BY <1>1, <1>2, Zenon DEF OpsInv, Accounted
<1>4. got \cap (AllLost \cup unwound) = {}
  BY <1>1, Zenon DEF OpsInv, Accounted
<1>5. EventsAreAccounted
  BY <1>3, <1>4, Zenon DEF OpsInv, Accounted, Charged, Once, EventsAreAccounted
<1>6. CellsAgree
  BY Zenon DEF OpsInv, Cells, CellsAgree
<1> QED BY <1>5, <1>6, Zenon DEF OperationsAreSound

LEMMA LostEntries ==
    ASSUME OpsTypes
    PROVE  \A e : IsLost(e) => e \in Entries
<1> SUFFICES ASSUME NEW e, NEW a \in Accounts, e \in Losses(a)
             PROVE  e \in Entries
  BY Zenon DEF IsLost
<1>1. lost[a] \in Seq(Entries)
  BY Zenon DEF OpsTypes, OpRecords
<1> QED BY <1>1 DEF Losses

LEMMA OpsInitHolds == OpsInit => OpsInv
<1> SUFFICES ASSUME OpsInit PROVE OpsInv
  BY Zenon
<1>1. OpsTypes
  <2>1. lost \in [Accounts -> Seq(Entries)]
    BY DEF OpsInit
  <2> QED BY <2>1, Zenon DEF OpsInit, OpsTypes, OpRecords, Resting, Targets
<1>2. Unset \notin AppShapes /\ Unset # NopLogSink
  BY OpsAssumption DEF Unset, NopLogSink
<1>3. Cells
  BY <1>2, Zenon DEF OpsInit, Cells, Resting
<1>4. \A e : ~ IsRecorded(e)
  <2>1. \A a \in Accounts : Losses(a) = {}
    BY DEF OpsInit, Losses
  <2> QED BY <2>1, Zenon DEF OpsInit, IsRecorded, IsDone, IsLost
<1>5. Accounted
  BY <1>4, Zenon DEF Accounted, IsRecorded, IsDone, OpsInit
<1>6. Charged
  BY DEF OpsInit, Charged, Once, Losses
<1>7. \A t \in Emitters : op[t].step = "idle"
  BY Zenon DEF OpsInit, Resting
<1>8. \A t \in Emitters : Emitting(t) /\ Recorded(t)
  BY <1>4, <1>7, Zenon DEF Emitting, Recorded
<1> QED BY <1>1, <1>3, <1>5, <1>6, <1>8, Zenon DEF OpsInv

LEMMA SinkFacts ==
    ASSUME OpsTypes, Cells, NEW target \in Targets, SinkOf(target) # Unset
    PROVE  /\ SinkOf(target).children \in Seq([min : Nat, kind : {"nop", "app"}, fragile : BOOLEAN])
           /\ Len(SinkOf(target).children) \in Nat
           /\ \A severity : Takers(SinkOf(target), severity) \subseteq 1 .. Len(SinkOf(target).children)
           /\ target = "logger" => SinkOf(target).owner \in {"plain", "global"}
<1> DEFINE S == SinkOf(target)
           C == [min : Nat, kind : {"nop", "app"}, fragile : BOOLEAN]
<1>1. S \in Shapes \cup AppShapes \cup {NopLogSink} /\ (target = "logger" => S \in AppShapes \cup {NopLogSink})
  BY Zenon DEF SinkOf, OpsTypes, OpRecords, Cells, Targets
<1>2. \A s \in AppShapes \cup {NopLogSink} : s.owner \in {"plain", "global"}
  BY OpsAssumption DEF NopLogSink
<1>3. NopLogSink.children \in Seq(C)
  BY DEF NopLogSink
<1>4. S.children \in Seq(C)
  <2> HIDE DEF S, C
  <2>1. \A s \in Shapes \cup AppShapes : s.children \in Seq(C)
    BY OpsAssumption, Zenon DEF C
  <2> QED BY <1>1, <1>3, <2>1, Zenon
<1>5. Len(S.children) \in Nat /\ DOMAIN S.children = 1 .. Len(S.children)
  <2> HIDE DEF S, C
  <2> QED BY <1>4
<1> HIDE DEF S
<1>6. \A severity : Takers(S, severity) \subseteq 1 .. Len(S.children)
  BY <1>5, Zenon DEF Takers
<1> QED BY <1>1, <1>2, <1>4, <1>5, <1>6, Zenon DEF S

\* A sink that is there stays.
Keeps == \A target \in Targets : SinkOf(target) # Unset => SinkOf(target)' = SinkOf(target)

\* A step of one thread, and the entries it records.
StepOf(t) ==
    /\ Keeps
    /\ \A u \in Emitters \ {t} : op'[u] = op[u] /\ count'[u] = count[u]
    /\ \A e : IsRecorded(e)' => IsRecorded(e) \/ e[1][1] = t
    /\ \A e : IsDone(e)' => IsDone(e) \/ e[1][1] = t
    /\ due \subseteq due'

LEMMA OthersEmit ==
    ASSUME OpsInv, NEW t \in Emitters, StepOf(t), NEW u \in Emitters \ {t}
    PROVE  Emitting(u)' /\ Recorded(u)' /\ \A e : Awaits(u, e)' <=> Awaits(u, e)
<1>1. op'[u] = op[u] /\ count'[u] = count[u] /\ op[u].target \in Targets
  BY Zenon DEF StepOf, OpsInv, OpsTypes, OpRecords
<1>2. PICK target \in Targets : target = op[u].target
  BY <1>1, Zenon
<1>3. SinkOf(op[u].target)' = SinkOf(target)'
  BY <1>1, <1>2, Zenon
<1>4. op[u].step \in {"probe", "offer", "emit"} => SinkOf(op[u].target)' = SinkOf(op[u].target) /\ SinkOf(op[u].target) # Unset
  BY <1>1, <1>2, <1>3, Zenon DEF StepOf, Keeps, OpsInv, Emitting
<1>5. Emitting(u) /\ Recorded(u)
  BY Zenon DEF OpsInv
<1>6. Emitting(u)'
  BY <1>1, <1>4, <1>5 DEF Emitting
<1>7. \A i : Entry(u, i)' = Entry(u, i)
  BY <1>1, Zenon DEF Entry
<1>8. \A e : Awaits(u, e)' <=> Awaits(u, e)
  BY <1>1, <1>4, <1>7, Zenon DEF Awaits
<1>9. \A e : IsRecorded(e)' /\ e[1][1] = u => IsRecorded(e)
  BY Zenon DEF StepOf
<1>10. \A e : IsDone(e)' /\ e[1][1] = u => IsDone(e)
  BY Zenon DEF StepOf
<1>11. \A e : e[1] = <<u, count[u]>> => e[1][1] = u
  OBVIOUS
<1>12. due \subseteq due'
  BY Zenon DEF StepOf
<1>13. Recorded(u)'
  <2>1. \A e : IsRecorded(e)' /\ e[1][1] = u => e[1][2] <= count'[u]
    BY <1>1, <1>5, <1>9, Zenon DEF Recorded
  <2>2. op'[u].step \in {"probe", "offer"} => \A e : IsRecorded(e)' => e[1] # <<u, count'[u]>>
    BY <1>1, <1>5, <1>9, <1>11, Zenon DEF Recorded
  <2>3. op'[u].step = "emit" => \A e : IsDone(e)' /\ e[1] = <<u, count'[u]>> => e[3] < op'[u].at
    BY <1>1, <1>5, <1>10, <1>11, Zenon DEF Recorded
  <2>4. op'[u].step = "emit" => \A i \in Takers(SinkOf(op[u].target)', op'[u].severity) : Entry(u, i)' \in due'
    BY <1>1, <1>4, <1>5, <1>7, <1>12, Zenon DEF Recorded
  <2> QED BY <2>1, <2>2, <2>3, <2>4, Zenon DEF Recorded
<1> QED BY <1>6, <1>8, <1>13, Zenon

LEMMA ThreadSteps ==
    ASSUME OpsInv, NEW t \in Emitters, StepOf(t), OpsTypes', Cells', Accounted', Charged', Emitting(t)', Recorded(t)'
    PROVE  OpsInv'
<1>1. \A u \in Emitters : Emitting(u)' /\ Recorded(u)'
  BY OthersEmit, Zenon
<1> QED BY <1>1, Zenon DEF OpsInv

\* What was charged stays charged while nothing is lost.
LEMMA ChargedStays ==
    ASSUME OpsInv, Keeps, UNCHANGED <<lost, dropped>>,
           \A u \in Emitters, a \in Accounts : seen'[u][a] <= dropped[a]
    PROVE  Charged'
<1>1. \A a \in Accounts : \A e \in Losses(a) : e[2] \in Targets
  BY DEF OpsInv, OpsTypes, OpRecords, Entries, Losses
<1>2. ASSUME NEW a \in Accounts, NEW e \in Losses(a)
      PROVE  /\ SinkOf(e[2])' # Unset
             /\ a = IF e[3] # 0 /\ SinkOf(e[2])'.owner = "global" THEN "global" ELSE e[2]
  <2>1. SinkOf(e[2]) # Unset /\ e[2] \in Targets
    BY <1>1, Zenon DEF OpsInv, Charged
  <2>2. SinkOf(e[2])' = SinkOf(e[2])
    BY <2>1, Zenon DEF Keeps
  <2> QED BY <2>1, <2>2, Zenon DEF OpsInv, Charged
<1>3. \A a \in Accounts : dropped[a] = Len(lost[a]) /\ Once(lost[a])
  BY Zenon DEF OpsInv, Charged
<1>4. \A a \in Accounts : Losses(a)' = Losses(a)
  BY Zenon DEF Losses
<1> QED BY <1>2, <1>3, <1>4, Zenon DEF Charged

\* A step outside of the sinks' emit.
LEMMA QuietSteps ==
    ASSUME OpsInv, NEW t \in Emitters, Keeps,
           \A u \in Emitters \ {t} : op'[u] = op[u] /\ count'[u] = count[u],
           UNCHANGED <<due, got, lost, unwound, dropped>>,
           \A u \in Emitters, a \in Accounts : seen'[u][a] <= dropped[a],
           op[t].step # "emit", op'[t].step # "emit", OpsTypes', Cells', Emitting(t)',
           count'[t] \in {count[t], count[t] + 1},
           op'[t].step \in {"probe", "offer"} => count'[t] = count[t] + 1 \/ op[t].step \in {"probe", "offer"}
    PROVE  OpsInv'
<1>1. /\ \A e : IsLost(e)' <=> IsLost(e)
      /\ \A e : IsDone(e)' <=> IsDone(e)
      /\ \A e : IsRecorded(e)' <=> IsRecorded(e)
  BY Zenon DEF IsLost, Losses, IsDone, IsRecorded
<1>2. StepOf(t)
  BY <1>1, Zenon DEF StepOf
<1>3. \A u \in Emitters : \A e : Awaits(u, e)' <=> Awaits(u, e)
  <2>1. \A e : ~ Awaits(t, e) /\ ~ Awaits(t, e)'
    BY Zenon DEF Awaits
  <2> QED BY <1>2, <2>1, OthersEmit, Zenon
<1>4. Accounted'
  BY <1>1, <1>3, Zenon DEF OpsInv, Accounted
<1>5. Charged'
  BY ChargedStays, Zenon
<1>6. count[t] \in Nat /\ Recorded(t)
  BY Zenon DEF OpsInv, OpsTypes, OpRecords
<1>7. Recorded(t)'
  <2>1. \A e : IsRecorded(e) /\ e[1][1] = t => e[1][2] <= count[t] /\ e[1][2] \in Nat
    <3>1. \A e : IsRecorded(e) => e[1][2] \in Nat
      <4>1. \A e : IsRecorded(e) => e \in Entries
        BY LostEntries, Zenon DEF OpsInv, OpsTypes, OpRecords, IsRecorded, IsDone
      <4> QED BY <4>1 DEF Entries
    <3> QED BY <1>6, <3>1, Zenon DEF Recorded
  <2>2. \A e : IsRecorded(e)' /\ e[1][1] = t => e[1][2] <= count'[t]
    BY <1>1, <1>6, <2>1
  <2>3. ASSUME op'[t].step \in {"probe", "offer"}, NEW e, IsRecorded(e)', e[1] = <<t, count'[t]>> PROVE FALSE
    <3>1. e[1][1] = t /\ e[1][2] = count'[t] /\ IsRecorded(e)
      BY <1>1, <2>3
    <3>2. CASE count'[t] = count[t] + 1
      BY <1>6, <2>1, <3>1, <3>2
    <3>3. CASE op[t].step \in {"probe", "offer"} /\ count'[t] = count[t]
      BY <1>6, <2>3, <3>1, <3>3, Zenon DEF Recorded
    <3> QED BY <2>3, <3>2, <3>3, Zenon
  <2> QED BY <2>2, <2>3, Zenon DEF Recorded
<1> QED BY <1>2, <1>4, <1>5, <1>7, ThreadSteps, Zenon

LEMMA CellFacts ==
    ASSUME OpsTypes
    PROVE  appSink # Unset /\ NopLogSink # Unset /\ appSink # NopLogSink
<1>1. appSink.owner \in {"plain", "owned", "global"} /\ appSink # NopLogSink
  BY OpsAssumption, AppSinkAssumption, Zenon DEF OpsTypes, OpRecords
<1>2. Unset.owner = "unset" /\ NopLogSink.owner = "plain"
  BY Zenon DEF Unset, NopLogSink
<1> QED BY <1>1, <1>2, Zenon

LEMMA InstallKeeps ==
    ASSUME OpsInv, NEW t \in Emitters, Install(t)
    PROVE  OpsInv'
<1>1. /\ op[t] = Resting /\ logger = Unset /\ logger' = appSink /\ op' = [op EXCEPT ![t].step = "adopting"]
      /\ UNCHANGED <<sinkOf, appSink, globalOps, count, dropped, seen, due, got, lost, unwound>>
      /\ OpsTypes /\ Cells /\ Charged
  BY Zenon DEF Install, OpsInv
<1>2. op'[t].step = "adopting" /\ \A u \in Emitters \ {t} : op'[u] = op[u]
  BY <1>1, Zenon DEF OpsTypes, OpRecords
<1>3. OpsTypes'
  BY <1>1, Zenon DEF OpsTypes, OpRecords
<1>4. Cells'
  BY <1>1, <1>2, CellFacts, Zenon DEF Cells
<1>5. Keeps
  BY <1>1, Zenon DEF Keeps, SinkOf
<1>6. Emitting(t)'
  BY <1>2, Zenon DEF Emitting
<1>7. \A u \in Emitters, a \in Accounts : seen'[u][a] <= dropped[a]
  BY <1>1, Zenon DEF Charged
<1>8. op[t].step # "emit" /\ count'[t] = count[t]
  BY <1>1, OpRecordSteps, Zenon
<1> QED BY <1>1, <1>2, <1>3, <1>4, <1>5, <1>6, <1>7, <1>8, QuietSteps, Zenon

LEMMA AdoptKeepsCells ==
    ASSUME OpsInv, NEW t \in Emitters, Adopt(t)
    PROVE  OpsInv'
<1>1. /\ op[t].step = "adopting" /\ globalOps' = (IF globalOps = Unset THEN appSink ELSE globalOps)
      /\ op' = [op EXCEPT ![t] = Resting]
      /\ UNCHANGED <<sinkOf, appSink, logger, count, dropped, seen, due, got, lost, unwound>>
      /\ OpsTypes /\ Cells /\ Charged
  BY Zenon DEF Adopt, OpsInv
<1>2. op'[t].step = "idle" /\ \A u \in Emitters \ {t} : op'[u] = op[u]
  BY <1>1, Zenon DEF OpsTypes, OpRecords, Resting
<1>3. OpsTypes'
  BY <1>1, Zenon DEF OpsTypes, OpRecords, Resting, Targets
<1>4. Cells'
  BY <1>1, <1>2, CellFacts, Zenon DEF Cells
<1>5. Keeps
  BY <1>1, Zenon DEF Keeps, SinkOf
<1>6. Emitting(t)'
  BY <1>2, Zenon DEF Emitting
<1>7. \A u \in Emitters, a \in Accounts : seen'[u][a] <= dropped[a]
  BY <1>1, Zenon DEF Charged
<1> QED BY <1>1, <1>2, <1>3, <1>4, <1>5, <1>6, <1>7, QuietSteps, Zenon

LEMMA BeginKeeps ==
    ASSUME OpsInv, NEW t \in Emitters, NEW target \in Targets, NEW severity \in Severities, NEW lazy \in BOOLEAN,
           Begin(t, target, severity, lazy)
    PROVE  OpsInv'
<1>1. /\ op[t] = Resting /\ (target = "logger" => ~ lazy)
      /\ logger' = (IF target = "logger" THEN OrNop(logger) ELSE logger)
      /\ globalOps' = (IF target = "global" THEN OrNop(globalOps) ELSE globalOps)
      /\ op' = [op EXCEPT ![t] = [at |-> 1, target |-> target, severity |-> severity,
                                step |-> IF lazy THEN "probe" ELSE "offer"]]
      /\ count' = [count EXCEPT ![t] = count[t] + 1]
      /\ UNCHANGED <<sinkOf, appSink, dropped, seen, due, got, lost, unwound>>
      /\ OpsTypes /\ Cells /\ Charged
  BY Zenon DEF Begin, OpsInv
<1>2. /\ op'[t] = [at |-> 1, target |-> target, severity |-> severity, step |-> IF lazy THEN "probe" ELSE "offer"]
      /\ count'[t] = count[t] + 1 /\ \A u \in Emitters \ {t} : op'[u] = op[u] /\ count'[u] = count[u]
  BY <1>1, Zenon DEF OpsTypes, OpRecords
<1>3. OpsTypes'
  <2>1. severity \in Nat
    BY OpsAssumption, Zenon
  <2> QED BY <1>1, <2>1 DEF OpsTypes, OpRecords
<1>4. Cells'
  BY <1>1, <1>2, CellFacts DEF Cells, OrNop, Resting
<1>5. Keeps
  BY <1>1, Zenon DEF Keeps, SinkOf, OrNop
<1>6. SinkOf(target)' # Unset
  <2>1. \A s \in Shapes : s # Unset
    BY OpsAssumption DEF Unset
  <2> QED BY <1>1, <1>3, <2>1, CellFacts, Zenon DEF SinkOf, OrNop, OpsTypes, OpRecords, Targets
<1>7. Emitting(t)'
  <2>1. SinkOf(op[t].target)' = SinkOf(target)'
    BY <1>2
  <2> QED BY <1>1, <1>2, <1>6, <2>1 DEF Emitting
<1>8. \A u \in Emitters, a \in Accounts : seen'[u][a] <= dropped[a]
  BY <1>1, Zenon DEF Charged
<1>9. op[t].step # "emit" /\ op'[t].step # "emit"
  BY <1>1, <1>2 DEF Resting
<1> QED BY <1>1, <1>2, <1>3, <1>4, <1>5, <1>7, <1>8, <1>9, QuietSteps, Zenon

LEMMA SnapshotKeeps ==
    ASSUME OpsInv, NEW t \in Emitters, NEW account \in Accounts, Snapshot(t, account)
    PROVE  OpsInv'
<1>1. /\ op[t] = Resting /\ seen' = [seen EXCEPT ![t][account] = dropped[account]]
      /\ UNCHANGED <<sinkOf, appSink, logger, globalOps, op, count, dropped, due, got, lost, unwound>>
      /\ OpsTypes /\ Cells /\ Charged /\ Emitting(t)
  BY Zenon DEF Snapshot, OpsInv
<1>2. OpsTypes'
  BY <1>1, Zenon DEF OpsTypes, OpRecords
<1>3. Cells'
  BY <1>1, Zenon DEF Cells
<1>4. Keeps
  BY <1>1, Zenon DEF Keeps, SinkOf
<1>5. op[t].step = "idle" /\ op'[t] = op[t]
  BY <1>1, OpRecordSteps, Zenon
<1>6. Emitting(t)'
  BY <1>5, Zenon DEF Emitting
<1>7. \A u \in Emitters, a \in Accounts : seen'[u][a] <= dropped[a]
  <2>1. \A u \in Emitters, a \in Accounts : seen[u][a] <= dropped[a] /\ dropped[a] <= dropped[a]
    BY <1>1 DEF Charged, OpsTypes, OpRecords
  <2>2. \A u \in Emitters, a \in Accounts : seen'[u][a] = IF u = t /\ a = account THEN dropped[account] ELSE seen[u][a]
    BY <1>1, Zenon DEF OpsTypes, OpRecords
  <2> QED BY <2>1, <2>2, Zenon
<1> QED BY <1>1, <1>2, <1>3, <1>4, <1>5, <1>6, <1>7, QuietSteps, Zenon

LEMMA LossRecorded ==
    ASSUME NEW entry, NEW a \in Accounts, OpsTypes, entry \in Entries, CountIn(a, entry), ~ IsLost(entry)
    PROVE  /\ lost' \in [Accounts -> Seq(Entries)] /\ dropped' \in [Accounts -> Nat]
           /\ \A e : IsLost(e)' <=> IsLost(e) \/ e = entry
           /\ lost'[a] = Append(lost[a], entry) /\ entry \notin Losses(a) /\ dropped'[a] = dropped[a] + 1
           /\ Losses(a)' = Losses(a) \cup {entry}
           /\ \A b \in Accounts \ {a} : lost'[b] = lost[b] /\ Losses(b)' = Losses(b) /\ dropped'[b] = dropped[b]
<1>1. /\ lost' = [lost EXCEPT ![a] = Append(lost[a], entry)] /\ dropped' = [dropped EXCEPT ![a] = dropped[a] + 1]
  BY Zenon DEF CountIn
<1>2. /\ lost'[a] = Append(lost[a], entry) /\ dropped'[a] = dropped[a] + 1
      /\ \A b \in Accounts \ {a} : lost'[b] = lost[b] /\ dropped'[b] = dropped[b]
  BY <1>1, Zenon DEF OpsTypes, OpRecords
<1>3. lost' \in [Accounts -> Seq(Entries)] /\ dropped' \in [Accounts -> Nat]
  BY <1>1 DEF OpsTypes, OpRecords
<1>4. lost[a] \in Seq(Entries)
  BY Zenon DEF OpsTypes, OpRecords
<1>5. \A e : e \in Losses(a)' <=> e \in Losses(a) \/ e = entry
  <2>1. \A e : e \in Losses(a) <=> \E n \in DOMAIN lost[a] : lost[a][n] = e
    BY Zenon DEF Losses
  <2>2. \A e : e \in Losses(a)' <=> \E n \in DOMAIN Append(lost[a], entry) : Append(lost[a], entry)[n] = e
    BY <1>2, Zenon DEF Losses
  <2>3. PICK s \in Seq(Entries) : s = lost[a]
    BY <1>4, Zenon
  <2>4. \A e : (\E n \in DOMAIN Append(s, entry) : Append(s, entry)[n] = e) <=> e = entry \/ \E n \in DOMAIN s : s[n] = e
    BY AppendOnce
  <2> QED BY <2>1, <2>2, <2>3, <2>4, Zenon
<1>6. \A b \in Accounts \ {a} : Losses(b)' = Losses(b)
  BY <1>2, Zenon DEF Losses
<1>7. \A e : IsLost(e)' <=> IsLost(e) \/ e = entry
  BY <1>5, <1>6, Zenon DEF IsLost
<1>8. entry \notin Losses(a)
  BY Zenon DEF IsLost
<1>9. Losses(a)' = Losses(a) \cup {entry}
  BY <1>5, Zenon
<1> QED BY <1>2, <1>3, <1>6, <1>7, <1>8, <1>9, Zenon

\* A loss is charged once, to the account of its sink.
LEMMA ChargedOnce ==
    ASSUME OpsInv, Keeps, UNCHANGED seen, NEW a \in Accounts, NEW entry \in Entries, ~ IsLost(entry), CountIn(a, entry),
           SinkOf(entry[2]) # Unset,
           a = IF entry[3] # 0 /\ SinkOf(entry[2]).owner = "global" THEN "global" ELSE entry[2]
    PROVE  Charged'
<1>1. /\ lost'[a] = Append(lost[a], entry) /\ entry \notin Losses(a) /\ dropped'[a] = dropped[a] + 1
      /\ Losses(a)' = Losses(a) \cup {entry}
      /\ \A b \in Accounts \ {a} : lost'[b] = lost[b] /\ Losses(b)' = Losses(b) /\ dropped'[b] = dropped[b]
  BY LossRecorded, Zenon DEF OpsInv
<1>2. \A b \in Accounts : /\ dropped[b] = Len(lost[b]) /\ Once(lost[b]) /\ dropped[b] \in Nat
                           /\ lost[b] \in Seq(Entries)
  BY Zenon DEF OpsInv, Charged, OpsTypes, OpRecords
<1>3. Len(lost'[a]) = Len(lost[a]) + 1 /\ Once(lost'[a])
  <2>1. lost[a] \in Seq(Entries) /\ Once(lost[a])
    BY <1>2, Zenon
  <2>2. \A n \in DOMAIN lost[a] : lost[a][n] # entry
    BY <1>1, Zenon DEF Losses
  <2>3. PICK s \in Seq(Entries) : s = lost[a]
    BY <2>1, Zenon
  <2>4. Once(s) /\ \A n \in DOMAIN s : s[n] # entry
    BY <2>1, <2>2, <2>3, Zenon
  <2>5. Len(Append(s, entry)) = Len(s) + 1 /\ Once(Append(s, entry))
    BY <2>4, AppendOnce, Zenon
  <2> QED BY <1>1, <2>3, <2>5, Zenon
<1>4. \A b \in Accounts : dropped'[b] = Len(lost'[b]) /\ Once(lost'[b])
  BY <1>1, <1>2, <1>3, Zenon
<1>5. ASSUME NEW b \in Accounts, NEW e \in Losses(b)'
      PROVE  /\ SinkOf(e[2])' # Unset
             /\ b = IF e[3] # 0 /\ SinkOf(e[2])'.owner = "global" THEN "global" ELSE e[2]
  <2>1. /\ SinkOf(e[2]) # Unset /\ e[2] \in Targets
        /\ b = IF e[3] # 0 /\ SinkOf(e[2]).owner = "global" THEN "global" ELSE e[2]
    <3>1. CASE e \in Losses(b)
      <4>1. e \in Entries
        BY <1>2, <3>1 DEF Losses
      <4> QED BY <3>1, <4>1 DEF OpsInv, Charged, Entries
    <3>2. CASE e \notin Losses(b)
      BY <1>1, <3>2 DEF Entries
    <3> QED BY <3>1, <3>2, Zenon
  <2>2. SinkOf(e[2])' = SinkOf(e[2])
    BY <2>1, Zenon DEF Keeps
  <2> QED BY <2>1, <2>2, Zenon
<1>6. \A u \in Emitters, b \in Accounts : seen'[u][b] <= dropped'[b]
  <2>1. \A u \in Emitters, b \in Accounts : seen[u][b] \in Nat /\ seen[u][b] <= dropped[b]
    BY DEF OpsInv, OpsTypes, OpRecords, Charged
  <2>2. \A b \in Accounts : dropped'[b] >= dropped[b] /\ dropped'[b] \in Nat
    BY <1>1, <1>2
  <2> QED BY <1>2, <2>1, <2>2
<1> QED BY <1>4, <1>5, <1>6, Zenon DEF Charged

LEMMA ProbeKeeps ==
    ASSUME OpsInv, NEW t \in Emitters, emit_lazy(t)
    PROVE  OpsInv'
<1>1. /\ op[t].step = "probe" /\ OpsTypes /\ Cells /\ Charged /\ Accounted /\ Emitting(t) /\ Recorded(t)
      /\ UNCHANGED <<sinkOf, appSink, logger, globalOps, count, seen, due, got, unwound>>
  BY Zenon DEF emit_lazy, OpsInv
<1>2. Keeps
  BY <1>1, Zenon DEF Keeps, SinkOf
<1>3. \A s : Takers(SinkOf(op[t].target), s) \subseteq Nat \ {0}
  <2>1. op[t].target \in Targets /\ SinkOf(op[t].target) # Unset
    BY <1>1, Zenon DEF OpsTypes, OpRecords, Emitting
  <2>2. PICK target \in Targets : target = op[t].target
    BY <2>1, Zenon
  <2> QED BY <1>1, <2>1, <2>2, SinkFacts
<1>4. CASE op' = [op EXCEPT ![t] = Resting] /\ UNCHANGED <<dropped, lost>>
  <2>1. op'[t].step = "idle" /\ \A u \in Emitters \ {t} : op'[u] = op[u]
    BY <1>1, <1>4, Zenon DEF OpsTypes, OpRecords, Resting
  <2>2. OpsTypes'
    BY <1>1, <1>4, Zenon DEF OpsTypes, OpRecords, Resting, Targets
  <2>3. Cells'
    BY <1>1, <2>1, Zenon DEF Cells
  <2>4. Emitting(t)'
    BY <2>1, Zenon DEF Emitting
  <2>5. \A u \in Emitters, a \in Accounts : seen'[u][a] <= dropped[a]
    BY <1>1, Zenon DEF Charged
  <2> QED BY <1>1, <1>2, <1>4, <2>1, <2>2, <2>3, <2>4, <2>5, QuietSteps, Zenon
<1>5. CASE op' = [op EXCEPT ![t].step = "offer"] /\ UNCHANGED <<dropped, lost>>
  <2>1. op'[t] = [op[t] EXCEPT !.step = "offer"] /\ \A u \in Emitters \ {t} : op'[u] = op[u]
    BY <1>1, <1>5, Zenon DEF OpsTypes, OpRecords
  <2>2. OpsTypes'
    BY <1>1, <1>5, Zenon DEF OpsTypes, OpRecords
  <2>3. op'[t].step = "offer" /\ op'[t].at = op[t].at /\ op'[t].target = op[t].target
    BY <1>1, <2>1, Zenon DEF OpsTypes, OpRecords
  <2>4. Cells'
    BY <1>1, <2>1, <2>3, Zenon DEF Cells
  <2>5. SinkOf(op[t].target)' = SinkOf(op[t].target)
    BY <1>1, <2>3, Zenon DEF SinkOf
  <2>6. Emitting(t)'
    BY <1>1, <2>3, <2>5, Zenon DEF Emitting
  <2>7. \A u \in Emitters, a \in Accounts : seen'[u][a] <= dropped[a]
    BY <1>1, Zenon DEF Charged
  <2> QED BY <1>1, <1>2, <1>5, <2>1, <2>2, <2>3, <2>4, <2>6, <2>7, QuietSteps, Zenon
<1>6. CASE op' = [op EXCEPT ![t] = Resting] /\ CountIn(op[t].target, Entry(t, 0))
  <2>0. PICK entry : entry = Entry(t, 0)
    BY Zenon
  <2>1. op'[t].step = "idle" /\ \A u \in Emitters \ {t} : op'[u] = op[u]
    BY <1>1, <1>6, Zenon DEF OpsTypes, OpRecords, Resting
  <2>2. op[t].target \in Accounts /\ op[t].target \in Targets /\ SinkOf(op[t].target) # Unset
    BY <1>1, Zenon DEF OpsTypes, OpRecords, Emitting, Targets, Accounts
  <2>3. /\ entry \in Entries /\ entry[2] = op[t].target /\ entry[3] = 0 /\ entry[1] = <<t, count[t]>> /\ entry[1][1] = t
        /\ entry[1][2] = count[t]
    BY <1>1, <2>0, <2>2, Zenon DEF Entry, Entries, OpsTypes, OpRecords
  <2>4. ~ IsRecorded(entry)
    BY <1>1, <2>3, Zenon DEF Recorded
  <2>5. ~ IsLost(entry) /\ entry \notin got
    BY <2>4, Zenon DEF IsRecorded, IsDone
  <2>6. /\ lost' \in [Accounts -> Seq(Entries)] /\ dropped' \in [Accounts -> Nat]
        /\ \A e : IsLost(e)' <=> IsLost(e) \/ e = entry
    BY <1>1, <1>6, <2>0, <2>2, <2>3, <2>5, LossRecorded, Zenon
  <2>7. OpsTypes'
    BY <1>1, <1>6, <2>6, Zenon DEF OpsTypes, OpRecords, Resting, Targets
  <2>8. Cells'
    BY <1>1, <2>1, Zenon DEF Cells
  <2>9. Emitting(t)'
    BY <2>1, Zenon DEF Emitting
  <2>10. /\ \A e : IsDone(e)' <=> IsDone(e) \/ e = entry
         /\ \A e : IsRecorded(e)' <=> IsRecorded(e) \/ e = entry
    BY <1>1, <2>6, Zenon DEF IsDone, IsRecorded
  <2>11. StepOf(t)
    BY <1>1, <1>2, <2>1, <2>3, <2>10, Zenon DEF StepOf
  <2>12. Recorded(t)'
    <3>1. count[t] <= count[t] /\ count'[t] = count[t]
      BY <1>1, NextNumber, Zenon DEF OpsTypes, OpRecords
    <3> QED BY <1>1, <2>1, <2>3, <2>10, <3>1, Zenon DEF Recorded
  <2>13. \A u \in Emitters : \A e : Awaits(u, e)' <=> Awaits(u, e)
    <3>1. \A e : ~ Awaits(t, e) /\ ~ Awaits(t, e)'
      BY <1>1, <2>1, Zenon DEF Awaits
    <3> QED BY <2>11, <3>1, OthersEmit, Zenon
  <2>14. Accounted'
    BY <1>1, <2>3, <2>5, <2>6, <2>13, Zenon DEF Accounted
  <2>15. Charged'
    BY <1>1, <1>2, <1>6, <2>0, <2>2, <2>3, <2>5, ChargedOnce, Zenon
  <2> QED BY <2>7, <2>8, <2>9, <2>11, <2>12, <2>14, <2>15, ThreadSteps, Zenon
<1> QED BY <1>4, <1>5, <1>6, Zenon DEF emit_lazy

LEMMA OfferKeeps ==
    ASSUME OpsInv, NEW t \in Emitters, Offer(t)
    PROVE  OpsInv'
<1> DEFINE S == SinkOf(op[t].target)
           W == Takers(S, op[t].severity)
<1>1. /\ op[t].step = "offer" /\ due' = due \cup {Entry(t, i) : i \in W}
      /\ op' = [op EXCEPT ![t] = IF S.children = <<>> THEN Resting ELSE [op[t] EXCEPT !.step = "emit"]]
      /\ UNCHANGED <<sinkOf, appSink, logger, globalOps, count, dropped, seen, got, lost, unwound>>
      /\ OpsTypes /\ Cells /\ Charged /\ Accounted /\ Emitting(t) /\ Recorded(t)
  BY Zenon DEF Offer, OpsInv
<1>2. op[t].target \in Targets /\ S # Unset /\ op[t].at = 1 /\ count[t] \in Nat
  BY <1>1, Zenon DEF OpsTypes, OpRecords, Emitting
<1>3. /\ S.children \in Seq([min : Nat, kind : {"nop", "app"}, fragile : BOOLEAN]) /\ Len(S.children) \in Nat
      /\ W \subseteq 1 .. Len(S.children)
  <2>1. PICK target \in Targets : target = op[t].target
    BY <1>2, Zenon
  <2> QED BY <1>1, <1>2, <2>1, SinkFacts, Zenon
<1>4. Keeps /\ \A target : SinkOf(target)' = SinkOf(target)
  BY <1>1, Zenon DEF Keeps, SinkOf
<1>5. \A i \in W : Entry(t, i) \in Entries /\ Entry(t, i)[1] = <<t, count[t]>> /\ Entry(t, i)[1][1] = t /\ Entry(t, i)[1][2] = count[t]
  BY <1>2, <1>3 DEF Entry, Entries
<1>6. /\ \A u \in Emitters \ {t} : op'[u] = op[u]
      /\ op'[t].step \in {"idle", "emit"}
      /\ op'[t].step = "idle" => S.children = <<>>
      /\ op'[t].step = "emit" => /\ S.children # <<>> /\ op'[t].at = 1 /\ op'[t].target = op[t].target
                                 /\ op'[t].severity = op[t].severity
  BY <1>1, <1>2, Zenon DEF OpsTypes, OpRecords, Resting
<1>7. OpsTypes'
  <2>1. op' \in [Emitters -> OpRecords]
    <3>1. op \in [Emitters -> OpRecords]
      BY <1>1, Zenon DEF OpsTypes, OpRecords
    <3>2. (IF S.children = <<>> THEN Resting ELSE [op[t] EXCEPT !.step = "emit"]) \in OpRecords
      BY <3>1, OpRecordSteps, Zenon
    <3> QED BY <1>1, <3>1, <3>2, Zenon
  <2>2. due' \subseteq Entries
    BY <1>1, <1>5, Zenon DEF OpsTypes, OpRecords
  <2> QED BY <1>1, <2>1, <2>2, Zenon DEF OpsTypes, OpRecords
<1>8. Cells'
  BY <1>1, <1>6, Zenon DEF Cells
<1>9. /\ \A e : IsLost(e)' <=> IsLost(e)
      /\ \A e : IsDone(e)' <=> IsDone(e)
      /\ \A e : IsRecorded(e)' <=> IsRecorded(e) \/ \E i \in W : e = Entry(t, i)
  BY <1>1, Zenon DEF IsLost, Losses, IsDone, IsRecorded
<1>10. StepOf(t)
  BY <1>1, <1>4, <1>5, <1>6, <1>9 DEF StepOf
<1>11. Emitting(t)'
  <2>1. op'[t].step = "emit" => Len(S.children) >= 1
    BY <1>3, <1>6
  <2>2. op'[t].step = "emit" => SinkOf(op[t].target)' = S
    BY <1>1, <1>4, <1>6, Zenon DEF SinkOf
  <2> QED BY <1>2, <1>3, <1>6, <2>1, <2>2 DEF Emitting
<1>12. op'[t].step = "emit" => /\ SinkOf(op[t].target)' = S
                              /\ \A i : Entry(t, i)' = Entry(t, i)
  BY <1>1, <1>6, Zenon DEF Entry, SinkOf
<1>13. Recorded(t)'
  <2>1. \A e : IsRecorded(e)' /\ e[1][1] = t => e[1][2] <= count'[t]
    <3>1. count[t] <= count[t] /\ count'[t] = count[t]
      BY <1>1, <1>2, NextNumber, Zenon
    <3> QED BY <1>1, <1>5, <1>9, <3>1, Zenon DEF Recorded
  <2>2. op'[t].step = "emit" => \A e : IsDone(e)' => e[1] # <<t, count'[t]>>
    BY <1>1, <1>9, Zenon DEF Recorded, IsRecorded
  <2>3. op'[t].step = "emit" => \A i \in Takers(SinkOf(op[t].target)', op'[t].severity) : Entry(t, i)' \in due'
    BY <1>1, <1>6, <1>12, Zenon
  <2> QED BY <1>6, <2>1, <2>2, <2>3, Zenon DEF Recorded
<1>14. Accounted'
  <2>1. \A e : IsSpent(e)' <=> IsSpent(e)
    BY <1>1, <1>9, Zenon DEF IsSpent
  <2>2. \A e : IsSpent(e) => e \in due
    BY <1>1, Zenon DEF Accounted, IsSpent
  <2>3. ASSUME NEW e \in due', ~ IsSpent(e) PROVE \E u \in Emitters : Awaits(u, e)'
    <3>1. CASE e \in due
      <4>1. PICK u \in Emitters : Awaits(u, e)
        BY <1>1, <2>3, <3>1, Zenon DEF Accounted, IsSpent
      <4>2. u # t
        BY <1>1, <4>1, Zenon DEF Awaits
      <4> QED BY <1>10, <4>1, <4>2, OthersEmit, Zenon
    <3>2. CASE \E i \in W : e = Entry(t, i)
      <4>1. PICK i \in W : e = Entry(t, i)
        BY <3>2, Zenon
      <4>2. op'[t].step = "emit"
        BY <1>3, <1>6
      <4>3. i \in Takers(SinkOf(op[t].target)', op'[t].severity) /\ i >= op'[t].at /\ e = Entry(t, i)'
        BY <1>3, <1>6, <1>12, <4>1, <4>2
      <4>4. Awaits(t, e)'
        BY <4>2, <4>3, Zenon DEF Awaits
      <4> QED BY <4>4, Zenon
    <3> QED BY <1>1, <3>1, <3>2, Zenon
  <2> QED BY <1>1, <1>9, <2>1, <2>2, <2>3, Zenon DEF Accounted, IsSpent
<1>15. Charged'
  <2>1. \A u \in Emitters, a \in Accounts : seen'[u][a] <= dropped[a]
    BY <1>1, Zenon DEF Charged
  <2> QED BY <1>1, <1>4, <2>1, ChargedStays, Zenon
<1> QED BY <1>7, <1>8, <1>10, <1>11, <1>13, <1>14, <1>15, ThreadSteps, Zenon

\* A thread inside emit is at a child of a sink that is there, and has not
\* recorded anything for it yet.
LEMMA AtChild ==
    ASSUME OpsInv, NEW t \in Emitters, op[t].step = "emit"
    PROVE  /\ op[t].target \in Targets /\ SinkOf(op[t].target) # Unset
           /\ Len(SinkOf(op[t].target).children) \in Nat /\ op[t].at \in 1 .. Len(SinkOf(op[t].target).children)
           /\ Takers(SinkOf(op[t].target), op[t].severity) \subseteq 1 .. Len(SinkOf(op[t].target).children)
           /\ op[t].target = "logger" => SinkOf(op[t].target).owner \in {"plain", "global"}
           /\ Entry(t, op[t].at) \in Entries /\ ~ IsDone(Entry(t, op[t].at))
           /\ op[t].at \in Takers(SinkOf(op[t].target), op[t].severity)
                  <=> Takes(SinkOf(op[t].target).children[op[t].at], op[t].severity)
<1>1. OpsTypes /\ Cells /\ Emitting(t) /\ Recorded(t)
  BY Zenon DEF OpsInv
<1>2. /\ op[t].target \in Targets /\ SinkOf(op[t].target) # Unset /\ count[t] \in Nat
      /\ op[t].at \in 1 .. Len(SinkOf(op[t].target).children)
  BY <1>1, Zenon DEF OpsTypes, OpRecords, Emitting
<1>3. PICK target \in Targets : target = op[t].target
  BY <1>2, Zenon
<1>4. /\ Len(SinkOf(target).children) \in Nat /\ (target = "logger" => SinkOf(target).owner \in {"plain", "global"})
      /\ Takers(SinkOf(target), op[t].severity) \subseteq 1 .. Len(SinkOf(target).children)
      /\ SinkOf(target).children \in Seq([min : Nat, kind : {"nop", "app"}, fragile : BOOLEAN])
  BY <1>1, <1>2, <1>3, SinkFacts, Zenon
<1>5. Entry(t, op[t].at) \in Entries /\ Entry(t, op[t].at)[1] = <<t, count[t]>> /\ Entry(t, op[t].at)[3] = op[t].at
  BY <1>2, <1>4 DEF Entry, Entries
<1>6. ~ IsDone(Entry(t, op[t].at))
  <2>1. PICK entry : entry = Entry(t, op[t].at)
    BY Zenon
  <2>2. IsDone(entry) => entry[3] < op[t].at
    BY <1>1, <1>5, <2>1, Zenon DEF Recorded
  <2> QED BY <1>2, <1>3, <1>4, <1>5, <2>1, <2>2
<1>7. DOMAIN SinkOf(target).children = 1 .. Len(SinkOf(target).children)
  BY <1>4
<1>8. op[t].at \in Takers(SinkOf(target), op[t].severity) <=> Takes(SinkOf(target).children[op[t].at], op[t].severity)
  BY <1>2, <1>3, <1>7, Zenon DEF Takers
<1> QED BY <1>2, <1>3, <1>4, <1>5, <1>6, <1>8, Zenon

LEMMA OnwardSteps ==
    ASSUME OpsTypes, NEW t \in Emitters, op[t].step = "emit", Onward(t), NEW n \in Nat,
           n = Len(SinkOf(op[t].target).children), op[t].at \in 1 .. n
    PROVE  /\ op' \in [Emitters -> OpRecords]
           /\ \A u \in Emitters \ {t} : op'[u] = op[u]
           /\ op'[t].step \in {"idle", "emit"}
           /\ op'[t].step = "idle" => op[t].at = n
           /\ op'[t].step = "emit" => /\ op[t].at < n /\ op'[t].at = op[t].at + 1 /\ op'[t].target = op[t].target
                                      /\ op'[t].severity = op[t].severity
<1>1. op' = [op EXCEPT ![t] = IF op[t].at < n THEN [op[t] EXCEPT !.at = op[t].at + 1] ELSE Resting]
  BY Zenon DEF Onward
<1>2. op \in [Emitters -> OpRecords]
  BY Zenon DEF OpsTypes, OpRecords
<1>3. CASE op[t].at < n
  <2>1. op' = [op EXCEPT ![t] = [op[t] EXCEPT !.at = op[t].at + 1]]
    BY <1>1, <1>3, Zenon
  <2>2. op[t] \in OpRecords /\ op[t].at \in Nat /\ op[t].at + 1 \in Nat
    BY <1>2 DEF OpRecords
  <2>3. PICK next : next = [op[t] EXCEPT !.at = op[t].at + 1]
    BY Zenon
  <2>4. /\ next \in OpRecords /\ next.step = "emit" /\ next.at = op[t].at + 1
        /\ next.target = op[t].target /\ next.severity = op[t].severity
    BY <2>2, <2>3, OpRecordSteps, Zenon
  <2>5. op' \in [Emitters -> OpRecords] /\ op'[t] = next /\ \A u \in Emitters \ {t} : op'[u] = op[u]
    BY <1>2, <2>1, <2>3, <2>4, Zenon
  <2> QED BY <1>3, <2>4, <2>5, Zenon
<1>4. CASE ~ (op[t].at < n)
  <2>1. op' = [op EXCEPT ![t] = Resting]
    BY <1>1, <1>4, Zenon
  <2>2. op' \in [Emitters -> OpRecords] /\ op'[t] = Resting /\ \A u \in Emitters \ {t} : op'[u] = op[u]
    BY <1>2, <2>1, OpRecordSteps, Zenon
  <2>3. op[t].at = n
    BY <1>4
  <2> QED BY <2>2, <2>3, OpRecordSteps, Zenon
<1> QED BY <1>3, <1>4, Zenon

\* A child that takes the severity got the event or lost it.
Handles(t, entry) ==
    /\ \A e : IsDone(e)' <=> IsDone(e)
               \/ (e = entry /\ op[t].at \in Takers(SinkOf(op[t].target), op[t].severity))
    /\ \A e : IsSpent(e)' <=> IsSpent(e)
               \/ (e = entry /\ op[t].at \in Takers(SinkOf(op[t].target), op[t].severity))
    /\ \A e : e \in got' => ~ IsLost(e)' /\ e \notin unwound'
    /\ \A e : e \in unwound' => e[2] = "logger"

\* The thread is done with one child and goes on.
LEMMA ChildDone ==
    ASSUME OpsInv, NEW t \in Emitters, op[t].step = "emit", Onward(t), Keeps, NEW entry, entry = Entry(t, op[t].at),
           UNCHANGED <<due, count>>, OpsTypes', Cells', Charged',
           Handles(t, entry)
    PROVE  OpsInv'
<1>0. /\ \A e : IsDone(e)' <=> IsDone(e)
                 \/ (e = entry /\ op[t].at \in Takers(SinkOf(op[t].target), op[t].severity))
      /\ \A e : IsSpent(e)' <=> IsSpent(e)
                 \/ (e = entry /\ op[t].at \in Takers(SinkOf(op[t].target), op[t].severity))
      /\ \A e : e \in got' => ~ IsLost(e)' /\ e \notin unwound'
      /\ \A e : e \in unwound' => e[2] = "logger"
  BY Zenon DEF Handles
<1> USE <1>0
<1> DEFINE S == SinkOf(op[t].target)
           W == Takers(S, op[t].severity)
           n == Len(S.children)
<1>1. OpsTypes /\ Accounted /\ Emitting(t) /\ Recorded(t) /\ count[t] \in Nat
  BY Zenon DEF OpsInv, OpsTypes, OpRecords
<1>2. op[t].target \in Targets /\ S # Unset /\ n \in Nat /\ op[t].at \in 1 .. n /\ W \subseteq 1 .. n
  BY AtChild, Zenon
<1> HIDE DEF n
<1>4. /\ \A u \in Emitters \ {t} : op'[u] = op[u]
      /\ op'[t].step \in {"idle", "emit"}
      /\ op'[t].step = "idle" => op[t].at = n
      /\ op'[t].step = "emit" => /\ op[t].at < n /\ op'[t].at = op[t].at + 1 /\ op'[t].target = op[t].target
                                 /\ op'[t].severity = op[t].severity
  BY <1>1, <1>2, OnwardSteps, Zenon DEF n
<1>6. op'[t].step = "emit" => SinkOf(op[t].target)' = S /\ \A i : Entry(t, i)' = Entry(t, i)
  <2>1. PICK target \in Targets : target = op[t].target
    BY <1>2, Zenon
  <2>2. SinkOf(target)' = SinkOf(target)
    BY <1>2, <2>1, Zenon DEF Keeps
  <2>3. op'[t].step = "emit" => SinkOf(op[t].target)' = SinkOf(target)'
    BY <1>4, <2>1, Zenon
  <2>4. op'[t].step = "emit" => \A i : Entry(t, i)' = Entry(t, i)
    BY <1>4, Zenon DEF Entry
  <2> QED BY <2>1, <2>2, <2>3, <2>4, Zenon
<1>7. entry[1] = <<t, count[t]>> /\ entry[1][1] = t /\ entry[1][2] = count[t] /\ entry[3] = op[t].at
  BY Zenon DEF Entry
<1>8. \A e : IsRecorded(e)' => IsRecorded(e) \/ e = entry
  BY Zenon DEF IsRecorded
<1>9. StepOf(t)
  BY <1>4, <1>7, <1>8, Zenon DEF StepOf
<1>10. Emitting(t)'
  <2>1. op[t].at \in Nat
    BY <1>1, Zenon DEF OpsTypes, OpRecords
  <2>2. op'[t].step = "emit" => op'[t].at \in 1 .. n
    BY <1>2, <1>4, <2>1, NextNumber, Zenon
  <2> QED BY <1>2, <1>4, <1>6, <2>2, Zenon DEF Emitting, n
<1>11. Recorded(t)'
  <2>1. \A e : IsRecorded(e)' /\ e[1][1] = t => e[1][2] <= count'[t]
    <3>1. count[t] <= count[t] /\ count'[t] = count[t]
      BY <1>1, NextNumber, Zenon
    <3> QED BY <1>1, <1>7, <1>8, <3>1, Zenon DEF Recorded
  <2>2. op'[t].step = "emit" => \A e : IsDone(e)' /\ e[1] = <<t, count'[t]>> => e[3] < op'[t].at
    <3>1. ASSUME NEW e, op'[t].step = "emit", IsDone(e)', e[1] = <<t, count'[t]>> PROVE e[3] < op'[t].at
      <4>1. CASE IsDone(e)
        <5>1. e[3] < op[t].at /\ e[3] \in Nat
          <6>1. e \in Entries
            BY <1>1, <4>1, LostEntries, Zenon DEF OpsTypes, OpRecords, IsDone
          <6>2. op[t].step = "emit" /\ e[1] = <<t, count[t]>>
            BY <3>1, Zenon
          <6>3. e[3] < op[t].at
            BY <1>1, <4>1, <6>2, Zenon DEF Recorded
          <6>4. e[3] \in Nat
            BY <6>1, EntryParts, Zenon
          <6> QED BY <6>3, <6>4, Zenon
        <5>2. op[t].at \in Nat /\ op'[t].at = op[t].at + 1
          BY <1>1, <1>4, <3>1, Zenon DEF OpsTypes, OpRecords
        <5>3. e[3] < op[t].at + 1
          BY <5>1, <5>2, NextNumber, Zenon
        <5> QED BY <5>2, <5>3, Zenon
      <4>2. CASE e = entry
        <5>1. op[t].at \in Nat /\ op'[t].at = op[t].at + 1
          BY <1>1, <1>4, <3>1, Zenon DEF OpsTypes, OpRecords
        <5> QED BY <1>7, <4>2, <5>1, NextNumber, Zenon
      <4> QED BY <3>1, <4>1, <4>2, Zenon
    <3> QED BY <3>1, Zenon
  <2>3. op'[t].step = "emit" => \A i \in Takers(SinkOf(op[t].target)', op'[t].severity) : Entry(t, i)' \in due'
    BY <1>1, <1>4, <1>6, Zenon DEF Recorded
  <2> QED BY <1>4, <2>1, <2>2, <2>3, Zenon DEF Recorded
<1>12. \A e : Awaits(t, e) => Awaits(t, e)' \/ (e = entry /\ op[t].at \in W)
  <2>1. ASSUME NEW e, Awaits(t, e), ~ (e = entry /\ op[t].at \in W) PROVE Awaits(t, e)'
    <3>1. PICK i \in W : i >= op[t].at /\ e = Entry(t, i)
      BY <2>1, Zenon DEF Awaits
    <3>2. i # op[t].at /\ i \in 1 .. n
      BY <1>2, <2>1, <3>1, Zenon
    <3>3. op'[t].step = "emit" /\ i >= op'[t].at
      <4>1. i \in Nat /\ op[t].at \in Nat
        BY <1>1, <1>2, <3>2, NextNumber, Zenon DEF OpsTypes, OpRecords
      <4>2. i >= op[t].at + 1
        BY <3>1, <3>2, <4>1, NextNumber, Zenon
      <4>3. op'[t].step # "idle"
        <5>1. n \in Nat /\ ~ (i >= n + 1)
          BY <1>2, <3>2, PastTheEnd, Zenon
        <5> QED BY <1>4, <4>2, <5>1, Zenon
      <4> QED BY <1>4, <4>2, <4>3, Zenon
    <3>4. i \in Takers(SinkOf(op[t].target)', op'[t].severity) /\ e = Entry(t, i)'
      BY <1>4, <1>6, <3>1, <3>3, Zenon
    <3> QED BY <3>3, <3>4, Zenon DEF Awaits
  <2> QED BY <2>1, Zenon
<1>13. Accounted'
  <2>1. \A e : IsSpent(e)' => e \in due
    BY <1>1, Zenon DEF Accounted, IsSpent, Recorded
  <2>2. ASSUME NEW e \in due, ~ IsSpent(e)' PROVE \E u \in Emitters : Awaits(u, e)'
    <3>1. PICK u \in Emitters : Awaits(u, e)
      BY <1>1, <2>2, Zenon DEF Accounted, IsSpent
    <3>2. CASE u = t
      BY <1>12, <2>2, <3>1, <3>2, Zenon
    <3>3. CASE u # t
      BY <1>9, <3>1, <3>3, OthersEmit, Zenon
    <3> QED BY <3>2, <3>3, Zenon
  <2> QED BY <2>1, <2>2, Zenon DEF Accounted, IsSpent
<1> QED BY <1>9, <1>10, <1>11, <1>13, ThreadSteps, Zenon

LEMMA DeliverKeeps ==
    ASSUME OpsInv, NEW t \in Emitters, Deliver(t)
    PROVE  OpsInv'
<1> DEFINE S == SinkOf(op[t].target)
<1>1. PICK entry : entry = Entry(t, op[t].at)
  BY Zenon
<1>2. /\ op[t].step = "emit" /\ Onward(t)
      /\ got' = IF Takes(S.children[op[t].at], op[t].severity) THEN got \cup {entry} ELSE got
      /\ UNCHANGED <<sinkOf, appSink, logger, globalOps, count, dropped, seen, due, lost, unwound>>
      /\ OpsTypes /\ Cells /\ Charged /\ Accounted
  BY <1>1, Zenon DEF Deliver, OpsInv
<1>3. /\ Len(S.children) \in Nat /\ op[t].at \in 1 .. Len(S.children) /\ entry \in Entries /\ ~ IsDone(entry)
      /\ op[t].at \in Takers(S, op[t].severity) <=> Takes(S.children[op[t].at], op[t].severity)
  BY <1>1, <1>2, AtChild, Zenon
<1>4. entry[3] # 0
  <2>1. op[t].at # 0
    BY <1>3, PastTheEnd, Zenon
  <2> QED BY <1>1, <2>1, Zenon DEF Entry
<1>5. /\ op' \in [Emitters -> OpRecords]
      /\ \A u \in Emitters \ {t} : op'[u] = op[u]
      /\ op'[t].step \in {"idle", "emit"}
  BY <1>2, <1>3, OnwardSteps, Zenon
<1>6. OpsTypes'
  BY <1>2, <1>3, <1>5, Zenon DEF OpsTypes, OpRecords
<1>7. Cells'
  BY <1>2, <1>5, Zenon DEF Cells
<1>8. Keeps
  BY <1>2, Zenon DEF Keeps, SinkOf
<1>9. Charged'
  <2>1. \A u \in Emitters, a \in Accounts : seen'[u][a] <= dropped[a]
    BY <1>2, Zenon DEF Charged
  <2> QED BY <1>2, <1>8, <2>1, ChargedStays, Zenon
<1>10. \A e : IsLost(e)' <=> IsLost(e)
  BY <1>2, Zenon DEF IsLost, Losses
<1>11. \A e : e \in got' <=> e \in got \/ (e = entry /\ op[t].at \in Takers(S, op[t].severity))
  BY <1>2, <1>3, Zenon
<1>12. /\ \A e : IsDone(e)' <=> IsDone(e) \/ (e = entry /\ op[t].at \in Takers(S, op[t].severity))
       /\ \A e : IsSpent(e)' <=> IsSpent(e) \/ (e = entry /\ op[t].at \in Takers(S, op[t].severity))
  BY <1>2, <1>10, <1>11, Zenon DEF IsDone, IsSpent
<1>13. /\ \A e : e \in got' => ~ IsLost(e)' /\ e \notin unwound'
       /\ \A e : e \in unwound' => e[2] = "logger"
  BY <1>2, <1>3, <1>10, <1>11, Zenon DEF Accounted, IsDone
<1>14. Handles(t, entry)
  BY <1>12, <1>13, Zenon DEF Handles
<1> QED BY <1>1, <1>2, <1>6, <1>7, <1>8, <1>9, <1>14, ChildDone, Zenon

LEMMA PanicKeeps ==
    ASSUME OpsInv, NEW t \in Emitters, SinkPanics(t)
    PROVE  OpsInv'
<1> DEFINE S == SinkOf(op[t].target)
           isPlain == op[t].target = "logger" /\ S.owner = "plain"
<1>1. PICK entry : entry = Entry(t, op[t].at)
  BY Zenon
<1>2. PICK a : a = failure_counters(op[t].target)
  BY Zenon
<1>3. /\ op[t].step = "emit" /\ Onward(t) /\ Takes(S.children[op[t].at], op[t].severity)
      /\ UNCHANGED <<sinkOf, appSink, logger, count, seen, due, got>>
      /\ isPlain => unwound' = unwound \cup {entry} /\ UNCHANGED <<dropped, lost, globalOps>>
      /\ ~ isPlain => /\ CountIn(a, entry) /\ UNCHANGED unwound
                      /\ globalOps' = IF S.owner = "global" THEN OrNop(globalOps) ELSE globalOps
      /\ OpsTypes /\ Cells /\ Charged /\ Accounted
  BY <1>1, <1>2, Zenon DEF SinkPanics, OpsInv
<1>4. /\ Len(S.children) \in Nat /\ op[t].at \in 1 .. Len(S.children) /\ entry \in Entries /\ ~ IsDone(entry)
      /\ op[t].at \in Takers(S, op[t].severity) /\ op[t].target \in Targets /\ S # Unset
      /\ op[t].target = "logger" => S.owner \in {"plain", "global"}
  BY <1>1, <1>3, AtChild, Zenon
<1>5. entry[3] # 0 /\ entry[2] = op[t].target
  <2>1. op[t].at # 0
    BY <1>4, PastTheEnd, Zenon
  <2> QED BY <1>1, <2>1, Zenon DEF Entry
<1>6. /\ op' \in [Emitters -> OpRecords]
      /\ \A u \in Emitters \ {t} : op'[u] = op[u]
      /\ op'[t].step \in {"idle", "emit"}
  BY <1>3, <1>4, OnwardSteps, Zenon
<1>7. globalOps' = globalOps \/ (globalOps = Unset /\ globalOps' = NopLogSink)
  BY <1>3, Zenon DEF OrNop
<1>8. Cells'
  BY <1>3, <1>6, <1>7, CellFacts, Zenon DEF Cells
<1>9. Keeps
  BY <1>3, <1>7, Zenon DEF Keeps, SinkOf
<1>10. ~ IsLost(entry) /\ entry \notin got /\ entry \notin unwound
  BY <1>4, Zenon DEF IsDone
<1>11. CASE isPlain
  <2>1. OpsTypes'
    BY <1>3, <1>4, <1>6, <1>11, Zenon DEF OpsTypes, OpRecords
  <2>2. Charged'
    <3>1. \A u \in Emitters, b \in Accounts : seen'[u][b] <= dropped[b]
      BY <1>3, Zenon DEF Charged
    <3> QED BY <1>3, <1>9, <1>11, <3>1, ChargedStays, Zenon
  <2>3. \A e : IsLost(e)' <=> IsLost(e)
    BY <1>3, <1>11, Zenon DEF IsLost, Losses
  <2>4. /\ \A e : IsDone(e)' <=> IsDone(e) \/ e = entry
        /\ \A e : IsSpent(e)' <=> IsSpent(e) \/ e = entry
    BY <1>3, <1>11, <2>3, Zenon DEF IsDone, IsSpent
  <2>5. /\ \A e : e \in got' => ~ IsLost(e)' /\ e \notin unwound'
        /\ \A e : e \in unwound' => e[2] = "logger"
    BY <1>3, <1>5, <1>10, <1>11, <2>3, Zenon DEF Accounted
  <2>6. Handles(t, entry)
    BY <1>4, <2>4, <2>5, Zenon DEF Handles
  <2> QED BY <1>1, <1>3, <1>8, <1>9, <2>1, <2>2, <2>6, ChildDone, Zenon
<1>12. CASE ~ isPlain
  <2>1. a = (IF S.owner = "global" THEN "global" ELSE op[t].target) /\ a \in Accounts
    BY <1>2, <1>4, <1>12, Zenon DEF failure_counters, Accounts, Targets
  <2>2. /\ lost' \in [Accounts -> Seq(Entries)] /\ dropped' \in [Accounts -> Nat]
        /\ \A e : IsLost(e)' <=> IsLost(e) \/ e = entry
    BY <1>3, <1>4, <1>10, <1>12, <2>1, LossRecorded, Zenon
  <2>3. OpsTypes'
    BY <1>3, <1>6, <1>12, <2>2, Zenon DEF OpsTypes, OpRecords
  <2>4. Charged'
    BY <1>3, <1>4, <1>5, <1>9, <1>10, <1>12, <2>1, ChargedOnce, Zenon
  <2>5. /\ \A e : IsDone(e)' <=> IsDone(e) \/ e = entry
        /\ \A e : IsSpent(e)' <=> IsSpent(e) \/ e = entry
    BY <1>3, <1>5, <1>12, <2>2, Zenon DEF IsDone, IsSpent
  <2>6. /\ \A e : e \in got' => ~ IsLost(e)' /\ e \notin unwound'
        /\ \A e : e \in unwound' => e[2] = "logger"
    BY <1>3, <1>10, <1>12, <2>2, Zenon DEF Accounted
  <2>7. Handles(t, entry)
    BY <1>4, <2>5, <2>6, Zenon DEF Handles
  <2> QED BY <1>1, <1>3, <1>8, <1>9, <2>3, <2>4, <2>7, ChildDone, Zenon
<1> QED BY <1>11, <1>12, Zenon

LEMMA OpsIdle == OpsInv /\ UNCHANGED opsVars => OpsInv'
<1> SUFFICES ASSUME OpsInv, UNCHANGED opsVars PROVE OpsInv'
  BY Zenon
<1>1. UNCHANGED <<sinkOf, appSink, logger, globalOps, op, count, dropped, seen, due, got, lost, unwound>>
  BY Zenon DEF opsVars
<1>2. OpsTypes' /\ Cells' /\ Charged'
  <2>1. \A a \in Accounts : \A u \in Emitters : seen'[u][a] <= dropped[a]
    BY <1>1, Zenon DEF OpsInv, Charged
  <2>2. Keeps
    BY <1>1, Zenon DEF Keeps, SinkOf
  <2>3. Charged'
    BY <1>1, <2>1, <2>2, ChargedStays, Zenon
  <2> QED BY <1>1, <2>3, Zenon DEF OpsInv, OpsTypes, OpRecords, Cells
<1>3. /\ \A e : IsLost(e)' <=> IsLost(e)
      /\ \A e : IsDone(e)' <=> IsDone(e)
      /\ \A e : IsRecorded(e)' <=> IsRecorded(e)
  BY <1>1, Zenon DEF IsLost, Losses, IsDone, IsRecorded
<1>4. \A t \in Emitters : /\ SinkOf(op[t].target)' = SinkOf(op[t].target) /\ \A i : Entry(t, i)' = Entry(t, i)
  BY <1>1, Zenon DEF SinkOf, Entry
<1>5. \A t \in Emitters : \A e : Awaits(t, e)' <=> Awaits(t, e)
  BY <1>1, <1>4, Zenon DEF Awaits
<1>6. Accounted'
  BY <1>1, <1>3, <1>5, Zenon DEF OpsInv, Accounted
<1>7. \A t \in Emitters : Emitting(t)' /\ Recorded(t)'
  BY <1>1, <1>3, <1>4, Zenon DEF OpsInv, Emitting, Recorded
<1> QED BY <1>2, <1>6, <1>7, Zenon DEF OpsInv

(* Observability events and the process-global cells (ops/mod.rs,          *)
(* sinks.rs), for any threads, contexts, sinks and number of events: every *)
(* child that takes an event's severity gets it or has its panic counted   *)
(* once where it belongs, whatever its siblings do, and the two cells      *)
(* agree once an install has returned.                                     *)
THEOREM EventsAndCellsAreSound == OpsSpec => []OperationsAreSound
<1>1. OpsInit => OpsInv
  BY OpsInitHolds, Zenon
<1>2. OpsInv /\ [OpsNext]_opsVars => OpsInv'
  <2> SUFFICES ASSUME OpsInv, [OpsNext]_opsVars PROVE OpsInv'
    BY Zenon
  <2>1. CASE UNCHANGED opsVars
    BY <2>1, OpsIdle, Zenon
  <2>2. ASSUME NEW t \in Emitters, Install(t) PROVE OpsInv'
    BY <2>2, InstallKeeps, Zenon
  <2>3. ASSUME NEW t \in Emitters, Adopt(t) PROVE OpsInv'
    BY <2>3, AdoptKeepsCells, Zenon
  <2>4. ASSUME NEW t \in Emitters, emit_lazy(t) PROVE OpsInv'
    BY <2>4, ProbeKeeps, Zenon
  <2>5. ASSUME NEW t \in Emitters, Offer(t) PROVE OpsInv'
    BY <2>5, OfferKeeps, Zenon
  <2>6. ASSUME NEW t \in Emitters, Deliver(t) PROVE OpsInv'
    BY <2>6, DeliverKeeps, Zenon
  <2>7. ASSUME NEW t \in Emitters, SinkPanics(t) PROVE OpsInv'
    BY <2>7, PanicKeeps, Zenon
  <2>8. ASSUME NEW t \in Emitters, NEW target \in Targets, NEW severity \in Severities, NEW lazy \in BOOLEAN,
               Begin(t, target, severity, lazy)
        PROVE  OpsInv'
    BY <2>8, BeginKeeps, Zenon
  <2>9. ASSUME NEW t \in Emitters, NEW account \in Accounts, Snapshot(t, account) PROVE OpsInv'
    BY <2>9, SnapshotKeeps, Zenon
  <2> QED BY <2>1, <2>2, <2>3, <2>4, <2>5, <2>6, <2>7, <2>8, <2>9, Zenon DEF OpsNext
<1>3. OpsInv => OperationsAreSound
  BY OpsInvImplies, Zenon
<1> QED BY <1>1, <1>2, <1>3, PTL DEF OpsSpec

-----------------------------------------------------------------------------
(* The command-line process                                                *)

\* A drain is seen only by a main that waits with no connection left, or has
\* ended since; connections are a count.
DrainIsOver == conns \in Nat /\ (drained /\ main # "exited" => main = "waiting" /\ conns = 0)

LEMMA ProcessStepKeeps ==
    ASSUME ProcessIsHonest, DrainIsOver, [ProcNext]_procVars
    PROVE  ProcessIsHonest' /\ DrainIsOver'
<1> USE DEF ProcessIsHonest, ExitCodeIsTrue, NoOrphan, DrainIsOver, Alive, parentVars, childVars
<1>1. ASSUME ChildStep, UNCHANGED parentVars PROVE ProcessIsHonest' /\ DrainIsOver'
  <2>1. CASE Prepare
    BY <1>1, <2>1 DEF Prepare, Exit
  <2>2. CASE Arm \/ SendShutdown \/ Elapse
    BY <1>1, <2>2 DEF Arm, SendShutdown, Elapse
  <2>3. CASE StartServer \/ ReceiveShutdown
    BY <1>1, <2>3 DEF StartServer, ReceiveShutdown, Exit
  <2>4. CASE WaitEnds
    BY <1>1, <2>4 DEF WaitEnds, Exit
  <2>5. CASE Connect \/ Disconnect
    BY <1>1, <2>5 DEF Connect, Disconnect
  <2>6. CASE AcceptFails \/ Drain
    BY <1>1, <2>6 DEF AcceptFails, Drain
  <2> QED BY <1>1, <2>1, <2>2, <2>3, <2>4, <2>5, <2>6, Zenon DEF ChildStep
\* A signal ends a process without handlers, with a code of its own.
<1>2. ASSUME Terminate, process' = process PROVE ProcessIsHonest' /\ DrainIsOver'
  BY <1>2 DEF Terminate, Exit
<1>3. CASE Signal \/ Stop \/ Interrupt
  BY <1>2, <1>3, Zenon DEF Signal, Stop, Interrupt
<1>4. CASE Start
  BY <1>4 DEF Start
<1>5. CASE Kill
  BY <1>5, Zenon DEF Kill, Exit
<1>6. CASE Wait \/ Reap
  BY <1>6 DEF Wait, Reap
<1>7. CASE UNCHANGED procVars
  BY <1>7, Zenon DEF procVars
<1> QED BY <1>1, <1>3, <1>4, <1>5, <1>6, <1>7, Zenon DEF ProcNext

\* An exit code of 0 after serving means that no connection was cut and the
\* accept loop never failed, and a running child is always held by its owner
\* (lib.rs, run_cli; subprocess.py, ServerProcess), for any number of
\* connections and starts and any grace.
THEOREM ProcessesAreHonest == ProcSpec => []ProcessIsHonest
<1>1. ProcInit => ProcessIsHonest /\ DrainIsOver
  BY DEF ProcInit, ChildInit, ProcessIsHonest, ExitCodeIsTrue, NoOrphan, DrainIsOver, Alive
<1>2. ProcessIsHonest /\ DrainIsOver /\ [ProcNext]_procVars => ProcessIsHonest' /\ DrainIsOver'
  BY ProcessStepKeeps, Zenon
<1> QED BY <1>1, <1>2, PTL DEF ProcSpec

-----------------------------------------------------------------------------
(* Tunnels in Python                                                       *)

PyTunnelTyped ==
    /\ shuttle \in {"none", "select", "pushing", "writing", "ended"}
    /\ load \in Nat /\ read \in Nat /\ written \in Nat /\ accepted \in Nat
    /\ toPython \in Seq(Nat) /\ toRuntime \in Seq(Nat) /\ received \in Seq(Nat)
    /\ pycall \in [Pythons -> {"idle", "receiving", "sending"}]
    /\ rx \in {"none", "here", "out", "gone"}

\* The receiver is out while a thread, and only one, waits in recv(); a send()
\* in progress began after the handshake.
CallsHold ==
    /\ \A t \in Pythons : pycall[t] = "receiving" => rx = "out"
    /\ \A t, u \in Pythons : pycall[t] = "receiving" /\ pycall[u] = "receiving" => t = u
    /\ \A t \in Pythons : pycall[t] = "sending" => shuttle # "none"

\* Nothing moves before the handshake is accepted, and it is accepted once.
BeforeAccept ==
    /\ capability = "offered" => shuttle = "none"
    /\ shuttle = "none" => /\ why = "none" /\ read = 0 /\ written = 0 /\ accepted = 0 /\ ~ tx
                           /\ toPython = <<>> /\ toRuntime = <<>> /\ received = <<>>
    /\ shuttle # "none" <=> rx # "none"
    /\ why # "none" => shuttle = "ended"

\* Towards Python: what recv() returned, what the channel holds and what the
\* shuttle carries are the frames read, in order; the error item comes last.
TowardsPython ==
    /\ \A i \in 1..Len(received) : received[i] = i
    /\ rx # "gone" =>
        /\ Len(toPython) <= TunnelBound
        /\ \A i \in 1..Len(toPython) :
              \/ toPython[i] = Len(received) + i
              \/ toPython[i] = 0 /\ i = Len(toPython) /\ shuttle = "ended"
        /\ shuttle \in {"none", "select", "writing"} => read = Len(received) + Len(toPython)
        /\ shuttle = "pushing" =>
              \/ load = 0 /\ read = Len(received) + Len(toPython)
              \/ load = read /\ read = Len(received) + Len(toPython) + 1
        /\ read <= Len(received) + Len(toPython) + 1

\* Towards the peer: what was written, what the channel holds and the one
\* frame being written are the frames send() handed over.
TowardsPeer ==
    /\ Len(toRuntime) <= TunnelBound
    /\ shuttle \in {"none", "select", "pushing"} => accepted = written + Len(toRuntime)
    /\ shuttle = "writing" => accepted = written + Len(toRuntime) + 1
    /\ written + Len(toRuntime) <= accepted /\ accepted <= written + Len(toRuntime) + 1

PyTunnelInv ==
    PyTunnelTyped /\ CallsHold /\ BeforeAccept /\ TowardsPython /\ TowardsPeer /\ CloseFlushes

LEMMA PyTunnelInitHolds == PyTunnelInit => PyTunnelInv
<1> SUFFICES ASSUME PyTunnelInit PROVE PyTunnelInv
  BY Zenon
<1> USE TunnelBoundAssumption DEF PyTunnelInit
<1>1. PyTunnelTyped
  <2>1. toPython \in Seq(Nat) /\ toRuntime \in Seq(Nat) /\ received \in Seq(Nat)
    OBVIOUS
  <2>2. pycall \in [Pythons -> {"idle", "receiving", "sending"}]
    BY Zenon
  <2>3. /\ load \in Nat /\ read \in Nat /\ written \in Nat /\ accepted \in Nat
    BY Zenon
  <2> QED  BY <2>1, <2>2, <2>3, Zenon DEF PyTunnelTyped
<1>2. CallsHold
  BY Zenon DEF CallsHold
<1>3. BeforeAccept
  BY Zenon DEF BeforeAccept
<1>4. TowardsPython
  BY DEF TowardsPython
<1>5. TowardsPeer /\ CloseFlushes
  BY DEF TowardsPeer, CloseFlushes
<1> QED BY <1>1, <1>2, <1>3, <1>4, <1>5, Zenon DEF PyTunnelInv

LEMMA TailOf ==
    ASSUME NEW s \in Seq(Nat), s # <<>>
    PROVE  /\ Tail(s) \in Seq(Nat) /\ Len(Tail(s)) = Len(s) - 1 /\ Len(s) > 0
           /\ Head(s) = s[1] /\ s[1] \in Nat
           /\ \A i \in 1..Len(Tail(s)) : Tail(s)[i] = s[i + 1]
<1>1. Len(s) \in Nat /\ Len(s) > 0
  OBVIOUS
<1>2. Tail(s) \in Seq(Nat) /\ Len(Tail(s)) = Len(s) - 1
  BY <1>1
<1>3. Head(s) = s[1] /\ s[1] \in Nat
  BY <1>1
<1>4. \A i \in 1..Len(Tail(s)) : Tail(s)[i] = s[i + 1]
  BY <1>1, <1>2
<1> QED BY <1>1, <1>2, <1>3, <1>4, Zenon

LEMMA AppendTo ==
    ASSUME NEW s \in Seq(Nat), NEW x \in Nat
    PROVE  /\ Append(s, x) \in Seq(Nat) /\ Len(Append(s, x)) = Len(s) + 1 /\ Len(s) \in Nat
           /\ \A i \in 1..(Len(s) + 1) : Append(s, x)[i] = IF i = Len(s) + 1 THEN x ELSE s[i]
OBVIOUS

\* The steps of the peer and of the runtime around the shuttle.
LEMMA AroundKeeps ==
    ASSUME PyTunnelInv, Accept \/ PeerSends \/ PeerEnds \/ CancelLifecycle \/ Abort \/ SelectCancelled
    PROVE  PyTunnelInv'
<1> USE DEF PyTunnelInv, PyTunnelTyped, CallsHold, BeforeAccept, TowardsPython, TowardsPeer, CloseFlushes
<1>1. CASE Accept
  BY <1>1, TunnelBoundAssumption DEF Accept
<1>2. CASE PeerSends \/ PeerEnds \/ CancelLifecycle
  BY <1>2, Zenon DEF PeerSends, PeerEnds, CancelLifecycle, shuttleVars, pythonVars
<1>3. CASE Abort \/ SelectCancelled
  BY <1>3, Zenon DEF Abort, SelectCancelled, Ends, pythonVars
<1> QED BY <1>1, <1>2, <1>3, Zenon

LEMMA ShuttleKeeps ==
    ASSUME PyTunnelInv, SelectRead \/ SelectTake \/ Push \/ WriteAll
    PROVE  PyTunnelInv'
<1> USE DEF PyTunnelInv, pythonVars
<1>1. CASE SelectRead
  <2> USE <1>1 DEF SelectRead, Ends, Carries
  <2>1. PyTunnelTyped'
    BY DEF PyTunnelTyped
  <2>2. CallsHold' /\ BeforeAccept'
    BY Zenon DEF CallsHold, BeforeAccept, PyTunnelTyped
  <2>3. TowardsPython'
    BY DEF TowardsPython, PyTunnelTyped
  <2>4. TowardsPeer' /\ CloseFlushes'
    BY Zenon DEF TowardsPeer, CloseFlushes, BeforeAccept
  <2> QED BY <2>1, <2>2, <2>3, <2>4, Zenon
<1>2. CASE SelectTake
  <2> USE <1>2 DEF SelectTake, Ends, Carries
  <2>1. CASE toRuntime = <<>>
    BY <2>1 DEF PyTunnelTyped, CallsHold, BeforeAccept, TowardsPython, TowardsPeer, CloseFlushes
  <2>2. CASE toRuntime # <<>>
    <3>1. toRuntime \in Seq(Nat)
      BY Zenon DEF PyTunnelTyped
    <3>2. toRuntime' = Tail(toRuntime) /\ shuttle = "select" /\ shuttle' = "writing" /\ load' = Head(toRuntime)
          /\ UNCHANGED <<capability, why, read, written, toPython, rx, tx, pycall, accepted, received>>
      BY <2>2, Zenon
    <3>3. toRuntime' \in Seq(Nat) /\ Len(toRuntime') = Len(toRuntime) - 1 /\ Len(toRuntime) > 0 /\ load' \in Nat
      BY <2>2, <3>1, <3>2, TailOf, Zenon
    <3> HIDE DEF SelectTake, Ends, Carries
    <3>4. PyTunnelTyped'
      BY <3>2, <3>3, Zenon DEF PyTunnelTyped
    <3>5. CallsHold' /\ BeforeAccept' /\ CloseFlushes'
      BY <3>2, Zenon DEF CallsHold, BeforeAccept, CloseFlushes
    <3>6. TowardsPython'
      BY <3>2, <3>3, Zenon DEF TowardsPython, PyTunnelTyped
    <3>7. TowardsPeer'
      <4>1. written \in Nat /\ accepted \in Nat /\ Len(toRuntime) \in Nat /\ TunnelBound \in Nat
        BY <3>1, TunnelBoundAssumption DEF PyTunnelTyped
      <4> QED BY <3>2, <3>3, <4>1 DEF TowardsPeer
    <3> QED BY <3>4, <3>5, <3>6, <3>7, Zenon
  <2> QED BY <2>1, <2>2, Zenon
<1>3. CASE Push
  <2> USE <1>3 DEF Push, Ends, Carries
  <2>1. CASE rx = "gone"
    BY <2>1, Zenon DEF PyTunnelTyped, CallsHold, BeforeAccept, TowardsPython, TowardsPeer, CloseFlushes
  <2>2. CASE rx # "gone"
    <3>1. toPython \in Seq(Nat) /\ load \in Nat
      BY Zenon DEF PyTunnelTyped
    <3>2. toPython' = Append(toPython, load) /\ Len(toPython) < TunnelBound /\ shuttle = "pushing" /\ load' = load
          /\ UNCHANGED <<capability, read, written, toRuntime, rx, tx, pycall, accepted, received>>
          /\ \/ load = 0 /\ shuttle' = "ended" /\ why' = "broken"
             \/ load # 0 /\ shuttle' = "select" /\ why' = why
      BY <2>2, Zenon
    <3>3. toPython' \in Seq(Nat) /\ Len(toPython') = Len(toPython) + 1 /\ Len(toPython) \in Nat
          /\ \A i \in 1..(Len(toPython) + 1) : toPython'[i] = IF i = Len(toPython) + 1 THEN load ELSE toPython[i]
      BY <3>1, <3>2, AppendTo, Zenon
    <3> HIDE DEF Push, Ends, Carries
    <3>4. PyTunnelTyped'
      BY <3>2, <3>3, Zenon DEF PyTunnelTyped
    <3>5. CallsHold' /\ BeforeAccept' /\ CloseFlushes'
      BY <3>2, Zenon DEF CallsHold, BeforeAccept, CloseFlushes
    <3>6. TowardsPython'
      <4>1. received \in Seq(Nat) /\ Len(received) \in Nat /\ read \in Nat /\ TunnelBound \in Nat
        BY TunnelBoundAssumption DEF PyTunnelTyped
      <4>2. \A i \in 1..Len(toPython) : toPython[i] = Len(received) + i
        BY <2>2, <3>2, Zenon DEF TowardsPython
      <4>3. \/ load = 0 /\ read = Len(received) + Len(toPython)
            \/ load = read /\ read = Len(received) + Len(toPython) + 1
        BY <2>2, <3>2, Zenon DEF TowardsPython
      <4>4. \A i \in 1..Len(toPython') :
                \/ toPython'[i] = Len(received) + i
                \/ toPython'[i] = 0 /\ i = Len(toPython') /\ shuttle' = "ended"
        <5>1. (load = 0 /\ shuttle' = "ended") \/ load = Len(received) + (Len(toPython) + 1)
          BY <3>2, <3>3, <4>1, <4>3
        <5> TAKE i \in 1..Len(toPython')
        <5>2. i \in 1..(Len(toPython) + 1)
          BY <3>3, Zenon
        <5>3. CASE i = Len(toPython) + 1
          BY <3>3, <5>1, <5>2, <5>3, Zenon
        <5>4. CASE i # Len(toPython) + 1
          <6>1. i \in 1..Len(toPython)
            BY <3>3, <5>2, <5>4
          <6>2. toPython'[i] = toPython[i]
            BY <3>3, <5>2, <5>4, Zenon
          <6> QED BY <4>2, <6>1, <6>2, Zenon
        <5> QED BY <5>3, <5>4, Zenon
      <4>5. \A i \in 1..Len(received) : received[i] = i
        BY Zenon DEF TowardsPython
      <4> QED BY <3>1, <3>2, <3>3, <4>1, <4>3, <4>4, <4>5 DEF TowardsPython
    <3>7. TowardsPeer'
      BY <3>2, Zenon DEF TowardsPeer, PyTunnelTyped
    <3> QED BY <3>4, <3>5, <3>6, <3>7, Zenon
  <2> QED BY <2>1, <2>2, Zenon
<1>4. CASE WriteAll
  BY <1>4 DEF WriteAll, Ends, Carries, PyTunnelTyped, CallsHold, BeforeAccept, TowardsPython, TowardsPeer, CloseFlushes
<1> QED BY <1>1, <1>2, <1>3, <1>4, Zenon

LEMMA PythonCallKeeps ==
    ASSUME PyTunnelInv, NEW t \in Pythons, Recv(t) \/ Send1(t) \/ Close(t) \/ Returns(t)
    PROVE  PyTunnelInv'
<1> USE DEF PyTunnelInv, shuttleVars
<1>1. CASE Recv(t)
  <2> USE <1>1 DEF Recv
  <2>1. PyTunnelTyped'
    BY Zenon DEF PyTunnelTyped
  <2>2. CallsHold'
    BY Zenon DEF CallsHold, BeforeAccept, PyTunnelTyped
  <2>3. BeforeAccept'
    BY Zenon DEF BeforeAccept
  <2>4. TowardsPython'
    BY Zenon DEF TowardsPython
  <2>5. TowardsPeer' /\ CloseFlushes'
    BY Zenon DEF TowardsPeer, CloseFlushes
  <2> QED BY <2>1, <2>2, <2>3, <2>4, <2>5, Zenon
<1>2. CASE Send1(t)
  <2> USE <1>2 DEF Send1
  <2>1. PyTunnelTyped'
    BY Zenon DEF PyTunnelTyped
  <2>2. CallsHold'
    BY Zenon DEF CallsHold, BeforeAccept, PyTunnelTyped
  <2>3. BeforeAccept'
    BY Zenon DEF BeforeAccept
  <2>4. TowardsPython'
    BY Zenon DEF TowardsPython
  <2>5. TowardsPeer' /\ CloseFlushes'
    BY Zenon DEF TowardsPeer, CloseFlushes
  <2> QED BY <2>1, <2>2, <2>3, <2>4, <2>5, Zenon
<1>3. CASE Close(t)
  <2> USE <1>3 DEF Close
  <2>1. PyTunnelTyped'
    BY DEF PyTunnelTyped
  <2>2. CallsHold'
    BY Zenon DEF CallsHold, BeforeAccept, PyTunnelTyped
  <2>3. BeforeAccept'
    BY Zenon DEF BeforeAccept
  <2>4. TowardsPython'
    BY Zenon DEF TowardsPython
  <2>5. TowardsPeer' /\ CloseFlushes'
    BY Zenon DEF TowardsPeer, CloseFlushes
  <2> QED BY <2>1, <2>2, <2>3, <2>4, <2>5, Zenon
<1>4. CASE SendReturns(t)
  <2> USE <1>4 DEF SendReturns
  <2>1. CASE shuttle = "ended"
    BY <2>1 DEF PyTunnelTyped, CallsHold, BeforeAccept, TowardsPython, TowardsPeer, CloseFlushes
  <2>2. CASE shuttle # "ended"
    <3>1. toRuntime \in Seq(Nat) /\ accepted \in Nat
      BY Zenon DEF PyTunnelTyped
    <3>2. toRuntime' = Append(toRuntime, accepted + 1) /\ accepted' = accepted + 1 /\ Len(toRuntime) < TunnelBound
          /\ UNCHANGED <<capability, shuttle, why, load, read, written, toPython, rx, tx, received>>
          /\ pycall' = [pycall EXCEPT ![t] = "idle"] /\ pycall[t] = "sending"
      BY <2>2, Zenon
    <3>3. toRuntime' \in Seq(Nat) /\ Len(toRuntime') = Len(toRuntime) + 1 /\ Len(toRuntime) \in Nat
      BY <3>1, <3>2, AppendTo
    <3> HIDE DEF SendReturns
    <3>4. PyTunnelTyped'
      BY <3>2, <3>3 DEF PyTunnelTyped
    <3>5. shuttle # "none"
      BY <3>2, Zenon DEF CallsHold
    <3>6. CallsHold'
      BY <3>2, Zenon DEF CallsHold, PyTunnelTyped
    <3>7. BeforeAccept' /\ CloseFlushes'
      BY <2>2, <3>2, <3>5, Zenon DEF BeforeAccept, CloseFlushes
    <3>8. TowardsPython'
      BY <3>2, Zenon DEF TowardsPython
    <3>9. TowardsPeer'
      BY <2>2, <3>1, <3>2, <3>3, TunnelBoundAssumption DEF TowardsPeer, PyTunnelTyped
    <3> QED BY <3>4, <3>6, <3>7, <3>8, <3>9, Zenon
  <2> QED BY <2>1, <2>2, Zenon
<1>5. CASE RecvReturns(t)
  <2> USE <1>5 DEF RecvReturns
  <2>1. CASE toPython = <<>>
    BY <2>1 DEF PyTunnelTyped, CallsHold, BeforeAccept, TowardsPython, TowardsPeer, CloseFlushes
  <2>2. CASE toPython # <<>>
    <3>1. toPython \in Seq(Nat) /\ received \in Seq(Nat)
      BY Zenon DEF PyTunnelTyped
    <3>2. toPython' = Tail(toPython) /\ rx = "out" /\ shuttle # "none"
          /\ UNCHANGED <<capability, shuttle, why, load, read, written, toRuntime, tx, accepted>>
          /\ pycall' = [pycall EXCEPT ![t] = "idle"] /\ pycall[t] = "receiving"
          /\ \/ Head(toPython) = 0 /\ rx' = "gone" /\ received' = received
             \/ Head(toPython) # 0 /\ rx' = "here" /\ received' = Append(received, Head(toPython))
      BY <2>2, Zenon DEF CallsHold, BeforeAccept
    <3>3. /\ toPython' \in Seq(Nat) /\ Len(toPython') = Len(toPython) - 1 /\ Len(toPython) > 0
          /\ Head(toPython) = toPython[1] /\ toPython[1] \in Nat
          /\ \A i \in 1..Len(toPython') : toPython'[i] = toPython[i + 1]
      BY <2>2, <3>1, <3>2, TailOf, Zenon
    <3> HIDE DEF RecvReturns
    <3>4. received' \in Seq(Nat)
      <4>1. Append(received, toPython[1]) \in Seq(Nat)
        BY <3>1, <3>3, AppendTo, Zenon
      <4> QED BY <3>1, <3>2, <3>3, <4>1, Zenon
    <3>5. PyTunnelTyped'
      BY <3>2, <3>3, <3>4, Zenon DEF PyTunnelTyped
    <3>6. CallsHold'
      BY <3>2, Zenon DEF CallsHold, PyTunnelTyped
    <3>7. BeforeAccept' /\ CloseFlushes' /\ TowardsPeer'
      BY <3>2, Zenon DEF BeforeAccept, CloseFlushes, TowardsPeer
    <3>8. TowardsPython'
      <4>1. CASE rx' = "gone"
        BY <3>2, <4>1, Zenon DEF TowardsPython
      <4>2. CASE rx' # "gone"
        <5>0. 1 \in 1..Len(toPython) /\ toPython[1] # 0 /\ rx # "gone" /\ Len(toPython) \in Nat
          BY <3>1, <3>2, <3>3, <4>2
        <5>1. toPython[1] = Len(received) + 1
          BY <5>0, Zenon DEF TowardsPython
        <5>2. received' = Append(received, Len(received) + 1) /\ Len(received) \in Nat
          BY <3>1, <3>2, <3>3, <4>2, <5>1
        <5>3. Len(received') = Len(received) + 1
              /\ \A i \in 1..(Len(received) + 1) : received'[i] = IF i = Len(received) + 1 THEN Len(received) + 1 ELSE received[i]
          BY <3>1, <5>2, AppendTo
        <5>4. \A i \in 1..Len(received') : received'[i] = i
          BY <5>2, <5>3 DEF TowardsPython
        <5>5. read \in Nat /\ TunnelBound \in Nat
          BY TunnelBoundAssumption, Zenon DEF PyTunnelTyped
        <5>6. shuttle' = shuttle /\ read' = read /\ load' = load
          BY <3>2, Zenon
        <5>7. \A i \in 1..Len(toPython') :
                 \/ toPython'[i] = Len(received') + i
                 \/ toPython'[i] = 0 /\ i = Len(toPython') /\ shuttle' = "ended"
          <6> TAKE i \in 1..Len(toPython')
          <6>1. i + 1 \in 1..Len(toPython) /\ toPython'[i] = toPython[i + 1] /\ i \in Nat
            BY <3>3, <5>0
          <6>2. \/ toPython[i + 1] = Len(received) + (i + 1)
                \/ toPython[i + 1] = 0 /\ i + 1 = Len(toPython) /\ shuttle = "ended"
            BY <5>0, <6>1, Zenon DEF TowardsPython
          <6>3. Len(received') + i = Len(received) + (i + 1) /\ (i + 1 = Len(toPython) => i = Len(toPython'))
            BY <3>3, <5>0, <5>2, <5>3, <6>1
          <6> QED BY <5>6, <6>1, <6>2, <6>3, Zenon
        <5>8. Len(received') + Len(toPython') = Len(received) + Len(toPython)
          BY <3>3, <5>0, <5>2, <5>3
        <5>9. Len(toPython') <= TunnelBound
          BY <3>3, <5>0, <5>5 DEF TowardsPython
        <5> QED BY <5>0, <5>4, <5>6, <5>7, <5>8, <5>9, Zenon DEF TowardsPython
      <4> QED BY <4>1, <4>2, Zenon
    <3> QED BY <3>5, <3>6, <3>7, <3>8, Zenon
  <2> QED BY <2>1, <2>2, Zenon
<1> QED BY <1>1, <1>2, <1>3, <1>4, <1>5, Zenon DEF Returns

\* Frames cross a Python tunnel in order, once and without a gap, at most a
\* channel and one frame in flight each way, and a close flushes what send()
\* took (tunnel_bridge.rs), for any threads and any channel bound.
THEOREM PythonTunnelsAreSound == PyTunnelSpec => []PythonTunnelSound
<1>1. PyTunnelInit => PyTunnelInv
  BY PyTunnelInitHolds, Zenon
<1>2. PyTunnelInv /\ [PyTunnelNext]_pyTunnelVars => PyTunnelInv'
  <2> SUFFICES ASSUME PyTunnelInv, [PyTunnelNext]_pyTunnelVars PROVE PyTunnelInv'
    BY Zenon
  <2>1. CASE UNCHANGED pyTunnelVars
    BY <2>1, Zenon DEF PyTunnelInv, PyTunnelTyped, CallsHold, BeforeAccept, TowardsPython, TowardsPeer, CloseFlushes, pyTunnelVars
  <2> QED BY <2>1, AroundKeeps, ShuttleKeeps, PythonCallKeeps, Zenon DEF PyTunnelNext, Shuttle
<1>3. PyTunnelInv => PythonTunnelSound
  <2> SUFFICES ASSUME PyTunnelInv PROVE PythonTunnelSound
    BY Zenon
  <2> USE DEF PyTunnelInv, PyTunnelTyped
  <2>1. received = [i \in 1..Len(received) |-> i]
    BY DEF TowardsPython
  <2>2. written <= accepted /\ accepted - written <= TunnelBound + 1
    BY TunnelBoundAssumption DEF TowardsPeer
  <2>3. read - Len(received) <= TunnelBound + 1 \/ rx = "gone"
    BY TunnelBoundAssumption DEF TowardsPython
  <2> QED BY <2>1, <2>2, <2>3, Zenon DEF PythonTunnelSound, FramesInOrder
<1> QED BY <1>1, <1>2, <1>3, PTL DEF PyTunnelSpec
=============================================================================
