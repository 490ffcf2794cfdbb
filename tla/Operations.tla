----------------------------- MODULE Operations -----------------------------
(***************************************************************************)
(* Observability contexts (eggserve-server/src/ops): threads emit events   *)
(* through contexts of their own, through the process-global context and   *)
(* through the global logger, into sinks that may panic.                   *)
(*                                                                         *)
(* A sink is a shape: children in order, each a FilteredLogSink of a       *)
(* minimum severity around an application's sink or a NopLogSink, and who  *)
(* counts what a child loses:                                              *)
(*   "plain"   one child, no fan-out: whoever contains the panic           *)
(*   "owned"   OpsContext::with_sinks: the context's own counters          *)
(*   "global"  CompositeLogSink::new: the process-global counters          *)
(* A target is a context, or the logger, whose emit contains nothing.      *)
(*                                                                         *)
(* due, got, lost and unwound are history: to which child of a target an   *)
(* event was to go, which got it, which losses an account has to show, and *)
(* which panics left emit.  Events are <<thread, number>>, at most         *)
(* MaxEvents of a thread.                                                  *)
(***************************************************************************)
EXTENDS Naturals, Sequences, FiniteSets

CONSTANTS Emitters, Contexts, Shapes, AppShapes, Severities, MaxEvents

ASSUME OpsAssumption ==
    /\ "global" \notin Contexts /\ "logger" \notin Contexts
    /\ MaxEvents \in Nat /\ Severities \subseteq Nat
    /\ \A s \in Shapes \cup AppShapes :
           /\ s.owner \in {"plain", "owned", "global"}
           /\ s.children \in Seq([min : Nat, kind : {"nop", "app"}, fragile : BOOLEAN])
           /\ s.owner = "plain" => Len(s.children) = 1
    /\ \A s \in AppShapes : s.owner # "owned"

VARIABLES
    sinkOf,     \* the sink each explicit context was built with
    appSink,    \* the sink the application hands to Logger::init
    logger,     \* GLOBAL_LOGGER: a shape, once set
    globalOps,  \* GLOBAL_OPS: the shape of its sink, once set
    op,         \* what each thread is doing
    count,      \* events each thread has begun to emit
    dropped,    \* dropped_log_events of each context
    seen,       \* the last snapshot each thread took, by context
    due, got, lost, unwound

opsVars == <<sinkOf, appSink, logger, globalOps, op, count, dropped, seen, due, got, lost, unwound>>

Targets == Contexts \cup {"global", "logger"}
Accounts == Contexts \cup {"global"}

Unset == [owner |-> "unset", children |-> <<>>]

NopLogSink == [owner |-> "plain", children |-> <<[min |-> 0, kind |-> "nop", fragile |-> FALSE]>>]

\* An application installs a sink of its own.
ASSUME AppSinkAssumption == NopLogSink \notin AppShapes

\* GLOBAL_LOGGER.get_or_init and GLOBAL_OPS.get_or_init.
OrNop(cell) == IF cell = Unset THEN NopLogSink ELSE cell

SinkOf(target) ==
    CASE target = "global" -> globalOps
      [] target = "logger" -> logger
      [] OTHER -> sinkOf[target]

Resting == [at |-> 0, target |-> "logger", severity |-> 0, step |-> "idle"]

OpsInit ==
    /\ sinkOf \in [Contexts -> Shapes]
    /\ appSink \in AppShapes
    /\ logger = Unset
    /\ globalOps = Unset
    /\ op = [t \in Emitters |-> Resting]
    /\ count = [t \in Emitters |-> 0]
    /\ dropped = [a \in Accounts |-> 0]
    /\ seen = [t \in Emitters |-> [a \in Accounts |-> 0]]
    /\ due = {}
    /\ got = {}
    /\ lost = [a \in Accounts |-> <<>>]
    /\ unwound = {}

\* FilteredLogSink::emit, enabled; a NopLogSink takes nothing.
Takes(child, severity) == child.kind = "app" /\ severity >= child.min

Takers(shape, severity) == {i \in DOMAIN shape.children : Takes(shape.children[i], severity)}

\* The event a thread is emitting, as the i-th child of its target sees it.
Entry(t, i) == <<<<t, count[t]>>, op[t].target, i>>

(***************************************************************************)
(* Logger::install: two cells, set one after the other; the first decides  *)
(* the result, the second keeps what it may already hold.                  *)
(***************************************************************************)
Install(t) ==
    /\ op[t] = Resting
    /\ logger = Unset
    /\ logger' = appSink
    /\ op' = [op EXCEPT ![t].step = "adopting"]
    /\ UNCHANGED <<sinkOf, appSink, globalOps, count, dropped, seen, due, got, lost, unwound>>

Adopt(t) ==
    /\ op[t].step = "adopting"
    /\ globalOps' = IF globalOps = Unset THEN appSink ELSE globalOps
    /\ op' = [op EXCEPT ![t] = Resting]
    /\ UNCHANGED <<sinkOf, appSink, logger, count, dropped, seen, due, got, lost, unwound>>

(***************************************************************************)
(* A thread begins an event: Logger::global() and OpsContext::global()     *)
(* install a no-op sink on first use.  emit goes to the sink at once,      *)
(* emit_lazy asks first.                                                   *)
(***************************************************************************)
Begin(t, target, severity, lazy) ==
    /\ op[t] = Resting
    /\ count[t] < MaxEvents
    /\ target = "logger" => ~lazy
    /\ logger' = IF target = "logger" THEN OrNop(logger) ELSE logger
    /\ globalOps' = IF target = "global" THEN OrNop(globalOps) ELSE globalOps
    /\ op' = [op EXCEPT ![t] = [at |-> 1, target |-> target, severity |-> severity,
                                step |-> IF lazy THEN "probe" ELSE "offer"]]
    /\ count' = [count EXCEPT ![t] = @ + 1]
    /\ UNCHANGED <<sinkOf, appSink, dropped, seen, due, got, lost, unwound>>

\* One failure is counted in one account.
CountIn(account, entry) ==
    /\ dropped' = [dropped EXCEPT ![account] = @ + 1]
    /\ lost' = [lost EXCEPT ![account] = Append(@, entry)]

(***************************************************************************)
(* emit_lazy: a composite asks its children in order and stops at the      *)
(* first that takes the severity, which is also the first that can panic.  *)
(***************************************************************************)
emit_lazy(t) ==
    LET o == op[t]
        takers == Takers(SinkOf(o.target), o.severity)
        first == CHOOSE i \in takers : \A j \in takers : i <= j
    IN  /\ o.step = "probe"
        /\ \/ /\ takers = {}
              /\ op' = [op EXCEPT ![t] = Resting]
              /\ UNCHANGED <<dropped, lost>>
           \/ /\ takers # {}
              /\ op' = [op EXCEPT ![t].step = "offer"]
              /\ UNCHANGED <<dropped, lost>>
           \/ /\ takers # {} /\ SinkOf(o.target).children[first].fragile
              /\ op' = [op EXCEPT ![t] = Resting]
              /\ CountIn(o.target, Entry(t, 0))
        /\ UNCHANGED <<sinkOf, appSink, logger, globalOps, count, seen, due, got, unwound>>

\* The sink's emit is entered; a composite without children is done at once.
Offer(t) ==
    LET shape == SinkOf(op[t].target)
    IN  /\ op[t].step = "offer"
        /\ due' = due \cup {Entry(t, i) : i \in Takers(shape, op[t].severity)}
        /\ op' = [op EXCEPT ![t] = IF shape.children = <<>> THEN Resting ELSE [@ EXCEPT !.step = "emit"]]
        /\ UNCHANGED <<sinkOf, appSink, logger, globalOps, count, dropped, seen, got, lost, unwound>>

\* The thread is done with a child of the sink and goes on to the next.
Onward(t) ==
    LET o == op[t]
    IN  op' = [op EXCEPT ![t] = IF o.at < Len(SinkOf(o.target).children)
                                THEN [o EXCEPT !.at = o.at + 1] ELSE Resting]

Deliver(t) ==
    LET o == op[t]
    IN  /\ o.step = "emit"
        /\ got' = IF Takes(SinkOf(o.target).children[o.at], o.severity)
                  THEN got \cup {Entry(t, o.at)} ELSE got
        /\ Onward(t)
        /\ UNCHANGED <<sinkOf, appSink, logger, globalOps, count, dropped, seen, due, lost, unwound>>

(***************************************************************************)
(* A child panics.  A composite contains it, counts it and goes on to the  *)
(* siblings; failure_counters() of one built without counters creates the  *)
(* global context.  Without a composite OpsContext::emit contains it, and  *)
(* Logger::emit does not.                                                  *)
(***************************************************************************)
failure_countersGlobal(target) == "global"

failure_counters(target) ==
    IF SinkOf(target).owner = "global" THEN "global" ELSE target

SinkPanics(t) ==
    LET o == op[t]
        shape == SinkOf(o.target)
        child == shape.children[o.at]
    IN  /\ o.step = "emit"
        /\ child.fragile /\ Takes(child, o.severity)
        /\ IF o.target = "logger" /\ shape.owner = "plain"
           THEN /\ unwound' = unwound \cup {Entry(t, o.at)}
                /\ UNCHANGED <<dropped, lost, globalOps>>
           ELSE /\ CountIn(failure_counters(o.target), Entry(t, o.at))
                /\ globalOps' = IF shape.owner = "global" THEN OrNop(globalOps) ELSE globalOps
                /\ UNCHANGED unwound
        /\ Onward(t)
        /\ UNCHANGED <<sinkOf, appSink, logger, count, seen, due, got>>

\* OpsCounters::snapshot reads and never resets.
Snapshot(t, account) ==
    /\ op[t] = Resting
    /\ account = "global" => globalOps # Unset
    /\ seen[t][account] # dropped[account]
    /\ seen' = [seen EXCEPT ![t][account] = dropped[account]]
    /\ UNCHANGED <<sinkOf, appSink, logger, globalOps, op, count, dropped, due, got, lost, unwound>>

OpsNext ==
    \E t \in Emitters :
        \/ Install(t) \/ Adopt(t) \/ emit_lazy(t) \/ Offer(t) \/ Deliver(t) \/ SinkPanics(t)
        \/ \E target \in Targets, severity \in Severities, lazy \in BOOLEAN :
               Begin(t, target, severity, lazy)
        \/ \E account \in Accounts : Snapshot(t, account)

OpsSpec == OpsInit /\ [][OpsNext]_opsVars

-----------------------------------------------------------------------------
Losses(a) == {lost[a][n] : n \in DOMAIN lost[a]}

AllLost == UNION {Losses(a) : a \in Accounts}

\* What the threads inside a sink's emit have still to offer.
Pending ==
    {e \in due : \E t \in Emitters :
         /\ op[t].step = "emit"
         /\ \E i \in Takers(SinkOf(op[t].target), op[t].severity) : i >= op[t].at /\ e = Entry(t, i)}

(* Nothing is lost in silence.  Every child that takes an event's severity *)
(* gets it, however its siblings fail, or its panic is counted; each       *)
(* counted panic is counted once, in the context that owns the sink (or,   *)
(* for CompositeLogSink::new, globally), and only Logger::emit lets one    *)
(* through (sinks.rs:139, mod.rs:221 and 113).  A snapshot is never ahead. *)
EventsAreAccounted ==
    /\ due = Pending \cup got \cup unwound \cup {e \in AllLost : e[3] # 0}
    /\ got \cap (AllLost \cup unwound) = {}
    /\ \A a \in Accounts :
           /\ dropped[a] = Len(lost[a]) /\ \A m, n \in DOMAIN lost[a] : lost[a][m] = lost[a][n] => m = n
           /\ \A e \in Losses(a) : a = IF e[3] # 0 /\ SinkOf(e[2]).owner = "global" THEN "global" ELSE e[2]
           /\ \A t \in Emitters : seen[t][a] <= dropped[a]
    /\ \A e \in unwound : e[2] = "logger"

(* The process-global cells agree: once an install has returned, the       *)
(* global context exists, and it has the installed sink or the no-op sink  *)
(* it was first used with; the sink of a refused install is in neither     *)
(* cell (mod.rs:86, 106 and 211).                                          *)
CellsAgree ==
    /\ globalOps \in {Unset, NopLogSink, appSink}
    /\ globalOps = appSink => logger = appSink
    /\ logger = appSink /\ (\A t \in Emitters : op[t].step # "adopting") => globalOps # Unset

(* Events and the process-global cells (ops/mod.rs, sinks.rs): the two     *)
(* above.                                                                  *)
OperationsAreSound == EventsAreAccounted /\ CellsAgree

(* mod.rs:94 says that a global context created after the application      *)
(* installed its sink observes that sink.  It has a counterexample: the    *)
(* context may be created between the two cells, or by a composite         *)
(* elsewhere that counts a failure.                                        *)
InstalledSinkIsAdopted ==
    [][\A t \in Emitters : Adopt(t) => globalOps' = appSink]_opsVars
=============================================================================
