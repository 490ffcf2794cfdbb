-------------------------------- MODULE Server --------------------------------
(***************************************************************************)
(* The direct TCP server of eggserve-server: the accept task with its      *)
(* JoinSet of connection tasks, the connection permits, the accept-error   *)
(* policy, the bounded graceful drain, and the handles through which a     *)
(* caller stops the server and observes its result.  The shutdown token is *)
(* the level-triggered flag that ShutdownTokens justifies.                 *)
(***************************************************************************)
EXTENDS Naturals, FiniteSets

CONSTANTS Conns,           \* streams that peers may open
          MaxConnections   \* config.max_connections

ASSUME ConnsAssumption == IsFiniteSet(Conns)

\* RuntimeConfig::validate rejects zero.
ASSUME MaxConnectionsAssumption == MaxConnections \in Nat \ {0}

VARIABLES flag,            \* the ServerShutdown flag
          accept,          \* where the accept task is
          task,            \* the fate of each stream and its task
          joined,          \* tasks already removed from the JoinSet
          permits,         \* available permits of the connection semaphore
          terminal_error,  \* terminal_error.is_some()
          result,          \* what the accept task returned
          completion       \* the ServerCompletion

conns == <<task, joined, permits>>
vars == <<flag, accept, task, joined, permits, terminal_error, result, completion>>

Live == {c \in Conns : task[c] \in {"running", "stopping"}}

\* Tasks the JoinSet still holds.
Owned == {c \in Conns : task[c] \notin {"none", "rejected"}} \ joined

TypeOK ==
    /\ flag \in BOOLEAN
    /\ accept \in {"select", "backoff", "drain", "reap", "returned"}
    /\ task \in [Conns -> {"none", "rejected", "running", "stopping",
                           "ended", "failed", "cancelled"}]
    /\ joined \in SUBSET Conns
    /\ permits \in 0 .. MaxConnections
    /\ terminal_error \in BOOLEAN
    /\ result \in {"none", "Clean", "Timeout", "Terminal"}
    /\ completion \in {"held", "observed", "dropped"}

Init ==
    /\ flag = FALSE
    /\ accept = "select"
    /\ task = [c \in Conns |-> "none"]
    /\ joined = {}
    /\ permits = MaxConnections
    /\ terminal_error = FALSE
    /\ result = "none"
    /\ completion = "held"

-----------------------------------------------------------------------------
(* The caller's handles.                                                   *)

\* ServerHandle::shutdown, ServerControl::shutdown
RequestShutdown ==
    /\ ~flag
    /\ flag' = TRUE
    /\ UNCHANGED <<accept, conns, terminal_error, result, completion>>

\* ServerCompletion::wait, once the accept task is finished: the result is
\* handed out and the join handle is gone, so a second wait is an error.
ObserveResult ==
    /\ completion = "held"
    /\ result # "none"
    /\ completion' = "observed"
    /\ UNCHANGED <<flag, accept, conns, terminal_error, result>>

\* Drop for ServerCompletion
DropCompletion ==
    /\ completion = "held"
    /\ completion' = "dropped"
    /\ flag' = TRUE
    /\ UNCHANGED <<accept, conns, terminal_error, result>>

-----------------------------------------------------------------------------
(* The accept loop.                                                        *)

\* cancelled() wins the select!, or the select! inside the backoff.
StopAccepting ==
    /\ accept \in {"select", "backoff"}
    /\ flag
    /\ accept' = "drain"
    /\ UNCHANGED <<flag, conns, terminal_error, result, completion>>

\* Mutant: a stream is still accepted after the loop was left.
AcceptLate(c) ==
    /\ accept \in {"select", "drain"}
    /\ task[c] = "none"
    /\ permits > 0
    /\ permits' = permits - 1
    /\ task' = [task EXCEPT ![c] = "running"]
    /\ UNCHANGED <<flag, accept, joined, terminal_error, result, completion>>

\* listener.accept() succeeds: with a permit a task is spawned, without one the
\* stream is dropped.
Accept(c) ==
    /\ accept = "select"
    /\ task[c] = "none"
    /\ IF permits > 0
       THEN /\ permits' = permits - 1
            /\ task' = [task EXCEPT ![c] = "running"]
       ELSE /\ task' = [task EXCEPT ![c] = "rejected"]
            /\ UNCHANGED permits
    /\ UNCHANGED <<flag, accept, joined, terminal_error, result, completion>>

\* An accept error that classify_accept_error finds transient: pause, then retry.
AcceptTransient ==
    /\ accept = "select"
    /\ accept' = "backoff"
    /\ UNCHANGED <<flag, conns, terminal_error, result, completion>>

BackoffElapsed ==
    /\ accept = "backoff"
    /\ accept' = "select"
    /\ UNCHANGED <<flag, conns, terminal_error, result, completion>>

\* A persistent accept error ends the loop through the shutdown path.
AcceptFatal ==
    /\ accept = "select"
    /\ flag' = TRUE
    /\ accept' = "drain"
    /\ UNCHANGED <<conns, terminal_error, result, completion>>

\* join_next() in the select!: a finished task is reaped; one that panicked
\* records the error and stops the server.
JoinNext(c) ==
    /\ accept = "select"
    /\ c \in Owned \ Live
    /\ joined' = joined \cup {c}
    /\ IF task[c] = "ended"
       THEN UNCHANGED <<flag, accept, terminal_error>>
       ELSE flag' = TRUE /\ accept' = "drain" /\ terminal_error' = TRUE
    /\ UNCHANGED <<task, permits, result, completion>>

-----------------------------------------------------------------------------
(* Connection tasks.  The permit lives in the task's future, so it is      *)
(* released when that future completes, unwinds or is dropped by an abort. *)

\* The relay sees the server flag and signals the connection's own token.
Relay(c) ==
    /\ task[c] = "running"
    /\ flag
    /\ task' = [task EXCEPT ![c] = "stopping"]
    /\ UNCHANGED <<flag, accept, joined, permits, terminal_error, result, completion>>

EndTask(c, how) ==
    /\ c \in Live
    /\ task' = [task EXCEPT ![c] = how]
    /\ permits' = permits + 1
    /\ UNCHANGED <<flag, accept, joined, terminal_error, result, completion>>

\* serve returned, before or after shutdown.
Finish(c) == EndTask(c, "ended")

\* A panic outside service execution reaches the task boundary.
Panic(c) == EndTask(c, "failed")

-----------------------------------------------------------------------------
(* The drain.                                                              *)

\* Mutant: an error joined during the drain is dropped.
DrainJoinQuiet(c) ==
    /\ accept = "drain"
    /\ c \in Owned \ Live
    /\ joined' = joined \cup {c}
    /\ UNCHANGED <<flag, accept, task, permits, terminal_error, result, completion>>

DrainJoin(c) ==
    /\ accept = "drain"
    /\ c \in Owned \ Live
    /\ joined' = joined \cup {c}
    /\ terminal_error' = (terminal_error \/ task[c] # "ended")
    /\ UNCHANGED <<flag, accept, task, permits, result, completion>>

\* graceful_shutdown_timeout expires first: abort_all.
DrainTimeout ==
    /\ accept = "drain"
    /\ Owned # {}
    /\ accept' = "reap"
    /\ UNCHANGED <<flag, conns, terminal_error, result, completion>>

\* The runtime drops the future of an aborted task.
AbortTask(c) == accept = "reap" /\ EndTask(c, "cancelled")

ReapAborted(c) ==
    /\ accept = "reap"
    /\ c \in Owned \ Live
    /\ joined' = joined \cup {c}
    /\ UNCHANGED <<flag, accept, task, permits, terminal_error, result, completion>>

ReturnDrained ==
    /\ accept = "drain"
    /\ Owned = {}
    /\ accept' = "returned"
    /\ result' = IF terminal_error THEN "Terminal" ELSE "Clean"
    /\ UNCHANGED <<flag, conns, terminal_error, completion>>

ReturnTimeout ==
    /\ accept = "reap"
    /\ Owned = {}
    /\ accept' = "returned"
    /\ result' = "Timeout"
    /\ UNCHANGED <<flag, conns, terminal_error, completion>>

-----------------------------------------------------------------------------
AcceptTask ==
    \/ StopAccepting
    \/ BackoffElapsed
    \/ DrainTimeout
    \/ ReturnDrained
    \/ ReturnTimeout
    \/ \E c \in Conns : JoinNext(c) \/ DrainJoin(c) \/ ReapAborted(c)

Next ==
    \/ RequestShutdown \/ ObserveResult \/ DropCompletion
    \/ AcceptTransient \/ AcceptFatal
    \/ AcceptTask
    \/ \E c \in Conns :
          Accept(c) \/ Relay(c) \/ Finish(c) \/ Panic(c) \/ AbortTask(c)

\* The accept task is polled, its drain timer fires and aborted futures are
\* dropped.  select! polls its arms in random order, so an arm that is ready at
\* infinitely many turns of the loop is not passed over for ever: weak fairness
\* for cancelled(), which stays ready, and strong fairness for join_next(),
\* which a backoff interrupts.  Nothing obliges a connection to finish.
Fairness ==
    /\ WF_vars(AcceptTask)
    /\ WF_vars(StopAccepting)
    /\ SF_vars(\E c \in Conns : JoinNext(c))
    /\ WF_vars(\E c \in Conns : AbortTask(c))

Spec == Init /\ [][Next]_vars /\ Fairness

-----------------------------------------------------------------------------
(* Properties.                                                             *)

\* Every connection task holds exactly one of the max_connections permits, and
\* gives it back however it ends: return, panic or abort.
PermitsConserved == permits + Cardinality(Live) = MaxConnections

\* "Keep the accept task alive until every runtime-owned connection task has
\* released its permit": when the result is out, no task is left running or
\* unjoined and every permit is back.
ReturnedOwnsNothing ==
    result # "none" => Owned = {} /\ permits = MaxConnections

\* ShutdownResult::Clean means "All in-flight connections completed within the
\* grace period": none was aborted and none panicked, at any time.
CleanIsTruthful ==
    result = "Clean" => \A c \in Conns : task[c] \in {"none", "rejected", "ended"}

\* Requesting shutdown, dropping the completion or a fatal error ends the server
\* although connection tasks may be stuck for ever.
ShutdownCompletes == flag \/ completion = "dropped" ~> result # "none"

\* A connection task that panics brings the server down with a result that
\* says so, or with Timeout.
FailureIsReported ==
    (\E c \in Conns : task[c] = "failed") ~> result \in {"Terminal", "Timeout"}

-----------------------------------------------------------------------------
(* The abstract contract.                                                  *)

\* What the contract calls the fate of a stream.
Fate(c) ==
    CASE task[c] = "none" -> "none"
      [] task[c] = "rejected" -> "refused"
      [] c \in Live -> "held"
      [] OTHER -> "released"

Admission == INSTANCE AdmissionContract
    WITH Streams <- Conns, Limit <- MaxConnections,
         fate <- [c \in Conns |-> Fate(c)],
         closed <- accept \notin {"select", "backoff"}

\* The accept loop keeps the admission contract: within max_connections, no
\* stream dropped while a permit is free, none accepted once the loop is left.
AdmitsWithinLimit == Admission!Spec

\* Ownership is exact at every step: permits are the connections held, through
\* return, panic and abort; a server that returned owns no permit, no task and no
\* listener; and it says Clean only when every connection ended by itself
\* (server.rs, run and its drain).
OwnershipIsExact == PermitsConserved /\ ReturnedOwnsNothing /\ CleanIsTruthful

\* A shutdown request leads to the server's return, and a connection task that
\* panicked is reported by it (server.rs, run).
ServerSettles == ShutdownCompletes /\ FailureIsReported
==============================================================================
