------------------------------ MODULE CoreServer ------------------------------
(***************************************************************************)
(* The compatibility server of eggserve-core: the Lifecycle state machine  *)
(* with its readiness and terminal channels, the ServerHandle, and the     *)
(* accept task with its JoinSet.  Unlike module Server, whose shutdown is a *)
(* level-triggered flag, this server is stopped by a message on a tokio    *)
(* broadcast channel of capacity 1, and a handle method is several steps:  *)
(* a compare-exchange on the state, then one send after another.  The      *)
(* threads that run them interleave between any two of these steps.        *)
(***************************************************************************)
EXTENDS Naturals, Sequences, FiniteSets

CONSTANTS Callers,         \* threads that borrow the handle: ready(), shutdown()
          Owner,           \* the thread that owns it: wait(), force_shutdown(), drop
          Task,            \* the spawned accept task
          CoreConns,           \* streams that peers may open
          MaxCoreConnections,  \* config.max_connections
          OwnerCalls,      \* what the owner may do: a subset of its three calls
          AcceptErrors,    \* how listener.accept() may fail: "transient", "fatal"
          MaxErrors,       \* bound on transient accept errors
          MaxSignals       \* bound on shutdown() calls of the borrowing threads

ASSUME ThreadsAssumption == Owner # Task /\ Owner \notin Callers /\ Task \notin Callers

ASSUME LimitsAssumption ==
    /\ IsFiniteSet(CoreConns)
    /\ MaxCoreConnections \in Nat \ {0}
    /\ MaxErrors \in Nat
    /\ MaxSignals \in Nat
    /\ OwnerCalls \subseteq {"wait", "force", "drop"}
    /\ AcceptErrors \subseteq {"transient", "fatal"}

Threads == Callers \cup {Owner, Task}

VARIABLES state,           \* Lifecycle::state
          ready,           \* the value the readiness watch channel holds
          ready_rx,        \* callers holding a receiver of that channel
          terminal_sent,   \* messages sent on terminal_tx
          terminal_rx,     \* the owner's position in that channel
          shutdown_sent,   \* messages sent on shutdown_tx
          shutdown_open,   \* the handle still holds shutdown_tx
          task_rx,         \* the accept loop's position in the shutdown channel
          conn_rx,         \* the position of each connection's receiver
          pc,              \* where each thread is
          owes,            \* the sends that the method it is in has still to do
          conn,            \* the fate of each stream and its task
          tasks,           \* the tasks the JoinSet holds
          core_permits,    \* available permits of the connection semaphore
          timed_out,       \* the accept task's local of that name
          aborted,         \* join.abort() was called
          outcome,         \* what the accept task returned
          call,            \* the consuming call the owner made
          errors,          \* transient accept errors so far
          signals          \* shutdown() calls so far

channels == <<ready, ready_rx, terminal_sent, terminal_rx, shutdown_sent, shutdown_open>>
connVars == <<conn_rx, conn, tasks, core_permits>>
taskVars == <<task_rx, timed_out, outcome, errors>>
coreVars == <<state, channels, connVars, taskVars, pc, owes, aborted, call, signals>>

Terminal == {"Stopped", "Failed"}

Active == {c \in CoreConns : conn[c] \in {"serving", "told", "aborting"}}

CoreTypeOK ==
    /\ state \in {"Starting", "Running", "Draining", "Stopped", "Failed"}
    /\ ready \in BOOLEAN /\ ready_rx \subseteq Callers
    /\ terminal_sent \in Nat /\ terminal_rx \in Nat
    /\ shutdown_sent \in Nat /\ shutdown_open \in BOOLEAN
    /\ task_rx \in Nat /\ conn_rx \in [CoreConns -> Nat]
    /\ pc \in [Threads -> {"idle", "ready", "subscribed", "parked", "recheck",
                           "owning", "subscribe", "check", "waiting", "join",
                           "abort", "gone", "spawned", "loop", "backoff", "drain",
                           "draining", "reaping", "stop", "done"}]
    /\ owes \in [Threads -> Seq({"ready", "terminal", "signal", "close"})]
    /\ conn \in [CoreConns -> {"none", "refused", "serving", "told", "aborting",
                           "finished", "cancelled"}]
    /\ tasks \subseteq CoreConns
    /\ core_permits \in 0 .. MaxCoreConnections
    /\ timed_out \in BOOLEAN /\ aborted \in BOOLEAN
    /\ outcome \in {"none", "Clean", "Timeout", "Cancelled"}
    /\ call \in {"none", "wait", "force", "drop"}
    /\ errors \in 0 .. MaxErrors /\ signals \in 0 .. MaxSignals

\* Server::start_with_service has bound its listeners, spawned the accept task
\* and returned the handle.  The receivers that Lifecycle::new made are dropped.
CoreInit ==
    /\ state = "Starting"
    /\ ready = FALSE /\ ready_rx = {}
    /\ terminal_sent = 0 /\ terminal_rx = 0
    /\ shutdown_sent = 0 /\ shutdown_open = TRUE
    /\ task_rx = 0 /\ conn_rx = [c \in CoreConns |-> 0]
    /\ pc = [t \in Threads |-> IF t = Task THEN "spawned"
                               ELSE IF t = Owner THEN "owning" ELSE "idle"]
    /\ owes = [t \in Threads |-> <<>>]
    /\ conn = [c \in CoreConns |-> "none"]
    /\ tasks = {} /\ core_permits = MaxCoreConnections
    /\ timed_out = FALSE /\ aborted = FALSE
    /\ outcome = "none" /\ call = "none"
    /\ errors = 0 /\ signals = 0

\* Thread t is at label l and has finished the sends of its last step.
At(t, l) == pc[t] = l /\ owes[t] = <<>>

Goto(t, l) == pc' = [pc EXCEPT ![t] = l]

-----------------------------------------------------------------------------
(* Channels and transitions of the Lifecycle.                              *)

\* A shutdown receiver at position p has something to return: a message, or
\* Closed once the handle is gone.
Receivable(p) == p < shutdown_sent \/ ~shutdown_open

\* Its position after recv(): a receiver that has fallen behind the one slot of
\* the channel gets Lagged and is moved to the last message.
AfterRecv(p) ==
    IF p + 1 < shutdown_sent THEN shutdown_sent - 1
    ELSE IF p < shutdown_sent THEN p + 1 ELSE p

\* watch::Sender::send, broadcast::Sender::send and the end of the handle.  A
\* watch channel without receivers refuses the value and keeps the old one.
Send(t) ==
    /\ owes[t] # <<>>
    /\ owes' = [owes EXCEPT ![t] = Tail(@)]
    /\ ready' = (ready \/ (Head(owes[t]) = "ready" /\ ready_rx # {}))
    /\ terminal_sent' = IF Head(owes[t]) = "terminal" THEN terminal_sent + 1 ELSE terminal_sent
    /\ shutdown_sent' = IF Head(owes[t]) = "signal" THEN shutdown_sent + 1 ELSE shutdown_sent
    /\ shutdown_open' = (shutdown_open /\ Head(owes[t]) # "close")
    /\ UNCHANGED <<state, ready_rx, terminal_rx, connVars, taskVars, pc, aborted, call, signals>>

\* Lifecycle::drain_with_ops: its load and compare-exchange loop has the effect
\* of the one exchange that succeeds.  Thread t goes on to label l with the
\* sends `more` to do after those of the transition.
DrainWithOps(t, l, more) ==
    /\ state' = CASE state = "Running" -> "Draining"
                  [] state = "Starting" -> "Stopped"
                  [] OTHER -> state
    /\ owes' = [owes EXCEPT ![t] =
                  (IF state = "Starting" THEN <<"ready", "terminal">> ELSE <<>>) \o more]
    /\ Goto(t, l)

\* Lifecycle::mark_stopped
MarkStopped(t, l, more) ==
    /\ state' = IF state = "Draining" THEN "Stopped" ELSE state
    /\ owes' = [owes EXCEPT ![t] =
                  (IF state = "Draining" THEN <<"terminal">> ELSE <<>>) \o more]
    /\ Goto(t, l)

-----------------------------------------------------------------------------
(* Threads that borrow the handle.  The owner cannot consume it meanwhile. *)

Borrowable == pc[Owner] = "owning"

\* ServerHandle::shutdown
Shutdown(t) ==
    /\ At(t, "idle") /\ Borrowable
    /\ signals < MaxSignals
    /\ signals' = signals + 1
    /\ DrainWithOps(t, "idle", <<"signal">>)
    /\ UNCHANGED <<channels, connVars, taskVars, aborted, call>>

\* ServerHandle::ready reads the state; it only waits in Starting, and answers at
\* once in any other state.
Ready(t) ==
    /\ At(t, "idle") /\ Borrowable
    /\ state = "Starting"
    /\ Goto(t, "ready")
    /\ UNCHANGED <<state, channels, connVars, taskVars, owes, aborted, call, signals>>

\* Lifecycle::wait_ready subscribes ...
WaitReadySubscribe(t) ==
    /\ At(t, "ready")
    /\ ready_rx' = ready_rx \cup {t}
    /\ Goto(t, "subscribed")
    /\ UNCHANGED <<state, ready, terminal_sent, terminal_rx, shutdown_sent, shutdown_open,
                   connVars, taskVars, owes, aborted, call, signals>>

\* ... looks at the value, and waits in changed() unless it is already true ...
WaitReadyBorrow(t) ==
    /\ At(t, "subscribed")
    /\ Goto(t, IF ready THEN "recheck" ELSE "parked")
    /\ UNCHANGED <<state, channels, connVars, taskVars, owes, aborted, call, signals>>

\* ... until the value is sent.
WaitReadyChanged(t) ==
    /\ At(t, "parked") /\ ready
    /\ Goto(t, "recheck")
    /\ UNCHANGED <<state, channels, connVars, taskVars, owes, aborted, call, signals>>

\* The receiver is dropped, ready() reads the state again and returns.
ReadyReturn(t) ==
    /\ At(t, "recheck")
    /\ ready_rx' = ready_rx \ {t}
    /\ Goto(t, "idle")
    /\ UNCHANGED <<state, ready, terminal_sent, terminal_rx, shutdown_sent, shutdown_open,
                   connVars, taskVars, owes, aborted, call, signals>>

-----------------------------------------------------------------------------
(* The owner: calls that consume the handle.                               *)

Unborrowed == \A t \in Callers : At(t, "idle")

\* wait() shuts a server down that is not terminal yet; force_shutdown() always
\* calls shutdown(); Drop does the same two steps, and then shutdown_tx is gone.
Consume(how) ==
    /\ At(Owner, "owning") /\ Unborrowed
    /\ how \in OwnerCalls
    /\ call' = how
    /\ IF how = "wait" /\ state \in Terminal
       THEN Goto(Owner, "subscribe") /\ UNCHANGED <<state, owes>>
       ELSE DrainWithOps(Owner, IF how = "drop" THEN "gone" ELSE "subscribe",
                         IF how = "drop" THEN <<"signal", "close">> ELSE <<"signal">>)
    /\ UNCHANGED <<channels, connVars, taskVars, aborted, signals>>

\* Mutant: the state is not read again after subscribing.
WaitInternalUnchecked ==
    /\ At(Owner, "subscribe")
    /\ terminal_rx' = terminal_sent
    /\ Goto(Owner, "waiting")
    /\ UNCHANGED <<state, ready, ready_rx, terminal_sent, shutdown_sent, shutdown_open,
                   connVars, taskVars, owes, aborted, call, signals>>

\* wait_internal subscribes to the terminal channel before it reads the state ...
WaitInternalSubscribe ==
    /\ At(Owner, "subscribe")
    /\ terminal_rx' = terminal_sent
    /\ Goto(Owner, "check")
    /\ UNCHANGED <<state, ready, ready_rx, terminal_sent, shutdown_sent, shutdown_open,
                   connVars, taskVars, owes, aborted, call, signals>>

WaitInternalCheck ==
    /\ At(Owner, "check")
    /\ Goto(Owner, IF state \in Terminal THEN "join" ELSE "waiting")
    /\ UNCHANGED <<state, channels, connVars, taskVars, owes, aborted, call, signals>>

\* ... and recv() returns.
WaitInternalRecv ==
    /\ At(Owner, "waiting")
    /\ terminal_rx < terminal_sent
    /\ Goto(Owner, "join")
    /\ UNCHANGED <<state, channels, connVars, taskVars, owes, aborted, call, signals>>

\* join.await: the result of the accept task is the result of the call, and the
\* handle is dropped.
Join ==
    /\ At(Owner, "join")
    /\ At(Task, "done")
    /\ owes' = [owes EXCEPT ![Owner] = <<"close">>]
    /\ Goto(Owner, "gone")
    /\ UNCHANGED <<state, channels, connVars, taskVars, aborted, call, signals>>

\* Mutant: the accept task is not aborted at the deadline.
ForceDeadlineJoins ==
    /\ At(Owner, "waiting")
    /\ call = "force"
    /\ Goto(Owner, "abort")
    /\ UNCHANGED <<state, channels, connVars, taskVars, owes, aborted, call, signals>>

\* The deadline of force_shutdown passes: join.abort().
ForceDeadline ==
    /\ At(Owner, "waiting")
    /\ call = "force"
    /\ aborted' = TRUE
    /\ Goto(Owner, "abort")
    /\ UNCHANGED <<state, channels, connVars, taskVars, owes, call, signals>>

\* The aborted accept task is awaited, and the server marked stopped.
ForceStop ==
    /\ At(Owner, "abort")
    /\ At(Task, "done")
    /\ MarkStopped(Owner, "gone", <<"close">>)
    /\ UNCHANGED <<channels, connVars, taskVars, aborted, call, signals>>

-----------------------------------------------------------------------------
(* The accept task.                                                        *)

\* Lifecycle::mark_running; when a shutdown was first, mark_failed finds a
\* terminal state and the task returns Clean.
MarkRunning ==
    /\ At(Task, "spawned")
    /\ IF state = "Starting"
       THEN /\ state' = "Running" /\ Goto(Task, "loop") /\ UNCHANGED outcome
            /\ owes' = [owes EXCEPT ![Task] = <<"ready">>]
       ELSE /\ state' = (IF state \in Terminal THEN state ELSE "Failed")
            /\ Goto(Task, "done") /\ outcome' = "Clean"
            /\ owes' = [owes EXCEPT ![Task] =
                          IF state \in Terminal THEN <<>> ELSE <<"ready", "terminal">>]
    /\ UNCHANGED <<channels, connVars, task_rx, timed_out, errors, aborted, call, signals>>

\* Mutant: the last permit is never handed out.
AcceptStreamSparing(c) ==
    /\ At(Task, "loop")
    /\ conn[c] = "none"
    /\ IF core_permits > 1
       THEN /\ core_permits' = core_permits - 1
            /\ conn' = [conn EXCEPT ![c] = "serving"]
            /\ conn_rx' = [conn_rx EXCEPT ![c] = shutdown_sent]
            /\ tasks' = tasks \cup {c}
       ELSE /\ conn' = [conn EXCEPT ![c] = "refused"]
            /\ UNCHANGED <<core_permits, conn_rx, tasks>>
    /\ UNCHANGED <<state, channels, taskVars, pc, owes, aborted, call, signals>>

\* handle_tcp_accept and handle_unix_accept.  select! polls its branches in a
\* random order, so a stream may be taken while a shutdown message waits.  The
\* connection gets a receiver of its own by resubscribe(), which starts behind
\* the messages that were already sent.
AcceptStream(c) ==
    /\ At(Task, "loop")
    /\ conn[c] = "none"
    /\ IF core_permits > 0
       THEN /\ core_permits' = core_permits - 1
            /\ conn' = [conn EXCEPT ![c] = "serving"]
            /\ conn_rx' = [conn_rx EXCEPT ![c] = shutdown_sent]
            /\ tasks' = tasks \cup {c}
       ELSE /\ conn' = [conn EXCEPT ![c] = "refused"]
            /\ UNCHANGED <<core_permits, conn_rx, tasks>>
    /\ UNCHANGED <<state, channels, taskVars, pc, owes, aborted, call, signals>>

\* classify_accept_error: a transient error pauses the loop ...
AcceptRetries ==
    /\ At(Task, "loop")
    /\ "transient" \in AcceptErrors /\ errors < MaxErrors
    /\ errors' = errors + 1
    /\ Goto(Task, "backoff")
    /\ UNCHANGED <<state, channels, connVars, task_rx, timed_out, outcome, owes,
                   aborted, call, signals>>

\* ... for the time of accept_backoff, or until a shutdown message is received,
\* which the select! of the backoff takes out of the channel.
BackoffEnds ==
    /\ At(Task, "backoff")
    /\ Goto(Task, "loop")
    /\ \/ UNCHANGED task_rx
       \/ Receivable(task_rx) /\ task_rx' = AfterRecv(task_rx)
    /\ UNCHANGED <<state, channels, connVars, timed_out, outcome, errors, owes,
                   aborted, call, signals>>

\* A fatal one breaks out of it.
AcceptFails ==
    /\ At(Task, "loop")
    /\ "fatal" \in AcceptErrors
    /\ Goto(Task, "drain")
    /\ UNCHANGED <<state, channels, connVars, taskVars, owes, aborted, call, signals>>

\* shutdown_rx.recv() wins the select! of the accept loop.
ShutdownSeen ==
    /\ At(Task, "loop")
    /\ Receivable(task_rx)
    /\ task_rx' = AfterRecv(task_rx)
    /\ Goto(Task, "drain")
    /\ UNCHANGED <<state, channels, connVars, timed_out, outcome, errors, owes,
                   aborted, call, signals>>

BeginDrain ==
    /\ At(Task, "drain")
    /\ DrainWithOps(Task, "draining", <<>>)
    /\ UNCHANGED <<channels, connVars, taskVars, aborted, call, signals>>

\* tasks.join_next() in either of the two loops.
JoinAny(c) ==
    /\ At(Task, "draining") \/ At(Task, "reaping")
    /\ c \in tasks \ Active
    /\ tasks' = tasks \ {c}
    /\ UNCHANGED <<state, channels, conn_rx, conn, core_permits, taskVars, pc, owes,
                   aborted, call, signals>>

\* join_next() returns None.
AllJoined ==
    /\ At(Task, "draining") \/ At(Task, "reaping")
    /\ tasks = {}
    /\ Goto(Task, "stop")
    /\ UNCHANGED <<state, channels, connVars, taskVars, owes, aborted, call, signals>>

\* abort_all(), or the drop of the JoinSet.
AbortAll == conn' = [c \in CoreConns |-> IF c \in tasks \cap Active THEN "aborting" ELSE conn[c]]

\* The grace period is over; the deadline is also looked at before each
\* join_next(), so it may pass when the last task has just been joined.
GraceExpires ==
    /\ At(Task, "draining")
    /\ timed_out' = TRUE
    /\ AbortAll
    /\ Goto(Task, "reaping")
    /\ UNCHANGED <<state, channels, conn_rx, tasks, core_permits, task_rx, outcome, errors, owes,
                   aborted, call, signals>>

TaskReturns ==
    /\ At(Task, "stop")
    /\ MarkStopped(Task, "done", <<>>)
    /\ outcome' = IF timed_out THEN "Timeout" ELSE "Clean"
    /\ UNCHANGED <<channels, connVars, task_rx, timed_out, errors, aborted, call, signals>>

\* A task that was aborted ends at an await; its JoinSet is dropped with it.
TaskCancelled ==
    /\ aborted
    /\ \E l \in {"spawned", "loop", "backoff", "draining", "reaping"} : At(Task, l)
    /\ outcome' = "Cancelled"
    /\ AbortAll /\ tasks' = {}
    /\ Goto(Task, "done")
    /\ UNCHANGED <<state, channels, conn_rx, core_permits, task_rx, timed_out, errors, owes,
                   aborted, call, signals>>

-----------------------------------------------------------------------------
(* Connection tasks: run_with_connection_shutdown around the connection.   *)

\* recv() wins the select!: the connection's own token is signalled.
ConnTold(c) ==
    /\ conn[c] = "serving"
    /\ Receivable(conn_rx[c])
    /\ conn_rx' = [conn_rx EXCEPT ![c] = AfterRecv(@)]
    /\ conn' = [conn EXCEPT ![c] = "told"]
    /\ UNCHANGED <<state, channels, tasks, core_permits, taskVars, pc, owes,
                   aborted, call, signals>>

\* The connection's future completes, unwinds, or is dropped by an abort, and
\* with it the permit and the ActiveConnectionGuard.
ConnEnds(c) ==
    /\ c \in Active
    /\ core_permits' = core_permits + 1
    /\ conn' = [conn EXCEPT ![c] = IF @ = "aborting" THEN "cancelled" ELSE "finished"]
    /\ UNCHANGED <<state, channels, conn_rx, tasks, taskVars, pc, owes, aborted, call, signals>>

-----------------------------------------------------------------------------
CallerStep(t) ==
    \/ WaitReadySubscribe(t)
    \/ WaitReadyBorrow(t)
    \/ WaitReadyChanged(t)
    \/ ReadyReturn(t)

OwnerStep ==
    \/ WaitInternalSubscribe
    \/ WaitInternalCheck
    \/ WaitInternalRecv
    \/ Join
    \/ ForceStop

TaskStep ==
    \/ MarkRunning
    \/ BackoffEnds
    \/ ShutdownSeen
    \/ BeginDrain
    \/ \E c \in CoreConns : JoinAny(c)
    \/ AllJoined
    \/ TaskReturns

CoreNext ==
    \/ \E t \in Threads : Send(t)
    \/ \E t \in Callers : Shutdown(t) \/ Ready(t) \/ CallerStep(t)
    \/ \E how \in {"wait", "force", "drop"} : Consume(how)
    \/ OwnerStep \/ ForceDeadline
    \/ TaskStep \/ AcceptRetries \/ AcceptFails \/ GraceExpires \/ TaskCancelled
    \/ \E c \in CoreConns : AcceptStream(c) \/ ConnTold(c) \/ ConnEnds(c)

\* The runtime polls a task that is woken, a thread finishes the method it is
\* in, timers fire, and an aborted task is dropped.  Nothing obliges a caller to
\* call, a peer to connect, or a connection to end by itself.
CoreFairness ==
    /\ \A t \in Threads : WF_coreVars(Send(t))
    /\ \A t \in Callers : WF_coreVars(CallerStep(t))
    /\ WF_coreVars(OwnerStep) /\ WF_coreVars(ForceDeadline)
    /\ WF_coreVars(TaskStep) /\ WF_coreVars(GraceExpires) /\ WF_coreVars(TaskCancelled)
    /\ \A c \in CoreConns : /\ WF_coreVars(ConnTold(c))
                           /\ WF_coreVars(conn[c] = "aborting" /\ ConnEnds(c))

CoreSpec == CoreInit /\ [][CoreNext]_coreVars /\ CoreFairness

-----------------------------------------------------------------------------
(* Properties.                                                             *)

\* A thread blocked in wait_internal on a server that is already terminal has a
\* message in its channel, or the thread that made the transition has still to
\* send it: subscribing before reading the state loses no announcement.
TerminalIsAnnounced ==
    pc[Owner] = "waiting" /\ state \in Terminal =>
        \/ terminal_rx < terminal_sent
        \/ \E t \in Threads : \E i \in 1 .. Len(owes[t]) : owes[t][i] = "terminal"

\* Unless the accept task was aborted, a server that reports Stopped has no
\* connection left and every permit back: mark_stopped comes after the JoinSet is
\* empty, on the graceful path and after the grace period.
StoppedIsQuiet ==
    state = "Stopped" /\ ~aborted =>
        Active = {} /\ tasks = {} /\ core_permits = MaxCoreConnections

\* ShutdownResult::Clean says that every connection completed: none was aborted,
\* however the grace period, a late completion and an abort interleave.
CleanMeansCompleted ==
    outcome = "Clean" =>
        \A c \in CoreConns : conn[c] \notin {"serving", "told", "aborting", "cancelled"}

\* A permit is out exactly while its connection's future exists, also when the
\* connection is aborted or the accept task is cancelled with its JoinSet.
PermitsFollowConnections == core_permits + Cardinality(Active) = MaxCoreConnections

\* The accept loop serves on in a draining server and has no shutdown message to
\* receive: the wait after a transient accept error has swallowed it.
Deaf == state = "Draining" /\ pc[Task] \in {"loop", "backoff"} /\ ~Receivable(task_rx)

\* wait() returns, whatever the connections do, unless the accept loop is deaf
\* for ever.
WaitReturnsIfHeard == ((call = "wait") ~> (pc[Owner] = "gone")) \/ <>[]Deaf

\* force_shutdown() returns and leaves no connection behind, also when the accept
\* loop lost the shutdown message.
ForceReturns == (call = "force") ~> (pc[Owner] = "gone" /\ Active = {})

\* A dropped handle stops the accept task, also when the accept loop lost the
\* shutdown message: the channel is closed with the handle.
DropStops == (call = "drop") ~> (pc[Task] = "done" /\ state \in Terminal)

\* What the contract calls the fate of a stream.
CoreFate(c) ==
    CASE conn[c] \in {"none", "refused"} -> conn[c]
      [] c \in Active -> "held"
      [] OTHER -> "released"

CoreAdmission == INSTANCE AdmissionContract
    WITH Streams <- CoreConns, Limit <- MaxCoreConnections,
         fate <- [c \in CoreConns |-> CoreFate(c)],
         closed <- pc[Task] \notin {"spawned", "loop", "backoff"}

\* This accept loop keeps the same contract, also when it is cancelled: an
\* aborted connection counts until its future is dropped.
CoreAdmitsWithinLimit == CoreAdmission!Spec

-------------------------------------------------------------------------------
(* Stronger statements, which the code does not keep: each has a            *)
(* counterexample.                                                         *)

\* wait() returns, whatever the connections do.
WaitReturns == (call = "wait") ~> (pc[Owner] = "gone")

\* ready() returns, on a server that starts, fails or is stopped.
ReadyReturns == \A t \in Callers : (pc[t] = "ready") ~> (pc[t] = "idle")

\* While the accept task drains, every connection it waits for has been told to
\* stop or has the message in its receiver.
DrainReachesConnections ==
    pc[Task] = "draining" /\ owes[Task] = <<>> =>
        \A c \in tasks : conn[c] = "serving" => Receivable(conn_rx[c])

\* The JoinSet is reaped as connections complete, so it never holds more tasks
\* than there are connection permits.
JoinSetIsReaped == Cardinality(tasks) <= MaxCoreConnections

\* What the handle is told at the end is true: the terminal state is announced to
\* whoever waits, Stopped means that nothing runs any more, Clean that every
\* connection ended by itself, and permits follow the connections that hold them
\* (server/mod.rs, handle.rs, accept.rs).
TerminalIsHonest ==
    TerminalIsAnnounced /\ StoppedIsQuiet /\ CleanMeansCompleted /\ PermitsFollowConnections

\* Every call on the handle comes back: wait() unless the accept loop lost the
\* shutdown message, force_shutdown() always, and dropping the handle stops the
\* server (handle.rs).
HandleCallsReturn == WaitReturnsIfHeard /\ ForceReturns /\ DropStops
==============================================================================
