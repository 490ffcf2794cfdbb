--------------------------- MODULE CoreServerProofs ---------------------------
(***************************************************************************)
(* Proofs about the compatibility server, for any finite number of peers   *)
(* and any limits.  What the result and the state say about the            *)
(* connections follows from where the accept task is: the invariant ties   *)
(* its label to the state, to the JoinSet and to the fates of the streams. *)
(***************************************************************************)
EXTENDS CoreServer, FiniteSetTheorems, TLAPS

TaskLabels == {"spawned", "loop", "backoff", "drain", "draining", "reaping", "stop", "done"}

Labels == TaskLabels \cup {"idle", "ready", "subscribed", "parked", "recheck", "owning",
                          "subscribe", "check", "waiting", "join", "abort", "gone"}

Sends == {"ready", "terminal", "signal", "close"}

CoreTypes ==
    /\ state \in {"Starting", "Running", "Draining", "Stopped", "Failed"}
    /\ terminal_sent \in Nat /\ terminal_rx \in Nat
    /\ pc \in [Threads -> Labels] /\ pc[Task] \in TaskLabels
    /\ owes \in [Threads -> Seq(Sends)]
    /\ conn \in [CoreConns -> {"none", "refused", "serving", "told", "aborting",
                               "finished", "cancelled"}]
    /\ core_permits \in Nat
    /\ outcome \in {"none", "Clean", "Timeout", "Cancelled"}

\* Where the accept task is, and what that says.
TaskInv ==
    /\ pc[Task] = "spawned" =>
          state \in {"Starting", "Stopped"} /\ tasks = {} /\ \A c \in CoreConns : conn[c] = "none"
    /\ state = "Starting" => pc[Task] = "spawned"
    /\ state \in Terminal => pc[Task] \in {"spawned", "done"}
    /\ pc[Task] = "done" => outcome # "none"
    /\ outcome # "none" => pc[Task] = "done"
    /\ pc[Task] = "stop" \/ outcome \in {"Clean", "Timeout"} => tasks = {}
    /\ pc[Task] \in {"spawned", "loop", "backoff", "drain", "draining"} => ~timed_out
    /\ outcome = "Clean" => ~timed_out
    /\ outcome = "Cancelled" => aborted
    /\ pc[Owner] = "abort" => aborted
    /\ pc[Owner] # "owning" \/ aborted => state # "Starting"

\* The JoinSet owns the connections, until it is dropped with a cancelled task.
ConnInv ==
    /\ outcome # "Cancelled" => Active \subseteq tasks
    /\ ~timed_out /\ outcome # "Cancelled" =>
          \A c \in CoreConns : conn[c] \notin {"aborting", "cancelled"}
    /\ state = "Stopped" /\ ~aborted => tasks = {}

\* The owner's receiver is not ahead of the channel, and what it waits for comes.
AnnounceInv == terminal_rx <= terminal_sent /\ TerminalIsAnnounced

CoreInv == CoreTypes /\ TaskInv /\ ConnInv /\ PermitsFollowConnections /\ AnnounceInv

\* Thread t still has to announce a terminal state.
Owed(t) == \E i \in 1 .. Len(owes[t]) : owes[t][i] = "terminal"

\* The owner and the accept task are two threads.
LEMMA ThreadsAreTyped == Owner \in Threads /\ Task \in Threads /\ Callers \subseteq Threads
                         /\ Owner # Task /\ Owner \notin Callers /\ Task \notin Callers
BY ThreadsAssumption, Zenon DEF Threads

\* The sends of a method follow those of the transition it makes.
LEMMA AppendedSends ==
    ASSUME NEW more \in Seq(Sends)
    PROVE  /\ <<"ready", "terminal">> \o more \in Seq(Sends)
           /\ <<"terminal">> \o more \in Seq(Sends)
           /\ <<>> \o more \in Seq(Sends)
           /\ \E i \in 1 .. Len(<<"ready", "terminal">> \o more) :
                 (<<"ready", "terminal">> \o more)[i] = "terminal"
           /\ \E i \in 1 .. Len(<<"terminal">> \o more) : (<<"terminal">> \o more)[i] = "terminal"
<1>1. <<"ready", "terminal">> \in Seq(Sends) /\ <<"terminal">> \in Seq(Sends) /\ <<>> \in Seq(Sends)
  BY DEF Sends
<1>2. 2 \in 1 .. Len(<<"ready", "terminal">> \o more)
      /\ (<<"ready", "terminal">> \o more)[2] = "terminal"
  BY <1>1
<1>3. 1 \in 1 .. Len(<<"terminal">> \o more) /\ (<<"terminal">> \o more)[1] = "terminal"
  BY <1>1
<1> QED
  BY <1>1, <1>2, <1>3

\* What drain_with_ops and mark_stopped do to the thread that calls them and to the
\* state: a transition into a terminal state is owed to the waiters.
Transition(t, l) ==
    /\ pc' = [pc EXCEPT ![t] = l]
    /\ owes' \in [Threads -> Seq(Sends)]
    /\ \A u \in Threads : Owed(u) => Owed(u)'
    /\ state' \in Terminal /\ state \notin Terminal => Owed(t)'
    /\ \A u \in Threads \ {t} : owes'[u] = owes[u]

\* drain_with_ops owes what it decides.
LEMMA DrainOwes ==
    ASSUME CoreTypes, NEW t \in Threads, owes[t] = <<>>, NEW l, NEW more \in Seq(Sends),
           DrainWithOps(t, l, more)
    PROVE  /\ Transition(t, l)
           /\ \/ state' = state /\ state # "Starting" /\ state # "Running"
              \/ state = "Starting" /\ state' = "Stopped"
              \/ state = "Running" /\ state' = "Draining"
<1> USE AppendedSends
<1>1. ~Owed(t)
  BY DEF Owed
<1>2. \A u \in Threads \ {t} : owes'[u] = owes[u]
  BY Zenon DEF DrainWithOps, CoreTypes
<1>3. CASE state = "Starting"
  <2>1. owes' = [owes EXCEPT ![t] = <<"ready", "terminal">> \o more]
    BY <1>3, Zenon DEF DrainWithOps
  <2>2. Owed(t)'
    BY <2>1, Zenon DEF Owed, CoreTypes
  <2> QED
    BY <1>1, <1>2, <1>3, <2>1, <2>2, Zenon DEF DrainWithOps, Transition, Goto, CoreTypes, Owed
<1>4. CASE state # "Starting"
  <2>1. owes' = [owes EXCEPT ![t] = <<>> \o more]
    BY <1>4, Zenon DEF DrainWithOps
  <2> QED
    BY <1>1, <1>2, <1>4, <2>1, Zenon DEF DrainWithOps, Transition, Goto, CoreTypes, Terminal, Owed
<1> QED
  BY <1>3, <1>4, Zenon

\* So does mark_stopped.
LEMMA StopOwes ==
    ASSUME CoreTypes, NEW t \in Threads, owes[t] = <<>>, NEW l, NEW more \in Seq(Sends),
           MarkStopped(t, l, more)
    PROVE  /\ Transition(t, l)
           /\ \/ state' = state /\ state # "Draining"
              \/ state = "Draining" /\ state' = "Stopped"
<1> USE AppendedSends
<1>1. ~Owed(t)
  BY DEF Owed
<1>2. \A u \in Threads \ {t} : owes'[u] = owes[u]
  BY Zenon DEF MarkStopped, CoreTypes
<1>3. CASE state = "Draining"
  <2>1. owes' = [owes EXCEPT ![t] = <<"terminal">> \o more]
    BY <1>3, Zenon DEF MarkStopped
  <2>2. Owed(t)'
    BY <2>1, Zenon DEF Owed, CoreTypes
  <2> QED
    BY <1>1, <1>2, <1>3, <2>1, <2>2 DEF MarkStopped, Transition, Goto, CoreTypes, Owed
<1>4. CASE state # "Draining"
  <2>1. owes' = [owes EXCEPT ![t] = <<>> \o more]
    BY <1>4, Zenon DEF MarkStopped
  <2> QED
    BY <1>1, <1>2, <1>4, <2>1, Zenon DEF MarkStopped, Transition, Goto, CoreTypes, Terminal, Owed
<1> QED
  BY <1>3, <1>4, Zenon

\* The steps of the threads that hold the handle.
HandleStep ==
    \/ \E t \in Threads : Send(t)
    \/ \E t \in Callers : Shutdown(t) \/ Ready(t) \/ CallerStep(t)
    \/ \E how \in {"wait", "force", "drop"} : Consume(how)
    \/ OwnerStep \/ ForceDeadline
    \/ UNCHANGED coreVars

\* A step keeps what the owner waits for when it forgets no announcement, owes those
\* it causes, and sends the owner to wait only on a server that is not terminal.
LEMMA AnnounceKept ==
    ASSUME AnnounceInv, terminal_sent' = terminal_sent, terminal_rx' = terminal_rx,
           \A u \in Threads : Owed(u) => Owed(u)',
           state' \in Terminal /\ state \notin Terminal => \E u \in Threads : Owed(u)',
           pc'[Owner] = "waiting" => pc[Owner] = "waiting" \/ state' \notin Terminal
    PROVE  AnnounceInv'
BY Zenon DEF AnnounceInv, TerminalIsAnnounced, Owed

\* A send takes one announcement out of what is owed and puts it into its channel.
LEMMA SendAnnounces ==
    ASSUME CoreTypes, AnnounceInv, NEW t \in Threads, Send(t)
    PROVE  CoreTypes' /\ AnnounceInv'
<1>1. owes[t] \in Seq(Sends) /\ owes[t] # <<>>
  BY Zenon DEF CoreTypes, Send
<1>2. /\ Tail(owes[t]) \in Seq(Sends) /\ Len(Tail(owes[t])) = Len(owes[t]) - 1
      /\ \A i \in 1 .. Len(owes[t]) :
            i # 1 => i - 1 \in 1 .. Len(Tail(owes[t])) /\ Tail(owes[t])[i - 1] = owes[t][i]
      /\ owes[t][1] = Head(owes[t])
  BY <1>1
<1>3. owes' = [owes EXCEPT ![t] = Tail(owes[t])]
  BY Zenon DEF Send
<1>4. terminal_sent' = IF Head(owes[t]) = "terminal" THEN terminal_sent + 1 ELSE terminal_sent
  BY Zenon DEF Send
<1>5. CoreTypes'
  BY <1>2, <1>3, <1>4 DEF CoreTypes, Send, connVars, taskVars
<1>6. Head(owes[t]) # "terminal" /\ Owed(t) => Owed(t)'
  <2> SUFFICES ASSUME Head(owes[t]) # "terminal",
                      NEW i \in 1 .. Len(owes[t]), owes[t][i] = "terminal"
               PROVE  Owed(t)'
    BY Zenon DEF Owed
  <2>1. i - 1 \in 1 .. Len(owes'[t]) /\ owes'[t][i - 1] = "terminal"
    BY <1>2, <1>3, Zenon DEF CoreTypes
  <2> QED
    BY <2>1, Zenon DEF Owed
<1>7. \A u \in Threads \ {t} : Owed(u) => Owed(u)'
  BY <1>3, Zenon DEF CoreTypes, Owed
<1>8. pc' = pc /\ state' = state /\ terminal_rx' = terminal_rx
  BY Zenon DEF Send
<1>9. CASE Head(owes[t]) = "terminal"
  <2>1. terminal_rx' < terminal_sent'
    BY <1>4, <1>8, <1>9 DEF AnnounceInv, CoreTypes
  <2>2. terminal_rx' <= terminal_sent'
    BY <1>4, <1>8, <1>9 DEF AnnounceInv, CoreTypes
  <2> QED
    BY <1>5, <2>1, <2>2, Zenon DEF AnnounceInv, TerminalIsAnnounced
<1>10. CASE Head(owes[t]) # "terminal"
  <2>1. \A u \in Threads : Owed(u) => Owed(u)'
    BY <1>6, <1>7, <1>10, Zenon
  <2> QED
    BY <1>4, <1>5, <1>8, <1>10, <2>1, AnnounceKept, Zenon
<1> QED
  BY <1>9, <1>10, Zenon

\* A step that only moves a thread to another label owes nothing new.
LEMMA MoveKeeps ==
    ASSUME CoreTypes, AnnounceInv, NEW t \in Threads, NEW l \in Labels, Goto(t, l),
           t = Task => l \in TaskLabels,
           t = Owner /\ l = "waiting" => state \notin Terminal,
           UNCHANGED <<state, terminal_sent, terminal_rx, owes, conn, core_permits, outcome>>
    PROVE  CoreTypes' /\ AnnounceInv'
<1>1. CoreTypes'
  BY ThreadsAreTyped, Zenon DEF CoreTypes, Goto
<1>2. pc'[Owner] = "waiting" => pc[Owner] = "waiting" \/ state' \notin Terminal
  BY ThreadsAreTyped, Zenon DEF CoreTypes, Goto
<1>3. \A u \in Threads : Owed(u) => Owed(u)'
  BY Zenon DEF Owed
<1> QED
  BY <1>1, <1>2, <1>3, AnnounceKept, Zenon

\* Nor does a transition, beyond the announcement that it owes.
LEMMA TransitionKeeps ==
    ASSUME CoreTypes, AnnounceInv, NEW t \in Threads, NEW l \in Labels, Transition(t, l),
           t = Task => l \in TaskLabels, l # "waiting",
           state' \in {"Starting", "Running", "Draining", "Stopped", "Failed"},
           outcome' \in {"none", "Clean", "Timeout", "Cancelled"},
           UNCHANGED <<terminal_sent, terminal_rx, conn, core_permits>>
    PROVE  CoreTypes' /\ AnnounceInv'
<1>1. CoreTypes'
  BY ThreadsAreTyped, Zenon DEF CoreTypes, Transition
<1>2. pc'[Owner] = "waiting" => pc[Owner] = "waiting"
  BY ThreadsAreTyped, Zenon DEF CoreTypes, Transition
<1>3. \A u \in Threads : Owed(u) => Owed(u)'
  BY Zenon DEF Transition
<1>4. state' \in Terminal /\ state \notin Terminal => Owed(t)'
  BY Zenon DEF Transition
<1> QED
  BY <1>1, <1>2, <1>3, <1>4, AnnounceKept, Zenon

\* What the steps of the handle leave alone, and how they change the state.
HandleFrame ==
    /\ pc'[Task] = pc[Task]
    /\ UNCHANGED <<conn, tasks, core_permits, timed_out, outcome>>
    /\ aborted => aborted'
    /\ pc'[Owner] = "abort" => aborted'
    /\ pc'[Owner] # "owning" => pc[Owner] # "owning" \/ state' # "Starting"
    /\ aborted' => aborted \/ pc[Owner] # "owning"
    /\ \/ state' = state
       \/ state = "Starting" /\ state' = "Stopped"
       \/ state = "Running" /\ state' = "Draining"
       \/ state = "Draining" /\ state' = "Stopped" /\ aborted /\ pc[Task] = "done"

\* The owner and the borrowing threads never touch the connections.
LEMMA HandleStepFrame ==
    ASSUME CoreTypes, TaskInv, HandleStep
    PROVE  HandleFrame
<1> USE ThreadsAreTyped
<1>1. ASSUME NEW t \in Threads, Send(t) PROVE HandleFrame
  BY <1>1, Zenon DEF Send, HandleFrame, connVars, taskVars, TaskInv
<1>2. ASSUME NEW t \in Callers, Shutdown(t) PROVE HandleFrame
  <2>1. <<"signal">> \in Seq(Sends)
    BY DEF Sends
  <2>2. DrainWithOps(t, "idle", <<"signal">>) /\ owes[t] = <<>> /\ t \in Threads /\ t # Task /\ t # Owner
    BY <1>2, Zenon DEF Shutdown, At
  <2>3. /\ Transition(t, "idle")
        /\ \/ state' = state
           \/ state = "Starting" /\ state' = "Stopped"
           \/ state = "Running" /\ state' = "Draining"
    BY <2>1, <2>2, DrainOwes, Zenon
  <2> QED
    BY <1>2, <2>2, <2>3, Zenon DEF Shutdown, Transition, HandleFrame, connVars, taskVars, TaskInv, CoreTypes
<1>3. ASSUME NEW t \in Callers, Ready(t) \/ CallerStep(t) PROVE HandleFrame
  BY <1>3 DEF Ready, CallerStep, WaitReadySubscribe, WaitReadyBorrow, WaitReadyChanged, ReadyReturn,
     Goto, HandleFrame, connVars, taskVars, TaskInv, CoreTypes
<1>4. ASSUME NEW how \in {"wait", "force", "drop"}, Consume(how) PROVE HandleFrame
  BY <1>4 DEF Consume, At, DrainWithOps, Terminal, Goto, HandleFrame, connVars, taskVars, TaskInv, CoreTypes
<1>5. CASE OwnerStep
  <2>1. CASE WaitInternalSubscribe \/ WaitInternalCheck \/ WaitInternalRecv \/ Join
    BY <2>1 DEF WaitInternalSubscribe, WaitInternalCheck, WaitInternalRecv, Join, At,
       Goto, HandleFrame, connVars, taskVars, TaskInv, CoreTypes
  <2>2. CASE ForceStop
    BY <2>2, Zenon DEF ForceStop, At, MarkStopped, Goto, HandleFrame, connVars, taskVars, TaskInv, CoreTypes
  <2> QED
    BY <1>5, <2>1, <2>2, Zenon DEF OwnerStep
<1>6. CASE ForceDeadline
  BY <1>6, Zenon DEF ForceDeadline, At, Goto, HandleFrame, connVars, taskVars, TaskInv, CoreTypes
<1>7. CASE UNCHANGED coreVars
  BY <1>7, Zenon DEF coreVars, HandleFrame, connVars, taskVars, TaskInv, CoreTypes
<1> QED
  BY <1>1, <1>2, <1>3, <1>4, <1>5, <1>6, <1>7, Zenon DEF HandleStep

\* They keep the announcement.
LEMMA HandleStepAnnounces ==
    ASSUME CoreTypes, AnnounceInv, HandleStep
    PROVE  CoreTypes' /\ AnnounceInv'
<1> USE ThreadsAreTyped
<1>0. /\ <<"signal">> \in Seq(Sends) /\ <<"signal", "close">> \in Seq(Sends) /\ <<"close">> \in Seq(Sends)
      /\ \A l \in {"idle", "ready", "subscribed", "parked", "recheck", "subscribe", "check",
                   "join", "abort", "gone"} : l \in Labels /\ l # "waiting"
  BY DEF Sends, Labels
<1>1. ASSUME NEW t \in Callers, Shutdown(t) PROVE CoreTypes' /\ AnnounceInv'
  <2>1. DrainWithOps(t, "idle", <<"signal">>) /\ owes[t] = <<>> /\ t \in Threads
    BY <1>1, Zenon DEF Shutdown, At
  <2>2. Transition(t, "idle") /\ state' \in {"Starting", "Running", "Draining", "Stopped", "Failed"}
    BY <1>0, <2>1, DrainOwes, Zenon DEF CoreTypes
  <2> QED
    BY <1>0, <1>1, <2>1, <2>2, TransitionKeeps, Zenon DEF Shutdown, channels, connVars, taskVars, CoreTypes
<1>2. ASSUME NEW t \in Callers, Ready(t) \/ CallerStep(t) PROVE CoreTypes' /\ AnnounceInv'
  <2>1. PICK l \in {"ready", "subscribed", "parked", "recheck", "idle"} : Goto(t, l)
    BY <1>2, Zenon DEF Ready, CallerStep, WaitReadySubscribe, WaitReadyBorrow, WaitReadyChanged, ReadyReturn
  <2>2. UNCHANGED <<state, terminal_sent, terminal_rx, owes, conn, core_permits, outcome>>
    BY <1>2, Zenon DEF Ready, CallerStep, WaitReadySubscribe, WaitReadyBorrow, WaitReadyChanged, ReadyReturn,
       channels, connVars, taskVars
  <2> QED
    BY <1>0, <2>1, <2>2, MoveKeeps, Zenon
<1>3. ASSUME NEW how \in {"wait", "force", "drop"}, Consume(how) PROVE CoreTypes' /\ AnnounceInv'
  <2>1. UNCHANGED <<terminal_sent, terminal_rx, conn, core_permits, outcome>> /\ owes[Owner] = <<>>
    BY <1>3, Zenon DEF Consume, At, channels, connVars, taskVars
  <2>2. CASE how = "wait" /\ state \in Terminal
    BY <1>0, <1>3, <2>1, <2>2, MoveKeeps, Zenon DEF Consume
  <2>3. CASE ~(how = "wait" /\ state \in Terminal)
    <3>1. PICK l \in {"gone", "subscribe"}, more \in Seq(Sends) : DrainWithOps(Owner, l, more)
      BY <1>0, <1>3, <2>3, Zenon DEF Consume
    <3>2. Transition(Owner, l) /\ state' \in {"Starting", "Running", "Draining", "Stopped", "Failed"}
      BY <2>1, <3>1, DrainOwes, Zenon DEF CoreTypes
    <3> QED
      BY <1>0, <2>1, <3>1, <3>2, TransitionKeeps, Zenon DEF CoreTypes
  <2> QED
    BY <2>2, <2>3, Zenon
<1>4. CASE WaitInternalSubscribe
  BY <1>0, <1>4 DEF WaitInternalSubscribe, Goto, connVars, taskVars, CoreTypes, AnnounceInv,
     TerminalIsAnnounced
<1>5. CASE WaitInternalCheck \/ WaitInternalRecv \/ ForceDeadline
  <2>1. PICK l \in {"join", "waiting", "abort"} :
           Goto(Owner, l) /\ (l = "waiting" => state \notin Terminal)
    BY <1>5, Zenon DEF WaitInternalCheck, WaitInternalRecv, ForceDeadline
  <2>2. UNCHANGED <<state, terminal_sent, terminal_rx, owes, conn, core_permits, outcome>>
    BY <1>5, Zenon DEF WaitInternalCheck, WaitInternalRecv, ForceDeadline, channels, connVars, taskVars
  <2>3. l \in Labels
    BY Zenon DEF Labels
  <2> QED
    BY <2>1, <2>2, <2>3, MoveKeeps, Zenon
<1>6. CASE Join
  <2>1. Transition(Owner, "gone")
    BY <1>0, <1>6 DEF Join, At, Transition, Goto, CoreTypes, Owed
  <2> QED
    BY <1>0, <1>6, <2>1, TransitionKeeps, Zenon DEF Join, channels, connVars, taskVars, CoreTypes
<1>7. CASE ForceStop
  <2>1. MarkStopped(Owner, "gone", <<"close">>) /\ owes[Owner] = <<>>
    BY <1>7, Zenon DEF ForceStop, At
  <2>2. Transition(Owner, "gone") /\ state' \in {"Starting", "Running", "Draining", "Stopped", "Failed"}
    BY <1>0, <2>1, StopOwes, Zenon DEF CoreTypes
  <2> QED
    BY <1>0, <1>7, <2>2, TransitionKeeps, Zenon DEF ForceStop, channels, connVars, taskVars, CoreTypes
<1>8. CASE UNCHANGED coreVars
  BY <1>8, Zenon DEF coreVars, channels, connVars, taskVars, CoreTypes, AnnounceInv, TerminalIsAnnounced
<1> QED
  BY <1>1, <1>2, <1>3, <1>4, <1>5, <1>6, <1>7, <1>8, SendAnnounces, Zenon DEF HandleStep, OwnerStep

\* Together they preserve the whole invariant.
LEMMA HandleStepKeeps ==
    ASSUME CoreInv, HandleStep
    PROVE  CoreInv'
<1>1. HandleFrame /\ CoreTypes' /\ AnnounceInv'
  BY HandleStepFrame, HandleStepAnnounces, Zenon DEF CoreInv
<1>2. Active' = Active
  BY <1>1, Zenon DEF HandleFrame, Active
<1>3. TaskInv'
  BY <1>1, Zenon DEF CoreInv, TaskInv, HandleFrame, Terminal, CoreTypes, TaskLabels
<1>4. ConnInv'
  BY <1>1, <1>2, Zenon DEF CoreInv, ConnInv, TaskInv, HandleFrame, CoreTypes
<1> QED
  BY <1>1, <1>2, <1>3, <1>4, Zenon DEF CoreInv, HandleFrame, PermitsFollowConnections

\* The steps in which the accept task only moves on.
TaskMoves == BackoffEnds \/ ShutdownSeen \/ AllJoined \/ AcceptRetries \/ AcceptFails

\* The set of live connections is finite.
LEMMA ActiveIsFinite == IsFiniteSet(Active) /\ Cardinality(Active) \in Nat
BY LimitsAssumption, FS_Subset, FS_CardinalityType DEF Active

LEMMA TaskMovesKeep ==
    ASSUME CoreInv, TaskMoves
    PROVE  CoreInv'
<1> USE ThreadsAreTyped
<1>1. PICK l \in TaskLabels :
        /\ Goto(Task, l)
        /\ \/ l \in {"loop", "backoff", "drain"} /\ pc[Task] \in {"loop", "backoff"}
           \/ l = "stop" /\ pc[Task] \in {"draining", "reaping"} /\ tasks = {}
  BY Zenon DEF TaskMoves, BackoffEnds, ShutdownSeen, AllJoined, AcceptRetries, AcceptFails, At, TaskLabels
<1>2. UNCHANGED <<state, terminal_sent, terminal_rx, owes, conn, core_permits, outcome,
                  tasks, timed_out, aborted>>
  BY Zenon DEF TaskMoves, BackoffEnds, ShutdownSeen, AllJoined, AcceptRetries, AcceptFails,
     channels, connVars, taskVars
<1>3. pc'[Task] = l /\ pc'[Owner] = pc[Owner]
  BY <1>1, Zenon DEF CoreInv, CoreTypes, Goto
<1>4. CoreTypes' /\ AnnounceInv'
  BY <1>1, <1>2, MoveKeeps, Zenon DEF CoreInv, Labels
<1>5. Active' = Active
  BY <1>2, Zenon DEF Active
<1>6. TaskInv'
  BY <1>1, <1>2, <1>3, Zenon DEF CoreInv, TaskInv, Terminal
<1>7. ConnInv'
  BY <1>2, <1>5, Zenon DEF CoreInv, ConnInv
<1> QED
  BY <1>2, <1>4, <1>5, <1>6, <1>7, Zenon DEF CoreInv, PermitsFollowConnections

\* The accept task starts, unless a shutdown was first.
LEMMA MarkRunningKeeps ==
    ASSUME CoreInv, MarkRunning
    PROVE  CoreInv'
<1> USE ThreadsAreTyped
<1>1. pc[Task] = "spawned" /\ owes[Task] = <<>> /\ state \in {"Starting", "Stopped"}
  BY Zenon DEF MarkRunning, At, CoreInv, TaskInv
<1>2. UNCHANGED <<terminal_sent, terminal_rx, conn, core_permits, tasks, timed_out, aborted>>
  BY Zenon DEF MarkRunning, channels, connVars
<1>3. Active' = Active
  BY <1>2, Zenon DEF Active
<1>4. <<"ready">> \in Seq(Sends) /\ <<>> \in Seq(Sends) /\ ~Owed(Task)
  BY <1>1 DEF Sends, Owed
<1>5. CASE state = "Starting"
  <2>1. state' = "Running" /\ outcome' = outcome /\ pc' = [pc EXCEPT ![Task] = "loop"]
        /\ owes' = [owes EXCEPT ![Task] = <<"ready">>]
    BY <1>5, Zenon DEF MarkRunning, Goto
  <2>2. Transition(Task, "loop")
    BY <1>4, <2>1, Zenon DEF Transition, CoreInv, CoreTypes, Terminal, Owed
  <2>3. CoreTypes' /\ AnnounceInv'
    BY <1>2, <2>1, <2>2, TransitionKeeps, Zenon DEF CoreInv, CoreTypes, Labels, TaskLabels
  <2>4. TaskInv'
    BY <1>1, <1>2, <2>1, Zenon DEF CoreInv, CoreTypes, TaskInv, Terminal
  <2>5. ConnInv'
    BY <1>1, <1>2, <1>3, <2>1, Zenon DEF CoreInv, ConnInv, TaskInv
  <2> QED
    BY <1>2, <1>3, <2>3, <2>4, <2>5, Zenon DEF CoreInv, PermitsFollowConnections
<1>6. CASE state = "Stopped"
  <2>1. state' = state /\ outcome' = "Clean" /\ pc' = [pc EXCEPT ![Task] = "done"]
        /\ owes' = [owes EXCEPT ![Task] = <<>>]
    BY <1>6, Zenon DEF MarkRunning, Goto, Terminal
  <2>2. Transition(Task, "done")
    BY <1>4, <2>1, Zenon DEF Transition, CoreInv, CoreTypes, Owed
  <2>3. CoreTypes' /\ AnnounceInv'
    BY <1>2, <2>1, <2>2, TransitionKeeps, Zenon DEF CoreInv, CoreTypes, Labels, TaskLabels
  <2>4. TaskInv'
    BY <1>1, <1>2, <1>6, <2>1, Zenon DEF CoreInv, CoreTypes, TaskInv, Terminal
  <2>5. ConnInv'
    BY <1>1, <1>2, <1>3, <2>1, Zenon DEF CoreInv, ConnInv, TaskInv
  <2> QED
    BY <1>2, <1>3, <2>3, <2>4, <2>5, Zenon DEF CoreInv, PermitsFollowConnections
<1> QED
  BY <1>1, <1>5, <1>6, Zenon

\* The drain begins, and the task returns.
LEMMA TaskTransitionsKeep ==
    ASSUME CoreInv, BeginDrain \/ TaskReturns
    PROVE  CoreInv'
<1> USE ThreadsAreTyped
<1>1. UNCHANGED <<terminal_sent, terminal_rx, conn, core_permits, tasks, timed_out, aborted>>
  BY Zenon DEF BeginDrain, TaskReturns, channels, connVars, taskVars
<1>2. Active' = Active
  BY <1>1, Zenon DEF Active
<1>3. owes[Task] = <<>> /\ <<>> \in Seq(Sends)
  BY DEF BeginDrain, TaskReturns, At
<1>4. CASE BeginDrain
  <2>1. pc[Task] = "drain" /\ outcome' = outcome /\ DrainWithOps(Task, "draining", <<>>)
    BY <1>4, Zenon DEF BeginDrain, At, taskVars
  <2>2. /\ Transition(Task, "draining")
        /\ \/ state' = state /\ state # "Starting" /\ state # "Running"
           \/ state = "Starting" /\ state' = "Stopped"
           \/ state = "Running" /\ state' = "Draining"
    BY <1>3, <2>1, DrainOwes, Zenon DEF CoreInv
  <2>3. state # "Starting" /\ state' \notin Terminal
    BY <2>1, <2>2, Zenon DEF CoreInv, TaskInv, Terminal
  <2>4. CoreTypes' /\ AnnounceInv'
    BY <1>1, <2>1, <2>2, TransitionKeeps, Zenon DEF CoreInv, CoreTypes, Labels, TaskLabels
  <2>5. pc'[Task] = "draining" /\ pc'[Owner] = pc[Owner]
    BY <2>2, Zenon DEF Transition, CoreInv, CoreTypes
  <2>6. TaskInv'
    BY <1>1, <2>1, <2>2, <2>3, <2>5, Zenon DEF CoreInv, TaskInv, Terminal
  <2>7. ConnInv'
    BY <1>1, <1>2, <2>1, <2>3, Zenon DEF CoreInv, ConnInv, Terminal
  <2> QED
    BY <1>1, <1>2, <2>4, <2>6, <2>7, Zenon DEF CoreInv, PermitsFollowConnections
<1>5. CASE TaskReturns
  <2>1. /\ pc[Task] = "stop" /\ outcome' = (IF timed_out THEN "Timeout" ELSE "Clean")
        /\ MarkStopped(Task, "done", <<>>)
    BY <1>5, Zenon DEF TaskReturns, At
  <2>2. /\ Transition(Task, "done")
        /\ \/ state' = state /\ state # "Draining"
           \/ state = "Draining" /\ state' = "Stopped"
    BY <1>3, <2>1, StopOwes, Zenon DEF CoreInv
  <2>3. CoreTypes' /\ AnnounceInv'
    BY <1>1, <2>1, <2>2, TransitionKeeps, Zenon DEF CoreInv, CoreTypes, Labels, TaskLabels
  <2>4. pc'[Task] = "done" /\ pc'[Owner] = pc[Owner]
    BY <2>2, Zenon DEF Transition, CoreInv, CoreTypes
  <2>5. tasks = {} /\ outcome = "none" /\ state # "Starting"
    BY <2>1, Zenon DEF CoreInv, TaskInv
  <2>6. TaskInv'
    BY <1>1, <2>1, <2>2, <2>4, <2>5, Zenon DEF CoreInv, TaskInv, Terminal
  <2>7. ConnInv'
    BY <1>1, <1>2, <2>1, <2>2, <2>5, Zenon DEF CoreInv, ConnInv
  <2> QED
    BY <1>1, <1>2, <2>3, <2>6, <2>7, Zenon DEF CoreInv, PermitsFollowConnections
<1> QED
  BY <1>4, <1>5, Zenon

\* Aborting the JoinSet's tasks ends none of them yet.
LEMMA AbortAllKeepsActive ==
    ASSUME CoreTypes, AbortAll
    PROVE  Active' = Active /\ conn' \in [CoreConns -> {"none", "refused", "serving", "told",
                                                        "aborting", "finished", "cancelled"}]
BY Zenon DEF CoreTypes, AbortAll, Active

\* The grace period ends, or the accept task is cancelled with its JoinSet.
LEMMA AbortsKeep ==
    ASSUME CoreInv, GraceExpires \/ TaskCancelled
    PROVE  CoreInv'
<1> USE ThreadsAreTyped
<1>1. UNCHANGED <<state, terminal_sent, terminal_rx, core_permits, owes, aborted>> /\ AbortAll
  BY Zenon DEF GraceExpires, TaskCancelled, channels
<1>2. /\ Active' = Active
      /\ conn' \in [CoreConns -> {"none", "refused", "serving", "told",
                                  "aborting", "finished", "cancelled"}]
  BY <1>1, AbortAllKeepsActive, Zenon DEF CoreInv
<1>3. PICK l \in {"reaping", "done"} : pc' = [pc EXCEPT ![Task] = l]
  BY Zenon DEF GraceExpires, TaskCancelled, Goto
<1>4. CoreTypes'
  BY <1>1, <1>2, <1>3, Zenon DEF CoreInv, CoreTypes, Labels, TaskLabels, GraceExpires, TaskCancelled
<1>5. AnnounceInv'
  <2>1. \A u \in Threads : Owed(u) => Owed(u)'
    BY <1>1, Zenon DEF Owed
  <2>2. pc'[Owner] = pc[Owner]
    BY <1>3, Zenon DEF CoreInv, CoreTypes
  <2> QED
    BY <1>1, <2>1, <2>2, AnnounceKept, Zenon DEF CoreInv
<1>6. CASE GraceExpires
  <2>1. pc[Task] = "draining" /\ pc'[Task] = "reaping" /\ pc'[Owner] = pc[Owner]
        /\ tasks' = tasks /\ outcome' = outcome /\ timed_out' = TRUE
    BY <1>6, Zenon DEF GraceExpires, At, Goto, CoreInv, CoreTypes
  <2>2. TaskInv'
    BY <1>1, <2>1, Zenon DEF CoreInv, TaskInv, Terminal
  <2>3. ConnInv'
    BY <1>1, <1>2, <2>1, Zenon DEF CoreInv, ConnInv
  <2> QED
    BY <1>1, <1>2, <1>4, <1>5, <2>2, <2>3, Zenon DEF CoreInv, PermitsFollowConnections
<1>7. CASE TaskCancelled
  <2>1. pc[Task] # "done" /\ pc'[Task] = "done" /\ pc'[Owner] = pc[Owner]
        /\ tasks' = {} /\ outcome' = "Cancelled" /\ timed_out' = timed_out /\ aborted
    BY <1>7, Zenon DEF TaskCancelled, At, Goto, CoreInv, CoreTypes
  <2>2. state # "Starting"
    BY <2>1, Zenon DEF CoreInv, TaskInv
  <2>3. TaskInv'
    BY <1>1, <2>1, <2>2, Zenon DEF CoreInv, TaskInv, Terminal
  <2>4. ConnInv'
    BY <1>1, <2>1, Zenon DEF CoreInv, ConnInv
  <2> QED
    BY <1>1, <1>2, <1>4, <1>5, <2>3, <2>4, Zenon DEF CoreInv, PermitsFollowConnections
<1> QED
  BY <1>6, <1>7, Zenon

\* Steps that leave the accept task, the channels and the state alone.
LEMMA QuietKeeps ==
    ASSUME CoreInv, UNCHANGED <<state, terminal_sent, terminal_rx, owes, pc, outcome, aborted, timed_out>>,
           conn' \in [CoreConns -> {"none", "refused", "serving", "told",
                                    "aborting", "finished", "cancelled"}],
           core_permits' \in Nat
    PROVE  CoreTypes' /\ AnnounceInv'
<1>1. \A u \in Threads : Owed(u) => Owed(u)'
  BY Zenon DEF Owed
<1>2. AnnounceInv'
  BY <1>1, AnnounceKept, Zenon DEF CoreInv
<1> QED
  BY <1>2, Zenon DEF CoreInv, CoreTypes

\* A stream is accepted with a permit, or refused.
LEMMA AcceptStreamKeeps ==
    ASSUME CoreInv, NEW c \in CoreConns, AcceptStream(c)
    PROVE  CoreInv'
<1> USE ActiveIsFinite, LimitsAssumption
<1>1. /\ UNCHANGED <<state, terminal_sent, terminal_rx, owes, pc, outcome, aborted, timed_out>>
      /\ pc[Task] = "loop" /\ conn[c] = "none"
  BY Zenon DEF AcceptStream, At, channels, taskVars
<1>2. state \notin Terminal /\ outcome = "none"
  BY <1>1, Zenon DEF CoreInv, TaskInv, CoreTypes
<1>3. CASE core_permits > 0
  <2>1. conn' = [conn EXCEPT ![c] = "serving"] /\ tasks' = tasks \cup {c}
        /\ core_permits' = core_permits - 1
    BY <1>3, Zenon DEF AcceptStream
  <2>2. Active' = Active \cup {c} /\ c \notin Active
    BY <1>1, <2>1, Zenon DEF CoreInv, CoreTypes, Active
  <2>3. Cardinality(Active') = Cardinality(Active) + 1
    BY <2>2, FS_AddElement
  <2>4. CoreTypes' /\ AnnounceInv'
    BY <1>1, <1>3, <2>1, QuietKeeps DEF CoreInv, CoreTypes
  <2>5. TaskInv'
    BY <1>1, <1>2, <2>1, Zenon DEF CoreInv, CoreTypes, TaskInv
  <2>6. ConnInv'
    BY <1>1, <1>2, <2>1, <2>2, Zenon DEF CoreInv, CoreTypes, ConnInv, Terminal
  <2> QED
    BY <2>1, <2>3, <2>4, <2>5, <2>6 DEF CoreInv, CoreTypes, PermitsFollowConnections
<1>4. CASE ~(core_permits > 0)
  <2>1. conn' = [conn EXCEPT ![c] = "refused"] /\ UNCHANGED <<tasks, core_permits>>
    BY <1>4, Zenon DEF AcceptStream
  <2>2. Active' = Active
    BY <1>1, <2>1, Zenon DEF CoreInv, CoreTypes, Active
  <2>3. CoreTypes' /\ AnnounceInv'
    BY <1>1, <2>1, QuietKeeps, Zenon DEF CoreInv, CoreTypes
  <2>4. TaskInv'
    BY <1>1, <1>2, <2>1, Zenon DEF CoreInv, CoreTypes, TaskInv
  <2>5. ConnInv'
    BY <1>1, <1>2, <2>1, <2>2, Zenon DEF CoreInv, CoreTypes, ConnInv, Terminal
  <2> QED
    BY <2>1, <2>2, <2>3, <2>4, <2>5, Zenon DEF CoreInv, PermitsFollowConnections
<1> QED
  BY <1>3, <1>4, Zenon

\* A connection is told, ends, or is joined.
LEMMA ConnStepsKeep ==
    ASSUME CoreInv, NEW c \in CoreConns, ConnTold(c) \/ ConnEnds(c) \/ JoinAny(c)
    PROVE  CoreInv'
<1> USE ActiveIsFinite, LimitsAssumption
<1>1. UNCHANGED <<state, terminal_sent, terminal_rx, owes, pc, outcome, aborted, timed_out>>
  BY Zenon DEF ConnTold, ConnEnds, JoinAny, channels, taskVars
<1>2. CASE ConnTold(c)
  <2>1. conn[c] = "serving" /\ conn' = [conn EXCEPT ![c] = "told"] /\ UNCHANGED <<tasks, core_permits>>
    BY <1>2, Zenon DEF ConnTold
  <2>2. Active' = Active
    BY <2>1, Zenon DEF CoreInv, CoreTypes, Active
  <2>3. CoreTypes' /\ AnnounceInv'
    BY <1>1, <2>1, QuietKeeps, Zenon DEF CoreInv, CoreTypes
  <2>4. TaskInv' /\ ConnInv'
    BY <1>1, <2>1, <2>2, Zenon DEF CoreInv, CoreTypes, TaskInv, ConnInv
  <2> QED
    BY <2>1, <2>2, <2>3, <2>4, Zenon DEF CoreInv, PermitsFollowConnections
<1>3. CASE ConnEnds(c)
  <2>1. /\ c \in Active /\ core_permits' = core_permits + 1 /\ tasks' = tasks
        /\ conn' = [conn EXCEPT ![c] = IF conn[c] = "aborting" THEN "cancelled" ELSE "finished"]
    BY <1>3, Zenon DEF ConnEnds
  <2>2. Active' = Active \ {c}
    BY <2>1, Zenon DEF CoreInv, CoreTypes, Active
  <2>3. Cardinality(Active') = Cardinality(Active) - 1
    BY <2>1, <2>2, FS_RemoveElement
  <2>4. CoreTypes' /\ AnnounceInv'
    BY <1>1, <2>1, QuietKeeps DEF CoreInv, CoreTypes
  <2>5. conn[c] # "none"
    BY <2>1, Zenon DEF Active
  <2>6. TaskInv'
    BY <1>1, <2>1, <2>5, Zenon DEF CoreInv, CoreTypes, TaskInv
  <2>7. ConnInv'
    BY <1>1, <2>1, <2>2, Zenon DEF CoreInv, CoreTypes, ConnInv
  <2> QED
    BY <2>1, <2>3, <2>4, <2>6, <2>7 DEF CoreInv, CoreTypes, PermitsFollowConnections
<1>4. CASE JoinAny(c)
  <2>1. c \notin Active /\ tasks' = tasks \ {c} /\ UNCHANGED <<conn, core_permits>>
    BY <1>4, Zenon DEF JoinAny
  <2>2. Active' = Active
    BY <2>1, Zenon DEF Active
  <2>3. CoreTypes' /\ AnnounceInv'
    BY <1>1, <2>1, QuietKeeps, Zenon DEF CoreInv, CoreTypes
  <2>4. TaskInv' /\ ConnInv'
    BY <1>1, <2>1, <2>2, Zenon DEF CoreInv, CoreTypes, TaskInv, ConnInv
  <2> QED
    BY <2>1, <2>2, <2>3, <2>4, Zenon DEF CoreInv, PermitsFollowConnections
<1> QED
  BY <1>2, <1>3, <1>4, Zenon

\* The steps of the server, by what they do to the connections.
LEMMA CoreStepKinds ==
    ASSUME [CoreNext]_coreVars
    PROVE  \/ HandleStep \/ TaskMoves \/ MarkRunning \/ BeginDrain \/ TaskReturns
           \/ GraceExpires \/ TaskCancelled
           \/ \E c \in CoreConns : AcceptStream(c) \/ ConnTold(c) \/ ConnEnds(c) \/ JoinAny(c)
BY Zenon DEF CoreNext, HandleStep, TaskMoves, TaskStep

LEMMA CoreInitHolds == CoreInit => CoreInv
<1> SUFFICES ASSUME CoreInit PROVE CoreInv
  BY Zenon
<1> USE ThreadsAreTyped, LimitsAssumption
<1>1. Active = {}
  BY Zenon DEF CoreInit, Active
<1>2. CoreTypes
  BY DEF CoreInit, CoreTypes, Labels, TaskLabels
<1>3. TaskInv /\ ConnInv
  BY <1>1, Zenon DEF CoreInit, TaskInv, ConnInv, Terminal
<1>4. PermitsFollowConnections
  BY <1>1, FS_EmptySet DEF CoreInit, PermitsFollowConnections
<1>5. AnnounceInv
  BY DEF CoreInit, AnnounceInv, TerminalIsAnnounced
<1> QED
  BY <1>2, <1>3, <1>4, <1>5, Zenon DEF CoreInv

LEMMA CoreStepKeeps == CoreInv /\ [CoreNext]_coreVars => CoreInv'
<1> SUFFICES ASSUME CoreInv, [CoreNext]_coreVars PROVE CoreInv'
  BY Zenon
<1> QED
  BY Zenon, CoreStepKinds, HandleStepKeeps, TaskMovesKeep, MarkRunningKeeps, TaskTransitionsKeep,
     AbortsKeep, AcceptStreamKeeps, ConnStepsKeep

\* For any number of threads and peers and any limit, what the handle is told at
\* the end is true: an owner blocked in wait_internal on a terminal server has the
\* announcement in its channel or on its way, Stopped means that no connection and
\* no permit is out, Clean that every connection ended by itself, and a permit is
\* out exactly while its connection exists (lifecycle.rs, handle.rs, accept.rs).
THEOREM CoreResultsAreHonest == CoreSpec => []TerminalIsHonest
<1>1. CoreInv => TerminalIsHonest
  <2> SUFFICES ASSUME CoreInv PROVE TerminalIsHonest
    BY Zenon
  <2>1. CleanMeansCompleted
    BY Zenon DEF CoreInv, CoreTypes, TaskInv, ConnInv, Active, CleanMeansCompleted
  <2>2. StoppedIsQuiet
    <3> SUFFICES ASSUME state = "Stopped", ~aborted
                 PROVE  Active = {} /\ tasks = {} /\ core_permits = MaxCoreConnections
      BY Zenon DEF StoppedIsQuiet
    <3>1. tasks = {} /\ Active = {}
      BY Zenon DEF CoreInv, TaskInv, ConnInv
    <3> QED
      BY <3>1, FS_EmptySet DEF CoreInv, CoreTypes, PermitsFollowConnections
  <2> QED
    BY <2>1, <2>2, Zenon DEF CoreInv, AnnounceInv, TerminalIsHonest
<1> QED
  BY <1>1, CoreInitHolds, CoreStepKeeps, PTL DEF CoreSpec

-----------------------------------------------------------------------------
(* The accept loop implements the admission contract.                      *)

\* The fates of all streams, and the end of the loop, as the contract sees them.
CoreFates == [c \in CoreConns |-> CoreFate(c)]

CoreLeft == pc[Task] \notin {"spawned", "loop", "backoff"}

\* The contract counts exactly the live connections.
LEMMA HeldIsActive ==
    ASSUME CoreTypes
    PROVE  CoreAdmission!Cardinality(CoreAdmission!Held) = Cardinality(Active)
<1>1. CoreAdmission!Held = Active
  BY Zenon DEF CoreAdmission!Held, CoreFate, Active, CoreTypes
<1>2. CoreAdmission!Cardinality(Active) = Cardinality(Active)
  BY Zenon DEF CoreAdmission!Cardinality, Cardinality
<1> QED
  BY <1>1, <1>2, Zenon

\* A step that leaves every fate alone and never goes back to the loop refines.
LEMMA QuietRefines ==
    ASSUME CoreFates' = CoreFates, CoreLeft => CoreLeft'
    PROVE  CoreAdmission!Close \/ UNCHANGED <<CoreFates, CoreLeft>>
<1>1. CASE ~CoreLeft /\ CoreLeft'
  BY <1>1, Zenon DEF CoreAdmission!Close, CoreFates, CoreLeft
<1>2. CASE ~(~CoreLeft /\ CoreLeft')
  <2>1. CoreLeft' = CoreLeft
    BY <1>2, Zenon DEF CoreLeft
  <2> QED
    BY <2>1, Zenon
<1> QED
  BY <1>1, <1>2, Zenon

\* The fates depend on the live connections and on which streams were never served.
LEMMA SameFates ==
    ASSUME CoreTypes, Active' = Active,
           \A c \in CoreConns \ Active : conn'[c] = conn[c]
    PROVE  CoreFates' = CoreFates
<1>1. ASSUME NEW c \in CoreConns PROVE CoreFate(c)' = CoreFate(c)
  <2>1. CASE c \in Active
    BY <2>1, Zenon DEF Active, CoreFate
  <2>2. CASE c \notin Active
    BY <2>2, Zenon DEF CoreFate
  <2> QED
    BY <2>1, <2>2, Zenon
<1> QED
  BY <1>1, Zenon DEF CoreFates

\* Everything but accepting and ending a connection is quiet.
LEMMA QuietStepsRefine ==
    ASSUME CoreInv,
           \/ HandleStep \/ TaskMoves \/ MarkRunning \/ BeginDrain \/ TaskReturns
           \/ GraceExpires \/ TaskCancelled
           \/ \E c \in CoreConns : ConnTold(c) \/ JoinAny(c)
    PROVE  CoreAdmission!Close \/ UNCHANGED <<CoreFates, CoreLeft>>
<1> USE ThreadsAreTyped
<1>1. CASE HandleStep
  <2>1. conn' = conn /\ pc'[Task] = pc[Task]
    BY <1>1, HandleStepFrame, Zenon DEF CoreInv, HandleFrame
  <2> QED
    BY <2>1, SameFates, QuietRefines, Zenon DEF CoreInv, Active, CoreLeft
<1>2. CASE TaskMoves \/ MarkRunning \/ BeginDrain \/ TaskReturns
  <2>1. conn' = conn
    BY <1>2, Zenon DEF TaskMoves, BackoffEnds, ShutdownSeen, AllJoined, AcceptRetries, AcceptFails,
       MarkRunning, BeginDrain, TaskReturns, connVars
  <2>2. CoreLeft => CoreLeft'
    BY <1>2, Zenon DEF TaskMoves, BackoffEnds, ShutdownSeen, AllJoined, AcceptRetries, AcceptFails,
       MarkRunning, BeginDrain, TaskReturns, DrainWithOps, MarkStopped, At, Goto, CoreLeft,
       CoreInv, CoreTypes
  <2> QED
    BY <2>1, <2>2, SameFates, QuietRefines, Zenon DEF CoreInv, Active
<1>3. CASE GraceExpires \/ TaskCancelled
  <2>1. AbortAll
    BY <1>3, Zenon DEF GraceExpires, TaskCancelled
  <2>2. Active' = Active /\ \A c \in CoreConns \ Active : conn'[c] = conn[c]
    BY <2>1, AbortAllKeepsActive, Zenon DEF CoreInv, AbortAll
  <2>3. CoreLeft => CoreLeft'
    BY <1>3, Zenon DEF GraceExpires, TaskCancelled, Goto, CoreLeft, CoreInv, CoreTypes
  <2> QED
    BY <2>2, <2>3, SameFates, QuietRefines, Zenon DEF CoreInv
<1>4. ASSUME NEW c \in CoreConns, ConnTold(c) \/ JoinAny(c)
      PROVE  CoreAdmission!Close \/ UNCHANGED <<CoreFates, CoreLeft>>
  <2>1. Active' = Active /\ \A d \in CoreConns \ Active : conn'[d] = conn[d]
    BY <1>4, Zenon DEF ConnTold, JoinAny, Active, CoreInv, CoreTypes
  <2>2. CoreLeft => CoreLeft'
    BY <1>4, Zenon DEF ConnTold, JoinAny, CoreLeft
  <2> QED
    BY <2>1, <2>2, SameFates, QuietRefines, Zenon DEF CoreInv
<1> QED
  BY <1>1, <1>2, <1>3, <1>4, Zenon

\* Accepting is an admission while a permit is free, a refusal when the live
\* connections hold them all.
LEMMA AcceptStreamRefines ==
    ASSUME CoreInv, NEW c \in CoreConns, AcceptStream(c)
    PROVE  CoreAdmission!Admit(c) \/ CoreAdmission!Refuse(c)
<1> USE LimitsAssumption, ActiveIsFinite, HeldIsActive
<1>1. CoreFates[c] = "none" /\ conn[c] = "none"
  BY Zenon DEF AcceptStream, CoreFates, CoreFate, Active, CoreInv, CoreTypes
<1>2. ~CoreLeft
  BY Zenon DEF AcceptStream, At, CoreLeft
<1>3. CoreLeft' = CoreLeft
  BY Zenon DEF AcceptStream, CoreLeft
<1>4. CASE core_permits > 0
  <2>1. CoreAdmission!Cardinality(CoreAdmission!Held) < MaxCoreConnections
    BY <1>4 DEF CoreInv, CoreTypes, PermitsFollowConnections
  <2>2. conn' = [conn EXCEPT ![c] = "serving"]
    BY <1>4, Zenon DEF AcceptStream
  <2>3. CoreFates' = [CoreFates EXCEPT ![c] = "held"]
    BY <2>2, Zenon DEF CoreFates, CoreFate, Active, CoreInv, CoreTypes
  <2> QED
    BY <1>1, <1>2, <1>3, <2>1, <2>3, Zenon DEF CoreAdmission!Admit, CoreFates, CoreLeft
<1>5. CASE ~(core_permits > 0)
  <2>1. CoreAdmission!Cardinality(CoreAdmission!Held) = MaxCoreConnections
    BY <1>5 DEF CoreInv, CoreTypes, PermitsFollowConnections
  <2>2. conn' = [conn EXCEPT ![c] = "refused"]
    BY <1>5, Zenon DEF AcceptStream
  <2>3. CoreFates' = [CoreFates EXCEPT ![c] = "refused"]
    BY <1>1, <2>2, Zenon DEF CoreFates, CoreFate, Active, CoreInv, CoreTypes
  <2> QED
    BY <1>1, <1>2, <1>3, <2>1, <2>3, Zenon DEF CoreAdmission!Refuse, CoreFates, CoreLeft
<1> QED
  BY <1>4, <1>5, Zenon

\* However a connection ends, the contract sees one release.
LEMMA ConnEndsRefines ==
    ASSUME CoreInv, NEW c \in CoreConns, ConnEnds(c)
    PROVE  CoreAdmission!Release(c)
<1>1. CoreFate(c) = "held"
  BY Zenon DEF ConnEnds, CoreFate, Active, CoreInv, CoreTypes
<1>2. conn' = [conn EXCEPT ![c] = IF conn[c] = "aborting" THEN "cancelled" ELSE "finished"]
  BY Zenon DEF ConnEnds
<1>3. CoreFates' = [CoreFates EXCEPT ![c] = "released"]
  BY <1>2, Zenon DEF CoreFates, CoreFate, Active, CoreInv, CoreTypes
<1>4. CoreLeft' = CoreLeft
  BY Zenon DEF ConnEnds, CoreLeft
<1> QED
  BY <1>1, <1>3, <1>4, Zenon DEF CoreAdmission!Release, CoreFates, CoreLeft

\* The compatibility server implements the admission contract, for any number of
\* peers and any limit, also when its accept task is cancelled: an aborted connection
\* counts until its future is dropped (accept.rs).
THEOREM CoreServerImplementsAdmission == CoreSpec => CoreAdmitsWithinLimit
<1>1. ASSUME CoreInit PROVE CoreAdmission!Init
  <2>1. \A c \in CoreConns : CoreFate(c) = "none"
    BY <1>1, Zenon DEF CoreInit, CoreFate, Active
  <2>2. CoreLeft \in BOOLEAN
    BY Zenon DEF CoreLeft
  <2> QED
    BY <2>1, <2>2, Zenon DEF CoreAdmission!Init, CoreLeft
<1>2. CoreInv /\ [CoreNext]_coreVars => [CoreAdmission!Next]_<<CoreFates, CoreLeft>>
  <2> SUFFICES ASSUME CoreInv, [CoreNext]_coreVars
               PROVE  CoreAdmission!Next \/ UNCHANGED <<CoreFates, CoreLeft>>
    BY Zenon
  <2>1. CASE \E c \in CoreConns : AcceptStream(c)
    BY <2>1, AcceptStreamRefines, Zenon DEF CoreAdmission!Next
  <2>2. CASE \E c \in CoreConns : ConnEnds(c)
    BY <2>2, ConnEndsRefines, Zenon DEF CoreAdmission!Next
  <2>3. CASE ~(\E c \in CoreConns : AcceptStream(c) \/ ConnEnds(c))
    BY <2>3, CoreStepKinds, QuietStepsRefine, Zenon DEF CoreAdmission!Next
  <2> QED
    BY <2>1, <2>2, <2>3, Zenon
<1> QED
  BY <1>1, <1>2, CoreInitHolds, CoreStepKeeps, PTL
     DEF CoreSpec, CoreAdmitsWithinLimit, CoreAdmission!Spec, CoreFates, CoreLeft
==============================================================================
