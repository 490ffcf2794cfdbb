----------------------------- MODULE CliProcess -----------------------------
(***************************************************************************)
(* The life of an eggserve process: run_cli and its signal task            *)
(* (eggserve-bin), and the ServerProcess that starts and stops it from     *)
(* Python (subprocess.py).                                                 *)
(*                                                                         *)
(* The runtime of the process is single threaded: the signal task, which   *)
(* arms the handlers, first runs when main first yields.  Until then a     *)
(* signal has its default action.  The server is abstracted to its         *)
(* connections and to whether its accept loop failed; its own drain is     *)
(* modelled in CoreServer.                                                 *)
(***************************************************************************)
EXTENDS Integers

CONSTANTS
    Fates,      \* how far a start may get: "help", "error", "startFails", "serves"
    MaxConns,   \* connections open at a time
    MaxStarts,  \* children started by one ServerProcess
    Grace       \* graceful_shutdown_timeout, in ticks

ASSUME GraceAssumption == Grace \in Nat \ {0} /\ MaxConns \in Nat /\ MaxStarts \in Nat

VARIABLES
    main,       \* what run_cli is at: none, prepare, starting, receiving, waiting, exited
    fate,       \* what this start will come to
    signals,    \* the signal task: none, spawned, armed, pending (a signal was caught), done
    channel,    \* messages in the broadcast channel, which keeps one
    conns,      \* open connections
    failed,     \* the accept loop ended with an error
    drained,    \* the server task returned after the shutdown request
    elapsed,    \* ticks since the shutdown request
    code,       \* exit code, "signal" when killed, "none" while running
    cut,        \* connections that were open when the process ended
    parent,     \* the caller of ServerProcess: idle, waiting, stopping, killing
    patience,   \* stop(timeout): "forever" or "bounded"
    process,    \* ServerProcess._process holds a child
    started     \* children started so far

childVars == <<main, fate, signals, channel, conns, failed, drained, elapsed, code, cut>>
parentVars == <<parent, patience, process, started>>
procVars == <<childVars, parentVars>>

Alive == main \notin {"none", "exited"}
ChildInit(m, f) ==
    /\ main = m /\ fate = f /\ signals = "none" /\ channel = 0 /\ conns = 0 /\ failed = FALSE
    /\ drained = FALSE /\ elapsed = 0 /\ code = "none" /\ cut = 0

ProcInit ==
    /\ \E f \in Fates : ChildInit("none", f)
    /\ parent = "idle" /\ patience = "forever" /\ process = FALSE /\ started = 0

(***************************************************************************)
(* The child                                                               *)
(***************************************************************************)

Exit(c) == main' = "exited" /\ code' = c /\ cut' = conns /\ conns' = 0 /\ signals' = "done"

(* Arguments, limits, TLS material, the server: anything wrong ends the    *)
(* process; --help and --version end it well.                              *)
Prepare ==
    /\ main = "prepare"
    /\ CASE fate = "help" -> Exit("0")
         [] fate = "error" -> Exit("1")
         [] OTHER -> main' = "starting" /\ signals' = "spawned" /\ UNCHANGED <<code, cut, conns>>
    /\ UNCHANGED <<fate, channel, failed, drained, elapsed>>

(* The signal task arms its three handlers; one that cannot be armed sends *)
(* at once, and the select then sends again.                               *)
Arm ==
    /\ signals = "spawned" /\ main \in {"starting", "receiving"}
    /\ \/ signals' = "armed" /\ UNCHANGED channel
       \/ signals' = "done" /\ channel' = 1
    /\ UNCHANGED <<main, fate, conns, failed, drained, elapsed, code, cut>>

SendShutdown ==
    /\ signals = "pending"
    /\ signals' = "done" /\ channel' = 1
    /\ UNCHANGED <<main, fate, conns, failed, drained, elapsed, code, cut>>

(* server.start(): bound and serving, or an error.                         *)
StartServer ==
    /\ main = "starting"
    /\ IF fate = "startFails" THEN Exit("1") ELSE main' = "receiving" /\ UNCHANGED <<code, cut, conns, signals>>
    /\ UNCHANGED <<fate, channel, failed, drained, elapsed>>

(* A message, or a channel whose sender is gone.                           *)
ReceiveShutdown ==
    /\ main = "receiving"
    /\ channel > 0 \/ signals = "done"
    /\ main' = "waiting" /\ channel' = 0 /\ signals' = "done" /\ elapsed' = 0
    /\ UNCHANGED <<fate, conns, failed, drained, code, cut>>

(* Mutant: an overrun of the drain is not an error.                        *)
WaitEndsClean ==
    /\ main = "waiting"
    /\ \/ failed /\ Exit("1")
       \/ drained /\ ~ failed /\ Exit("0")
       \/ ~ failed /\ ~ drained /\ elapsed >= Grace /\ Exit("0")
    /\ UNCHANGED <<fate, channel, failed, drained, elapsed>>

(* Mutant: main awaits the server without a timeout.                       *)
WaitEndsUnbounded ==
    /\ main = "waiting"
    /\ \/ failed /\ Exit("1")
       \/ drained /\ ~ failed /\ Exit("0")
    /\ UNCHANGED <<fate, channel, failed, drained, elapsed>>

(* timeout(shutdown_timeout, handle.wait()): wait is polled first.         *)
WaitEnds ==
    /\ main = "waiting"
    /\ \/ failed /\ Exit("1")
       \/ drained /\ ~ failed /\ Exit("0")
       \/ ~ failed /\ ~ drained /\ elapsed >= Grace /\ Exit("1")
    /\ UNCHANGED <<fate, channel, failed, drained, elapsed>>

(* The server task: connections come while it serves, and go.  Its own     *)
(* drain starts no earlier than main's timeout and lasts as long, and main *)
(* is polled before it: the outer timeout is the one that fires.           *)
Connect ==
    /\ main = "receiving" /\ ~ failed /\ conns < MaxConns
    /\ conns' = conns + 1
    /\ UNCHANGED <<main, fate, signals, channel, failed, drained, elapsed, code, cut>>

Disconnect ==
    /\ conns > 0 /\ Alive
    /\ conns' = conns - 1
    /\ UNCHANGED <<main, fate, signals, channel, failed, drained, elapsed, code, cut>>

AcceptFails ==
    /\ main \in {"receiving", "waiting"} /\ ~ failed /\ ~ drained
    /\ failed' = TRUE
    /\ UNCHANGED <<main, fate, signals, channel, conns, drained, elapsed, code, cut>>

Drain ==
    /\ main = "waiting" /\ conns = 0 /\ ~ failed /\ ~ drained
    /\ drained' = TRUE
    /\ UNCHANGED <<main, fate, signals, channel, conns, failed, elapsed, code, cut>>

Elapse ==
    /\ main = "waiting" /\ elapsed < Grace
    /\ elapsed' = elapsed + 1
    /\ UNCHANGED <<main, fate, signals, channel, conns, failed, drained, code, cut>>

ChildStep ==
    \/ Prepare \/ Arm \/ SendShutdown \/ StartServer \/ ReceiveShutdown \/ WaitEnds
    \/ Connect \/ Disconnect \/ AcceptFails \/ Drain \/ Elapse

(* SIGTERM, SIGINT or SIGHUP.                                              *)
Terminate ==
    /\ CASE signals = "armed" -> signals' = "pending" /\ UNCHANGED <<main, code, cut, conns>>
         [] Alive /\ signals \in {"none", "spawned"} -> Exit("signal")
         [] OTHER -> UNCHANGED <<main, code, cut, conns, signals>>
    /\ UNCHANGED <<fate, channel, failed, drained, elapsed>>

Signal == Alive /\ Terminate /\ UNCHANGED parentVars

(***************************************************************************)
(* The parent                                                              *)
(***************************************************************************)

Start ==
    /\ parent = "idle" /\ ~ process /\ started < MaxStarts
    /\ \E f \in Fates :
        /\ main' = "prepare" /\ fate' = f /\ signals' = "none" /\ channel' = 0 /\ conns' = 0
        /\ failed' = FALSE /\ drained' = FALSE /\ elapsed' = 0 /\ code' = "none" /\ cut' = 0
    /\ process' = TRUE /\ started' = started + 1
    /\ UNCHANGED <<parent, patience>>

(* stop() terminates the child and waits for it.                           *)
Stop ==
    /\ parent = "idle" /\ process
    /\ Terminate
    /\ parent' = "stopping" /\ patience' \in {"forever", "bounded"}
    /\ UNCHANGED <<process, started>>

(* A KeyboardInterrupt in the wait() of serve_directory.                   *)
Interrupt ==
    /\ parent = "waiting"
    /\ Terminate
    /\ parent' = "stopping" /\ patience' = "forever"
    /\ UNCHANGED <<process, started>>

Kill ==
    /\ parent = "stopping" /\ patience = "bounded" /\ Alive
    /\ Exit("signal")
    /\ parent' = "killing"
    /\ UNCHANGED <<fate, channel, failed, drained, elapsed, patience, process, started>>

Wait ==
    /\ parent = "idle" /\ process
    /\ parent' = "waiting"
    /\ UNCHANGED <<childVars, patience, process, started>>

(* communicate() or wait() returns when the child is gone.                 *)
Reap ==
    /\ parent \in {"waiting", "stopping", "killing"} /\ main = "exited"
    /\ parent' = "idle" /\ process' = FALSE /\ patience' = "forever"
    /\ UNCHANGED <<childVars, started>>

ProcNext == (ChildStep /\ UNCHANGED parentVars) \/ Signal \/ Start \/ Stop \/ Interrupt \/ Kill \/ Wait \/ Reap

(* The executor polls what is ready, time passes, and a caller blocked in  *)
(* communicate() or wait() is woken.                                       *)
ProcFairness ==
    /\ WF_procVars((Prepare \/ Arm \/ SendShutdown \/ StartServer \/ ReceiveShutdown \/ WaitEnds \/ Elapse)
                   /\ UNCHANGED parentVars)
    /\ WF_procVars(Reap)

ProcSpec == ProcInit /\ [][ProcNext]_procVars /\ ProcFairness

(***************************************************************************)
(* Properties                                                              *)
(***************************************************************************)

ProcTypeOK ==
    /\ main \in {"none", "prepare", "starting", "receiving", "waiting", "exited"}
    /\ fate \in Fates /\ signals \in {"none", "spawned", "armed", "pending", "done"}
    /\ channel \in 0..1 /\ conns \in 0..MaxConns /\ failed \in BOOLEAN /\ drained \in BOOLEAN
    /\ elapsed \in 0..Grace /\ code \in {"none", "0", "1", "signal"} /\ cut \in 0..MaxConns
    /\ parent \in {"idle", "waiting", "stopping", "killing"} /\ patience \in {"forever", "bounded"}
    /\ process \in BOOLEAN /\ started \in 0..MaxStarts

(* The exit code tells a supervisor the truth: 0 after serving means that  *)
(* every connection ended by itself and the accept loop never failed.      *)
ExitCodeIsTrue == code = "0" /\ fate = "serves" => cut = 0 /\ ~ failed /\ drained

(* A ServerProcess never loses its child: while one runs, _process holds   *)
(* it, so that stop() and wait() can reach it.                             *)
NoOrphan == Alive => process

(* A signal that arrives once the handlers are armed is not lost, whether  *)
(* the server is still starting, serving or already failed: the process    *)
(* ends (lib.rs, the receiver subscribed before the signal task).          *)
CaughtSignalEnds == signals = "pending" ~> main = "exited"

(* The process and its owner keep their word: see the two above (lib.rs,   *)
(* the exit codes of run_cli; subprocess.py, ServerProcess).               *)
ProcessIsHonest == ExitCodeIsTrue /\ NoOrphan

(* stop() returns, with or without a timeout, and however the connections  *)
(* behave: main's own timeout bounds the child's drain.                    *)
StopReturns == parent = "stopping" ~> parent = "idle"

(* A process that was told to stop stops, and so does whoever told it.     *)
ProcessEnds == CaughtSignalEnds /\ StopReturns
=============================================================================
