---------------------------- MODULE PythonServer ----------------------------
(***************************************************************************)
(* The native server behind the Python package: the lifecycle calls of     *)
(* PyServer (server/runtime.rs) made by several Python threads, and the    *)
(* HTTPServer facade over them (server.py).                                *)
(*                                                                         *)
(* A method runs with the interpreter lock (GIL) from its call to its      *)
(* return, except inside py.detach.  The mutex around the runtime is held  *)
(* across two such sections, so a thread can hold the mutex and need the   *)
(* GIL, or hold the GIL and need the mutex.  The mutexes around the handle *)
(* and the address are only ever held with the GIL and are not modelled.   *)
(* Every successful start is a new generation; 0 stands for None.          *)
(***************************************************************************)
EXTENDS Integers, FiniteSets

CONSTANTS
    Threads,     \* Python threads
    MaxGens,     \* servers ever started
    Facades      \* {FALSE}, {TRUE} or both: PyServer itself, or HTTPServer over it

ASSUME GensAssumption == MaxGens \in Nat

VARIABLES
    facade,      \* the threads go through HTTPServer
    at,          \* where each thread is
    call,        \* the call it is making
    took,        \* the generation it has in its hands
    handle,      \* PyServer.handle
    runtime,     \* PyServer.runtime
    addr,        \* PyServer.addr, as the generation it belongs to
    starting,    \* PyServer.starting
    native,      \* generation -> absent, running, stopping or gone
    callbacks,   \* generation -> handlers on blocking threads
    stopEvent,   \* HTTPServer._stop_event
    serving,     \* the threads inside serve_forever
    closed       \* HTTPServer.server_close has let go of the server

pyVars == <<facade, at, call, took, handle, runtime, addr, starting, native, callbacks, stopEvent, serving, closed>>

Gens == 1..MaxGens
Calls == {"start", "stop", "force_shutdown", "wait", "close"}

Live(g) == native[g] \in {"running", "stopping"}
GilFree == \A t \in Threads : at[t] \notin {"locking", "collecting"}
MutexFree == \A t \in Threads : at[t] \notin {"draining", "attaching", "dropping", "clearing"}

PyInit ==
    /\ facade \in Facades
    /\ at = [t \in Threads |-> "idle"] /\ call = [t \in Threads |-> "none"] /\ took = [t \in Threads |-> 0]
    /\ handle = 0 /\ runtime = 0 /\ addr = 0 /\ starting = FALSE
    /\ native = [g \in Gens |-> "absent"] /\ callbacks = [g \in Gens |-> 0]
    /\ stopEvent = FALSE /\ serving = {} /\ closed = FALSE

Goto(t, place) == at' = [at EXCEPT ![t] = place]

(* handle.shutdown()                                                       *)
Request(g) ==
    IF g # 0 /\ native[g] = "running" THEN [native EXCEPT ![g] = "stopping"] ELSE native

(***************************************************************************)
(* PyServer                                                                *)
(***************************************************************************)

(* Every call first has the GIL.  stop(), force_shutdown() and wait() take *)
(* the handle; start() looks at the runtime under its mutex; the last two  *)
(* return at once when there is no handle.                                 *)
Enter(t, c) ==
    /\ at[t] = "idle" /\ GilFree
    /\ call' = [call EXCEPT ![t] = c]
    /\ IF c = "start" THEN Goto(t, "locking") /\ UNCHANGED <<took, handle, native>>
       ELSE /\ took' = [took EXCEPT ![t] = handle]
            /\ handle' = 0
            /\ native' = IF c = "stop" THEN Request(handle) ELSE native
            /\ Goto(t, IF handle = 0 /\ c # "stop" THEN "returning" ELSE "locking")

Call(t) ==
    /\ ~ facade
    /\ \E c \in {"start", "stop", "force_shutdown", "wait"} : Enter(t, c)
    /\ UNCHANGED <<facade, runtime, addr, starting, callbacks, stopEvent, serving, closed>>

Shutdown(t) ==
    /\ ~ facade /\ at[t] = "idle" /\ GilFree
    /\ native' = Request(handle) /\ native' # native
    /\ UNCHANGED <<facade, at, call, took, handle, runtime, addr, starting, callbacks, stopEvent, serving, closed>>

(* start() refuses a server that has a handle or a runtime, or is being    *)
(* started.                                                                *)
LockForStart(t) ==
    /\ at[t] = "locking" /\ MutexFree /\ call[t] = "start"
    /\ IF handle # 0 \/ runtime # 0 \/ starting
       THEN Goto(t, "returning") /\ UNCHANGED starting
       ELSE Goto(t, "building") /\ starting' = TRUE
    /\ UNCHANGED <<facade, call, took, handle, runtime, addr, native, callbacks, stopEvent, serving, closed>>

(* The mutex stays with the thread through the drain, or through the drop  *)
(* of a runtime whose handle somebody else took.                           *)
LockForStop(t) ==
    /\ at[t] = "locking" /\ MutexFree /\ call[t] # "start"
    /\ IF runtime = 0 THEN Goto(t, "returning") /\ addr' = 0 /\ UNCHANGED <<took, runtime>>
       ELSE IF took[t] # 0 THEN Goto(t, "draining") /\ UNCHANGED <<took, runtime, addr>>
       ELSE Goto(t, "dropping") /\ took' = [took EXCEPT ![t] = runtime] /\ runtime' = 0 /\ UNCHANGED addr
    /\ UNCHANGED <<facade, call, handle, starting, native, callbacks, stopEvent, serving, closed>>

(* Without the GIL: the runtime is built, the server bound and awaited;    *)
(* or one of them fails and nothing is left.                               *)
Build(t) ==
    /\ at[t] = "building"
    /\ \/ \E g \in Gens :
            /\ native[g] = "absent" /\ \A h \in 1..(g - 1) : native[h] # "absent"
            /\ native' = [native EXCEPT ![g] = "running"] /\ took' = [took EXCEPT ![t] = g]
       \/ UNCHANGED <<native, took>>
    /\ Goto(t, "publishing")
    /\ UNCHANGED <<facade, call, handle, runtime, addr, starting, callbacks, stopEvent, serving, closed>>

Publish(t) ==
    /\ at[t] = "publishing" /\ GilFree /\ MutexFree
    /\ starting' = FALSE
    /\ IF took[t] = 0 THEN UNCHANGED <<handle, runtime, addr>>
       ELSE handle' = took[t] /\ runtime' = took[t] /\ addr' = took[t]
    /\ Goto(t, "returning")
    /\ took' = [took EXCEPT ![t] = 0]
    /\ UNCHANGED <<facade, call, native, callbacks, stopEvent, serving, closed>>

(* handle.wait() or force_shutdown() under a deadline.                     *)
DrainEnds(t) ==
    /\ at[t] = "draining"
    /\ native' = IF call[t] = "force_shutdown" THEN [native EXCEPT ![took[t]] = "gone"] ELSE native
    /\ Goto(t, "attaching")
    /\ UNCHANGED <<facade, call, took, handle, runtime, addr, starting, callbacks, stopEvent, serving, closed>>

(* Back with the GIL: the runtime is taken, and dropped without the GIL by *)
(* stop() and wait(), in the background by force_shutdown().               *)
Attach(t) ==
    /\ at[t] = "attaching" /\ GilFree
    /\ runtime' = 0
    /\ IF call[t] = "force_shutdown"
       THEN Goto(t, "returning") /\ addr' = 0 /\ native' = [native EXCEPT ![took[t]] = "gone"]
       ELSE Goto(t, "dropping") /\ UNCHANGED <<addr, native>>
    /\ UNCHANGED <<facade, call, took, handle, starting, callbacks, stopEvent, serving, closed>>

(* The drop ends the tasks and waits for the blocking threads.             *)
DropRuntime(t) ==
    /\ at[t] = "dropping" /\ callbacks[took[t]] = 0
    /\ native' = [native EXCEPT ![took[t]] = "gone"]
    /\ Goto(t, "clearing")
    /\ UNCHANGED <<facade, call, took, handle, runtime, addr, starting, callbacks, stopEvent, serving, closed>>

Clear(t) ==
    /\ at[t] = "clearing" /\ GilFree
    /\ addr' = 0
    /\ Goto(t, "returning")
    /\ UNCHANGED <<facade, call, took, handle, runtime, starting, native, callbacks, stopEvent, serving, closed>>

(***************************************************************************)
(* HTTPServer                                                              *)
(***************************************************************************)

(* serve_forever() starts a server that was never started, and waits for   *)
(* the event.                                                              *)
ServeForever(t) ==
    /\ facade /\ ~ closed /\ serving = {} /\ at[t] = "idle"
    /\ serving' = {t}
    /\ IF \A g \in Gens : native[g] = "absent" THEN Enter(t, "start")
       ELSE GilFree /\ Goto(t, "event") /\ UNCHANGED <<call, took, handle, native>>
    /\ UNCHANGED <<facade, runtime, addr, starting, callbacks, stopEvent, closed>>

(* stop_event.wait(), then native.wait().                                  *)
EventIsSet(t) ==
    /\ at[t] = "event" /\ stopEvent /\ GilFree
    /\ call' = [call EXCEPT ![t] = "wait"]
    /\ took' = [took EXCEPT ![t] = handle] /\ handle' = 0
    /\ Goto(t, IF handle = 0 THEN "returning" ELSE "locking")
    /\ UNCHANGED <<facade, runtime, addr, starting, native, callbacks, stopEvent, serving, closed>>

(* HTTPServer.shutdown() from another thread.                              *)
FacadeShutdown(t) ==
    /\ facade /\ ~ closed /\ at[t] = "idle" /\ t \notin serving /\ GilFree /\ ~ stopEvent
    /\ native' = Request(handle)
    /\ stopEvent' = TRUE
    /\ UNCHANGED <<facade, at, call, took, handle, runtime, addr, starting, callbacks, serving, closed>>

(* server_close() also waits, at most five seconds, for serve_forever.     *)
ServerClose(t) ==
    /\ facade /\ ~ closed /\ at[t] = "idle" /\ t \notin serving /\ GilFree
    /\ native' = Request(handle)
    /\ stopEvent' = TRUE
    /\ Goto(t, "closing")
    /\ call' = [call EXCEPT ![t] = "close"]
    /\ UNCHANGED <<facade, took, handle, runtime, addr, starting, callbacks, serving, closed>>

(* The last reference to PyServer goes with the GIL held, and with it the  *)
(* runtime; serve_forever keeps a reference of its own.                    *)
LetGo(t) ==
    /\ at[t] = "closing" /\ GilFree
    /\ closed' = TRUE
    /\ IF serving = {} /\ runtime # 0
       THEN /\ Goto(t, "collecting") /\ took' = [took EXCEPT ![t] = runtime]
            /\ runtime' = 0 /\ handle' = 0 /\ addr' = 0
       ELSE Goto(t, "returning") /\ UNCHANGED <<took, runtime, handle, addr>>
    /\ UNCHANGED <<facade, call, starting, native, callbacks, stopEvent, serving>>

Collect(t) ==
    /\ at[t] = "collecting" /\ callbacks[took[t]] = 0
    /\ native' = [native EXCEPT ![took[t]] = "gone"]
    /\ Goto(t, "returning")
    /\ UNCHANGED <<facade, call, took, handle, runtime, addr, starting, callbacks, stopEvent, serving, closed>>

(* A call returns; serve_forever goes on from start() to the event, and    *)
(* ends after wait().  Its reference may be the last.                      *)
Leave(t) ==
    /\ at[t] = "returning"
    /\ call' = [call EXCEPT ![t] = "none"] /\ took' = [took EXCEPT ![t] = 0]
    /\ IF t \in serving /\ call[t] = "start" /\ runtime # 0
       THEN Goto(t, "event") /\ UNCHANGED serving
       ELSE Goto(t, "idle") /\ serving' = serving \ {t}
    /\ UNCHANGED <<facade, handle, runtime, addr, starting, native, callbacks, stopEvent, closed>>

(***************************************************************************)
(* The native server                                                       *)
(***************************************************************************)

(* It fails, or has drained what it was asked to.                          *)
NativeStops(g) ==
    /\ Live(g)
    /\ native' = [native EXCEPT ![g] = IF native[g] = "running" THEN "stopping" ELSE "gone"]
    /\ UNCHANGED <<facade, at, call, took, handle, runtime, addr, starting, callbacks, stopEvent, serving, closed>>

(* A request reaches a Python handler, on a blocking thread that needs the *)
(* GIL to run and to end.                                                  *)
CallbackBegins(g) ==
    /\ native[g] = "running" /\ callbacks[g] = 0
    /\ callbacks' = [callbacks EXCEPT ![g] = 1]
    /\ UNCHANGED <<facade, at, call, took, handle, runtime, addr, starting, native, stopEvent, serving, closed>>

CallbackEnds(g) ==
    /\ callbacks[g] = 1 /\ GilFree
    /\ callbacks' = [callbacks EXCEPT ![g] = 0]
    /\ UNCHANGED <<facade, at, call, took, handle, runtime, addr, starting, native, stopEvent, serving, closed>>

Continue(t) ==
    \/ LockForStart(t) \/ LockForStop(t) \/ Build(t) \/ Publish(t) \/ DrainEnds(t) \/ Attach(t)
    \/ DropRuntime(t) \/ Clear(t) \/ EventIsSet(t) \/ LetGo(t) \/ Collect(t) \/ Leave(t)

PyNext ==
    \/ \E t \in Threads : Call(t) \/ Shutdown(t) \/ Continue(t)
                          \/ ServeForever(t) \/ FacadeShutdown(t) \/ ServerClose(t)
    \/ \E g \in Gens : NativeStops(g) \/ CallbackBegins(g) \/ CallbackEnds(g)

(* A thread that can go on does, the GIL is handed round, and handlers     *)
(* return.                                                                 *)
PyFairness ==
    /\ \A t \in Threads : SF_pyVars(Continue(t))
    /\ \A g \in Gens : SF_pyVars(CallbackEnds(g))

PySpec == PyInit /\ [][PyNext]_pyVars /\ PyFairness

(***************************************************************************)
(* Properties                                                              *)
(***************************************************************************)

PyTypeOK ==
    /\ facade \in BOOLEAN /\ starting \in BOOLEAN /\ stopEvent \in BOOLEAN /\ closed \in BOOLEAN
    /\ at \in [Threads -> {"idle", "locking", "building", "publishing", "draining", "attaching", "dropping",
                           "clearing", "event", "closing", "collecting", "returning"}]
    /\ call \in [Threads -> Calls \cup {"none"}] /\ took \in [Threads -> 0..MaxGens]
    /\ handle \in 0..MaxGens /\ runtime \in 0..MaxGens /\ addr \in 0..MaxGens
    /\ native \in [Gens -> {"absent", "running", "stopping", "gone"}]
    /\ callbacks \in [Gens -> 0..1] /\ serving \subseteq Threads

(* However the threads overlap, one PyServer owns at most one native       *)
(* server, its handle, runtime and address are those of the same one, and  *)
(* a native server that still has tasks is reachable: through PyServer, or *)
(* by the call that is building it or taking it down.                      *)
OneServerAtATime ==
    /\ \A g, h \in Gens : Live(g) /\ Live(h) => g = h
    /\ (handle # 0 => runtime = handle /\ addr = handle)
    /\ \A g \in Gens : Live(g) => runtime = g \/ \E t \in Threads : took[t] = g

(* Two shapes of overlap from which nobody moves: a thread that has the    *)
(* GIL wants the runtime mutex while its holder needs the GIL, and a       *)
(* runtime collected under the GIL while one of its handlers needs it.     *)
Inverted ==
    \/ ~ MutexFree /\ ~ GilFree
    \/ \E t \in Threads : at[t] = "collecting" /\ callbacks[took[t]] > 0

Busy(t) == at[t] # "idle" /\ (at[t] = "event" => stopEvent)

(* Every lifecycle call returns, and serve_forever returns once the event  *)
(* is set, unless the GIL and the runtime mutex were taken in opposite     *)
(* orders.                                                                 *)
CallsReturn == \A t \in Threads : Busy(t) ~> ~ Busy(t) \/ Inverted

(* What stop(), force_shutdown() and wait() say of themselves (runtime.rs: *)
(* "the blocking drain below must not stall other threads calling state(), *)
(* wait_ready(), start(), or stop()"): a thread that enters a call while   *)
(* another drains comes out of it.                                         *)
DrainStallsNobody == \A t \in Threads : at[t] = "locking" ~> at[t] # "locking"
=============================================================================
