----------------------------- MODULE H1Connection -----------------------------
(***************************************************************************)
(* One HTTP/1 connection: the task that runs drive_connection and polls    *)
(* Hyper's connection future (and with it the request pipeline and the     *)
(* service), the tasks that consume delegated request bodies, and the two  *)
(* helper tasks of a delegated body, its tracker and its watchdog.         *)
(*                                                                         *)
(* The driver, Hyper, the pipeline and the service share one task, so they *)
(* never run at the same time; consumers, trackers and watchdogs run       *)
(* beside them and are broken into their separate atomic operations.       *)
(* Tunnels are in module Tunnel: here no tunnel has been started, so       *)
(* tunnel_count is 0 and drain_tunnels returns at once.                    *)
(*                                                                         *)
(* Time is a bounded clock.  The driver's own deadlines are measured       *)
(* against it; the handler timeout, the body deadline and Hyper's header   *)
(* timeout may fire at any moment.                                         *)
(***************************************************************************)
EXTENDS Integers, FiniteSets

CONSTANTS
    MaxRequests,      \* requests the peer sends at most
    MaxPerConnection, \* max_requests_per_connection
    TotalTimeout,     \* connection_total_timeout, 0 disables it
    IdleTimeout,      \* keep_alive_idle_timeout
    WriteTimeout,     \* response_write_timeout
    DrainBudget,      \* post_shutdown_drain_budget
    IdleOwned,        \* keep_alive_idle_deadline is owned by EggServe
    WriteOwned,       \* response_write_progress_deadline is owned by EggServe
    BodyDeadline,     \* body_read_timeout is set
    MaxTime,          \* bound on the clock
    Urgent            \* runnable tasks run before the clock advances

Requests == 1..MaxRequests

ASSUME ConstantsAreNatural ==
    /\ MaxRequests \in Nat /\ MaxPerConnection \in Nat /\ MaxTime \in Nat
    /\ TotalTimeout \in Nat /\ IdleTimeout \in Nat /\ WriteTimeout \in Nat
    /\ DrainBudget \in Nat
    /\ IdleOwned \in BOOLEAN /\ WriteOwned \in BOOLEAN
    /\ BodyDeadline \in BOOLEAN /\ Urgent \in BOOLEAN

VARIABLES
    now,
    in_flight, outstanding, deferred,   \* ConnectionActivity counters
    last_activity, last_write,          \* ActivityState
    fired,                              \* body_timeout_fired
    permit,                             \* the stored permit of notify
    driver,         \* where drive_connection is
    snap,           \* the ActivityState its snapshot() read
    wake,           \* the deadlines its sleep is the earliest of
    close_by,       \* end of the post-shutdown drain
    outcome,        \* ConnectionOutcome
    phase,          \* what Hyper's connection is doing
    resolved,       \* what Hyper's connection future resolved to
    keep,           \* the connection is reused after the current response
    partial,        \* bytes of the first head have been read
    served,         \* requests dispatched to the pipeline
    body,           \* lifecycle state of each registered request's body
    owner,          \* who holds each request's body stream
    cancelled,      \* cancellation reason of each lifecycle
    tracker, watchdog,   \* the helper tasks of each request
    shutdown,       \* the connection's shutdown token is set
    late,           \* requests registered while the driver was closing
    busy_at         \* the last time at which a request was being served

clockVars == <<now, busy_at>>
countVars == <<in_flight, outstanding, deferred>>
timeVars  == <<last_activity, last_write>>
driverVars == <<driver, snap, wake, close_by, outcome>>
connVars  == <<phase, resolved, keep, partial, served, late>>
bodyVars  == <<body, owner, cancelled>>
helperVars == <<tracker, watchdog>>
vars == <<clockVars, countVars, timeVars, fired, permit, driverVars, connVars,
          bodyVars, helperVars, shutdown>>

\* The locals of the loop are dead outside the step that uses them.
NoSnap == [activity |-> 0, write |-> 0, at |-> 0]

Init ==
    /\ now = 0 /\ busy_at = 0
    /\ in_flight = 0 /\ outstanding = 0 /\ deferred = 0
    /\ last_activity = 0 /\ last_write = 0
    /\ fired = FALSE /\ permit = FALSE
    /\ driver = "top" /\ snap = NoSnap
    /\ wake = {} /\ close_by = 0 /\ outcome = "none"
    /\ phase = "head" /\ resolved = "no" /\ keep = TRUE /\ partial = FALSE
    /\ served = 0 /\ late = {}
    /\ body = [r \in Requests |-> "none"]
    /\ owner = [r \in Requests |-> "none"]
    /\ cancelled = [r \in Requests |-> "no"]
    /\ tracker = [r \in Requests |-> "none"]
    /\ watchdog = [r \in Requests |-> "none"]
    /\ shutdown = FALSE

-------------------------------------------------------------------------------
(* Hyper is polled by the driver's select! and by the drain of a close.    *)

Polled == driver \in {"parked", "closing"} /\ resolved = "no"

Registered == {r \in Requests : body[r] # "none"}

\* cancel_all: the first reason of a lifecycle stays.
CancelAll(reason) ==
    cancelled' = [r \in Requests |->
        IF r \in Registered /\ cancelled[r] = "no" THEN reason ELSE cancelled[r]]

Cancel(r, reason) ==
    [cancelled EXCEPT ![r] = IF @ = "no" THEN reason ELSE @]

\* Inbound bytes.
BytesRead ==
    /\ Polled
    /\ last_activity' = now
    /\ partial' = (partial \/ (phase = "head" /\ served = 0))
    /\ UNCHANGED <<clockVars, countVars, last_write, fired, permit, driverVars,
                   phase, resolved, keep, served, late, bodyVars, helperVars, shutdown>>

\* Registration after cancel_all has run.
Late(r) == IF driver = "closing" THEN late \cup {r} ELSE late

\* InFlightGuard::finish: the slot is released, the response counted and handed
\* to Hyper, and the connection closes after it on a close disposition or when
\* this was the last request the connection may serve.
Finish(reuse) ==
    /\ phase' = "sending"
    /\ in_flight' = in_flight - 1
    /\ outstanding' = outstanding + 1
    /\ last_activity' = now /\ last_write' = now
    /\ permit' = TRUE
    /\ keep' = (keep /\ reuse /\ served' < MaxPerConnection)

\* A complete head reaches the pipeline.  It is answered without the service
\* (head, framing, length and expectation checks, TRACE), with the connection
\* kept or not and the body, if there is one, read or not; ...
DispatchRejected(reuse, stream) ==
    /\ Polled /\ phase = "head" /\ served < MaxRequests
    /\ served' = served + 1
    /\ partial' = FALSE
    /\ owner' = [owner EXCEPT ![served'] = stream]
    /\ phase' = "sending"
    /\ outstanding' = outstanding + 1
    /\ last_activity' = now /\ last_write' = now
    /\ permit' = TRUE
    /\ keep' = (keep /\ reuse /\ served' < MaxPerConnection)
    /\ UNCHANGED <<clockVars, in_flight, deferred, fired, driverVars, resolved,
                   late, body, cancelled, helperVars, shutdown>>

\* ... or its body is buffered first, or it goes to the service with a body
\* that is complete (there is none) or still on the wire.
Dispatch(kind) ==
    /\ Polled /\ phase = "head" /\ served < MaxRequests
    /\ served' = served + 1
    /\ partial' = FALSE
    /\ late' = IF kind # "buffer" THEN Late(served') ELSE late
    /\ in_flight' = in_flight + 1
    /\ permit' = TRUE
    /\ phase' = IF kind = "buffer" THEN "buffering" ELSE "service"
    /\ owner' = [owner EXCEPT ![served'] =
                     IF kind = "plain" THEN "eof" ELSE "service"]
    /\ body' = [body EXCEPT ![served'] =
                    CASE kind = "plain"  -> "Complete"
                      [] kind = "stream" -> "Active"
                      [] kind = "buffer" -> "none"]
    /\ UNCHANGED <<clockVars, outstanding, deferred, timeVars, fired, driverVars,
                   resolved, keep, cancelled, helperVars, shutdown>>

\* The Buffer arm has the whole body: the request is registered and invoked.
BufferDone ==
    /\ Polled /\ phase = "buffering"
    /\ phase' = "service"
    /\ body' = [body EXCEPT ![served] = "Complete"]
    /\ owner' = [owner EXCEPT ![served] = "eof"]
    /\ late' = Late(served)
    /\ UNCHANGED <<clockVars, countVars, timeVars, fired, permit, driverVars,
                   resolved, keep, partial, served, cancelled, helperVars, shutdown>>

\* The Buffer arm fails: body error or body_read_timeout; both close.
BufferFails ==
    /\ Polled /\ phase = "buffering"
    /\ owner' = [owner EXCEPT ![served] = "gone"]
    /\ UNCHANGED served
    /\ Finish(FALSE)
    /\ UNCHANGED <<clockVars, deferred, fired, driverVars, resolved, partial, late,
                   body, cancelled, helperVars, shutdown>>

-------------------------------------------------------------------------------
(* The body of a streaming request, in the service or in a task.           *)

\* What the owner of a body may do runs in the driver's task or beside it.
OwnerRuns(r) ==
    \/ owner[r] = "service" /\ phase = "service" /\ Polled
    \/ owner[r] = "task"

\* The service moves the body into a task of its own.
Delegate(r) ==
    /\ owner[r] = "service" /\ phase = "service" /\ Polled
    /\ owner' = [owner EXCEPT ![r] = "task"]
    /\ UNCHANGED <<clockVars, countVars, timeVars, fired, permit, driverVars,
                   connVars, body, cancelled, helperVars, shutdown>>

\* RequestShared::mark_*: only an active body changes state.
Marked(r, s) == [body EXCEPT ![r] = IF @ = "Active" THEN s ELSE @]

BodyEnds(r) ==
    /\ OwnerRuns(r) /\ driver # "ended"
    /\ owner' = [owner EXCEPT ![r] = "eof"]
    /\ body' = Marked(r, "Complete")
    /\ UNCHANGED <<clockVars, countVars, timeVars, fired, permit, driverVars,
                   connVars, cancelled, helperVars, shutdown>>

\* A body error; the owner drops the body with it.
BodyFails(r) ==
    /\ OwnerRuns(r)
    /\ owner' = [owner EXCEPT ![r] = "gone"]
    /\ body' = Marked(r, "Failed")
    /\ cancelled' = IF body[r] = "Active" THEN Cancel(r, "TransportFailure")
                                          ELSE cancelled
    /\ UNCHANGED <<clockVars, countVars, timeVars, fired, permit, driverVars,
                   connVars, helperVars, shutdown>>

\* The owner drops the body; a dropped read_all leaves it active.
BodyDropped(r, midReadAll) ==
    /\ OwnerRuns(r)
    /\ owner' = [owner EXCEPT ![r] = "gone"]
    /\ body' = IF midReadAll THEN body ELSE Marked(r, "Abandoned")
    /\ UNCHANGED <<clockVars, countVars, timeVars, fired, permit, driverVars,
                   connVars, cancelled, helperVars, shutdown>>

\* The end of the Stream arm, with the body in state s: an active body is
\* delegated with a tracker and, when there is a body deadline, a watchdog.
Conclude(s) ==
    /\ IF s = "Active"
       THEN /\ deferred' = deferred + 1
            /\ tracker' = [tracker EXCEPT ![served] = "waiting"]
            /\ watchdog' = [watchdog EXCEPT ![served] =
                                IF BodyDeadline THEN "sleeping" ELSE "none"]
       ELSE UNCHANGED <<deferred, helperVars>>
    /\ UNCHANGED served
    /\ Finish(s \in {"Complete", "Active"})

\* The service future is finished: it no longer holds the body.
ServiceReturns ==
    /\ Polled /\ phase = "service"
    /\ owner[served] # "service"
    /\ Conclude(body[served])
    /\ UNCHANGED <<clockVars, fired, driverVars, resolved, partial, late,
                   bodyVars, shutdown>>

\* The handler timer fires.  The service future is dropped, and with it a body
\* it holds; a body that is still active afterwards is failed when the deadline
\* that fired may be the body's.
ServiceTimesOut(midReadAll) ==
    /\ Polled /\ phase = "service"
    /\ LET dropped == owner[served] = "service" /\ body[served] = "Active"
           left == IF dropped /\ ~midReadAll THEN "Abandoned" ELSE body[served]
           s == IF left = "Active" /\ BodyDeadline THEN "Failed" ELSE left
       IN  /\ body' = [body EXCEPT ![served] = s]
           /\ owner' = [owner EXCEPT ![served] = IF @ = "service" THEN "gone" ELSE @]
           /\ cancelled' = IF s = "Failed" /\ left = "Active"
                           THEN Cancel(served, "TransportFailure") ELSE cancelled
           /\ Conclude(s)
    /\ UNCHANGED <<clockVars, fired, driverVars, resolved, partial, late, shutdown>>

-------------------------------------------------------------------------------
(* Sending the response and reusing the connection.                        *)

BytesWritten ==
    /\ Polled /\ phase \in {"sending", "flushing"}
    /\ last_activity' = now /\ last_write' = now
    /\ UNCHANGED <<clockVars, countVars, fired, permit, driverVars, connVars,
                   bodyVars, helperVars, shutdown>>

\* TrackedBody::finish: Hyper has taken the last frame of the response body;
\* what it has buffered may still have to reach the socket.
ResponseFinished ==
    /\ Polled /\ phase = "sending"
    /\ phase' = "flushing"
    /\ outstanding' = outstanding - 1
    /\ last_activity' = now
    /\ permit' = TRUE
    /\ UNCHANGED <<clockVars, in_flight, deferred, last_write, fired, driverVars,
                   resolved, keep, partial, served, late, bodyVars, helperVars, shutdown>>

Flushed ==
    /\ Polled /\ phase = "flushing"
    /\ phase' = "sent"
    /\ UNCHANGED <<clockVars, countVars, timeVars, fired, permit, driverVars,
                   resolved, keep, partial, served, late, bodyVars, helperVars, shutdown>>

\* Hyper reads the next head only past the end of the request body, and closes
\* when the body was dropped before its end.
ReuseOrClose ==
    /\ Polled /\ phase = "sent" /\ owner[served] \in {"eof", "gone"}
    /\ IF keep /\ owner[served] = "eof"
       THEN phase' = "head" /\ UNCHANGED resolved
       ELSE resolved' = "ok" /\ UNCHANGED phase
    /\ UNCHANGED <<clockVars, countVars, timeVars, fired, permit, driverVars,
                   keep, partial, served, late, bodyVars, helperVars, shutdown>>

\* The peer goes away, Hyper's parser rejects the head or its header timer fires.
PeerEnds(how) ==
    /\ Polled
    /\ how \in {"ok", "timeout"} => phase = "head"
    /\ resolved' = how
    /\ UNCHANGED <<clockVars, countVars, timeVars, fired, permit, driverVars,
                   phase, keep, partial, served, late, bodyVars, helperVars, shutdown>>

-------------------------------------------------------------------------------
(* The helper tasks of a delegated body.                                   *)

Terminal(r) == body[r] \in {"Complete", "Abandoned", "Failed"}

HelperFrame == UNCHANGED <<clockVars, in_flight, outstanding, last_write,
                           driverVars, connVars, owner, shutdown>>

\* deferred_finished: fetch_sub, touch, notify_one.
TrackerCounts(r) ==
    /\ tracker[r] = "waiting" /\ Terminal(r)
    /\ tracker' = [tracker EXCEPT ![r] = "counted"]
    /\ deferred' = IF deferred = 0 THEN 0 ELSE deferred - 1
    /\ UNCHANGED <<last_activity, permit, fired, body, cancelled, watchdog>>
    /\ HelperFrame

\* Mutant: the tracker does not record the activity.
TrackerTouchesNot(r) ==
    /\ tracker[r] = "counted"
    /\ tracker' = [tracker EXCEPT ![r] = "touched"]
    /\ UNCHANGED <<deferred, last_activity, permit, fired, body, cancelled, watchdog>>
    /\ HelperFrame

TrackerTouches(r) ==
    /\ tracker[r] = "counted"
    /\ tracker' = [tracker EXCEPT ![r] = "touched"]
    /\ last_activity' = now
    /\ UNCHANGED <<deferred, permit, fired, body, cancelled, watchdog>>
    /\ HelperFrame

\* Mutant: the tracker does not wake the driver.
TrackerSilent(r) ==
    /\ tracker[r] = "touched"
    /\ tracker' = [tracker EXCEPT ![r] = "done"]
    /\ UNCHANGED <<deferred, last_activity, permit, fired, body, cancelled, watchdog>>
    /\ HelperFrame

TrackerNotifies(r) ==
    /\ tracker[r] = "touched"
    /\ tracker' = [tracker EXCEPT ![r] = "done"]
    /\ permit' = TRUE
    /\ UNCHANGED <<deferred, last_activity, fired, body, cancelled, watchdog>>
    /\ HelperFrame

\* The select! of the watchdog: the body is terminal, or the deadline passes
\* and is_body_active is asked.
WatchdogWakes(r) ==
    /\ watchdog[r] = "sleeping"
    /\ watchdog' = [watchdog EXCEPT ![r] = IF Terminal(r) THEN "done" ELSE "expired"]
    /\ UNCHANGED <<deferred, last_activity, permit, fired, body, cancelled, tracker>>
    /\ HelperFrame

WatchdogMarks(r) ==
    /\ watchdog[r] = "expired"
    /\ watchdog' = [watchdog EXCEPT ![r] = "marked"]
    /\ body' = Marked(r, "Failed")
    /\ cancelled' = IF body[r] = "Active" THEN Cancel(r, "ConnectionTimeout")
                                          ELSE cancelled
    /\ UNCHANGED <<deferred, last_activity, permit, fired, tracker>>
    /\ HelperFrame

\* fire_body_timeout: the flag is stored, then the driver is notified.
WatchdogFires(r) ==
    /\ watchdog[r] = "marked"
    /\ watchdog' = [watchdog EXCEPT ![r] = "fired"]
    /\ fired' = TRUE
    /\ UNCHANGED <<deferred, last_activity, permit, body, cancelled, tracker>>
    /\ HelperFrame

WatchdogNotifies(r) ==
    /\ watchdog[r] = "fired"
    /\ watchdog' = [watchdog EXCEPT ![r] = "done"]
    /\ permit' = TRUE
    /\ UNCHANGED <<deferred, last_activity, fired, body, cancelled, tracker>>
    /\ HelperFrame

-------------------------------------------------------------------------------
(* drive_connection.                                                       *)

\* graceful_close: Hyper stops reusing the connection, and closes at once when
\* it is between requests (a first head already begun counts as a request).
BeginClose(why) ==
    /\ driver' = "closing"
    /\ outcome' = why
    /\ close_by' = now + DrainBudget
    /\ snap' = NoSnap /\ wake' = {}
    /\ keep' = FALSE
    /\ resolved' = IF resolved = "no" /\ phase = "head" /\ ~partial
                   THEN "ok" ELSE resolved
    /\ UNCHANGED <<clockVars, countVars, timeVars, phase, partial, served, late,
                   body, owner, helperVars, shutdown>>

TotalDue == TotalTimeout # 0 /\ now >= TotalTimeout

\* The top of the loop: total lifetime, then the body timeout flag, then the
\* first half of snapshot(), which reads the times before the counters.
LoopTop ==
    /\ driver = "top"
    /\ IF TotalDue
       THEN BeginClose("TotalTimeout") /\ CancelAll("ConnectionTimeout")
            /\ UNCHANGED <<fired, permit>>
       ELSE IF fired
       THEN BeginClose("BodyTimeout") /\ fired' = FALSE /\ UNCHANGED <<cancelled, permit>>
       ELSE /\ driver' = "decide"
            /\ snap' = [activity |-> last_activity, write |-> last_write, at |-> now]
            /\ UNCHANGED <<clockVars, countVars, timeVars, fired, permit, wake,
                           close_by, outcome, connVars, bodyVars, helperVars, shutdown>>

\* Mutant: a delegated body does not count.
IdleIgnoringDeferred == in_flight = 0 /\ outstanding = 0

\* No service call, response or delegated body is accounted for.
Idle == in_flight = 0 /\ outstanding = 0 /\ deferred = 0

ArmedDeadlines ==
    (IF TotalTimeout # 0 THEN {TotalTimeout} ELSE {})
    \cup (IF Idle /\ IdleOwned THEN {snap.activity + IdleTimeout} ELSE {})
    \cup (IF outstanding > 0 /\ WriteOwned THEN {snap.write + WriteTimeout} ELSE {})

\* The counters are read and the deadlines compared; otherwise the driver
\* sleeps until the earliest deadline or an event.
Decide ==
    /\ driver = "decide"
    /\ IF Idle /\ IdleOwned /\ snap.at - snap.activity >= IdleTimeout
       THEN BeginClose("IdleTimeout") /\ UNCHANGED <<cancelled, fired, permit>>
       ELSE IF WriteOwned /\ outstanding > 0 /\ snap.at - snap.write >= WriteTimeout
       THEN BeginClose("WriteTimeout") /\ CancelAll("ConnectionTimeout")
            /\ UNCHANGED <<fired, permit>>
       ELSE /\ driver' = "parked"
            /\ wake' = ArmedDeadlines
            /\ snap' = NoSnap
            /\ UNCHANGED <<clockVars, countVars, timeVars, fired, permit, close_by,
                           outcome, connVars, bodyVars, helperVars, shutdown>>

\* Mutant: an unfinished guard does not release its slot when dropped.
ReturnLeaking(result, midReadAll) ==
    /\ driver' = "ended"
    /\ outcome' = result
    /\ outstanding' = IF phase = "sending" THEN outstanding - 1 ELSE outstanding
    /\ owner' = [r \in Requests |-> IF owner[r] = "service" THEN "gone" ELSE owner[r]]
    /\ body' = [r \in Requests |->
                   IF owner[r] = "service" /\ body[r] = "Active" /\ ~midReadAll
                   THEN "Abandoned" ELSE body[r]]
    /\ IF phase \in {"buffering", "service", "sending"}
       THEN last_activity' = now /\ permit' = TRUE
       ELSE UNCHANGED <<last_activity, permit>>
    /\ wake' = {} /\ close_by' = 0
    /\ UNCHANGED <<clockVars, in_flight, deferred, last_write, fired, snap,
                   connVars, helperVars, shutdown>>

\* drive_connection returns and its caller drops Hyper's connection: a service
\* future and its guard, a response body and a body held by the service go, and
\* the slot that is released counts as activity.
ReturnWith(result, midReadAll) ==
    /\ driver' = "ended"
    /\ outcome' = result
    /\ in_flight' = IF phase \in {"buffering", "service"} THEN in_flight - 1 ELSE in_flight
    /\ outstanding' = IF phase = "sending" THEN outstanding - 1 ELSE outstanding
    /\ owner' = [r \in Requests |-> IF owner[r] = "service" THEN "gone" ELSE owner[r]]
    /\ body' = [r \in Requests |->
                   IF owner[r] = "service" /\ body[r] = "Active" /\ ~midReadAll
                   THEN "Abandoned" ELSE body[r]]
    /\ IF phase \in {"buffering", "service", "sending"}
       THEN last_activity' = now /\ permit' = TRUE
       ELSE UNCHANGED <<last_activity, permit>>
    /\ wake' = {} /\ close_by' = 0
    /\ UNCHANGED <<clockVars, deferred, last_write, fired, snap, connVars,
                   helperVars, shutdown>>

\* Hyper's future resolves in the select!.
ConnArm(midReadAll) ==
    /\ driver = "parked" /\ resolved # "no"
    /\ CASE resolved = "ok" -> ReturnWith("Normal", midReadAll) /\ UNCHANGED cancelled
         [] resolved = "err" -> /\ ReturnWith("ClientError", midReadAll)
                                /\ CancelAll("PeerDisconnected")
         [] resolved = "timeout" -> /\ ReturnWith("HeaderTimeout", midReadAll)
                                    /\ CancelAll("ConnectionTimeout")

ShutdownArm ==
    /\ driver = "parked" /\ shutdown
    /\ BeginClose("Shutdown") /\ CancelAll("ServerShutdown")
    /\ UNCHANGED <<fired, permit>>

NotifyArm ==
    /\ driver = "parked" /\ permit
    /\ permit' = FALSE
    /\ driver' = "top" /\ wake' = {}
    /\ UNCHANGED <<clockVars, countVars, timeVars, fired, snap, close_by, outcome,
                   connVars, bodyVars, helperVars, shutdown>>

SleepOver == \E d \in wake : now >= d

SleepArm ==
    /\ driver = "parked" /\ SleepOver
    /\ driver' = "top" /\ wake' = {}
    /\ UNCHANGED <<clockVars, countVars, timeVars, fired, permit, snap, close_by,
                   outcome, connVars, bodyVars, helperVars, shutdown>>

\* Mutant: the drain waits for Hyper without a budget.
CloseDoneUnbounded(midReadAll) ==
    /\ driver = "closing" /\ resolved # "no"
    /\ IF outcome = "BodyTimeout"
       THEN ReturnWith("ClientError", midReadAll) /\ CancelAll("ConnectionTimeout")
       ELSE ReturnWith(outcome, midReadAll) /\ UNCHANGED cancelled

\* The drain ends: Hyper is done or the budget is spent.  The body timeout
\* cancels the remaining lifecycles here and reports ClientError.
CloseDone(midReadAll) ==
    /\ driver = "closing" /\ (resolved # "no" \/ now >= close_by)
    /\ IF outcome = "BodyTimeout"
       THEN ReturnWith("ClientError", midReadAll) /\ CancelAll("ConnectionTimeout")
       ELSE ReturnWith(outcome, midReadAll) /\ UNCHANGED cancelled

-------------------------------------------------------------------------------
RequestShutdown ==
    /\ ~shutdown /\ driver # "ended"
    /\ shutdown' = TRUE
    /\ UNCHANGED <<clockVars, countVars, timeVars, fired, permit, driverVars,
                   connVars, bodyVars, helperVars>>

\* A request is being served: its body is read for it, its service runs, its
\* response is produced, or a task of the service still reads its body.
Busy ==
    \/ phase \in {"buffering", "service", "sending"}
    \/ \E r \in Requests : tracker[r] = "waiting" /\ body[r] = "Active"

Runnable ==
    \/ driver \in {"top", "decide"}
    \/ driver = "parked" /\ (resolved # "no" \/ shutdown \/ permit \/ SleepOver)
    \/ driver = "closing" /\ (resolved # "no" \/ now >= close_by)
    \/ \E r \in Requests :
          \/ tracker[r] \in {"counted", "touched"}
          \/ tracker[r] = "waiting" /\ Terminal(r)
          \/ watchdog[r] \in {"expired", "marked", "fired"}

\* The clock stops with the driver, the only reader of it; a drain that has
\* begun may outlast the bound.
Tick ==
    /\ now < MaxTime \/ (driver = "closing" /\ now < close_by)
    /\ driver # "ended"
    /\ Urgent => ~Runnable
    /\ now' = now + 1
    /\ busy_at' = IF Urgent /\ Busy THEN now + 1 ELSE busy_at
    /\ UNCHANGED <<countVars, timeVars, fired, permit, driverVars, connVars,
                   bodyVars, helperVars, shutdown>>

Driver ==
    \/ LoopTop \/ Decide \/ ShutdownArm \/ NotifyArm \/ SleepArm
    \/ \E m \in BOOLEAN : ConnArm(m) \/ CloseDone(m)

Helper(r) ==
    \/ TrackerCounts(r) \/ TrackerTouches(r) \/ TrackerNotifies(r)
    \/ WatchdogWakes(r) \/ WatchdogMarks(r) \/ WatchdogFires(r) \/ WatchdogNotifies(r)

Hyper ==
    \/ BytesRead \/ BytesWritten
    \/ \E reuse \in BOOLEAN, s \in {"eof", "gone"} : DispatchRejected(reuse, s)
    \/ \E kind \in {"plain", "stream", "buffer"} : Dispatch(kind)
    \/ BufferDone \/ BufferFails
    \/ ServiceReturns
    \/ \E m \in BOOLEAN : ServiceTimesOut(m)
    \/ ResponseFinished \/ Flushed \/ ReuseOrClose
    \/ \E how \in {"ok", "err", "timeout"} : PeerEnds(how)

BodyOwner(r) ==
    \/ Delegate(r) \/ BodyEnds(r) \/ BodyFails(r)
    \/ \E m \in BOOLEAN : BodyDropped(r, m)

Next ==
    \/ Driver \/ Hyper \/ RequestShutdown \/ Tick
    \/ \E r \in Requests : Helper(r) \/ BodyOwner(r)

\* Tokio runs every runnable task: the driver and the helpers are never
\* neglected for ever.  Peers, services and body owners may stall.
Fairness ==
    /\ WF_vars(Driver)
    /\ WF_vars(Tick)
    /\ \A r \in Requests : WF_vars(Helper(r))

Spec == Init /\ [][Next]_vars /\ Fairness

-------------------------------------------------------------------------------
Helpers == {"none", "waiting", "counted", "touched", "done"}
Watchdogs == {"none", "sleeping", "expired", "marked", "fired", "done"}

TypeOK ==
    /\ now \in Nat /\ busy_at \in Nat
    /\ in_flight \in Nat /\ outstanding \in Nat /\ deferred \in Nat
    /\ last_activity \in Nat /\ last_write \in Nat
    /\ fired \in BOOLEAN /\ permit \in BOOLEAN
    /\ driver \in {"top", "decide", "parked", "closing", "ended"}
    /\ snap \in [activity : Nat, write : Nat, at : Nat]
    /\ wake \in SUBSET Nat /\ close_by \in Nat
    /\ phase \in {"head", "buffering", "service", "sending", "flushing", "sent"}
    /\ resolved \in {"no", "ok", "err", "timeout"}
    /\ keep \in BOOLEAN /\ partial \in BOOLEAN /\ shutdown \in BOOLEAN
    /\ served \in 0..MaxRequests
    /\ late \in SUBSET Requests
    /\ body \in [Requests -> {"none", "Active", "Complete", "Abandoned", "Failed"}]
    /\ owner \in [Requests -> {"none", "service", "task", "eof", "gone"}]
    /\ tracker \in [Requests -> Helpers]
    /\ watchdog \in [Requests -> Watchdogs]

\* The deadlines that apply to the connection as it is now.
Required ==
    (IF TotalTimeout # 0 THEN {TotalTimeout} ELSE {})
    \cup (IF Idle /\ IdleOwned THEN {last_activity + IdleTimeout} ELSE {})
    \cup (IF outstanding > 0 /\ WriteOwned THEN {last_write + WriteTimeout} ELSE {})

\* A helper has changed what the driver waits for and is about to notify it.
WakeUnderway ==
    \E r \in Requests : tracker[r] \in {"counted", "touched"} \/ watchdog[r] = "fired"

\* "all transitions that create new (earlier) deadlines wake the driver": a
\* driver left asleep with no wake-up on its way will wake by every deadline
\* that now applies, and has no unseen body timeout.
NoOversleep ==
    driver = "parked" /\ ~permit /\ ~WakeUnderway =>
        /\ ~fired
        /\ \A d \in Required : \E w \in wake : w <= d

\* The counters the driver decides by are what they stand for: the in-flight
\* call, the response being produced and the delegated bodies not yet counted
\* off; so a finish, a drop or an abort releases its slot exactly once.
CountersExact ==
    /\ in_flight = IF phase \in {"buffering", "service"} /\ driver # "ended" THEN 1 ELSE 0
    /\ outstanding = IF phase = "sending" /\ driver # "ended" THEN 1 ELSE 0
    /\ deferred = Cardinality({r \in Requests : tracker[r] = "waiting"})

\* "On abnormal connection termination the driver cancels all still-live
\* lifecycles": every request registered before the close began is cancelled.
AbnormalEndCancels ==
    driver = "ended" /\ outcome \notin {"Normal", "IdleTimeout"} =>
        \A r \in Registered \ late : cancelled[r] # "no"

IdleClose == driver = "decide" /\ driver' = "closing" /\ outcome' = "IdleTimeout"

\* The idle timeout never closes a connection on which a request is being
\* served, although the driver reads the counters without a lock.
IdleNeverInterrupts == [][IdleClose => ~Busy]_vars

\* When tasks run promptly, the idle timeout closes a connection only after a
\* whole idle interval: serving a request, to the end of a delegated body,
\* restarts it.
IdleIntervalIsWhole == [][IdleClose => now - busy_at >= IdleTimeout]_vars

\* "Total lifetime is the hard ceiling": when tasks run promptly the connection
\* is gone once the total lifetime and one drain budget have passed.
HardCeiling ==
    TotalTimeout # 0 /\ driver # "ended" => now <= TotalTimeout + DrainBudget

\* "bounded by the body deadline, never unbounded": with a body deadline the
\* helpers of a delegated body end, whatever the body's owner does.
HelpersEnd ==
    \A r \in Requests : tracker[r] = "waiting" ~>
        tracker[r] = "done" /\ watchdog[r] = "done"

\* A connection asked to shut down ends, whatever peer and service do.
ShutdownEnds == shutdown ~> driver = "ended"

-------------------------------------------------------------------------------
(* Stronger statements, which the code does not keep: each has a            *)
(* counterexample.                                                         *)

\* Every registered request is cancelled on an abnormal end, also one that was
\* registered during the graceful close.
AbnormalEndCancelsAll ==
    driver = "ended" /\ outcome \notin {"Normal", "IdleTimeout"} =>
        \A r \in Registered : cancelled[r] # "no"

\* "the body was already marked Failed and its lifecycle cancelled with
\* ConnectionTimeout": a close for a body timeout closes over a failed body.
BodyTimeoutFollowsFailure ==
    outcome = "BodyTimeout" =>
        \E r \in Requests : body[r] = "Failed" /\ cancelled[r] = "ConnectionTimeout"

\* "a connection mid-request or mid-response is never idle-closed".
MidResponseNotIdleClosed == [][IdleClose => phase # "flushing"]_vars

\* A connection ends for everyone: an abnormal end cancels the request in
\* flight, the helper tasks end with the driver, and a shutdown request always
\* leads to the end of the connection (driver.rs, drive_connection).
EndsForEveryone == []AbnormalEndCancels /\ HelpersEnd /\ ShutdownEnds

\* The two clocks of a reused connection are exact: nothing runs past the hard
\* ceiling, and an idle interval that closes the connection was a whole one
\* since the last response, not a remainder (driver.rs, next_deadline).
DeadlinesAreExact == []HardCeiling /\ IdleIntervalIsWhole
==============================================================================
