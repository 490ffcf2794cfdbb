--------------------------- MODULE Http2Connection ---------------------------
(***************************************************************************)
(* One HTTP/2 connection of eggserve-core: drive_connection, the pipeline  *)
(* future Hyper runs for each stream on its own executor task, the         *)
(* ConnectionActivity counters through which they see one another, the     *)
(* deferred-body tasks and the tracked tunnels.  A pipeline and the driver *)
(* run on different threads, so every atomic counter operation that        *)
(* another thread can observe half way is a step of its own.  Hyper is     *)
(* external: streams open, are reset and are flow controlled at will.      *)
(***************************************************************************)
EXTENDS Naturals, Sequences, FiniteSets

CONSTANTS H2Streams,
          H2Requests,
          H2ServicePermits,  \* max_in_flight_requests
          H2TunnelPermits,   \* max_active_tunnels
          H2BodyLimit,       \* max_request_body_bytes
          H2MaxRequests,     \* max_requests_per_connection, 0 for None
          H2Causes           \* bound: how many of peer, clock and server intervene

ASSUME H2Assumption == IsFiniteSet(H2Streams) /\ H2MaxRequests \in Nat

VARIABLES driver,     \* where drive_connection is
          outcome,    \* the ConnectionOutcome it is heading for
          snap,       \* its snapshot so far: stale, in_flight, outstanding
          busy,       \* streams that were being served when the snapshot began
          peer,       \* "open", or how the Hyper connection future completed
          total,      \* connection_total_timeout has passed
          quiet,      \* keep_alive_idle_timeout has passed since last_activity
          stop,       \* the shutdown token is cancelled
          wake,       \* the Notify permit of ConnectionActivity
          in_flight, outstanding, deferred, completed, body_timeout, drain,
          ask,        \* what each stream asks for
          stream,     \* where each stream's pipeline is
          h2body,     \* state of the request body
          told,       \* the cancellation reason of the request's lifecycle
          known,      \* streams registered in ConnectionRequests
          stalled,    \* streams whose response made no progress for the timeout
          tracking,   \* streams with a deferred tracker and watchdog
          tunnel      \* the tracked tunnel task of each stream

driving == <<driver, outcome, snap, busy>>
world == <<peer, total, quiet, stop>>
activity == <<in_flight, outstanding, deferred, completed, body_timeout, drain>>
request == <<ask, stream, h2body, told, known, stalled, tracking, tunnel>>
h2Vars == <<driving, world, wake, activity, request>>

NotTold == "none"

NoSnap == [stale |-> FALSE, in_flight |-> 0]

\* Pipelines that own an InFlightGuard.
Guarded == {"buffer", "service"}

\* Streams whose tracked tunnel task runs.
Tunnelling == {s \in H2Streams : tunnel[s] = "run"}

H2Init ==
    /\ driver = "top" /\ outcome = "none" /\ snap = NoSnap /\ busy = {}
    /\ peer = "open" /\ total = FALSE /\ quiet = FALSE /\ stop = FALSE /\ wake = FALSE
    /\ in_flight = 0 /\ outstanding = 0 /\ deferred = 0 /\ completed = 0
    /\ body_timeout = FALSE /\ drain = FALSE
    /\ ask \in [H2Streams -> H2Requests]
    /\ stream = [s \in H2Streams |-> "none"]
    /\ h2body = [s \in H2Streams |-> "none"]
    /\ told = [s \in H2Streams |-> NotTold]
    /\ known = {} /\ stalled = {} /\ tracking = {}
    /\ tunnel = [s \in H2Streams |-> "none"]

-----------------------------------------------------------------------------
(* The intake of make_canonical_hyper_service.                             *)

\* Refusals in the order of the code.  Over HTTP/2 a request has a body when
\* its stream has not ended, whatever Content-Length says.
Refused(r) ==
    \/ "head" \in r.flaws
    \/ "trace_body" \in r.flaws
    \/ "framing" \in r.flaws
    \/ r.declared > H2BodyLimit /\ r.policy # "reject"
    \/ r.expect = "unknown"
    \/ r.policy = "reject" /\ r.expect = "100-continue"
    \/ r.policy = "reject" /\ ~r.end_stream

\* classify_tunnel: CONNECT with a transport to hand over and no body.
TunnelCandidate(r) == r.connect /\ r.end_stream

Step(s, label) == stream' = [stream EXCEPT ![s] = label]

FailBody(s, state) == h2body' = [h2body EXCEPT ![s] = IF @ = "Active" THEN state ELSE @]

Tell(s, reason) == [told EXCEPT ![s] = IF @ = NotTold THEN reason ELSE @]

\* Streams holding a service permit.
Admitted == {s \in H2Streams : stream[s] = "service"}

\* InFlightGuard::finish up to response_started: permit and in-flight slot go
\* back, the activity is touched, the request is counted, and the one that
\* reaches max_requests_per_connection asks for a GOAWAY.  The response is not
\* outstanding yet.
Finish(s, slots) ==
    /\ Step(s, "finished")
    /\ in_flight' = slots - 1
    /\ completed' = completed + 1
    /\ drain' = (drain \/ (H2MaxRequests > 0 /\ completed + 1 >= H2MaxRequests))

\* Register, then invoke_service up to its first await: a full server answers 503
\* and drops the body.
Invoke(s, slots) ==
    /\ known' = known \cup {s}
    /\ IF Cardinality(Admitted) < H2ServicePermits
       THEN /\ Step(s, "service") /\ in_flight' = slots
            /\ UNCHANGED <<completed, drain>>
       ELSE Finish(s, slots)

\* Hyper polls a new pipeline: InFlightGuard::new counts it, and it runs up to its
\* first await.  A buffered request is registered once its body is complete.
OpenStream(s) ==
    /\ peer = "open" /\ driver # "returned" /\ stream[s] = "none"
    /\ LET r == ask[s]
           served == Cardinality(Admitted) < H2ServicePermits
           body == IF r.policy = "reject" \/ r.end_stream THEN "Complete" ELSE "Active"
       IN \/ /\ Refused(r) /\ Finish(s, in_flight + 1)
             /\ UNCHANGED <<h2body, known>>
          \/ /\ ~Refused(r) /\ r.policy = "buffer" /\ Step(s, "buffer")
             /\ in_flight' = in_flight + 1
             /\ h2body' = [h2body EXCEPT ![s] = body]
             /\ UNCHANGED <<completed, drain, known>>
          \/ /\ ~Refused(r) /\ r.policy # "buffer" /\ Invoke(s, in_flight + 1)
             /\ h2body' = [h2body EXCEPT ![s] =
                               IF body = "Active" /\ ~served THEN "Abandoned" ELSE body]
    /\ quiet' = FALSE /\ wake' = TRUE
    /\ UNCHANGED <<driving, peer, total, stop, outstanding, deferred, body_timeout, ask, told,
                   stalled, tracking, tunnel>>

\* read_all_with_trailers under body_read_timeout; the buffered copy has a
\* lifecycle of its own, registered here.
Buffered(s) ==
    /\ stream[s] = "buffer"
    /\ \/ Invoke(s, in_flight) /\ FailBody(s, "Complete")
       \/ Finish(s, in_flight) /\ FailBody(s, "Failed") /\ UNCHANGED known
    /\ quiet' = (quiet /\ stream'[s] = "service")
    /\ wake' = (wake \/ stream'[s] = "finished")
    /\ UNCHANGED <<driving, peer, total, stop, outstanding, deferred, body_timeout, ask, told,
                   stalled, tracking, tunnel>>

\* call_with_tunnel returns or times out.  The body may be finished, dropped or
\* kept by then; a timeout with the body pending fails it; a staged acceptance
\* that gets a tunnel permit starts a tracked task.  A body that is still Active
\* is deferred to a tracker and a watchdog before the request is finished.
CallReturns(s) ==
    /\ stream[s] = "service"
    /\ \/ /\ \E state \in {"Active", "Complete", "Abandoned", "Failed"} : FailBody(s, state)
          /\ told' = IF h2body'[s] = "Failed" /\ h2body[s] = "Active"
                     THEN Tell(s, "TransportFailure") ELSE told
          /\ UNCHANGED tunnel
       \/ /\ TunnelCandidate(ask[s]) /\ Cardinality(Tunnelling) < H2TunnelPermits
          /\ tunnel' = [tunnel EXCEPT ![s] = "run"]
          /\ UNCHANGED <<h2body, told>>
    /\ IF h2body'[s] = "Active"
       THEN deferred' = deferred + 1 /\ tracking' = tracking \cup {s}
       ELSE UNCHANGED <<deferred, tracking>>
    /\ Finish(s, in_flight)
    /\ quiet' = FALSE /\ wake' = TRUE
    /\ UNCHANGED <<driving, peer, total, stop, outstanding, body_timeout, ask, known, stalled>>

-----------------------------------------------------------------------------
(* The response.                                                           *)

\* response_started
StartResponse(s) ==
    /\ stream[s] = "finished"
    /\ Step(s, "response")
    /\ outstanding' = outstanding + 1
    /\ quiet' = FALSE /\ wake' = TRUE
    /\ UNCHANGED <<driving, peer, total, stop, in_flight, deferred, completed, body_timeout,
                   drain, ask, h2body, told, known, stalled, tracking, tunnel>>

\* poll_frame yields a frame: this stream made progress, no other.
PollProgress(s) ==
    /\ stream[s] = "response"
    /\ stalled' = stalled \ {s}
    /\ wake' = TRUE
    /\ UNCHANGED <<driving, world, activity, ask, stream, h2body, told, known, tracking, tunnel>>

\* response_finished, at the end of the body or when it is dropped.
EndResponse(s) ==
    /\ stream[s] = "response"
    /\ Step(s, "done")
    /\ outstanding' = outstanding - 1
    /\ stalled' = stalled \ {s}
    /\ quiet' = FALSE /\ wake' = TRUE
    /\ UNCHANGED <<driving, peer, total, stop, in_flight, deferred, completed, body_timeout,
                   drain, ask, h2body, told, known, tracking, tunnel>>

\* Hyper drops the pipeline future: the stream was reset or the connection is
\* gone.  The guard gives permit and slot back; a body no task took is abandoned.
DropPipeline(s) ==
    /\ stream[s] \in Guarded
    /\ Step(s, "done")
    /\ FailBody(s, "Abandoned") \/ (stream[s] = "service" /\ UNCHANGED h2body)
    /\ in_flight' = in_flight - 1
    /\ quiet' = FALSE /\ wake' = TRUE
    /\ UNCHANGED <<driving, peer, total, stop, outstanding, deferred, completed,
                   body_timeout, drain, ask, told, known, stalled, tracking, tunnel>>

-----------------------------------------------------------------------------
(* Deferred bodies and tunnels.                                            *)

\* A task that kept the body past Service::call finishes it, drops it, or meets
\* a transport error.
OwnerEnds(s) ==
    /\ h2body[s] = "Active" /\ stream[s] \notin Guarded
    /\ \/ FailBody(s, "Complete") /\ peer = "open" /\ UNCHANGED told
       \/ FailBody(s, "Abandoned") /\ UNCHANGED told
       \/ FailBody(s, "Failed") /\ told' = Tell(s, "TransportFailure")
    /\ UNCHANGED <<driving, world, wake, activity, ask, stream, known, stalled, tracking, tunnel>>

\* spawn_deferred_tracker
TrackerEnds(s) ==
    /\ s \in tracking /\ h2body[s] # "Active"
    /\ tracking' = tracking \ {s}
    /\ deferred' = deferred - 1
    /\ quiet' = FALSE /\ wake' = TRUE
    /\ UNCHANGED <<driving, peer, total, stop, in_flight, outstanding, completed,
                   body_timeout, drain, ask, stream, h2body, told, known, stalled, tunnel>>

\* spawn_body_timeout_watchdog, at its deadline.
WatchdogFires(s) ==
    /\ s \in tracking /\ h2body[s] = "Active"
    /\ FailBody(s, "Failed")
    /\ told' = Tell(s, "ConnectionTimeout")
    /\ body_timeout' = TRUE /\ wake' = TRUE
    /\ UNCHANGED <<driving, world, in_flight, outstanding, deferred, completed, drain, ask,
                   stream, known, stalled, tracking, tunnel>>

\* run_tunnel ends: its handler returned, its lifecycle was cancelled, or the
\* JoinSet was dropped with the last owner of the activity.
TunnelEnds(s) ==
    /\ tunnel[s] = "run"
    /\ tunnel' = [tunnel EXCEPT ![s] = "ended"]
    /\ UNCHANGED <<driving, world, wake, activity, ask, stream, h2body, told, known, stalled, tracking>>

-----------------------------------------------------------------------------
(* drive_connection.                                                       *)

\* A lifecycle some task still holds.
Live(s) == stream[s] \in Guarded \/ h2body[s] = "Active" \/ tunnel[s] = "run"

\* ConnectionRequests::cancel_all
CancelAll(reason) ==
    told' = [s \in H2Streams |->
                IF s \in known /\ Live(s) /\ told[s] = NotTold THEN reason ELSE told[s]]

\* drain_tunnels at its deadline: the rest are aborted and joined.
AbortTunnels == tunnel' = [s \in H2Streams |-> IF tunnel[s] = "run" THEN "ended" ELSE tunnel[s]]

\* Enter graceful_close on the way to an outcome.
Close(result) ==
    /\ driver' = "closing" /\ outcome' = result
    /\ UNCHANGED <<snap, busy>>

\* The three checks at the top of the loop, in order.
TotalDeadline ==
    /\ driver = "top" /\ total
    /\ CancelAll("ConnectionTimeout")
    /\ Close("TotalTimeout")
    /\ UNCHANGED <<world, wake, activity, ask, stream, h2body, known, stalled, tracking, tunnel>>

TakeBodyTimeout ==
    /\ driver = "top" /\ ~total /\ body_timeout
    /\ body_timeout' = FALSE
    /\ Close("ClientError")
    /\ UNCHANGED <<world, wake, in_flight, outstanding, deferred, completed, drain, request>>

TakeDrainRequest ==
    /\ driver = "top" /\ ~total /\ ~body_timeout /\ drain
    /\ drain' = FALSE
    /\ Close("Drain")
    /\ UNCHANGED <<world, wake, in_flight, outstanding, deferred, completed, body_timeout,
                   request>>

\* snapshot(): the lock first, the counters after it, one by one.
ReadState ==
    /\ driver = "top" /\ ~total /\ ~body_timeout /\ ~drain
    /\ driver' = "counters"
    /\ snap' = [NoSnap EXCEPT !.stale = quiet]
    /\ busy' = {s \in H2Streams : stream[s] \notin {"none", "done"}}
    /\ UNCHANGED <<outcome, world, wake, activity, request>>

LoadInFlight ==
    /\ driver = "counters"
    /\ driver' = "decide"
    /\ snap' = [snap EXCEPT !.in_flight = in_flight]
    /\ UNCHANGED <<outcome, busy, world, wake, activity, request>>

\* Mutant: the requests being served do not count.
IdleUnserved == outstanding = 0 /\ deferred = 0 /\ Tunnelling = {}

\* Nothing in flight, outstanding, deferred or tunnelling, as far as the loads
\* can tell.
Idle == snap.in_flight = 0 /\ outstanding = 0 /\ deferred = 0 /\ Tunnelling = {}

\* h2_response_producer_stalled
ProducerStalled == stalled # {}

IdleClose ==
    /\ driver = "decide" /\ Idle /\ snap.stale
    /\ Close("IdleTimeout")
    /\ UNCHANGED <<world, wake, activity, request>>

StallClose ==
    /\ driver = "decide" /\ ~(Idle /\ snap.stale) /\ ProducerStalled
    /\ CancelAll("ConnectionTimeout")
    /\ Close("WriteTimeout")
    /\ UNCHANGED <<world, wake, activity, ask, stream, h2body, known, stalled, tracking, tunnel>>

\* Nothing is due: select.
Wait ==
    /\ driver = "decide" /\ ~(Idle /\ snap.stale) /\ ~ProducerStalled
    /\ driver' = IF Idle THEN "idle" ELSE "select"
    /\ UNCHANGED <<outcome, snap, busy, world, wake, activity, request>>

Selecting == driver \in {"select", "idle"}

\* Mutant: the sleep does not consider the total deadline.
WakeUntotal ==
    /\ Selecting
    /\ wake \/ ProducerStalled \/ (driver = "idle" /\ quiet)
    /\ wake' = FALSE
    /\ driver' = "top" /\ snap' = NoSnap /\ busy' = {}
    /\ UNCHANGED <<outcome, world, activity, request>>

\* notified(), or the earliest deadline: the total one, a producer's, or the idle
\* one when the connection was idle.
Wake ==
    /\ Selecting
    /\ wake \/ total \/ ProducerStalled \/ (driver = "idle" /\ quiet)
    /\ wake' = FALSE
    /\ driver' = "top" /\ snap' = NoSnap /\ busy' = {}
    /\ UNCHANGED <<outcome, world, activity, request>>

ShutdownBranch ==
    /\ Selecting /\ stop
    /\ CancelAll("ServerShutdown")
    /\ Close("Shutdown")
    /\ UNCHANGED <<world, wake, activity, ask, stream, h2body, known, stalled, tracking, tunnel>>

Return(result) ==
    /\ driver' = "returned" /\ outcome' = result
    /\ snap' = NoSnap /\ busy' = {}
    /\ peer' = IF peer = "open" THEN "dropped" ELSE peer

\* graceful_close ends, with the connection or with its budget.  A body timeout
\* and a drain request cancel the lifecycles only now; then the tunnels are
\* aborted, except that a shutdown gives them a budget of their own.
CloseEnds ==
    /\ driver = "closing"
    /\ IF outcome = "Shutdown"
       THEN /\ driver' = "budget"
            /\ UNCHANGED <<outcome, snap, busy, peer, told, tunnel>>
       ELSE /\ CASE outcome = "ClientError" -> CancelAll("ConnectionTimeout")
                 [] outcome = "Drain" -> CancelAll("ServerShutdown")
                 [] OTHER -> UNCHANGED told
            /\ AbortTunnels
            /\ Return(outcome)
    /\ UNCHANGED <<total, quiet, stop, wake, activity, ask, stream, h2body, known, stalled, tracking>>

\* The budget of the tunnels ends, or they are all joined.
BudgetEnds ==
    /\ driver = "budget"
    /\ AbortTunnels
    /\ Return(outcome)
    /\ UNCHANGED <<total, quiet, stop, wake, activity, ask, stream, h2body, told, known,
                   stalled, tracking>>

\* The Hyper connection future completed: finish_conn_result.
ConnDone ==
    /\ Selecting /\ peer # "open"
    /\ CASE peer = "error" -> CancelAll("PeerDisconnected")
         [] peer = "timeout" -> CancelAll("ConnectionTimeout")
         [] OTHER -> UNCHANGED told
    /\ LET result == CASE peer = "error" -> "ClientError"
                       [] peer = "timeout" -> "HeaderTimeout"
                       [] OTHER -> "Normal"
       IN IF Tunnelling = {}
          THEN Return(result)
          ELSE /\ driver' = "tunnels" /\ outcome' = result
               /\ UNCHANGED <<snap, busy, peer>>
    /\ UNCHANGED <<total, quiet, stop, wake, activity, ask, stream, h2body, known, stalled, tracking, tunnel>>

\* The tunnels keep the task alive until they end, ...
TunnelsDrained ==
    /\ driver = "tunnels" /\ Tunnelling = {}
    /\ Return(outcome)
    /\ UNCHANGED <<total, quiet, stop, wake, activity, request>>

\* ... the total deadline passes, ...
TunnelsOverdue ==
    /\ driver = "tunnels" /\ total
    /\ AbortTunnels
    /\ told' = [s \in H2Streams |->
                   IF s \in known /\ told[s] = NotTold /\ (stream[s] \in Guarded \/ h2body[s] = "Active")
                   THEN "ConnectionTimeout" ELSE told[s]]
    /\ Return("TotalTimeout")
    /\ UNCHANGED <<total, quiet, stop, wake, activity, ask, stream, h2body, known, stalled, tracking>>

\* ... or the server shuts down.
TunnelsShutDown ==
    /\ driver = "tunnels" /\ stop
    /\ CancelAll("ServerShutdown")
    /\ driver' = "budget" /\ outcome' = "Shutdown"
    /\ UNCHANGED <<snap, busy, world, wake, activity, ask, stream, h2body, known, stalled, tracking, tunnel>>

-----------------------------------------------------------------------------
(* The peer, the clock and the server.                                     *)

Causes ==
    Cardinality({c \in {"peer", "clock", "server"} :
                    CASE c = "peer" -> peer # "open" [] c = "clock" -> total
                      [] OTHER -> stop})

\* Hyper's connection future completes.  It completes cleanly only when no
\* response is owed.
PeerEnds ==
    /\ peer = "open" /\ driver # "returned" /\ Causes < H2Causes
    /\ peer' \in {"error", "timeout"} \cup
           (IF \A s \in H2Streams : stream[s] \in {"none", "done"} THEN {"closed"} ELSE {})
    /\ UNCHANGED <<driving, total, quiet, stop, wake, activity, request>>

TotalPasses ==
    /\ ~total /\ driver # "returned" /\ Causes < H2Causes
    /\ total' = TRUE
    /\ UNCHANGED <<driving, peer, quiet, stop, wake, activity, request>>

IdlePasses ==
    /\ ~quiet /\ driver # "returned"
    /\ quiet' = TRUE
    /\ UNCHANGED <<driving, peer, total, stop, wake, activity, request>>

StopServer ==
    /\ ~stop /\ driver # "returned" /\ Causes < H2Causes
    /\ stop' = TRUE
    /\ UNCHANGED <<driving, peer, total, quiet, wake, activity, request>>

\* response_write_timeout passes without progress of this response.
Stall(s) ==
    /\ stream[s] = "response" /\ s \notin stalled /\ driver # "returned"
    /\ stalled' = stalled \cup {s}
    /\ UNCHANGED <<driving, world, wake, activity, ask, stream, h2body, told, known, tracking, tunnel>>

Pipeline(s) ==
    Buffered(s) \/ CallReturns(s) \/ StartResponse(s) \/ TrackerEnds(s)

Driver ==
    \/ TotalDeadline \/ TakeBodyTimeout \/ TakeDrainRequest
    \/ ReadState \/ LoadInFlight \/ IdleClose \/ StallClose \/ Wait \/ Wake
    \/ ShutdownBranch \/ CloseEnds \/ BudgetEnds \/ ConnDone
    \/ TunnelsDrained \/ TunnelsOverdue \/ TunnelsShutDown

H2Next ==
    \/ Driver
    \/ \E s \in H2Streams : OpenStream(s)
    \/ \E s \in H2Streams : Pipeline(s)
    \/ \E s \in H2Streams : PollProgress(s)
    \/ \E s \in H2Streams : EndResponse(s)
    \/ \E s \in H2Streams : DropPipeline(s)
    \/ \E s \in H2Streams : OwnerEnds(s)
    \/ \E s \in H2Streams : WatchdogFires(s)
    \/ \E s \in H2Streams : TunnelEnds(s)
    \/ \E s \in H2Streams : Stall(s)
    \/ PeerEnds \/ TotalPasses \/ IdlePasses \/ StopServer

\* The driver is one task that is polled whenever it can step; nothing is asked
\* of the peer, the clock, the service or the owner of a body.
H2Fairness == WF_h2Vars(Driver)

\* select! polls its ready branches in random order, so none of them is passed
\* over for ever.
H2Liveness == H2Fairness /\ SF_h2Vars(ShutdownBranch) /\ SF_h2Vars(ConnDone)

H2Spec == H2Init /\ [][H2Next]_h2Vars /\ H2Liveness

-----------------------------------------------------------------------------
(* Properties.                                                             *)

\* The three activity counters the idle decision is made from say exactly how
\* many pipelines, response bodies and deferred bodies there are, however the
\* streams end (activity.rs).
CountersExact ==
    /\ in_flight = Cardinality({s \in H2Streams : stream[s] \in Guarded})
    /\ outstanding = Cardinality({s \in H2Streams : stream[s] = "response"})
    /\ deferred = Cardinality(tracking)

\* drive_connection never idles out a connection while a request that was being
\* served when its snapshot began is still being served.
IdleSparesService ==
    [][outcome' = "IdleTimeout" /\ outcome # "IdleTimeout"
         => \A s \in busy : stream[s] \notin Guarded]_h2Vars

\* A connection closed for a body timeout or after its last request tells every
\* live request it had registered by then, those that arrived during the close
\* included: cancel_all runs after graceful_close on these two paths.
CloseTellsEveryone ==
    [][driver # "returned" /\ driver' = "returned" /\ outcome' \in {"Drain", "ClientError"}
         /\ peer # "error"
         => \A s \in known : Live(s) => told'[s] # NotTold]_h2Vars

\* A lifecycle is told a reason that is true: the peer only when it failed, the
\* server only when it shuts down or has reached its request limit, a timeout only
\* when one of the connection's deadlines passed.
H2ReasonsAreTrue ==
    \A s \in H2Streams :
        /\ told[s] = "PeerDisconnected" => peer = "error"
        /\ told[s] = "ServerShutdown" =>
               stop \/ (H2MaxRequests > 0 /\ completed >= H2MaxRequests)
        /\ told[s] = "ConnectionTimeout" =>
               outcome \in {"TotalTimeout", "WriteTimeout", "ClientError", "HeaderTimeout"}
               \/ h2body[s] = "Failed" \/ total \/ peer = "timeout"

\* Whatever else happens on the connection, the driver returns once it must: the
\* server stops, the lifetime is over, or the request limit is reached.
DriverReturns == (stop \/ total \/ drain) ~> driver = "returned"

\* One response without progress ends the connection, however busy its siblings
\* are: a sibling's frames never count for it (h2_response_producer_stalled).
StallIsSeen == \A s \in H2Streams : (<>[](s \in stalled)) => <>(driver = "returned")

-----------------------------------------------------------------------------
(* Stronger statements, which the code does not keep.                      *)

\* "only applies with no in-flight request, no outstanding response body, and no
\* deferred request body" (driver.rs): between the two loads of the snapshot a
\* request may leave in_flight before it enters outstanding.
IdleCloseIsIdle ==
    [][outcome' = "IdleTimeout" /\ outcome # "IdleTimeout"
         => \A s \in busy : stream[s] = "done"]_h2Vars

\* Every close tells every registered request: one that registers during the
\* graceful_close of a total timeout, a stall or a shutdown is never told.
EveryCloseTellsEveryone ==
    [][driver # "returned" /\ driver' = "returned" /\ outcome' # "Normal"
         => \A s \in known : Live(s) => told'[s] # NotTold]_h2Vars

\* "tunnels never outlive the connection task" (activity.rs): a pipeline that
\* still runs may spawn one after the last drain.
TunnelsEndFirst == driver = "returned" => Tunnelling = {}

\* One driver, many streams: the counters are exact, what a cancelled request is
\* told is why, the idle deadline spares a stream in service, and closing tells
\* every request that was registered (driver.rs, transport.rs).
H2StreamsAreAccounted ==
    []CountersExact /\ []H2ReasonsAreTrue /\ IdleSparesService /\ CloseTellsEveryone

\* An HTTP/2 driver returns once asked to stop, and sees a response whose
\* producer stalls (driver.rs).
H2Settles == DriverReturns /\ StallIsSeen
=============================================================================
