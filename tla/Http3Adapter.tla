---------------------------- MODULE Http3Adapter ----------------------------
(***************************************************************************)
(* eggserve-h3.  One HTTP/3 connection: serve_connection, the request task *)
(* it spawns for each stream (handle_request, handle_h3_connect), the body *)
(* watchdog, and the three tasks of an accepted tunnel.  A step of a task  *)
(* runs from one await to the next.  The QUIC transport is external: the   *)
(* peer may send, finish or reset a stream and the connection may close at *)
(* any time.  A deadline may pass at any time once it is armed.            *)
(*                                                                         *)
(* The endpoint, whose accept_loop admits such connections, has state of   *)
(* its own and is the last part of the module.                             *)
(***************************************************************************)
EXTENDS Naturals, Sequences, FiniteSets

CONSTANTS Streams,
          H3Requests,      \* what a stream may ask for, records as in Request below
          H3Responses,     \* what a service may answer
          ServicePermits,  \* max_in_flight_requests
          TunnelPermits,   \* max_active_tunnels
          FilePermits,     \* max_file_streams
          BodyLimit,       \* max_request_body_bytes
          MaxRequests,     \* max_requests_per_connection, 0 for None
          CloseCauses      \* how the QUIC connection may end

\* A body other than a stream is as long as its head says.
ASSUME H3Assumption ==
    /\ IsFiniteSet(Streams) /\ ServicePermits \in Nat /\ TunnelPermits \in Nat
    /\ "open" \notin CloseCauses
    /\ \A r \in H3Requests : r.data \in Nat
    /\ \A r \in H3Responses : r.body # "stream" => r.declared = r.len

VARIABLES serve,     \* where serve_connection is
          draining,  \* GOAWAY sent and the drain deadline armed
          quic,      \* "open", or how the QUIC connection ended
          accepted,  \* accepted_requests
          registry,  \* the streams in ConnectionRequests
          req,       \* what each stream asks for
          task,      \* where each stream's request task is
          abort,     \* streams whose task has been told to abort
          life,      \* RequestShared: body state and first cancellation reason
          owner,     \* who owns the RequestBody and with it the receive half
          left,      \* DATA chunks the peer still has in flight
          recv,      \* the receive direction
          send,      \* the send direction
          out,       \* the response being sent
          emitted,   \* its body chunks sent so far
          after,     \* what follows the response: stop_sending, stop_stream
          watchdog,  \* spawn_body_timeout_watchdog
          holds,     \* the permits and guards the task owns
          active_tunnels,
          bridge     \* the tunnel's two copying tasks and its handler

connection == <<serve, draining, quic, accepted>>
bodies == <<owner, left, recv, watchdog>>
sending == <<send, out, emitted, after>>
tunnels == <<active_tunnels, bridge>>
h3Vars == <<connection, registry, req, task, abort, life, bodies, sending, holds, tunnels>>

NoReason == "none"

Running == {"resolving", "start", "probe", "buffer", "admit", "handler", "sending",
            "connect_admit",
            "connect", "handshake", "tunnel", "closing"}

\* crate::endpoint::h3_connection_close_reason
h3_connection_close_reason(closed) ==
    CASE closed = "peer"      -> "PeerDisconnected"
      [] closed = "timed_out" -> "ConnectionTimeout"
      [] closed = "local"     -> "ServerShutdown"
      [] OTHER                -> "TransportFailure"

NoOutput == [body |-> "empty", len |-> 0, declared |-> 0]

\* crate::response::runtime_error_response: a body of one write.
runtime_error_response == [body |-> "bytes", len |-> 0, declared |-> 0]

NoBridge == [up |-> "none", down |-> "none", handler |-> "none", eof |-> FALSE]

H3Init ==
    /\ serve = "loop" /\ draining = FALSE /\ quic = "open"
    /\ accepted = 0 /\ registry = {} /\ abort = {} /\ active_tunnels = 0
    /\ req \in [Streams -> H3Requests]
    /\ task = [s \in Streams |-> "idle"]
    /\ life = [s \in Streams |-> [body |-> "Active", reason |-> NoReason]]
    /\ owner = [s \in Streams |-> "task"]
    /\ left = [s \in Streams |-> req[s].data]
    /\ recv = [s \in Streams |-> "open"]
    /\ send = [s \in Streams |-> "idle"]
    /\ out = [s \in Streams |-> NoOutput]
    /\ emitted = [s \in Streams |-> 0]
    /\ after = [s \in Streams |-> {}]
    /\ watchdog = [s \in Streams |-> "off"]
    /\ holds = [s \in Streams |-> {}]
    /\ bridge = [s \in Streams |-> NoBridge]

-----------------------------------------------------------------------------
(* RequestShared, with each call one step (RequestLifecycle has the finer  *)
(* grain), and the connection's registry of lifecycles.                    *)

\* cancel: the first reason wins.
Cancelled(l, reason) == [l EXCEPT !.reason = IF @ = NoReason THEN reason ELSE @]

\* mark_complete, mark_abandoned: only an Active body changes state.
Marked(l, state) == [l EXCEPT !.body = IF @ = "Active" THEN state ELSE @]

\* mark_failed_with_reason
Failed(l, reason) ==
    IF l.body = "Active" THEN Cancelled(Marked(l, "Failed"), reason) ELSE l

\* ConnectionRequests::cancel_all reaches the requests registered so far.
cancel_all(reason) ==
    life' = [s \in Streams |->
                IF s \in registry THEN Cancelled(life[s], reason) ELSE life[s]]

Go(s, label) == task' = [task EXCEPT ![s] = label]

\* Holders of a permit or guard among the request tasks.
Using(p) == {s \in Streams : p \in holds[s]}

-----------------------------------------------------------------------------
(* serve_connection.                                                       *)

\* The peer closes, the path dies, or the endpoint closes locally at shutdown.
QuicCloses ==
    /\ quic = "open"
    /\ quic' \in CloseCauses
    /\ UNCHANGED <<serve, draining, accepted, registry, req, task, abort, life,
                   bodies, sending, holds, tunnels>>

\* shutdown_rx.recv(): GOAWAY, then drain until the deadline.
BeginDrain ==
    /\ serve = "loop" /\ ~draining
    /\ draining' = TRUE
    /\ UNCHANGED <<serve, quic, accepted, registry, req, task, abort, life, bodies,
                   sending, holds, tunnels>>

\* accept() yields a resolver; the request that reaches the limit is still
\* served, behind a GOAWAY.  After a GOAWAY for 0 requests h3 yields no more.
AcceptStream(s) ==
    /\ serve = "loop" /\ quic = "open" /\ ~draining
    /\ task[s] = "idle"
    /\ accepted' = accepted + 1
    /\ draining' = (MaxRequests > 0 /\ accepted + 1 >= MaxRequests)
    /\ Go(s, "resolving")
    /\ UNCHANGED <<serve, quic, registry, req, abort, life, bodies, sending,
                   holds, tunnels>>

\* accept() yields None.
AcceptEnds ==
    /\ serve = "loop" /\ (draining \/ quic # "open")
    /\ serve' = "join"
    /\ UNCHANGED <<draining, quic, accepted, registry, req, task, abort, life,
                   bodies, sending, holds, tunnels>>

\* accept() fails; an HTTP/3 error on an open connection counts as LocallyClosed.
AcceptFails ==
    /\ serve = "loop"
    /\ serve' = "join"
    /\ cancel_all(h3_connection_close_reason(IF quic = "open" THEN "local" ELSE quic))
    /\ UNCHANGED <<draining, quic, accepted, registry, req, task, abort,
                   bodies, sending, holds, tunnels>>

\* connection_closed.closed()
ConnectionClosed ==
    /\ serve = "loop" /\ quic # "open"
    /\ serve' = "join"
    /\ cancel_all(h3_connection_close_reason(quic))
    /\ UNCHANGED <<draining, quic, accepted, registry, req, task, abort,
                   bodies, sending, holds, tunnels>>

\* The drain deadline passes, inside the loop or while joining.
Deadline ==
    /\ serve = "join" \/ (serve = "loop" /\ draining)
    /\ serve' = "aborting"
    /\ cancel_all("ServerShutdown")
    /\ UNCHANGED <<draining, quic, accepted, registry, req, task, abort,
                   bodies, sending, holds, tunnels>>

\* requests.abort_all(), the statement after cancel_all; dropping the h3
\* connection closes QUIC.
AbortAll ==
    /\ serve = "aborting"
    /\ serve' = "returned"
    /\ abort' = {s \in Streams : task[s] \in Running}
    /\ quic' = IF quic = "open" THEN "local" ELSE quic
    /\ UNCHANGED <<draining, accepted, registry, req, task, life, bodies,
                   sending, holds, tunnels>>

\* join_next() yields None: every request task has ended.
Joined ==
    /\ serve = "join"
    /\ \A s \in Streams : task[s] \notin Running
    /\ serve' = "returned"
    /\ quic' = IF quic = "open" THEN "local" ELSE quic
    /\ UNCHANGED <<draining, accepted, registry, req, task, abort, life, bodies,
                   sending, holds, tunnels>>

-----------------------------------------------------------------------------
(* Request heads.                                                          *)

\* convert_request_head, in the order of its checks: the first flaw decides.
HeadChecks ==
    << <<"method", 400>>, <<"scheme", 400>>, <<"long_target", 414>>, <<"target", 400>>,
       <<"many_headers", 431>>, <<"connection_header", 400>>, <<"te", 400>>,
       <<"big_headers", 431>>, <<"header", 400>>, <<"authority", 400>> >>

convert_request_head(r) ==
    LET failed == {i \in DOMAIN HeadChecks : HeadChecks[i][1] \in r.flaws}
    IN IF failed = {} THEN 200
       ELSE HeadChecks[CHOOSE i \in failed : \A j \in failed : i <= j][2]

\* Each value is <<n>>, or <<>> when it does not parse as a u64.
declared_content_length(r) ==
    CASE Len(r.lengths) > 1                         -> [ok |-> FALSE, value |-> <<>>]
      [] Len(r.lengths) = 1 /\ r.lengths[1] = <<>>  -> [ok |-> FALSE, value |-> <<>>]
      [] Len(r.lengths) = 1                         -> [ok |-> TRUE, value |-> r.lengths[1]]
      [] OTHER                                      -> [ok |-> TRUE, value |-> <<>>]

Declares(r, n) == declared_content_length(r).value # <<>>
                  /\ declared_content_length(r).value[1] > n

\* The refusals of handle_request and handle_h3_connect before anything is
\* awaited, in their order; 200 lets the request through.
EarlyRefusal(r) ==
    CASE convert_request_head(r) # 200                    -> convert_request_head(r)
      [] r.method = "CONNECT" /\ Declares(r, 0)           -> 413
      [] ~declared_content_length(r).ok                   -> 400
      [] r.method = "CONNECT" /\ r.protocol = "invalid"   -> 400
      [] r.method = "CONNECT" /\ ~r.authority             -> 400
      [] r.method = "CONNECT"                             -> 200
      [] Declares(r, BodyLimit)                           -> 413
      [] r.policy = "reject" /\ Declares(r, 0)            -> 413
      [] OTHER                                            -> 200

-----------------------------------------------------------------------------
(* The request task.                                                       *)

taskless == <<connection, registry, req, abort>>

\* resolve_request().await, then RequestShared::new_active and register.
Resolve(s) ==
    /\ task[s] = "resolving"
    /\ \/ Go(s, "start") /\ registry' = registry \cup {s}
       \/ Go(s, "done") /\ UNCHANGED registry
    /\ UNCHANGED <<connection, req, abort, life, bodies, sending, holds, tunnels>>

\* send_response_or_cancel is entered; then describes what follows it.
Respond(s, response, then) ==
    /\ Go(s, "sending")
    /\ out' = [out EXCEPT ![s] = response]
    /\ after' = [after EXCEPT ![s] = then]
    /\ UNCHANGED <<send, emitted>>

\* The synchronous prefix of handle_request: refuse, hand over to
\* handle_h3_connect, probe for content, or set up a streaming body with its
\* watchdog.
StartRequest(s) ==
    /\ task[s] = "start"
    /\ LET r == req[s] IN
       \/ /\ EarlyRefusal(r) # 200
          /\ Respond(s, runtime_error_response, {"stop_sending"})
          /\ UNCHANGED <<life, watchdog>>
       \/ /\ EarlyRefusal(r) = 200 /\ r.method = "CONNECT"
          /\ Go(s, "connect_admit")
          /\ life' = [life EXCEPT ![s] = Marked(@, "Complete")]
          /\ UNCHANGED <<sending, watchdog>>
       \/ /\ EarlyRefusal(r) = 200 /\ r.method # "CONNECT"
          /\ Go(s, CASE r.policy = "reject" -> "probe"
                     [] r.policy = "buffer" -> "buffer"
                     [] OTHER               -> "admit")
          /\ watchdog' = [watchdog EXCEPT ![s] = IF r.policy = "reject" THEN "off" ELSE "armed"]
          /\ UNCHANGED <<life, sending>>
    /\ UNCHANGED <<taskless, owner, left, recv, holds, tunnels>>

\* The receive half fails: the peer reset the stream or the connection is gone.
RecvBroken(s) == recv[s] = "reset" \/ quic # "open"

PeerResets(s) ==
    /\ task[s] \in Running /\ recv[s] = "open" /\ quic = "open"
    /\ recv' = [recv EXCEPT ![s] = "reset"]
    /\ UNCHANGED <<taskless, task, life, owner, left, watchdog, sending, holds, tunnels>>

\* A rejecting policy reads once: DATA, the end of the stream, an error or
\* the body timeout.
Probe(s) ==
    /\ task[s] = "probe"
    /\ \/ /\ ~RecvBroken(s) /\ left[s] > 0
          /\ left' = [left EXCEPT ![s] = @ - 1]
          /\ Respond(s, runtime_error_response, {"stop_sending"})
          /\ UNCHANGED <<life, recv>>
       \/ /\ ~RecvBroken(s) /\ left[s] = 0 /\ req[s].ends
          /\ recv' = [recv EXCEPT ![s] = "eof"]
          /\ life' = [life EXCEPT ![s] = Marked(@, "Complete")]
          /\ Go(s, "admit")
          /\ UNCHANGED <<left, sending>>
       \/ /\ RecvBroken(s)
          /\ life' = [life EXCEPT ![s] = Failed(@, "TransportFailure")]
          /\ Respond(s, runtime_error_response, {"stop_stream", "stop_sending"})
          /\ UNCHANGED <<left, recv>>
       \/ /\ life' = [life EXCEPT ![s] = Failed(@, "ConnectionTimeout")]
          /\ Respond(s, runtime_error_response, {"stop_sending"})
          /\ UNCHANGED <<left, recv>>
    /\ UNCHANGED <<taskless, owner, watchdog, holds, tunnels>>

\* RequestBody counts chunks against the limit and the declared length.
Overrun(s, got) ==
    \/ got > BodyLimit
    \/ declared_content_length(req[s]).value # <<>> /\ ~Declares(req[s], got - 1)

\* The body's owner polls it: DATA, the end of the stream, a failure, or the
\* watchdog's cancellation, upon which the body stream stops the receive half.
ReadBody(s) ==
    /\ task[s] = "buffer" \/ owner[s] \in {"service", "kept"}
    /\ req[s].policy # "reject" /\ req[s].method # "CONNECT"
    /\ recv[s] # "stopped"
    /\ \/ /\ watchdog[s] = "fired"
          /\ recv' = [recv EXCEPT ![s] = "stopped"]
          /\ UNCHANGED <<left, life>>
       \/ /\ life[s].body = "Active" /\ ~RecvBroken(s) /\ left[s] > 0
          /\ left' = [left EXCEPT ![s] = @ - 1]
          /\ life' = [life EXCEPT ![s] = IF Overrun(s, req[s].data - left[s] + 1)
                                         THEN Failed(@, "TransportFailure") ELSE @]
          /\ UNCHANGED recv
       \/ /\ life[s].body = "Active" /\ ~RecvBroken(s) /\ left[s] = 0 /\ req[s].ends
          /\ recv' = [recv EXCEPT ![s] = "eof"]
          /\ life' = [life EXCEPT ![s] = IF Declares(req[s], req[s].data)
                                         THEN Failed(@, "TransportFailure")
                                         ELSE Marked(@, "Complete")]
          /\ UNCHANGED left
       \/ /\ life[s].body = "Active" /\ RecvBroken(s)
          /\ life' = [life EXCEPT ![s] = Failed(@, "TransportFailure")]
          /\ UNCHANGED <<left, recv>>
    /\ UNCHANGED <<taskless, task, owner, watchdog, sending, holds, tunnels>>

\* sleep_until(deadline) in the watchdog: only an Active body fails.
BodyTimeout(s) ==
    /\ watchdog[s] = "armed" /\ life[s].body = "Active"
    /\ life' = [life EXCEPT ![s] = Failed(@, "ConnectionTimeout")]
    /\ watchdog' = [watchdog EXCEPT ![s] = "fired"]
    /\ UNCHANGED <<taskless, task, owner, left, recv, sending, holds, tunnels>>

\* wait_body_terminal() in the watchdog.
WatchdogEnds(s) ==
    /\ watchdog[s] = "armed" /\ life[s].body # "Active"
    /\ watchdog' = [watchdog EXCEPT ![s] = "off"]
    /\ UNCHANGED <<taskless, task, life, owner, left, recv, sending, holds, tunnels>>

\* read_all_with_trailers under body_read_timeout ends: with the whole body,
\* with an error, or with the task's own timeout.  The body and the receive
\* half inside it are dropped.
BufferEnds(s) ==
    /\ task[s] = "buffer"
    /\ \/ /\ life[s].body = "Complete"
          /\ Go(s, "admit")
          /\ UNCHANGED <<life, sending>>
       \/ /\ life[s].body \in {"Failed", "Abandoned"}
          /\ Respond(s, runtime_error_response, {})
          /\ UNCHANGED life
       \/ /\ life[s].body = "Active"
          /\ life' = [life EXCEPT ![s] = Failed(@, "ConnectionTimeout")]
          /\ Respond(s, runtime_error_response, {})
    /\ owner' = [owner EXCEPT ![s] = "dropped"]
    /\ UNCHANGED <<taskless, left, recv, watchdog, holds, tunnels>>

\* The Request is dropped: a network body nobody finished is abandoned.
Dropped(l) == Marked(l, "Abandoned")

\* service_sem.try_acquire_owned, then the service runs.
Admit(s) ==
    /\ task[s] = "admit"
    /\ IF Cardinality(Using("service")) < ServicePermits
       THEN /\ Go(s, "handler")
            /\ holds' = [holds EXCEPT ![s] = @ \cup {"service"}]
            /\ owner' = [owner EXCEPT ![s] = IF @ = "task" THEN "service" ELSE @]
            /\ UNCHANGED <<life, sending>>
       ELSE /\ Respond(s, runtime_error_response, {})
            /\ life' = [life EXCEPT ![s] = Dropped(@)]
            /\ owner' = [owner EXCEPT ![s] = "dropped"]
            /\ UNCHANGED holds
    /\ UNCHANGED <<taskless, left, recv, watchdog, tunnels>>

\* invoke_canonical_service returns: an answer, an error or a panic, or the
\* handler timeout.  The permit goes back here, before the response is sent.
\* A service may have moved the body into a task of its own.
ServiceReturns(s) ==
    /\ task[s] = "handler"
    /\ \/ \E response \in H3Responses : Respond(s, response, {})
       \/ Respond(s, runtime_error_response, {})
    /\ holds' = [holds EXCEPT ![s] = @ \ {"service"}]
    /\ \E keep \in BOOLEAN :
           IF keep /\ owner[s] = "service" /\ life[s].body = "Active"
           THEN owner' = [owner EXCEPT ![s] = "kept"] /\ UNCHANGED life
           ELSE /\ owner' = [owner EXCEPT ![s] = "dropped"]
                /\ life' = [life EXCEPT ![s] = Dropped(@)]
    /\ UNCHANGED <<taskless, left, recv, watchdog, tunnels>>

\* A task that kept the body lets go of it.
BodyOwnerDrops(s) ==
    /\ owner[s] = "kept"
    /\ owner' = [owner EXCEPT ![s] = "dropped"]
    /\ life' = [life EXCEPT ![s] = Dropped(@)]
    /\ UNCHANGED <<taskless, task, left, recv, watchdog, sending, holds, tunnels>>

-----------------------------------------------------------------------------
(* send_canonical_response and send_response_or_cancel.                    *)

\* The task ends: its guards drop, and what follows the response is done.
EndTask(s) ==
    /\ Go(s, "done")
    /\ holds' = [holds EXCEPT ![s] = {}]
    /\ recv' = [recv EXCEPT ![s] = IF "stop_sending" \in after[s] /\ @ = "open"
                                   THEN "stopped" ELSE @]
    /\ out' = [out EXCEPT ![s] = NoOutput]
    /\ emitted' = [emitted EXCEPT ![s] = 0]
    /\ after' = [after EXCEPT ![s] = {}]

\* A write fails or times out, or the body cannot be produced as announced.
\* The lifecycle of this request alone is cancelled and its stream reset.
SendFails(s) ==
    /\ life' = [life EXCEPT ![s] = Cancelled(@, "TransportFailure")]
    /\ send' = [send EXCEPT ![s] = "reset"]
    /\ EndTask(s)
    /\ UNCHANGED <<taskless, owner, left, watchdog, tunnels>>

\* The response head goes out; a file body needs a file-stream permit.
SendHead(s) ==
    /\ task[s] = "sending" /\ send[s] = "idle" /\ quic = "open"
    /\ out[s].body = "file" => Cardinality(Using("file")) < FilePermits
    /\ send' = [send EXCEPT ![s] = "head"]
    /\ holds' = [holds EXCEPT ![s] = IF out[s].body = "file" THEN @ \cup {"file"} ELSE @]
    /\ UNCHANGED <<taskless, task, life, bodies, out, emitted, after, tunnels>>

\* One non-empty chunk of the body.
SendChunk(s) ==
    /\ task[s] = "sending" /\ send[s] = "head" /\ quic = "open"
    /\ emitted[s] < out[s].len
    /\ emitted' = [emitted EXCEPT ![s] = @ + 1]
    /\ UNCHANGED <<taskless, task, life, bodies, send, out, after, holds, tunnels>>

\* Mutant: a stream that ends is finished whatever it announced.
LengthKeptAlways(s) == TRUE

\* A stream of declared length must have emitted exactly that much.
LengthKept(s) == out[s].body = "stream" /\ out[s].declared > 0
                 => emitted[s] = out[s].declared

\* The body is out: trailers if any, and finish().  After a failed probe the
\* send direction is reset all the same.
SendFinish(s) ==
    /\ task[s] = "sending" /\ send[s] = "head" /\ quic = "open"
    /\ emitted[s] = out[s].len /\ LengthKept(s)
    /\ send' = [send EXCEPT ![s] = IF "stop_stream" \in after[s] THEN "reset" ELSE "finished"]
    /\ EndTask(s)
    /\ UNCHANGED <<taskless, life, owner, left, watchdog, tunnels>>

\* A producer error, a file shorter than announced (read_exact), a length
\* mismatch, no file permit, or a transport that stalls or is gone.
SendBreaks(s) == task[s] = "sending" /\ SendFails(s)

-----------------------------------------------------------------------------
(* handle_h3_connect and the tunnel.                                       *)

\* The permit taken here is held until the CONNECT task ends, tunnel included.
AdmitConnect(s) ==
    /\ task[s] = "connect_admit"
    /\ IF Cardinality(Using("service")) < ServicePermits
       THEN /\ Go(s, "connect")
            /\ holds' = [holds EXCEPT ![s] = @ \cup {"service"}]
            /\ UNCHANGED sending
       ELSE /\ Respond(s, runtime_error_response, {"stop_sending"})
            /\ UNCHANGED holds
    /\ UNCHANGED <<taskless, life, bodies, tunnels>>

\* tunnel_sem.try_acquire_owned
TunnelAdmitted == Cardinality(Using("tunnel")) < TunnelPermits

\* call_with_tunnel under the handler timeout: an error, a panic or a timeout;
\* an answer without an acceptance; or an acceptance staged in the sidecar,
\* which needs a tunnel permit.  A poisoned sidecar is answered like an error.
ConnectReturns(s) ==
    /\ task[s] = "connect"
    /\ \/ /\ \E code \in {500, 504} :
                 Respond(s, runtime_error_response, {"stop_sending"})
          /\ UNCHANGED holds
       \/ /\ \E response \in H3Responses : Respond(s, response, {"stop_sending"})
          /\ UNCHANGED holds
       \/ /\ TunnelAdmitted
          /\ Go(s, "handshake")
          /\ holds' = [holds EXCEPT ![s] = @ \cup {"tunnel"}]
          /\ UNCHANGED sending
       \/ /\ ~TunnelAdmitted
          /\ Respond(s, runtime_error_response, {"stop_sending"})
          /\ UNCHANGED holds
    /\ UNCHANGED <<taskless, life, bodies, tunnels>>

\* send_h3_tunnel_handshake, then the guard, the handler and the two copiers.
HandshakeSent(s) ==
    /\ task[s] = "handshake" /\ quic = "open"
    /\ Go(s, "tunnel")
    /\ send' = [send EXCEPT ![s] = "head"]
    /\ active_tunnels' = active_tunnels + 1
    /\ holds' = [holds EXCEPT ![s] = @ \cup {"active"}]
    /\ bridge' = [bridge EXCEPT ![s] = [up |-> "run", down |-> "run", handler |-> "run",
                                        eof |-> FALSE]]
    /\ UNCHANGED <<taskless, life, bodies, out, emitted, after>>

\* tunnel_upgrade_failures
HandshakeFails(s) ==
    /\ task[s] = "handshake"
    /\ Go(s, "done")
    /\ life' = [life EXCEPT ![s] = Cancelled(@, "TransportFailure")]
    /\ send' = [send EXCEPT ![s] = "reset"]
    /\ recv' = [recv EXCEPT ![s] = IF @ = "open" THEN "stopped" ELSE @]
    /\ holds' = [holds EXCEPT ![s] = {}]
    /\ UNCHANGED <<taskless, owner, left, watchdog, out, emitted, after, tunnels>>

IsCancelled(s) == life[s].reason # NoReason

Bridge(s, field, value) == bridge' = [bridge EXCEPT ![s][field] = value]

bridgeless == <<taskless, task, life, owner, watchdog, sending, holds, active_tunnels>>

\* recv_task: DATA is written to the duplex, which fails once the handler has
\* dropped its end; end of stream shuts the duplex's write half; an error or a
\* cancellation just ends the task.
TunnelUp(s) ==
    /\ bridge[s].up = "run"
    /\ \/ /\ ~RecvBroken(s) /\ left[s] > 0
          /\ left' = [left EXCEPT ![s] = @ - 1]
          /\ Bridge(s, "up", IF bridge[s].handler = "run" THEN "run" ELSE "ended")
          /\ UNCHANGED recv
       \/ /\ ~RecvBroken(s) /\ left[s] = 0 /\ req[s].ends
          /\ recv' = [recv EXCEPT ![s] = "eof"]
          /\ bridge' = [bridge EXCEPT ![s].up = "ended", ![s].eof = TRUE]
          /\ UNCHANGED left
       \/ /\ RecvBroken(s) \/ IsCancelled(s)
          /\ Bridge(s, "up", "ended")
          /\ UNCHANGED <<left, recv>>
    /\ UNCHANGED bridgeless

\* send_task ends: the handler's end is gone, or cancellation.
TunnelDown(s) ==
    /\ bridge[s].down = "run"
    /\ bridge[s].handler # "run" \/ IsCancelled(s)
    /\ Bridge(s, "down", "ended")
    /\ UNCHANGED <<bridgeless, left, recv>>

\* What the handler wrote cannot be sent: the peer stopped the stream or QUIC
\* is closed.  A handler that writes nothing never gets here.
TunnelDownFails(s) ==
    /\ bridge[s].down = "run" /\ bridge[s].handler = "run"
    /\ Bridge(s, "down", "ended")
    /\ UNCHANGED <<bridgeless, left, recv>>

\* The tunnel handler returns by itself.
HandlerReturns(s) ==
    /\ bridge[s].handler = "run"
    /\ Bridge(s, "handler", "ended")
    /\ UNCHANGED <<bridgeless, left, recv>>

\* join!(recv_task, send_task), then handler_join.abort() and await.
TunnelJoined(s) ==
    /\ task[s] = "tunnel" /\ bridge[s].up = "ended" /\ bridge[s].down = "ended"
    /\ Go(s, "closing")
    /\ Bridge(s, "handler", "ended")
    /\ UNCHANGED <<taskless, life, bodies, sending, holds, active_tunnels>>

\* finish() under the write timeout, stop_sending(H3_NO_ERROR), guards drop.
TunnelClosed(s) ==
    /\ task[s] = "closing"
    /\ Go(s, "done")
    /\ send' = [send EXCEPT ![s] = IF quic = "open" THEN "finished" ELSE @]
    /\ recv' = [recv EXCEPT ![s] = IF @ = "open" THEN "stopped" ELSE @]
    /\ holds' = [holds EXCEPT ![s] = {}]
    /\ active_tunnels' = active_tunnels - 1
    /\ UNCHANGED <<taskless, life, owner, left, watchdog, out, emitted, after, bridge>>

\* An aborted task is dropped at an await, with everything it owns.  The
\* bridge's tasks are not children of it and go on.
TaskAborted(s) ==
    /\ s \in abort /\ task[s] \in Running
    /\ Go(s, "aborted")
    /\ holds' = [holds EXCEPT ![s] = {}]
    /\ life' = [life EXCEPT ![s] = IF owner[s] \in {"task", "service"} THEN Dropped(@) ELSE @]
    /\ owner' = [owner EXCEPT ![s] = IF @ \in {"task", "service"} THEN "dropped" ELSE @]
    /\ active_tunnels' = IF "active" \in holds[s] THEN active_tunnels - 1 ELSE active_tunnels
    /\ UNCHANGED <<taskless, left, recv, watchdog, sending, bridge>>

-----------------------------------------------------------------------------
ServeStep ==
    \/ BeginDrain \/ AcceptEnds \/ AcceptFails \/ ConnectionClosed
    \/ Deadline \/ AbortAll \/ Joined

\* What the request task does next; every await in it has a timeout, except
\* reading a streaming body and running a tunnel.
TaskStep(s) ==
    \/ Resolve(s) \/ StartRequest(s) \/ Probe(s) \/ BufferEnds(s) \/ Admit(s)
    \/ ServiceReturns(s) \/ SendHead(s) \/ SendChunk(s) \/ SendFinish(s) \/ SendBreaks(s)
    \/ AdmitConnect(s) \/ ConnectReturns(s) \/ HandshakeSent(s) \/ HandshakeFails(s)
    \/ TunnelJoined(s) \/ TunnelClosed(s) \/ TaskAborted(s)

\* The peer, the services and the timers that need not act.
OtherStep(s) ==
    \/ AcceptStream(s) \/ PeerResets(s) \/ ReadBody(s) \/ BodyTimeout(s) \/ WatchdogEnds(s)
    \/ BodyOwnerDrops(s) \/ TunnelDownFails(s) \/ HandlerReturns(s)

H3Next ==
    \/ QuicCloses \/ ServeStep
    \/ \E s \in Streams : TaskStep(s) \/ OtherStep(s) \/ TunnelUp(s) \/ TunnelDown(s)

\* serve_connection's select! has a ready arm once a drain deadline runs or
\* the connection is closed, and tokio polls every woken task.
H3Fairness ==
    /\ WF_h3Vars(ConnectionClosed) /\ WF_h3Vars(Deadline)
    /\ WF_h3Vars(AbortAll) /\ WF_h3Vars(Joined)
    /\ \A s \in Streams :
           WF_h3Vars(TaskStep(s)) /\ WF_h3Vars(TunnelUp(s)) /\ WF_h3Vars(TunnelDown(s))

H3Spec == H3Init /\ [][H3Next]_h3Vars /\ H3Fairness

-----------------------------------------------------------------------------
(* Properties.                                                             *)

\* max_in_flight_requests bounds the services running on this connection and
\* max_active_tunnels its supervised tunnel handlers, CONNECT and ordinary
\* requests sharing one pool, and the active_tunnels gauge is exact whether a
\* tunnel closes, fails its handshake or is aborted.
WorkIsAdmitted ==
    LET tunnelling == {s \in Streams : task[s] \in {"tunnel", "closing"}} IN
    /\ Cardinality({s \in Streams : task[s] \in {"handler", "connect"}} \cup tunnelling)
           <= ServicePermits
    /\ Cardinality(tunnelling) <= TunnelPermits
    /\ active_tunnels = Cardinality(tunnelling)

\* A service whose policy is Reject only ever runs for a stream the peer has
\* ended without content, whatever Content-Length said or did not say.
RejectSeesNoContent ==
    \A s \in Streams :
        task[s] = "handler" /\ req[s].policy = "reject" => recv[s] = "eof" /\ req[s].data = 0

\* A response whose stream is finished rather than reset carries exactly the
\* bytes its head announced, although a stream's length is only compared at
\* its end and the file may shrink while it is sent.
FinishedIsWhole ==
    [][\A s \in Streams :
          task[s] = "sending" /\ send'[s] = "finished" /\ out[s].declared > 0
              => emitted[s] = out[s].declared]_h3Vars

\* A request refused before any application processing does not leave its
\* receive direction open, whether or not the refusal could be sent.
RefusalStopsReceive ==
    \A s \in Streams :
        task[s] = "done" /\ s \in registry /\ EarlyRefusal(req[s]) # 200 => recv[s] # "open"

\* The reason a request is told is the cause: the peer only when the peer
\* closed, a timeout only when the connection or this request's body timed
\* out, shutdown only when the connection is draining or over.
ReasonsAreTrue ==
    \A s \in Streams :
        /\ life[s].reason = "PeerDisconnected" => quic = "peer"
        /\ life[s].reason = "ConnectionTimeout" => quic = "timed_out" \/ life[s].body = "Failed"
        /\ life[s].reason = "ServerShutdown" => draining \/ serve # "loop"

\* Nothing the client sent after its CONNECT is consumed before the tunnel
\* runs: handle_h3_connect never probes the stream for content.
EarlyTunnelDataKept ==
    \A s \in Streams :
        req[s].method = "CONNECT" /\ bridge[s].up = "none" => left[s] = req[s].data

\* While the connection is served, cancelling one request touches nothing of
\* its siblings: a failed send, body timeout or failed handshake is local to
\* its stream.
StreamFailureIsLocal ==
    [][serve' = serve =>
          \A s \in Streams : life'[s].reason # life[s].reason =>
              \A t \in Streams \ {s} :
                  /\ life'[t] = life[t] /\ task'[t] = task[t]
                  /\ recv'[t] = recv[t] /\ send'[t] = send[t]]_h3Vars

\* serve_connection ends after a shutdown and after the connection closes,
\* however its requests behave, and leaves no request task behind.
ConnectionDrains ==
    draining \/ quic # "open"
        ~> serve = "returned" /\ \A s \in Streams : task[s] \notin Running

\* Cancellation wakes an idle tunnel: both copying tasks end although neither
\* the peer nor the handler does anything.
CancelledTunnelEnds ==
    \A s \in Streams :
        life[s].reason # NoReason ~> bridge[s].up # "run" /\ bridge[s].down # "run"

-----------------------------------------------------------------------------
(* Stronger statements, which the code does not keep.                      *)

\* A task is aborted only after its lifecycle was cancelled.  A stream that
\* resolves between cancel_all and abort_all is aborted uncancelled.
AbortedWasTold ==
    \A s \in Streams : task[s] = "aborted" /\ s \in registry => life[s].reason # NoReason

\* A tunnel whose client resets the stream ends.  recv_task stops without
\* shutting the duplex, so a handler waiting for input is not told.
ResetTunnelEnds ==
    \A s \in Streams : bridge[s].up = "run" /\ recv[s] = "reset" ~> bridge[s].handler # "run"

\* No tunnel handler outlives its request task.  An aborted task detaches it.
HandlersEndWithTask ==
    \A s \in Streams : task[s] = "aborted" => bridge[s].handler # "run"

\* Every request stream stands for itself: work runs only under its permits, a
\* refusal stops the receive side and sees no content, the reason it is told is
\* true, early tunnel data is kept, a finished response is whole, and a stream's
\* failure stays in the stream (adapter.rs, server.rs).
H3StreamsStandAlone ==
    /\ [](WorkIsAdmitted /\ RejectSeesNoContent /\ RefusalStopsReceive)
    /\ [](ReasonsAreTrue /\ EarlyTunnelDataKept)
    /\ FinishedIsWhole /\ StreamFailureIsLocal

\* A connection that is told to drain ends, and so does a cancelled tunnel
\* (server.rs, tunnel.rs).
H3Settles == ConnectionDrains /\ CancelledTunnelEnds

-----------------------------------------------------------------------------
(***************************************************************************)
(* accept_loop: QUIC attempts are admitted against the server's connection *)
(* permits and the endpoint's pending-handshake permits, served by one     *)
(* task each, and joined at shutdown.  Here a connection that is being     *)
(* served only ends, at once or some time after the endpoint closed.       *)
(***************************************************************************)
CONSTANTS Attempts,            \* QUIC connection attempts
          ConnectionPermits,   \* max_connections, shared with TCP
          PendingPermits,      \* max_pending_handshakes
          StatelessRetry       \* stateless_retry

ASSUME EndpointAssumption ==
    IsFiniteSet(Attempts) /\ ConnectionPermits \in Nat /\ PendingPermits \in Nat

VARIABLES endpoint,            \* "accepting", "closed", or accept_loop's result
          attempt,             \* where each attempt is
          connection_permits,  \* attempts holding a connection permit
          pending_handshakes,  \* attempts holding a pending-handshake permit
          tcp_permits,         \* connection permits taken by TCP connections
          aborting,            \* attempts whose task has been told to abort
          connections_accepted, connections_rejected, active_connections

counters == <<connections_accepted, connections_rejected, active_connections>>
h3eVars == <<endpoint, attempt, connection_permits, pending_handshakes, tcp_permits,
             aborting, counters>>

Tasks == {"spawned", "handshake", "serving"}

EndpointInit ==
    /\ endpoint = "accepting"
    /\ attempt = [a \in Attempts |-> "new"]
    /\ connection_permits = {} /\ pending_handshakes = {} /\ tcp_permits = 0
    /\ aborting = {}
    /\ connections_accepted = 0 /\ connections_rejected = 0 /\ active_connections = 0

\* The TCP side takes and returns permits of the same pool.
TcpPermit ==
    /\ tcp_permits' \in {tcp_permits + 1, tcp_permits - 1} \cap 0..ConnectionPermits
    /\ Cardinality(connection_permits) + tcp_permits' <= ConnectionPermits
    /\ UNCHANGED <<endpoint, attempt, connection_permits, pending_handshakes, aborting, counters>>

PermitFree == Cardinality(connection_permits) + tcp_permits < ConnectionPermits

\* Mutant: a refusal for want of a handshake slot forgets the gauge.
AcceptAttemptLeaks(a) ==
    /\ endpoint = "accepting" /\ attempt[a] = "new" /\ PermitFree
    /\ connections_accepted' = connections_accepted + 1
    /\ active_connections' = active_connections + 1
    /\ IF Cardinality(pending_handshakes) < PendingPermits
       THEN /\ attempt' = [attempt EXCEPT ![a] = "spawned"]
            /\ connection_permits' = connection_permits \cup {a}
            /\ pending_handshakes' = pending_handshakes \cup {a}
       ELSE /\ attempt' = [attempt EXCEPT ![a] = "refused"]
            /\ UNCHANGED <<connection_permits, pending_handshakes>>
    /\ UNCHANGED <<endpoint, tcp_permits, aborting, connections_rejected>>

\* endpoint.accept() yields an attempt that gets a connection permit.  Without
\* a handshake slot it is refused after it was counted: the permit and the
\* gauge go back, connections_accepted stays.
AcceptAttempt(a) ==
    /\ endpoint = "accepting" /\ attempt[a] = "new" /\ PermitFree
    /\ connections_accepted' = connections_accepted + 1
    /\ IF Cardinality(pending_handshakes) < PendingPermits
       THEN /\ attempt' = [attempt EXCEPT ![a] = "spawned"]
            /\ connection_permits' = connection_permits \cup {a}
            /\ pending_handshakes' = pending_handshakes \cup {a}
            /\ active_connections' = active_connections + 1
       ELSE /\ attempt' = [attempt EXCEPT ![a] = "refused"]
            /\ UNCHANGED <<connection_permits, pending_handshakes, active_connections>>
    /\ UNCHANGED <<endpoint, tcp_permits, aborting, connections_rejected>>

RejectAttempt(a) ==
    /\ endpoint = "accepting" /\ attempt[a] = "new" /\ ~PermitFree
    /\ attempt' = [attempt EXCEPT ![a] = "refused"]
    /\ connections_rejected' = connections_rejected + 1
    /\ UNCHANGED <<endpoint, connection_permits, pending_handshakes, tcp_permits, aborting,
                   connections_accepted, active_connections>>

\* The task ends, or is dropped: permits and the ActiveConnectionGuard go.
DropTask(a) ==
    /\ attempt' = [attempt EXCEPT ![a] = "gone"]
    /\ connection_permits' = connection_permits \ {a}
    /\ pending_handshakes' = pending_handshakes \ {a}
    /\ active_connections' = active_connections - 1
    /\ UNCHANGED <<endpoint, tcp_permits, aborting, connections_accepted, connections_rejected>>

\* Answer with a Retry packet and end, or start the handshake; accept() may fail.
StartHandshake(a) ==
    /\ attempt[a] = "spawned"
    /\ \/ (StatelessRetry \/ endpoint # "accepting") /\ DropTask(a)
       \/ /\ attempt' = [attempt EXCEPT ![a] = "handshake"]
          /\ UNCHANGED <<endpoint, connection_permits, pending_handshakes, tcp_permits,
                         aborting, counters>>

\* The handshake completes in time and its slot is given back.
HandshakeDone(a) ==
    /\ attempt[a] = "handshake"
    /\ attempt' = [attempt EXCEPT ![a] = "serving"]
    /\ pending_handshakes' = pending_handshakes \ {a}
    /\ UNCHANGED <<endpoint, connection_permits, tcp_permits, aborting, counters>>

\* The handshake fails or tls_handshake_timeout passes.
HandshakeOver(a) == attempt[a] = "handshake" /\ DropTask(a)

\* serve_connection returns.
ServeReturns(a) == attempt[a] = "serving" /\ DropTask(a)

\* shutdown_rx.recv(), or accept() yields None: endpoint.close() and the
\* graceful deadline starts.
CloseEndpoint ==
    /\ endpoint = "accepting"
    /\ endpoint' = "closed"
    /\ UNCHANGED <<attempt, connection_permits, pending_handshakes, tcp_permits, aborting,
                   counters>>

NoTasks == \A a \in Attempts : attempt[a] \notin Tasks

\* join_next() yields None.
JoinClean ==
    /\ endpoint = "closed" /\ NoTasks
    /\ endpoint' = "Clean"
    /\ UNCHANGED <<attempt, connection_permits, pending_handshakes, tcp_permits, aborting,
                   counters>>

\* The deadline passes: abort_all, and the result does not wait for it.
JoinTimeout ==
    /\ endpoint = "closed"
    /\ endpoint' = "Timeout"
    /\ aborting' = {a \in Attempts : attempt[a] \in Tasks}
    /\ UNCHANGED <<attempt, connection_permits, pending_handshakes, tcp_permits, counters>>

AttemptAborted(a) == a \in aborting /\ attempt[a] \in Tasks /\ DropTask(a)

EndpointNext ==
    \/ TcpPermit \/ CloseEndpoint \/ JoinClean \/ JoinTimeout
    \/ \E a \in Attempts :
          \/ AcceptAttempt(a) \/ RejectAttempt(a) \/ StartHandshake(a) \/ HandshakeDone(a)
          \/ HandshakeOver(a) \/ ServeReturns(a) \/ AttemptAborted(a)

\* Joining has a deadline, and an aborted task is dropped.
EndpointFairness ==
    /\ WF_h3eVars(JoinClean \/ JoinTimeout)
    /\ \A a \in Attempts : WF_h3eVars(AttemptAborted(a))

EndpointSpec == EndpointInit /\ [][EndpointNext]_h3eVars /\ EndpointFairness

-----------------------------------------------------------------------------
(* Properties.                                                             *)

\* The active_connections gauge counts exactly the connection tasks alive, on
\* every path: refused without a handshake slot, retried, failed, timed out,
\* served or aborted; and QUIC and TCP together stay inside one budget.
GaugeExact ==
    /\ active_connections = Cardinality({a \in Attempts : attempt[a] \in Tasks})
    /\ active_connections + tcp_permits <= ConnectionPermits

\* Served connections hold no handshake slot, so they never starve newcomers:
\* a slot is missing only while as many handshakes are really in progress.
SlotsOnlyForHandshakes ==
    Cardinality(pending_handshakes)
        = Cardinality({a \in Attempts : attempt[a] \in {"spawned", "handshake"}})

\* accept_loop reports Clean only when no connection task is left.
CleanIsClean == endpoint = "Clean" => NoTasks

\* A closed endpoint reports, and in the end nothing of it is left: no task,
\* no permit of the shared pool, nothing on the gauge.
EndpointEmpties ==
    endpoint = "closed" ~> /\ endpoint \in {"Clean", "Timeout"} /\ NoTasks
                           /\ connection_permits = {} /\ active_connections = 0

\* The endpoint's two budgets are exact: the gauge counts the connections, a
\* handshake slot is held only during a handshake, and Clean means that all ended
\* by themselves (server.rs).
EndpointBudgetsExact == GaugeExact /\ SlotsOnlyForHandshakes /\ CleanIsClean
==============================================================================
