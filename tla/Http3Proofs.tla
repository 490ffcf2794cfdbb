----------------------------- MODULE Http3Proofs -----------------------------
(***************************************************************************)
(* Proofs about eggserve-h3: the QUIC endpoint with its two budgets, for   *)
(* any finite set of attempts, and an HTTP/3 connection, for any number of *)
(* request streams.                                                        *)
(***************************************************************************)
EXTENDS Http3Adapter, FiniteSetTheorems, TLAPS

-----------------------------------------------------------------------------
(* The QUIC endpoint.  A permit and a handshake slot are held by the       *)
(* attempts whose task is in the phases that need them, so the gauge and   *)
(* both budgets are cardinalities of sets of attempts.                     *)

TaskOf == {a \in Attempts : attempt[a] \in Tasks}

Handshaking == {a \in Attempts : attempt[a] \in {"spawned", "handshake"}}

EndpointTypeOK ==
    /\ attempt \in [Attempts -> {"new", "refused", "gone"} \cup Tasks]
    /\ tcp_permits \in Nat /\ active_connections \in Nat

\* The inductive invariant of the endpoint.
EndpointInv ==
    /\ EndpointTypeOK
    /\ connection_permits = TaskOf
    /\ pending_handshakes = Handshaking
    /\ active_connections = Cardinality(TaskOf)
    /\ Cardinality(TaskOf) + tcp_permits <= ConnectionPermits
    /\ endpoint = "Clean" => TaskOf = {}

\* The sets of attempts are finite.
LEMMA AttemptsAreFinite ==
    /\ IsFiniteSet(TaskOf) /\ Cardinality(TaskOf) \in Nat
    /\ IsFiniteSet(Handshaking) /\ Cardinality(Handshaking) \in Nat
BY EndpointAssumption, FS_Subset, FS_CardinalityType DEF TaskOf, Handshaking

\* No attempt has come yet.
LEMMA EndpointInitHolds == EndpointInit => EndpointInv
<1> SUFFICES ASSUME EndpointInit PROVE EndpointInv
  OBVIOUS
<1>1. TaskOf = {} /\ Handshaking = {}
  BY DEF EndpointInit, TaskOf, Handshaking, Tasks
<1> QED
  BY <1>1, FS_EmptySet, EndpointAssumption
     DEF EndpointInit, EndpointInv, EndpointTypeOK

\* However a task ends, its permit, its slot and its place on the gauge go together.
LEMMA DropTaskKeeps ==
    ASSUME EndpointInv, NEW a \in Attempts, attempt[a] \in Tasks, DropTask(a)
    PROVE  EndpointInv'
<1>1. TaskOf' = TaskOf \ {a} /\ a \in TaskOf /\ Handshaking' = Handshaking \ {a}
  BY DEF EndpointInv, EndpointTypeOK, DropTask, TaskOf, Handshaking, Tasks
<1>2. Cardinality(TaskOf') = Cardinality(TaskOf) - 1 /\ Cardinality(TaskOf') \in Nat
  BY <1>1, AttemptsAreFinite, FS_RemoveElement, FS_CardinalityType
<1>3. EndpointTypeOK'
  BY <1>2 DEF EndpointInv, EndpointTypeOK, DropTask, Tasks
<1> QED
  BY <1>1, <1>2, <1>3, AttemptsAreFinite, EndpointAssumption
     DEF EndpointInv, EndpointTypeOK, DropTask

\* An accepted attempt takes a permit and a slot, or leaves both as they were.
LEMMA AcceptAttemptKeeps ==
    ASSUME EndpointInv, NEW a \in Attempts, AcceptAttempt(a)
    PROVE  EndpointInv'
<1> USE AttemptsAreFinite, EndpointAssumption
<1>1. a \notin TaskOf /\ endpoint = "accepting" /\ endpoint' = "accepting"
  BY DEF EndpointInv, AcceptAttempt, TaskOf, Tasks
<1>2. CASE Cardinality(pending_handshakes) < PendingPermits
  <2>1. TaskOf' = TaskOf \cup {a} /\ Handshaking' = Handshaking \cup {a}
    BY <1>2 DEF EndpointInv, EndpointTypeOK, AcceptAttempt, TaskOf, Handshaking, Tasks
  <2>2. Cardinality(TaskOf') = Cardinality(TaskOf) + 1
    BY <1>1, <2>1, FS_AddElement
  <2>3. EndpointTypeOK'
    BY <1>2 DEF EndpointInv, EndpointTypeOK, AcceptAttempt, Tasks
  <2> QED
    BY <1>1, <1>2, <2>1, <2>2, <2>3
       DEF EndpointInv, EndpointTypeOK, AcceptAttempt, PermitFree
<1>3. CASE ~(Cardinality(pending_handshakes) < PendingPermits)
  <2>1. TaskOf' = TaskOf /\ Handshaking' = Handshaking
    BY <1>3 DEF EndpointInv, EndpointTypeOK, AcceptAttempt, TaskOf, Handshaking, Tasks
  <2>2. EndpointTypeOK'
    BY <1>3 DEF EndpointInv, EndpointTypeOK, AcceptAttempt
  <2> QED
    BY <1>1, <1>3, <2>1, <2>2 DEF EndpointInv, AcceptAttempt
<1> QED
  BY <1>2, <1>3

\* Every step of the endpoint preserves the invariant.
LEMMA EndpointStepKeeps == EndpointInv /\ [EndpointNext]_h3eVars => EndpointInv'
<1> SUFFICES ASSUME EndpointInv, [EndpointNext]_h3eVars PROVE EndpointInv'
  OBVIOUS
<1> USE AttemptsAreFinite, EndpointAssumption
<1>1. CASE TcpPermit
  <2>1. TaskOf' = TaskOf /\ Handshaking' = Handshaking
    BY <1>1 DEF TcpPermit, TaskOf, Handshaking
  <2> QED
    BY <1>1, <2>1 DEF TcpPermit, EndpointInv, EndpointTypeOK, counters
<1>2. CASE CloseEndpoint \/ JoinClean \/ JoinTimeout \/ UNCHANGED h3eVars
  <2>1. TaskOf' = TaskOf /\ Handshaking' = Handshaking
    BY <1>2 DEF CloseEndpoint, JoinClean, JoinTimeout, h3eVars, TaskOf, Handshaking
  <2>2. JoinClean => TaskOf = {}
    BY DEF JoinClean, NoTasks, TaskOf
  <2> QED
    BY <1>2, <2>1, <2>2
       DEF CloseEndpoint, JoinClean, JoinTimeout, h3eVars, counters, EndpointInv, EndpointTypeOK
<1>3. ASSUME NEW a \in Attempts, RejectAttempt(a) PROVE EndpointInv'
  <2>1. TaskOf' = TaskOf /\ Handshaking' = Handshaking
    BY <1>3 DEF EndpointInv, EndpointTypeOK, RejectAttempt, TaskOf, Handshaking, Tasks
  <2> QED
    BY <1>3, <2>1 DEF RejectAttempt, EndpointInv, EndpointTypeOK
<1>4. ASSUME NEW a \in Attempts, StartHandshake(a) PROVE EndpointInv'
  <2>1. CASE DropTask(a)
    BY <1>4, <2>1, DropTaskKeeps DEF StartHandshake, Tasks
  <2>2. CASE attempt' = [attempt EXCEPT ![a] = "handshake"] /\ ~DropTask(a)
    <3>1. TaskOf' = TaskOf /\ Handshaking' = Handshaking
      BY <1>4, <2>2 DEF EndpointInv, EndpointTypeOK, StartHandshake, TaskOf, Handshaking, Tasks
    <3> QED
      BY <1>4, <2>2, <3>1 DEF StartHandshake, EndpointInv, EndpointTypeOK, Tasks, counters
  <2> QED
    BY <1>4, <2>1, <2>2 DEF StartHandshake
<1>5. ASSUME NEW a \in Attempts, HandshakeDone(a) PROVE EndpointInv'
  <2>1. TaskOf' = TaskOf /\ Handshaking' = Handshaking \ {a}
    BY <1>5 DEF EndpointInv, EndpointTypeOK, HandshakeDone, TaskOf, Handshaking, Tasks
  <2> QED
    BY <1>5, <2>1 DEF HandshakeDone, EndpointInv, EndpointTypeOK, Tasks, counters
<1>6. ASSUME NEW a \in Attempts, HandshakeOver(a) \/ ServeReturns(a) \/ AttemptAborted(a)
      PROVE  EndpointInv'
  BY <1>6, DropTaskKeeps DEF HandshakeOver, ServeReturns, AttemptAborted, Tasks
<1> QED
  BY <1>1, <1>2, <1>3, <1>4, <1>5, <1>6, AcceptAttemptKeeps DEF EndpointNext

\* For any finite set of attempts and any two limits: the active_connections gauge
\* counts exactly the connection tasks, QUIC and TCP together stay inside
\* max_connections, a handshake slot is held only during a handshake, and
\* accept_loop reports Clean only when no task is left (adapter.rs, accept_loop).
THEOREM EndpointBudgetsAreExact == EndpointSpec => []EndpointBudgetsExact
<1>1. EndpointInv => EndpointBudgetsExact
  BY DEF EndpointInv, EndpointBudgetsExact, GaugeExact, SlotsOnlyForHandshakes, CleanIsClean,
     NoTasks, TaskOf, Handshaking
<1> QED
  BY <1>1, EndpointInitHolds, EndpointStepKeeps, PTL DEF EndpointSpec

-----------------------------------------------------------------------------
(* An HTTP/3 connection.  The invariant has a part about the pools that    *)
(* all streams share and one about each stream by itself, so a step of one *)
(* stream leaves the parts of the others alone.  The leaves are            *)
(* first-order; those about arithmetic name SMT.                           *)

USE Zenon

H3Labels == Running \cup {"idle", "done", "aborted"}
H3Reasons == {NoReason, "PeerDisconnected", "ConnectionTimeout", "ServerShutdown", "TransportFailure"}
RequestLives == [body : {"Active", "Complete", "Abandoned", "Failed"}, reason : H3Reasons]
CopyStates == {"none", "run", "ended"}
Bridges == [up : CopyStates, down : CopyStates, handler : CopyStates, eof : BOOLEAN]
SentBodies == H3Responses \cup {runtime_error_response}

H3Types ==
    /\ req \in [Streams -> H3Requests]
    /\ task \in [Streams -> H3Labels]
    /\ life \in [Streams -> RequestLives]
    /\ left \in [Streams -> Nat]
    /\ recv \in [Streams -> {"open", "reset", "eof", "stopped"}]
    /\ send \in [Streams -> {"idle", "head", "reset", "finished"}]
    /\ out \in [Streams -> SentBodies \cup {NoOutput}]
    /\ after \in [Streams -> SUBSET {"stop_sending", "stop_stream"}]
    /\ holds \in [Streams -> SUBSET {"service", "tunnel", "active", "file"}]
    /\ bridge \in [Streams -> Bridges]

\* The two pools are never overdrawn and the gauge counts the guards.
PermitsBounded ==
    /\ Cardinality(Using("service")) <= ServicePermits
    /\ Cardinality(Using("tunnel")) <= TunnelPermits
    /\ active_tunnels = Cardinality(Using("active"))

\* A task works only under its permits, and copying follows the handshake.
PermitsHeld(s) ==
    /\ task[s] \in {"handler", "connect", "handshake", "tunnel", "closing"} => "service" \in holds[s]
    /\ task[s] \in {"handshake", "tunnel", "closing"} => "tunnel" \in holds[s]
    /\ "active" \in holds[s] <=> task[s] \in {"tunnel", "closing"}
    /\ bridge[s].up # "none" => task[s] \in {"tunnel", "closing", "done", "aborted"}

\* What has not been read of a request whose content nobody may see.
ContentUnread(s) ==
    /\ req[s].method = "CONNECT" => task[s] # "probe"
    /\ req[s].method = "CONNECT" /\ bridge[s].up = "none" => left[s] = req[s].data
    /\ req[s].policy = "reject" /\ task[s] \in {"idle", "resolving", "start", "probe"} => left[s] = req[s].data
    /\ req[s].policy = "reject" => task[s] # "buffer"
    /\ req[s].policy = "reject" /\ task[s] \in {"admit", "handler"} => recv[s] = "eof" /\ req[s].data = 0

\* A refused request goes from its start to the refusal, and stops receiving.
RefusalStops(s) ==
    s \in registry /\ EarlyRefusal(req[s]) # 200 =>
        /\ task[s] \in {"start", "sending", "done", "aborted"}
        /\ task[s] = "sending" => "stop_sending" \in after[s]
        /\ task[s] = "done" => recv[s] # "open"

\* Nothing is sent before the response, or the tunnel's handshake.
SendOrder(s) ==
    /\ task[s] = "sending" => send[s] \in {"idle", "head"} /\ out[s] \in SentBodies
    /\ task[s] \notin {"sending", "tunnel", "closing", "done", "aborted"} => send[s] = "idle"

ReasonIsTrue(s) ==
    /\ life[s].reason = "PeerDisconnected" => quic = "peer"
    /\ life[s].reason = "ConnectionTimeout" => quic = "timed_out" \/ life[s].body = "Failed"
    /\ life[s].reason = "ServerShutdown" => draining \/ serve # "loop"

StreamInv(s) ==
    PermitsHeld(s) /\ ContentUnread(s) /\ RefusalStops(s) /\ SendOrder(s) /\ ReasonIsTrue(s)

H3Inv == H3Types /\ PermitsBounded /\ \A s \in Streams : StreamInv(s)

-----------------------------------------------------------------------------
LEMMA H3InitHolds == H3Init => H3Inv
<1> SUFFICES ASSUME H3Init PROVE H3Inv
  OBVIOUS
<1>1. \A s \in Streams : req[s] \in H3Requests /\ req[s].data \in Nat
  BY H3Assumption DEF H3Init
<1>2. H3Types
  BY <1>1 DEF H3Init, H3Types, H3Labels, RequestLives, H3Reasons, SentBodies, Bridges, CopyStates, NoBridge
<1>3. PermitsBounded
  <2>1. Using("service") = {} /\ Using("tunnel") = {} /\ Using("active") = {}
    BY DEF H3Init, Using
  <2>2. Cardinality({}) = 0 /\ active_tunnels = 0 /\ ServicePermits \in Nat /\ TunnelPermits \in Nat
    BY FS_EmptySet, H3Assumption DEF H3Init
  <2> QED BY <2>1, <2>2, SMT DEF PermitsBounded
<1>4. ASSUME NEW s \in Streams PROVE StreamInv(s)
  <2>1. /\ task[s] = "idle" /\ holds[s] = {} /\ bridge[s].up = "none" /\ left[s] = req[s].data
        /\ s \notin registry /\ send[s] = "idle" /\ life[s].reason = NoReason
    BY DEF H3Init, NoBridge
  <2> QED BY <2>1 DEF StreamInv, PermitsHeld, ContentUnread, RefusalStops, SendOrder, ReasonIsTrue, NoReason
<1> QED BY <1>2, <1>3, <1>4 DEF H3Inv

\* A step of stream s leaves its siblings alone.
Others(s) ==
    \A x \in Streams \ {s} :
        /\ task'[x] = task[x] /\ life'[x] = life[x] /\ left'[x] = left[x] /\ recv'[x] = recv[x]
        /\ send'[x] = send[x] /\ out'[x] = out[x] /\ after'[x] = after[x]
        /\ holds'[x] = holds[x] /\ bridge'[x] = bridge[x]

\* It takes a permit only from a pool that has one, and the gauge with its guard.
PermitStep(s) ==
    /\ "service" \in holds'[s] /\ "service" \notin holds[s] => Cardinality(Using("service")) < ServicePermits
    /\ "tunnel" \in holds'[s] /\ "tunnel" \notin holds[s] => Cardinality(Using("tunnel")) < TunnelPermits
    /\ "active" \in holds'[s] /\ "active" \notin holds[s] => active_tunnels' = active_tunnels + 1
    /\ "active" \notin holds'[s] /\ "active" \in holds[s] => active_tunnels' = active_tunnels - 1
    /\ ("active" \in holds'[s] <=> "active" \in holds[s]) => active_tunnels' = active_tunnels

\* Only a failed body is told of a timeout; any other cause is the transport's.
LifeStep(s) ==
    /\ life[s].body = "Failed" => life'[s].body = "Failed"
    /\ \/ life'[s].reason = life[s].reason
       \/ life'[s].reason = "TransportFailure"
       \/ life'[s].reason = "ConnectionTimeout" /\ life'[s].body = "Failed"

LEMMA LifeMoves ==
    ASSUME life \in [Streams -> RequestLives], NEW s \in Streams,
           \/ life' = life
           \/ \E state \in {"Complete", "Abandoned"} : life' = [life EXCEPT ![s] = Marked(@, state)]
           \/ \E reason \in {"TransportFailure", "ConnectionTimeout"} : life' = [life EXCEPT ![s] = Failed(@, reason)]
           \/ life' = [life EXCEPT ![s] = Cancelled(@, "TransportFailure")]
    PROVE  /\ life' \in [Streams -> RequestLives] /\ LifeStep(s)
           /\ \A x \in Streams \ {s} : life'[x] = life[x]
<1>0. life[s] \in RequestLives
  OBVIOUS
<1>1. CASE life' = life
  BY <1>1 DEF LifeStep
<1>2. ASSUME NEW state \in {"Complete", "Abandoned"}, life' = [life EXCEPT ![s] = Marked(@, state)]
      PROVE  life' \in [Streams -> RequestLives] /\ LifeStep(s) /\ \A x \in Streams \ {s} : life'[x] = life[x]
  <2>1. /\ Marked(life[s], state) \in RequestLives /\ Marked(life[s], state).reason = life[s].reason
        /\ life[s].body = "Failed" => Marked(life[s], state).body = "Failed"
    BY <1>0 DEF Marked, RequestLives
  <2>2. life'[s] = Marked(life[s], state)
    BY <1>2
  <2> QED BY <1>2, <2>1, <2>2 DEF LifeStep
<1>3. ASSUME NEW reason \in {"TransportFailure", "ConnectionTimeout"}, life' = [life EXCEPT ![s] = Failed(@, reason)]
      PROVE  life' \in [Streams -> RequestLives] /\ LifeStep(s) /\ \A x \in Streams \ {s} : life'[x] = life[x]
  <2>1. /\ Failed(life[s], reason) \in RequestLives
        /\ Failed(life[s], reason) = life[s] \/
              (Failed(life[s], reason).body = "Failed" /\ Failed(life[s], reason).reason \in {life[s].reason, reason})
    BY <1>0 DEF Failed, Cancelled, Marked, RequestLives, H3Reasons, NoReason
  <2>2. life'[s] = Failed(life[s], reason)
    BY <1>3
  <2> QED BY <1>3, <2>1, <2>2 DEF LifeStep
<1>4. CASE life' = [life EXCEPT ![s] = Cancelled(@, "TransportFailure")]
  <2>1. /\ Cancelled(life[s], "TransportFailure") \in RequestLives
        /\ Cancelled(life[s], "TransportFailure").body = life[s].body
        /\ Cancelled(life[s], "TransportFailure").reason \in {life[s].reason, "TransportFailure"}
    BY <1>0 DEF Cancelled, RequestLives, H3Reasons, NoReason
  <2>2. life'[s] = Cancelled(life[s], "TransportFailure")
    BY <1>4
  <2> QED BY <1>4, <2>1, <2>2 DEF LifeStep
<1> QED BY <1>1, <1>2, <1>3, <1>4

LEMMA UsingMoves ==
    ASSUME NEW s \in Streams, \A x \in Streams \ {s} : holds'[x] = holds[x], NEW p
    PROVE  /\ IsFiniteSet(Using(p)) /\ Cardinality(Using(p)) \in Nat
           /\ p \in holds'[s] /\ p \notin holds[s] => Cardinality(Using(p)') = Cardinality(Using(p)) + 1
           /\ p \notin holds'[s] /\ p \in holds[s] => Cardinality(Using(p)') = Cardinality(Using(p)) - 1
           /\ (p \in holds'[s] <=> p \in holds[s]) => Using(p)' = Using(p)
<1>1. IsFiniteSet(Using(p)) /\ Cardinality(Using(p)) \in Nat
  BY H3Assumption, FS_Subset, FS_CardinalityType DEF Using
<1>2. Using(p)' = IF p \in holds'[s] THEN Using(p) \cup {s} ELSE Using(p) \ {s}
  <2>1. ASSUME NEW x PROVE x \in Using(p)' <=> (IF x = s THEN p \in holds'[s] ELSE x \in Using(p))
    BY DEF Using
  <2> QED BY <2>1
<1>3. s \in Using(p) <=> p \in holds[s]
  BY DEF Using
<1>4. p \in holds'[s] /\ p \notin holds[s] => Cardinality(Using(p)') = Cardinality(Using(p)) + 1
  BY <1>1, <1>2, <1>3, FS_AddElement
<1>5. p \notin holds'[s] /\ p \in holds[s] => Cardinality(Using(p)') = Cardinality(Using(p)) - 1
  BY <1>1, <1>2, <1>3, FS_RemoveElement
<1>6. (p \in holds'[s] <=> p \in holds[s]) => Using(p)' = Using(p)
  BY <1>2, <1>3
<1> QED BY <1>1, <1>4, <1>5, <1>6

LEMMA H3StreamStep ==
    ASSUME H3Inv, NEW s \in Streams, H3Types', Others(s), PermitStep(s), LifeStep(s),
           PermitsHeld(s)', ContentUnread(s)', RefusalStops(s)', SendOrder(s)',
           UNCHANGED <<serve, quic, req>>, draining => draining', registry' \in {registry, registry \cup {s}}
    PROVE  H3Inv'
<1>1. \A x \in Streams \ {s} : holds'[x] = holds[x]
  BY DEF Others
<1>2. PermitsBounded'
  <2> DEFINE now(p) == Cardinality(Using(p))
             next(p) == Cardinality(Using(p)')
  <2>1. ASSUME NEW p
        PROVE  /\ now(p) \in Nat
               /\ p \in holds'[s] /\ p \notin holds[s] => next(p) = now(p) + 1
               /\ p \notin holds'[s] /\ p \in holds[s] => next(p) = now(p) - 1
               /\ (p \in holds'[s] <=> p \in holds[s]) => next(p) = now(p)
    BY <1>1, UsingMoves
  <2>2. now("service") <= ServicePermits /\ now("tunnel") <= TunnelPermits /\ active_tunnels = now("active")
    BY DEF H3Inv, PermitsBounded
  <2>3. ServicePermits \in Nat /\ TunnelPermits \in Nat
    BY H3Assumption
  <2>4. PermitsBounded' <=> next("service") <= ServicePermits /\ next("tunnel") <= TunnelPermits
                            /\ active_tunnels' = next("active")
    BY DEF PermitsBounded
  <2>5. /\ "service" \in holds'[s] /\ "service" \notin holds[s] => now("service") < ServicePermits
        /\ "tunnel" \in holds'[s] /\ "tunnel" \notin holds[s] => now("tunnel") < TunnelPermits
    BY DEF PermitStep
  <2>6. /\ "active" \in holds'[s] /\ "active" \notin holds[s] => active_tunnels' = active_tunnels + 1
        /\ "active" \notin holds'[s] /\ "active" \in holds[s] => active_tunnels' = active_tunnels - 1
        /\ ("active" \in holds'[s] <=> "active" \in holds[s]) => active_tunnels' = active_tunnels
    BY DEF PermitStep
  <2>7. next("service") <= ServicePermits
    <3>1. now("service") \in Nat /\ (\/ next("service") = now("service") + 1 /\ now("service") < ServicePermits
                                    \/ next("service") = now("service") - 1 \/ next("service") = now("service"))
      BY <2>1, <2>5
    <3> HIDE DEF now, next
    <3> QED BY <2>2, <2>3, <3>1, SMT
  <2>8. next("tunnel") <= TunnelPermits
    <3>1. now("tunnel") \in Nat /\ (\/ next("tunnel") = now("tunnel") + 1 /\ now("tunnel") < TunnelPermits
                                   \/ next("tunnel") = now("tunnel") - 1 \/ next("tunnel") = now("tunnel"))
      BY <2>1, <2>5
    <3> HIDE DEF now, next
    <3> QED BY <2>2, <2>3, <3>1, SMT
  <2>9. active_tunnels' = next("active")
    BY <2>1, <2>2, <2>6
  <2> QED BY <2>4, <2>7, <2>8, <2>9
<1>3. ASSUME NEW x \in Streams PROVE StreamInv(x)'
  <2>1. CASE x = s
    BY <2>1 DEF H3Inv, StreamInv, LifeStep, ReasonIsTrue
  <2>2. CASE x # s
    <3>1. /\ task'[x] = task[x] /\ life'[x] = life[x] /\ left'[x] = left[x] /\ recv'[x] = recv[x]
          /\ send'[x] = send[x] /\ out'[x] = out[x] /\ after'[x] = after[x]
          /\ holds'[x] = holds[x] /\ bridge'[x] = bridge[x] /\ (x \in registry' <=> x \in registry)
          /\ req'[x] = req[x]
      BY <2>2 DEF Others
    <3>2. StreamInv(x)
      BY DEF H3Inv
    <3>3. PermitsHeld(x)' /\ SendOrder(x)'
      BY <3>1, <3>2 DEF StreamInv, PermitsHeld, SendOrder
    <3>4. ContentUnread(x)' /\ ReasonIsTrue(x)'
      BY <3>1, <3>2 DEF StreamInv, ContentUnread, ReasonIsTrue
    <3>5. EarlyRefusal(req[x])' = EarlyRefusal(req[x])
      BY <3>1, SMT DEF EarlyRefusal, convert_request_head, Declares, declared_content_length
    <3>6. RefusalStops(x)'
      BY <3>1, <3>2, <3>5 DEF StreamInv, RefusalStops
    <3> QED BY <3>3, <3>4, <3>6 DEF StreamInv
  <2> QED BY <2>1, <2>2
<1> QED BY <1>2, <1>3 DEF H3Inv

-----------------------------------------------------------------------------
\* The steps beside the request task: the peer, the body's owner, the watchdog
\* and the copying tasks.
LEMMA SideStep ==
    ASSUME H3Inv, NEW s \in Streams,
           UNCHANGED <<connection, registry, req, task, sending, holds, active_tunnels>>,
           left' \in [Streams -> Nat], \A x \in Streams \ {s} : left'[x] = left[x],
           recv' \in [Streams -> {"open", "reset", "eof", "stopped"}], \A x \in Streams \ {s} : recv'[x] = recv[x],
           bridge' \in [Streams -> Bridges], \A x \in Streams \ {s} : bridge'[x] = bridge[x],
           life' \in [Streams -> RequestLives], \A x \in Streams \ {s} : life'[x] = life[x], LifeStep(s),
           recv'[s] = "open" => recv[s] = "open",
           recv'[s] = recv[s] \/ recv[s] = "open" \/ req[s].policy # "reject" \/ bridge[s].up # "none",
           bridge'[s].up = "none" <=> bridge[s].up = "none",
           left'[s] = left[s] \/ bridge[s].up # "none" \/ (req[s].policy # "reject" /\ req[s].method # "CONNECT")
    PROVE  H3Inv'
<1>1. UNCHANGED <<serve, draining, quic, send, out, after>>
  BY DEF connection, sending
<1>2. H3Types'
  BY <1>1 DEF H3Inv, H3Types
<1>3. Others(s)
  BY <1>1 DEF Others
<1>4. PermitStep(s)
  BY DEF PermitStep
<1>5. PermitsHeld(s)' /\ SendOrder(s)'
  BY <1>1 DEF H3Inv, StreamInv, PermitsHeld, SendOrder
<1>6. ContentUnread(s)'
  BY DEF H3Inv, StreamInv, PermitsHeld, ContentUnread
<1>7. RefusalStops(s)'
  BY <1>1 DEF H3Inv, StreamInv, RefusalStops
<1> QED BY <1>1, <1>2, <1>3, <1>4, <1>5, <1>6, <1>7, H3StreamStep

LEMMA PeerResetsKeeps ==
    ASSUME H3Inv, NEW s \in Streams, PeerResets(s)
    PROVE  H3Inv'
<1>1. /\ UNCHANGED <<connection, registry, req, task, sending, holds, active_tunnels, left, bridge, life>>
      /\ recv[s] = "open" /\ recv' = [recv EXCEPT ![s] = "reset"]
  BY DEF PeerResets, taskless, tunnels
<1>2. H3Types
  BY DEF H3Inv
<1>3. LifeStep(s)
  BY <1>1 DEF LifeStep
<1> QED BY <1>1, <1>2, <1>3, SideStep DEF H3Types

LEMMA ReadBodyKeeps ==
    ASSUME H3Inv, NEW s \in Streams, ReadBody(s)
    PROVE  H3Inv'
<1>1. /\ UNCHANGED <<connection, registry, req, task, sending, holds, active_tunnels, bridge>>
      /\ req[s].policy # "reject" /\ req[s].method # "CONNECT"
  BY DEF ReadBody, taskless, tunnels
<1>2. H3Types
  BY DEF H3Inv
<1>3. \/ life' = life
      \/ \E state \in {"Complete", "Abandoned"} : life' = [life EXCEPT ![s] = Marked(@, state)]
      \/ \E reason \in {"TransportFailure", "ConnectionTimeout"} : life' = [life EXCEPT ![s] = Failed(@, reason)]
  BY <1>2 DEF ReadBody, H3Types
<1>4. /\ life' \in [Streams -> RequestLives] /\ LifeStep(s)
      /\ \A x \in Streams \ {s} : life'[x] = life[x]
  BY <1>2, <1>3, LifeMoves DEF H3Types
<1>5. left' \in [Streams -> Nat] /\ \A x \in Streams \ {s} : left'[x] = left[x]
  <2>1. left' = left \/ (left[s] > 0 /\ left' = [left EXCEPT ![s] = @ - 1])
    BY DEF ReadBody
  <2>2. left \in [Streams -> Nat]
    BY <1>2 DEF H3Types
  <2> QED BY <2>1, <2>2, SMT
<1>6. recv' = recv \/ recv' = [recv EXCEPT ![s] = "stopped"] \/ recv' = [recv EXCEPT ![s] = "eof"]
  BY DEF ReadBody
<1>7. /\ recv' \in [Streams -> {"open", "reset", "eof", "stopped"}]
      /\ \A x \in Streams \ {s} : recv'[x] = recv[x]
      /\ recv'[s] = "open" => recv[s] = "open"
  BY <1>2, <1>6 DEF H3Types
<1> QED BY <1>1, <1>2, <1>4, <1>5, <1>7, SideStep DEF H3Types

LEMMA WatchersKeep ==
    ASSUME H3Inv, NEW s \in Streams, BodyTimeout(s) \/ WatchdogEnds(s) \/ BodyOwnerDrops(s)
    PROVE  H3Inv'
<1>1. UNCHANGED <<connection, registry, req, task, sending, holds, active_tunnels, bridge, left, recv>>
  BY DEF BodyTimeout, WatchdogEnds, BodyOwnerDrops, taskless, tunnels
<1>2. H3Types
  BY DEF H3Inv
<1>3. \/ life' = life
      \/ \E state \in {"Complete", "Abandoned"} : life' = [life EXCEPT ![s] = Marked(@, state)]
      \/ \E reason \in {"TransportFailure", "ConnectionTimeout"} : life' = [life EXCEPT ![s] = Failed(@, reason)]
  BY DEF BodyTimeout, WatchdogEnds, BodyOwnerDrops, Dropped
<1>4. /\ life' \in [Streams -> RequestLives] /\ LifeStep(s)
      /\ \A x \in Streams \ {s} : life'[x] = life[x]
  BY <1>2, <1>3, LifeMoves DEF H3Types
<1> QED BY <1>1, <1>2, <1>4, SideStep DEF H3Types

LEMMA BridgeMoves ==
    ASSUME bridge \in [Streams -> Bridges], NEW s \in Streams, NEW state \in {"run", "ended"},
           NEW field \in {"up", "down", "handler"}, Bridge(s, field, state), bridge[s].up # "none" \/ field # "up"
    PROVE  /\ bridge' \in [Streams -> Bridges] /\ \A x \in Streams \ {s} : bridge'[x] = bridge[x]
           /\ bridge'[s].up = "none" <=> bridge[s].up = "none"
<1>1. bridge' = [bridge EXCEPT ![s] = [bridge[s] EXCEPT ![field] = state]] /\ bridge[s] \in Bridges
  BY DEF Bridge
<1>2. /\ [bridge[s] EXCEPT ![field] = state] \in Bridges
      /\ [bridge[s] EXCEPT ![field] = state].up = "none" <=> bridge[s].up = "none"
  BY <1>1 DEF Bridges, CopyStates
<1> QED BY <1>1, <1>2

LEMMA TunnelUpKeeps ==
    ASSUME H3Inv, NEW s \in Streams, TunnelUp(s)
    PROVE  H3Inv'
<1>1. /\ UNCHANGED <<connection, registry, req, task, sending, holds, active_tunnels, life>>
      /\ bridge[s].up = "run"
  BY DEF TunnelUp, bridgeless, taskless
<1>2. H3Types /\ LifeStep(s)
  BY <1>1 DEF H3Inv, LifeStep
<1>3. left' \in [Streams -> Nat] /\ \A x \in Streams \ {s} : left'[x] = left[x]
  BY <1>2, SMT DEF TunnelUp, H3Types
<1>4. /\ recv' \in [Streams -> {"open", "reset", "eof", "stopped"}]
      /\ \A x \in Streams \ {s} : recv'[x] = recv[x]
      /\ recv'[s] = "open" => recv[s] = "open"
  BY <1>2 DEF TunnelUp, H3Types
<1>5. /\ bridge' \in [Streams -> Bridges] /\ \A x \in Streams \ {s} : bridge'[x] = bridge[x]
      /\ bridge'[s].up = "none" <=> bridge[s].up = "none"
  <2>1. CASE \E state \in {"run", "ended"} : Bridge(s, "up", state)
    BY <1>1, <1>2, <2>1, BridgeMoves DEF H3Types
  <2>2. CASE bridge' = [bridge EXCEPT ![s].up = "ended", ![s].eof = TRUE]
    <3>1. bridge' = [bridge EXCEPT ![s] = [bridge[s] EXCEPT !.up = "ended", !.eof = TRUE]] /\ bridge[s] \in Bridges
      BY <1>2, <2>2 DEF H3Types
    <3>2. /\ [bridge[s] EXCEPT !.up = "ended", !.eof = TRUE] \in Bridges
          /\ [bridge[s] EXCEPT !.up = "ended", !.eof = TRUE].up = "ended"
      BY <3>1 DEF Bridges, CopyStates
    <3> QED BY <1>1, <1>2, <3>1, <3>2 DEF H3Types
  <2> QED BY <2>1, <2>2 DEF TunnelUp
<1> QED BY <1>1, <1>2, <1>3, <1>4, <1>5, SideStep DEF H3Types

LEMMA TunnelSidesKeep ==
    ASSUME H3Inv, NEW s \in Streams, TunnelDown(s) \/ TunnelDownFails(s) \/ HandlerReturns(s)
    PROVE  H3Inv'
<1>1. UNCHANGED <<connection, registry, req, task, sending, holds, active_tunnels, life, left, recv>>
  BY DEF TunnelDown, TunnelDownFails, HandlerReturns, bridgeless, taskless
<1>2. H3Types /\ LifeStep(s)
  BY <1>1 DEF H3Inv, LifeStep
<1>3. Bridge(s, "down", "ended") \/ Bridge(s, "handler", "ended")
  BY DEF TunnelDown, TunnelDownFails, HandlerReturns
<1>4. /\ bridge' \in [Streams -> Bridges] /\ \A x \in Streams \ {s} : bridge'[x] = bridge[x]
      /\ bridge'[s].up = "none" <=> bridge[s].up = "none"
  BY <1>2, <1>3, BridgeMoves DEF H3Types
<1> QED BY <1>1, <1>2, <1>4, SideStep DEF H3Types

-----------------------------------------------------------------------------
\* Before anything is sent.
Unsent == {"idle", "resolving", "start", "probe", "buffer", "admit", "handler", "connect_admit",
           "connect", "handshake"}

\* The task turns to its response.
LEMMA RespondKeeps ==
    ASSUME H3Inv, NEW s \in Streams, task[s] \in Unsent \ {"idle", "resolving", "handshake"},
           NEW response \in SentBodies, NEW then \in SUBSET {"stop_sending", "stop_stream"},
           Respond(s, response, then), task[s] = "start" => "stop_sending" \in then,
           UNCHANGED <<taskless, tunnels, recv>>,
           life' \in [Streams -> RequestLives], \A x \in Streams \ {s} : life'[x] = life[x], LifeStep(s),
           left' \in [Streams -> Nat], \A x \in Streams \ {s} : left'[x] = left[x],
           left'[s] = left[s] \/ req[s].method # "CONNECT",
           holds' = holds \/ holds' = [holds EXCEPT ![s] = @ \ {"service"}]
    PROVE  H3Inv'
<1>1. UNCHANGED <<serve, draining, quic, registry, req, bridge, active_tunnels, send>>
  BY DEF taskless, connection, tunnels, Respond
<1>2. H3Types /\ StreamInv(s)
  BY DEF H3Inv
<1>3. /\ task' \in [Streams -> H3Labels] /\ task'[s] = "sending" /\ \A x \in Streams \ {s} : task'[x] = task[x]
      /\ out' \in [Streams -> SentBodies \cup {NoOutput}] /\ out'[s] = response
      /\ \A x \in Streams \ {s} : out'[x] = out[x]
      /\ after' \in [Streams -> SUBSET {"stop_sending", "stop_stream"}] /\ after'[s] = then
      /\ \A x \in Streams \ {s} : after'[x] = after[x]
  <2>1. "sending" \in H3Labels
    BY DEF H3Labels, Running
  <2> QED BY <1>2, <2>1 DEF Respond, Go, H3Types
<1>4. /\ holds' \in [Streams -> SUBSET {"service", "tunnel", "active", "file"}] /\ holds'[s] \subseteq holds[s]
      /\ holds[s] \ {"service"} \subseteq holds'[s]
      /\ \A x \in Streams \ {s} : holds'[x] = holds[x]
  BY <1>2, SMT DEF H3Types
<1>5. H3Types'
  BY <1>1, <1>2, <1>3, <1>4 DEF H3Types
<1>6. Others(s)
  BY <1>1, <1>3, <1>4 DEF Others
<1>7. "active" \notin holds[s] /\ bridge[s].up = "none" /\ send[s] = "idle"
  BY <1>2 DEF StreamInv, PermitsHeld, SendOrder, Unsent
<1>8. PermitStep(s)
  BY <1>1, <1>4, <1>7 DEF PermitStep
<1>9. PermitsHeld(s)' /\ SendOrder(s)'
  BY <1>1, <1>3, <1>4, <1>7 DEF PermitsHeld, SendOrder
<1>10. ContentUnread(s)'
  BY <1>1, <1>2, <1>3 DEF StreamInv, ContentUnread
<1>11. RefusalStops(s)'
  BY <1>1, <1>2, <1>3 DEF StreamInv, RefusalStops, Unsent
<1> QED BY <1>1, <1>5, <1>6, <1>8, <1>9, <1>10, <1>11, H3StreamStep

\* The task goes on without sending anything.
LEMMA AdvanceKeeps ==
    ASSUME H3Inv, NEW s \in Streams, task[s] \in Unsent, NEW label \in Unsent \cup {"done"}, Go(s, label),
           UNCHANGED <<serve, quic, req, left, sending, tunnels>>,
           draining => draining', registry' \in {registry, registry \cup {s}},
           life' \in [Streams -> RequestLives], \A x \in Streams \ {s} : life'[x] = life[x], LifeStep(s),
           recv' \in [Streams -> {"open", "reset", "eof", "stopped"}], \A x \in Streams \ {s} : recv'[x] = recv[x],
           holds' \in [Streams -> SUBSET {"service", "tunnel", "active", "file"}],
           \A x \in Streams \ {s} : holds'[x] = holds[x], "active" \notin holds'[s],
           PermitsHeld(s)', ContentUnread(s)', RefusalStops(s)',
           "service" \in holds'[s] /\ "service" \notin holds[s] => Cardinality(Using("service")) < ServicePermits,
           "tunnel" \in holds'[s] /\ "tunnel" \notin holds[s] => Cardinality(Using("tunnel")) < TunnelPermits
    PROVE  H3Inv'
<1>1. UNCHANGED <<bridge, active_tunnels, send, out, after>>
  BY DEF tunnels, sending
<1>2. H3Types /\ StreamInv(s)
  BY DEF H3Inv
<1>3. /\ task' \in [Streams -> H3Labels] /\ task'[s] = label /\ \A x \in Streams \ {s} : task'[x] = task[x]
  BY <1>2 DEF Go, H3Types, H3Labels, Unsent, Running
<1>4. H3Types'
  BY <1>1, <1>2, <1>3 DEF H3Types
<1>5. Others(s)
  BY <1>1, <1>3 DEF Others
<1>6. "active" \notin holds[s] /\ send[s] = "idle"
  BY <1>2 DEF StreamInv, PermitsHeld, SendOrder, Unsent
<1>7. PermitStep(s)
  BY <1>1, <1>6 DEF PermitStep
<1>8. SendOrder(s)'
  BY <1>1, <1>3, <1>6 DEF SendOrder, Unsent
<1> QED BY <1>4, <1>5, <1>7, <1>8, H3StreamStep

LEMMA AcceptKeeps ==
    ASSUME H3Inv, NEW s \in Streams, AcceptStream(s) \/ Resolve(s)
    PROVE  H3Inv'
<1>1. H3Types /\ StreamInv(s)
  BY DEF H3Inv
<1>2. /\ UNCHANGED <<serve, quic, req, left, sending, tunnels, life, recv, holds>> /\ (draining => draining')
      /\ registry' \in {registry, registry \cup {s}}
  BY SMT DEF AcceptStream, Resolve, connection, bodies
<1>3. /\ task[s] \in {"idle", "resolving"}
      /\ \/ Go(s, "resolving") /\ registry' = registry
         \/ Go(s, "start")
         \/ Go(s, "done") /\ registry' = registry
  BY DEF AcceptStream, Resolve
<1>4. PICK label \in {"resolving", "start", "done"} :
          Go(s, label) /\ (label # "start" => registry' = registry)
  BY <1>3
<1>5. task'[s] = label
  BY <1>1, <1>4 DEF Go, H3Types
<1>6. bridge' = bridge
  BY <1>2 DEF tunnels
<1>7. PermitsHeld(s)' /\ ContentUnread(s)'
  BY <1>1, <1>2, <1>3, <1>5, <1>6 DEF StreamInv, PermitsHeld, ContentUnread
<1>8. RefusalStops(s)'
  BY <1>1, <1>2, <1>3, <1>4, <1>5 DEF StreamInv, RefusalStops
<1>9. LifeStep(s) /\ "active" \notin holds'[s]
  BY <1>1, <1>2, <1>3 DEF LifeStep, StreamInv, PermitsHeld
<1>10. task[s] \in Unsent /\ label \in Unsent \cup {"done"}
  BY <1>3 DEF Unsent
<1> QED BY <1>1, <1>2, <1>4, <1>7, <1>8, <1>9, <1>10, AdvanceKeeps DEF H3Types

LEMMA StartKeeps ==
    ASSUME H3Inv, NEW s \in Streams, StartRequest(s)
    PROVE  H3Inv'
<1>1. H3Types /\ StreamInv(s)
  BY DEF H3Inv
<1>2. /\ task[s] = "start" /\ task[s] \in Unsent \ {"idle", "resolving", "handshake"}
      /\ UNCHANGED <<taskless, left, recv, holds, tunnels>>
      /\ UNCHANGED <<serve, draining, quic, registry, req, bridge>>
  BY DEF StartRequest, Unsent, taskless, connection, tunnels
<1>3. CASE EarlyRefusal(req[s]) # 200
  <2>1. Respond(s, runtime_error_response, {"stop_sending"}) /\ life' = life
    BY <1>3 DEF StartRequest
  <2>2. LifeStep(s) /\ runtime_error_response \in SentBodies
    BY <2>1 DEF LifeStep, SentBodies
  <2> QED BY <1>1, <1>2, <2>1, <2>2, RespondKeeps DEF H3Types
<1>4. CASE EarlyRefusal(req[s]) = 200
  <2>1. PICK label \in {"connect_admit", "probe", "buffer", "admit"} :
          /\ Go(s, label) /\ UNCHANGED sending
          /\ life' = life \/ life' = [life EXCEPT ![s] = Marked(@, "Complete")]
          /\ req[s].method = "CONNECT" => label = "connect_admit"
          /\ req[s].policy = "reject" => label \in {"connect_admit", "probe"}
    BY <1>4 DEF StartRequest
  <2>2. /\ life' \in [Streams -> RequestLives] /\ LifeStep(s)
        /\ \A x \in Streams \ {s} : life'[x] = life[x]
    BY <1>1, <2>1, LifeMoves DEF H3Types
  <2>3. task'[s] = label
    BY <1>1, <2>1 DEF Go, H3Types
  <2>4. PermitsHeld(s)' /\ "active" \notin holds'[s]
    BY <1>1, <1>2, <2>3 DEF StreamInv, PermitsHeld
  <2>5. ContentUnread(s)'
    BY <1>1, <1>2, <2>1, <2>3 DEF StreamInv, ContentUnread
  <2>6. RefusalStops(s)'
    BY <1>2, <1>4 DEF RefusalStops
  <2>7. label \in Unsent \cup {"done"}
    BY DEF Unsent
  <2> QED BY <1>1, <1>2, <2>1, <2>2, <2>4, <2>5, <2>6, <2>7, AdvanceKeeps DEF H3Types
<1> QED BY <1>3, <1>4

LEMMA ProbeKeeps ==
    ASSUME H3Inv, NEW s \in Streams, Probe(s)
    PROVE  H3Inv'
<1>1. H3Types /\ StreamInv(s)
  BY DEF H3Inv
<1>2. /\ task[s] = "probe" /\ task[s] \in Unsent \ {"idle", "resolving", "handshake"}
      /\ UNCHANGED <<taskless, holds, tunnels>>
      /\ UNCHANGED <<serve, draining, quic, registry, req, bridge>> /\ req[s].method # "CONNECT"
  BY <1>1 DEF Probe, Unsent, taskless, connection, tunnels, StreamInv, ContentUnread
<1>3. \/ life' = life
      \/ \E state \in {"Complete", "Abandoned"} : life' = [life EXCEPT ![s] = Marked(@, state)]
      \/ \E reason \in {"TransportFailure", "ConnectionTimeout"} : life' = [life EXCEPT ![s] = Failed(@, reason)]
  BY DEF Probe
<1>4. /\ life' \in [Streams -> RequestLives] /\ LifeStep(s)
      /\ \A x \in Streams \ {s} : life'[x] = life[x]
  BY <1>1, <1>3, LifeMoves DEF H3Types
<1>5. left' \in [Streams -> Nat] /\ \A x \in Streams \ {s} : left'[x] = left[x]
  BY <1>1, SMT DEF Probe, H3Types
<1>6. ASSUME NEW then \in SUBSET {"stop_sending", "stop_stream"}, Respond(s, runtime_error_response, then), recv' = recv
      PROVE  H3Inv'
  <2>1. runtime_error_response \in SentBodies
    BY DEF SentBodies
  <2> QED BY <1>2, <1>4, <1>5, <1>6, <2>1, RespondKeeps
<1>7. CASE left[s] = 0 /\ recv' = [recv EXCEPT ![s] = "eof"] /\ Go(s, "admit") /\ UNCHANGED <<left, sending>>
  <2>1. /\ task'[s] = "admit" /\ recv'[s] = "eof" /\ recv' \in [Streams -> {"open", "reset", "eof", "stopped"}]
        /\ \A x \in Streams \ {s} : recv'[x] = recv[x]
    BY <1>1, <1>7 DEF Go, H3Types
  <2>2. PermitsHeld(s)' /\ "active" \notin holds'[s]
    BY <1>1, <1>2, <2>1 DEF StreamInv, PermitsHeld
  <2>3. req[s].policy = "reject" => req[s].data = 0
    BY <1>1, <1>2, <1>7 DEF StreamInv, ContentUnread
  <2>4. ContentUnread(s)'
    BY <1>2, <2>1, <2>3 DEF ContentUnread
  <2>5. RefusalStops(s)'
    BY <1>1, <1>2, <2>1 DEF StreamInv, RefusalStops
  <2>6. "admit" \in Unsent \cup {"done"}
    BY DEF Unsent
  <2> QED BY <1>1, <1>2, <1>4, <1>7, <2>1, <2>2, <2>4, <2>5, <2>6, AdvanceKeeps DEF H3Types
<1> QED BY <1>6, <1>7 DEF Probe

LEMMA BufferEndsKeeps ==
    ASSUME H3Inv, NEW s \in Streams, BufferEnds(s)
    PROVE  H3Inv'
<1>1. H3Types /\ StreamInv(s)
  BY DEF H3Inv
<1>2. /\ task[s] = "buffer" /\ task[s] \in Unsent \ {"idle", "resolving", "handshake"}
      /\ UNCHANGED <<taskless, left, recv, holds, tunnels>>
      /\ UNCHANGED <<serve, draining, quic, registry, req, bridge>> /\ req[s].policy # "reject"
  BY <1>1 DEF BufferEnds, Unsent, taskless, connection, tunnels, StreamInv, ContentUnread
<1>3. life' = life \/ life' = [life EXCEPT ![s] = Failed(@, "ConnectionTimeout")]
  BY DEF BufferEnds
<1>4. /\ life' \in [Streams -> RequestLives] /\ LifeStep(s)
      /\ \A x \in Streams \ {s} : life'[x] = life[x]
  BY <1>1, <1>3, LifeMoves DEF H3Types
<1>5. CASE Respond(s, runtime_error_response, {})
  <2>1. runtime_error_response \in SentBodies
    BY DEF SentBodies
  <2> QED BY <1>1, <1>2, <1>4, <1>5, <2>1, RespondKeeps DEF H3Types
<1>6. CASE Go(s, "admit") /\ UNCHANGED sending
  <2>1. task'[s] = "admit"
    BY <1>1, <1>6 DEF Go, H3Types
  <2>2. PermitsHeld(s)' /\ "active" \notin holds'[s]
    BY <1>1, <1>2, <2>1 DEF StreamInv, PermitsHeld
  <2>3. ContentUnread(s)' /\ RefusalStops(s)'
    BY <1>1, <1>2, <2>1 DEF StreamInv, ContentUnread, RefusalStops
  <2>4. "admit" \in Unsent \cup {"done"}
    BY DEF Unsent
  <2> QED BY <1>1, <1>2, <1>4, <1>6, <2>2, <2>3, <2>4, AdvanceKeeps DEF H3Types
<1> QED BY <1>5, <1>6 DEF BufferEnds

LEMMA AdmitKeeps ==
    ASSUME H3Inv, NEW s \in Streams, Admit(s) \/ AdmitConnect(s)
    PROVE  H3Inv'
<1>1. H3Types /\ StreamInv(s)
  BY DEF H3Inv
<1>2. /\ task[s] \in {"admit", "connect_admit"} /\ task[s] \in Unsent \ {"idle", "resolving", "handshake"}
      /\ UNCHANGED <<taskless, left, recv, tunnels>>
      /\ UNCHANGED <<serve, draining, quic, registry, req, bridge>>
  BY DEF Admit, AdmitConnect, Unsent, taskless, connection, tunnels, bodies
<1>3. life' = life \/ life' = [life EXCEPT ![s] = Marked(@, "Abandoned")]
  BY DEF Admit, AdmitConnect, Dropped
<1>4. /\ life' \in [Streams -> RequestLives] /\ LifeStep(s)
      /\ \A x \in Streams \ {s} : life'[x] = life[x]
  BY <1>1, <1>3, LifeMoves DEF H3Types
<1>5. CASE \E then \in SUBSET {"stop_sending", "stop_stream"} : Respond(s, runtime_error_response, then) /\ UNCHANGED holds
  <2>1. runtime_error_response \in SentBodies
    BY DEF SentBodies
  <2> QED BY <1>1, <1>2, <1>4, <1>5, <2>1, RespondKeeps DEF H3Types
<1>6. CASE /\ Cardinality(Using("service")) < ServicePermits /\ UNCHANGED sending
           /\ holds' = [holds EXCEPT ![s] = @ \cup {"service"}]
           /\ (task[s] = "admit" /\ Go(s, "handler")) \/ (task[s] = "connect_admit" /\ Go(s, "connect"))
  <2>1. PICK label \in {"handler", "connect"} : Go(s, label) /\ (label = "handler" => task[s] = "admit")
    BY <1>6
  <2>2. /\ task'[s] = label /\ holds'[s] = holds[s] \cup {"service"}
        /\ holds' \in [Streams -> SUBSET {"service", "tunnel", "active", "file"}]
        /\ \A x \in Streams \ {s} : holds'[x] = holds[x]
    BY <1>1, <1>6, <2>1 DEF Go, H3Types
  <2>3. PermitsHeld(s)' /\ "active" \notin holds'[s]
    BY <1>1, <1>2, <2>2 DEF StreamInv, PermitsHeld
  <2>4. ContentUnread(s)' /\ RefusalStops(s)'
    BY <1>1, <1>2, <2>1, <2>2 DEF StreamInv, ContentUnread, RefusalStops
  <2>5. label \in Unsent \cup {"done"} /\ ("tunnel" \in holds'[s] => "tunnel" \in holds[s])
    BY <2>2 DEF Unsent
  <2> QED BY <1>1, <1>2, <1>4, <1>6, <2>1, <2>2, <2>3, <2>4, <2>5, AdvanceKeeps DEF H3Types
<1> QED BY <1>5, <1>6 DEF Admit, AdmitConnect

LEMMA ServiceReturnsKeeps ==
    ASSUME H3Inv, NEW s \in Streams, ServiceReturns(s)
    PROVE  H3Inv'
<1>1. H3Types
  BY DEF H3Inv
<1>2. /\ task[s] = "handler" /\ task[s] \in Unsent \ {"idle", "resolving", "handshake"}
      /\ UNCHANGED <<taskless, left, recv, tunnels>> /\ holds' = [holds EXCEPT ![s] = @ \ {"service"}]
  BY DEF ServiceReturns, Unsent
<1>3. life' = life \/ life' = [life EXCEPT ![s] = Marked(@, "Abandoned")]
  BY DEF ServiceReturns, Dropped
<1>4. /\ life' \in [Streams -> RequestLives] /\ LifeStep(s)
      /\ \A x \in Streams \ {s} : life'[x] = life[x]
  BY <1>1, <1>3, LifeMoves DEF H3Types
<1>5. \E response \in SentBodies : Respond(s, response, {})
  BY DEF ServiceReturns, SentBodies
<1> QED BY <1>1, <1>2, <1>4, <1>5, RespondKeeps DEF H3Types

LEMMA ConnectReturnsKeeps ==
    ASSUME H3Inv, NEW s \in Streams, ConnectReturns(s)
    PROVE  H3Inv'
<1>1. H3Types /\ StreamInv(s)
  BY DEF H3Inv
<1>2. /\ task[s] = "connect" /\ task[s] \in Unsent \ {"idle", "resolving", "handshake"}
      /\ UNCHANGED <<taskless, left, recv, tunnels, life>>
      /\ UNCHANGED <<serve, draining, quic, registry, req, bridge>> /\ LifeStep(s)
  BY DEF ConnectReturns, Unsent, taskless, connection, tunnels, bodies, LifeStep
<1>3. CASE \E response \in SentBodies : Respond(s, response, {"stop_sending"}) /\ UNCHANGED holds
  BY <1>1, <1>2, <1>3, RespondKeeps DEF H3Types
<1>4. CASE /\ TunnelAdmitted /\ Go(s, "handshake") /\ UNCHANGED sending
           /\ holds' = [holds EXCEPT ![s] = @ \cup {"tunnel"}]
  <2>1. /\ task'[s] = "handshake" /\ holds'[s] = holds[s] \cup {"tunnel"}
        /\ holds' \in [Streams -> SUBSET {"service", "tunnel", "active", "file"}]
        /\ \A x \in Streams \ {s} : holds'[x] = holds[x]
    BY <1>1, <1>4 DEF Go, H3Types
  <2>2. PermitsHeld(s)' /\ "active" \notin holds'[s]
    BY <1>1, <1>2, <2>1 DEF StreamInv, PermitsHeld
  <2>3. ContentUnread(s)' /\ RefusalStops(s)'
    BY <1>1, <1>2, <2>1 DEF StreamInv, ContentUnread, RefusalStops
  <2>4. /\ "handshake" \in Unsent \cup {"done"} /\ ("service" \in holds'[s] => "service" \in holds[s])
        /\ Cardinality(Using("tunnel")) < TunnelPermits
    BY <1>4, <2>1 DEF Unsent, TunnelAdmitted
  <2> QED BY <1>1, <1>2, <1>4, <2>1, <2>2, <2>3, <2>4, AdvanceKeeps DEF H3Types
<1> QED BY <1>3, <1>4 DEF ConnectReturns, SentBodies

LEMMA SendKeeps ==
    ASSUME H3Inv, NEW s \in Streams, SendHead(s) \/ SendChunk(s)
    PROVE  H3Inv'
<1>1. H3Types /\ StreamInv(s)
  BY DEF H3Inv
<1>2. /\ task[s] = "sending" /\ send'[s] \in {"idle", "head"}
      /\ send' \in [Streams -> {"idle", "head", "reset", "finished"}] /\ \A x \in Streams \ {s} : send'[x] = send[x]
      /\ UNCHANGED <<taskless, task, life, left, recv, out, after, bridge, active_tunnels>>
      /\ UNCHANGED <<serve, draining, quic, registry, req>>
  BY <1>1 DEF SendHead, SendChunk, H3Types, bodies, tunnels, taskless, connection
<1>3. /\ holds' \in [Streams -> SUBSET {"service", "tunnel", "active", "file"}]
      /\ holds'[s] \ {"file"} = holds[s] \ {"file"} /\ \A x \in Streams \ {s} : holds'[x] = holds[x]
  <2>1. holds' = holds \/ holds' = [holds EXCEPT ![s] = @ \cup {"file"}]
    BY <1>1 DEF SendHead, SendChunk, H3Types
  <2> QED BY <1>1, <2>1, SMT DEF H3Types
<1>4. H3Types'
  BY <1>1, <1>2, <1>3 DEF H3Types
<1>5. Others(s) /\ LifeStep(s)
  BY <1>2, <1>3 DEF Others, LifeStep
<1>6. \A p \in {"service", "tunnel", "active"} : p \in holds'[s] <=> p \in holds[s]
  BY <1>3
<1>7. PermitStep(s)
  BY <1>2, <1>6 DEF PermitStep
<1>8. PermitsHeld(s)' /\ SendOrder(s)'
  BY <1>1, <1>2, <1>6 DEF StreamInv, PermitsHeld, SendOrder
<1>9. ContentUnread(s)' /\ RefusalStops(s)'
  BY <1>1, <1>2 DEF StreamInv, ContentUnread, RefusalStops
<1> QED BY <1>2, <1>4, <1>5, <1>7, <1>8, <1>9, H3StreamStep

\* The task is over: everything it held is given back.
LEMMA TaskEnds ==
    ASSUME H3Inv, NEW s \in Streams, NEW label \in {"done", "aborted"}, Go(s, label),
           holds' = [holds EXCEPT ![s] = {}], UNCHANGED <<taskless, left, bridge>>,
           life' \in [Streams -> RequestLives], \A x \in Streams \ {s} : life'[x] = life[x], LifeStep(s),
           recv' \in [Streams -> {"open", "reset", "eof", "stopped"}], \A x \in Streams \ {s} : recv'[x] = recv[x],
           send' \in [Streams -> {"idle", "head", "reset", "finished"}], \A x \in Streams \ {s} : send'[x] = send[x],
           out' = out \/ out' = [out EXCEPT ![s] = NoOutput],
           after' = after \/ after' = [after EXCEPT ![s] = {}],
           active_tunnels' = IF "active" \in holds[s] THEN active_tunnels - 1 ELSE active_tunnels,
           task[s] = "sending" /\ label = "done" /\ "stop_sending" \in after[s] => recv'[s] # "open",
           label = "done" => task[s] \in {"sending", "handshake", "closing"}
    PROVE  H3Inv'
<1>1. H3Types /\ StreamInv(s)
  BY DEF H3Inv
<1>2. UNCHANGED <<serve, draining, quic, registry, req>>
  BY DEF taskless, connection
<1>3. task' \in [Streams -> H3Labels] /\ task'[s] = label /\ \A x \in Streams \ {s} : task'[x] = task[x]
  BY <1>1 DEF Go, H3Types, H3Labels
<1>4. /\ holds' \in [Streams -> SUBSET {"service", "tunnel", "active", "file"}] /\ holds'[s] = {}
      /\ \A x \in Streams \ {s} : holds'[x] = holds[x]
  BY <1>1 DEF H3Types
<1>5. /\ out' \in [Streams -> SentBodies \cup {NoOutput}] /\ \A x \in Streams \ {s} : out'[x] = out[x]
      /\ after' \in [Streams -> SUBSET {"stop_sending", "stop_stream"}] /\ \A x \in Streams \ {s} : after'[x] = after[x]
  BY <1>1 DEF H3Types
<1>6. H3Types'
  BY <1>1, <1>2, <1>3, <1>4, <1>5 DEF H3Types
<1>7. Others(s)
  BY <1>3, <1>4, <1>5 DEF Others
<1>8. PermitStep(s)
  BY <1>4 DEF PermitStep
<1>9. PermitsHeld(s)' /\ SendOrder(s)'
  BY <1>3, <1>4 DEF PermitsHeld, SendOrder
<1>10. ContentUnread(s)'
  BY <1>1, <1>2, <1>3 DEF StreamInv, ContentUnread
<1>11. RefusalStops(s)'
  BY <1>1, <1>2, <1>3 DEF StreamInv, RefusalStops
<1> QED BY <1>2, <1>6, <1>7, <1>8, <1>9, <1>10, <1>11, H3StreamStep

LEMMA SendEndsKeeps ==
    ASSUME H3Inv, NEW s \in Streams, SendFinish(s) \/ SendBreaks(s)
    PROVE  H3Inv'
<1>1. H3Types /\ StreamInv(s)
  BY DEF H3Inv
<1>2. task[s] = "sending" /\ EndTask(s) /\ UNCHANGED <<taskless, left, bridge, active_tunnels>>
  BY DEF SendFinish, SendBreaks, SendFails, tunnels
<1>3. life' = life \/ life' = [life EXCEPT ![s] = Cancelled(@, "TransportFailure")]
  BY DEF SendFinish, SendBreaks, SendFails
<1>4. /\ life' \in [Streams -> RequestLives] /\ LifeStep(s)
      /\ \A x \in Streams \ {s} : life'[x] = life[x]
  BY <1>1, <1>3, LifeMoves DEF H3Types
<1>5. send' = [send EXCEPT ![s] = "reset"] \/ send' = [send EXCEPT ![s] = "finished"]
  BY DEF SendFinish, SendBreaks, SendFails
<1>6. send' \in [Streams -> {"idle", "head", "reset", "finished"}] /\ \A x \in Streams \ {s} : send'[x] = send[x]
  BY <1>1, <1>5 DEF H3Types
<1>7. /\ recv' \in [Streams -> {"open", "reset", "eof", "stopped"}] /\ \A x \in Streams \ {s} : recv'[x] = recv[x]
      /\ "stop_sending" \in after[s] => recv'[s] # "open"
  BY <1>1, <1>2 DEF EndTask, H3Types
<1>8. /\ Go(s, "done") /\ holds' = [holds EXCEPT ![s] = {}]
      /\ out' = [out EXCEPT ![s] = NoOutput] /\ after' = [after EXCEPT ![s] = {}]
  BY <1>2 DEF EndTask
<1>9. "active" \notin holds[s]
  BY <1>1, <1>2 DEF StreamInv, PermitsHeld
<1> QED BY <1>2, <1>4, <1>6, <1>7, <1>8, <1>9, TaskEnds

LEMMA HandshakeFailsKeeps ==
    ASSUME H3Inv, NEW s \in Streams, HandshakeFails(s)
    PROVE  H3Inv'
<1>1. H3Types /\ StreamInv(s)
  BY DEF H3Inv
<1>2. /\ task[s] = "handshake" /\ Go(s, "done") /\ holds' = [holds EXCEPT ![s] = {}]
      /\ UNCHANGED <<taskless, left, bridge, active_tunnels, out, after>>
  BY DEF HandshakeFails, tunnels
<1>3. life' = [life EXCEPT ![s] = Cancelled(@, "TransportFailure")]
  BY DEF HandshakeFails
<1>4. /\ life' \in [Streams -> RequestLives] /\ LifeStep(s)
      /\ \A x \in Streams \ {s} : life'[x] = life[x]
  BY <1>1, <1>3, LifeMoves DEF H3Types
<1>5. send' \in [Streams -> {"idle", "head", "reset", "finished"}] /\ \A x \in Streams \ {s} : send'[x] = send[x]
  BY <1>1 DEF HandshakeFails, H3Types
<1>6. recv' \in [Streams -> {"open", "reset", "eof", "stopped"}] /\ \A x \in Streams \ {s} : recv'[x] = recv[x]
  BY <1>1 DEF HandshakeFails, H3Types
<1>7. "active" \notin holds[s]
  BY <1>1, <1>2 DEF StreamInv, PermitsHeld
<1> QED BY <1>2, <1>4, <1>5, <1>6, <1>7, TaskEnds

LEMMA TunnelClosedKeeps ==
    ASSUME H3Inv, NEW s \in Streams, TunnelClosed(s)
    PROVE  H3Inv'
<1>1. H3Types /\ StreamInv(s)
  BY DEF H3Inv
<1>2. /\ task[s] = "closing" /\ Go(s, "done") /\ holds' = [holds EXCEPT ![s] = {}]
      /\ UNCHANGED <<taskless, left, bridge, life, out, after>> /\ active_tunnels' = active_tunnels - 1
  BY DEF TunnelClosed
<1>3. send' \in [Streams -> {"idle", "head", "reset", "finished"}] /\ \A x \in Streams \ {s} : send'[x] = send[x]
  BY <1>1 DEF TunnelClosed, H3Types
<1>4. recv' \in [Streams -> {"open", "reset", "eof", "stopped"}] /\ \A x \in Streams \ {s} : recv'[x] = recv[x]
  BY <1>1 DEF TunnelClosed, H3Types
<1>5. "active" \in holds[s] /\ LifeStep(s)
  BY <1>1, <1>2 DEF StreamInv, PermitsHeld, LifeStep
<1> QED BY <1>1, <1>2, <1>3, <1>4, <1>5, TaskEnds DEF H3Types

LEMMA TaskAbortedKeeps ==
    ASSUME H3Inv, NEW s \in Streams, TaskAborted(s)
    PROVE  H3Inv'
<1>1. H3Types
  BY DEF H3Inv
<1>2. /\ Go(s, "aborted") /\ holds' = [holds EXCEPT ![s] = {}]
      /\ UNCHANGED <<taskless, left, recv, bridge, send, out, after>>
      /\ active_tunnels' = IF "active" \in holds[s] THEN active_tunnels - 1 ELSE active_tunnels
  BY DEF TaskAborted, sending
<1>3. life' = life \/ life' = [life EXCEPT ![s] = Marked(@, "Abandoned")]
  BY <1>1 DEF TaskAborted, Dropped, H3Types
<1>4. /\ life' \in [Streams -> RequestLives] /\ LifeStep(s)
      /\ \A x \in Streams \ {s} : life'[x] = life[x]
  BY <1>1, <1>3, LifeMoves DEF H3Types
<1> QED BY <1>1, <1>2, <1>4, TaskEnds DEF H3Types

LEMMA TunnelRunsKeeps ==
    ASSUME H3Inv, NEW s \in Streams, HandshakeSent(s) \/ TunnelJoined(s)
    PROVE  H3Inv'
<1>1. H3Types /\ StreamInv(s)
  BY DEF H3Inv
<1>2. /\ UNCHANGED <<life, left, recv, out, after>> /\ UNCHANGED <<serve, draining, quic, registry, req>>
  BY DEF HandshakeSent, TunnelJoined, taskless, connection, bodies, sending
<1>3. PICK label \in {"tunnel", "closing"} :
          /\ Go(s, label)
          /\ \/ task[s] = "handshake" /\ active_tunnels' = active_tunnels + 1
                /\ send' = [send EXCEPT ![s] = "head"] /\ holds' = [holds EXCEPT ![s] = @ \cup {"active"}]
                /\ bridge' = [bridge EXCEPT ![s] = [up |-> "run", down |-> "run", handler |-> "run", eof |-> FALSE]]
             \/ task[s] = "tunnel" /\ bridge[s].up = "ended" /\ Bridge(s, "handler", "ended")
                /\ UNCHANGED <<send, holds, active_tunnels>>
  BY DEF HandshakeSent, TunnelJoined, sending
<1>4. task' \in [Streams -> H3Labels] /\ task'[s] = label /\ \A x \in Streams \ {s} : task'[x] = task[x]
  BY <1>1, <1>3 DEF Go, H3Types, H3Labels, Running
<1>5. send' \in [Streams -> {"idle", "head", "reset", "finished"}] /\ \A x \in Streams \ {s} : send'[x] = send[x]
  BY <1>1, <1>3 DEF H3Types
<1>6. /\ holds' \in [Streams -> SUBSET {"service", "tunnel", "active", "file"}] /\ holds'[s] = holds[s] \cup {"active"}
      /\ \A x \in Streams \ {s} : holds'[x] = holds[x]
  <2>1. holds \in [Streams -> SUBSET {"service", "tunnel", "active", "file"}]
    BY <1>1 DEF H3Types
  <2>2. task[s] = "tunnel" => "active" \in holds[s]
    BY <1>1 DEF StreamInv, PermitsHeld
  <2>3. holds' = [holds EXCEPT ![s] = @ \cup {"active"}] \/ (task[s] = "tunnel" /\ holds' = holds)
    BY <1>3
  <2> QED BY <2>1, <2>2, <2>3
<1>7. bridge' \in [Streams -> Bridges] /\ bridge'[s].up # "none" /\ \A x \in Streams \ {s} : bridge'[x] = bridge[x]
  <2>1. CASE bridge' = [bridge EXCEPT ![s] = [up |-> "run", down |-> "run", handler |-> "run", eof |-> FALSE]]
    BY <1>1, <2>1 DEF H3Types, Bridges, CopyStates
  <2>2. CASE bridge[s].up = "ended" /\ Bridge(s, "handler", "ended")
    BY <1>1, <2>2, BridgeMoves DEF H3Types
  <2> QED BY <1>3, <2>1, <2>2
<1>8. H3Types'
  BY <1>1, <1>2, <1>4, <1>5, <1>6, <1>7 DEF H3Types
<1>9. Others(s) /\ LifeStep(s)
  BY <1>2, <1>4, <1>5, <1>6, <1>7 DEF Others, LifeStep
<1>10. PermitStep(s)
  BY <1>1, <1>3, <1>6 DEF PermitStep, StreamInv, PermitsHeld
<1>11. PermitsHeld(s)' /\ SendOrder(s)'
  BY <1>1, <1>3, <1>4, <1>6 DEF StreamInv, PermitsHeld, SendOrder
<1>12. ContentUnread(s)' /\ RefusalStops(s)'
  BY <1>1, <1>2, <1>3, <1>4, <1>7 DEF StreamInv, ContentUnread, RefusalStops
<1> QED BY <1>2, <1>8, <1>9, <1>10, <1>11, <1>12, H3StreamStep

-----------------------------------------------------------------------------
\* serve_connection and the end of the QUIC connection.
LEMMA ServeChanges ==
    ASSUME H3Inv, UNCHANGED <<registry, req, task, left, recv, sending, holds, tunnels>>,
           life' \in [Streams -> RequestLives], \A s \in Streams : ReasonIsTrue(s)'
    PROVE  H3Inv'
<1>1. UNCHANGED <<send, out, after, active_tunnels, bridge>>
  BY DEF sending, tunnels
<1>2. H3Types'
  BY <1>1 DEF H3Inv, H3Types
<1>3. PermitsBounded'
  <2>1. \A p : Using(p)' = Using(p)
    BY DEF Using
  <2> QED BY <1>1, <2>1 DEF H3Inv, PermitsBounded
<1>4. ASSUME NEW s \in Streams PROVE StreamInv(s)'
  <2>1. PermitsHeld(s)' /\ SendOrder(s)' /\ ContentUnread(s)'
    BY <1>1 DEF H3Inv, StreamInv, PermitsHeld, SendOrder, ContentUnread
  <2>2. RefusalStops(s)'
    BY <1>1 DEF H3Inv, StreamInv, RefusalStops
  <2> QED BY <2>1, <2>2 DEF StreamInv
<1> QED BY <1>2, <1>3, <1>4 DEF H3Inv

LEMMA CloseReasons ==
    ASSUME NEW closed
    PROVE  LET reason == h3_connection_close_reason(closed)
           IN /\ reason \in H3Reasons
              /\ reason = "PeerDisconnected" => closed = "peer"
              /\ reason = "ConnectionTimeout" => closed = "timed_out"
  BY DEF h3_connection_close_reason, H3Reasons

LEMMA CancelAllReaches ==
    ASSUME H3Types, NEW reason \in H3Reasons, cancel_all(reason)
    PROVE  /\ life' \in [Streams -> RequestLives]
           /\ \A s \in Streams : life'[s].body = life[s].body /\ life'[s].reason \in {life[s].reason, reason}
<1>1. \A s \in Streams : /\ life[s] \in RequestLives /\ Cancelled(life[s], reason) \in RequestLives
                          /\ Cancelled(life[s], reason).body = life[s].body
                          /\ Cancelled(life[s], reason).reason \in {life[s].reason, reason}
  BY SMT DEF H3Types, Cancelled, RequestLives
<1> QED BY <1>1 DEF cancel_all

LEMMA ServeKeeps ==
    ASSUME H3Inv, QuicCloses \/ ServeStep
    PROVE  H3Inv'
<1>1. H3Types /\ \A s \in Streams : ReasonIsTrue(s)
  BY DEF H3Inv, StreamInv
<1>2. UNCHANGED <<registry, req, task, left, recv, sending, holds, tunnels>>
  BY DEF QuicCloses, ServeStep, BeginDrain, AcceptEnds, AcceptFails, ConnectionClosed, Deadline, AbortAll, Joined,
     bodies
<1>3. (draining => draining') /\ (serve # "loop" => serve' # "loop") /\ (quic # "open" => quic' = quic)
  <2>1. draining' = draining \/ draining' = TRUE
    BY DEF QuicCloses, ServeStep, BeginDrain, AcceptEnds, AcceptFails, ConnectionClosed, Deadline, AbortAll, Joined
  <2>2. serve' = serve \/ serve' \in {"join", "aborting", "returned"}
    BY DEF QuicCloses, ServeStep, BeginDrain, AcceptEnds, AcceptFails, ConnectionClosed, Deadline, AbortAll, Joined
  <2>3. quic' = quic \/ quic = "open"
    BY DEF QuicCloses, ServeStep, BeginDrain, AcceptEnds, AcceptFails, ConnectionClosed, Deadline, AbortAll, Joined
  <2> QED BY <2>1, <2>2, <2>3, SMT
<1>4. CASE life' = life
  BY <1>1, <1>2, <1>3, <1>4, ServeChanges DEF ReasonIsTrue, H3Types
<1>5. ASSUME NEW reason \in H3Reasons, cancel_all(reason), serve' # "loop",
             reason = "PeerDisconnected" => quic = "peer", reason = "ConnectionTimeout" => quic = "timed_out"
      PROVE  H3Inv'
  <2>1. /\ life' \in [Streams -> RequestLives]
        /\ \A s \in Streams : life'[s].body = life[s].body /\ life'[s].reason \in {life[s].reason, reason}
    BY <1>1, <1>5, CancelAllReaches
  <2>2. \A s \in Streams : ReasonIsTrue(s)'
    BY <1>1, <1>3, <1>5, <2>1 DEF ReasonIsTrue
  <2> QED BY <1>2, <2>1, <2>2, ServeChanges
<1>6. CASE AcceptFails
  <2> DEFINE closed == IF quic = "open" THEN "local" ELSE quic
  <2>1. /\ h3_connection_close_reason(closed) \in H3Reasons
        /\ h3_connection_close_reason(closed) = "PeerDisconnected" => quic = "peer"
        /\ h3_connection_close_reason(closed) = "ConnectionTimeout" => quic = "timed_out"
    BY CloseReasons
  <2>2. cancel_all(h3_connection_close_reason(closed)) /\ serve' # "loop"
    BY <1>6 DEF AcceptFails
  <2> QED BY <1>5, <2>1, <2>2
<1>7. CASE ConnectionClosed
  <2>1. cancel_all(h3_connection_close_reason(quic)) /\ serve' # "loop"
    BY <1>7 DEF ConnectionClosed
  <2> QED BY <1>5, <2>1, CloseReasons
<1>8. CASE Deadline
  <2>1. cancel_all("ServerShutdown") /\ serve' # "loop" /\ "ServerShutdown" \in H3Reasons
    BY <1>8 DEF Deadline, H3Reasons
  <2> QED BY <1>5, <2>1
<1>9. CASE QuicCloses \/ BeginDrain \/ AcceptEnds \/ AbortAll \/ Joined
  BY <1>4, <1>9 DEF QuicCloses, BeginDrain, AcceptEnds, AbortAll, Joined
<1> QED BY <1>6, <1>7, <1>8, <1>9 DEF ServeStep

LEMMA H3NextKeeps == H3Inv /\ [H3Next]_h3Vars => H3Inv'
<1> SUFFICES ASSUME H3Inv, [H3Next]_h3Vars PROVE H3Inv'
  OBVIOUS
<1>1. CASE QuicCloses \/ ServeStep
  BY <1>1, ServeKeeps
<1>2. ASSUME NEW s \in Streams, TaskStep(s) PROVE H3Inv'
  BY <1>2, AcceptKeeps, StartKeeps, ProbeKeeps, BufferEndsKeeps, AdmitKeeps, ServiceReturnsKeeps, SendKeeps,
     SendEndsKeeps, ConnectReturnsKeeps, TunnelRunsKeeps, HandshakeFailsKeeps, TunnelClosedKeeps,
     TaskAbortedKeeps DEF TaskStep
<1>3. ASSUME NEW s \in Streams, OtherStep(s) \/ TunnelUp(s) \/ TunnelDown(s) PROVE H3Inv'
  BY <1>3, AcceptKeeps, PeerResetsKeeps, ReadBodyKeeps, WatchersKeep, TunnelSidesKeep, TunnelUpKeeps DEF OtherStep
<1>4. CASE UNCHANGED h3Vars
  <2>1. UNCHANGED <<registry, req, task, left, recv, sending, holds, tunnels, life, quic, draining, serve>>
    BY <1>4 DEF h3Vars, connection, bodies
  <2> QED BY <2>1, ServeChanges DEF H3Inv, H3Types, StreamInv, ReasonIsTrue
<1> QED BY <1>1, <1>2, <1>3, <1>4 DEF H3Next

\* A task that works holds the permits for it.
LEMMA WorkHoldsPermits == H3Inv => WorkIsAdmitted
<1> SUFFICES ASSUME H3Inv PROVE WorkIsAdmitted
  OBVIOUS
<1> DEFINE t == {s \in Streams : task[s] \in {"tunnel", "closing"}}
           w == {s \in Streams : task[s] \in {"handler", "connect"}} \cup t
<1>1. t = Using("active") /\ t \subseteq Using("tunnel") /\ w \subseteq Using("service")
  BY DEF H3Inv, StreamInv, PermitsHeld, Using
<1>2. \A p : IsFiniteSet(Using(p)) /\ Cardinality(Using(p)) \in Nat
  BY H3Assumption, FS_Subset, FS_CardinalityType DEF Using
<1>3. IsFiniteSet(t) /\ IsFiniteSet(w) /\ Cardinality(t) \in Nat /\ Cardinality(w) \in Nat
  BY <1>1, <1>2, FS_Subset, FS_CardinalityType
<1>4. Cardinality(t) <= Cardinality(Using("tunnel")) /\ Cardinality(w) <= Cardinality(Using("service"))
  BY <1>1, <1>2, FS_Subset
<1> HIDE DEF t, w
<1>5. Cardinality(w) <= ServicePermits /\ Cardinality(t) <= TunnelPermits /\ active_tunnels = Cardinality(t)
  <2>1. /\ Cardinality(Using("service")) <= ServicePermits /\ Cardinality(Using("tunnel")) <= TunnelPermits
        /\ active_tunnels = Cardinality(Using("active")) /\ ServicePermits \in Nat /\ TunnelPermits \in Nat
    BY H3Assumption DEF H3Inv, PermitsBounded
  <2>2. Cardinality(Using("service")) \in Nat /\ Cardinality(Using("tunnel")) \in Nat
    BY <1>2
  <2>3. active_tunnels = Cardinality(t)
    BY <1>1, <2>1
  <2> QED BY <1>3, <1>4, <2>1, <2>2, <2>3, SMT
<1> QED BY <1>5 DEF WorkIsAdmitted, t, w

\* A step of one stream is a step of no other.
LEMMA StreamsApart ==
    ASSUME H3Types, NEW s \in Streams, TaskStep(s) \/ OtherStep(s) \/ TunnelUp(s) \/ TunnelDown(s),
           NEW y \in Streams \ {s}
    PROVE  life'[y] = life[y] /\ task'[y] = task[y] /\ recv'[y] = recv[y] /\ send'[y] = send[y]
<1> USE DEF H3Types, Go, taskless, bridgeless, bodies, sending
<1>1. CASE Resolve(s) \/ StartRequest(s) \/ AcceptStream(s)
  BY <1>1, SMT DEF Resolve, StartRequest, AcceptStream, Respond
<1>2. CASE Probe(s) \/ BufferEnds(s)
  BY <1>2 DEF Probe, BufferEnds, Respond
<1>3. CASE Admit(s) \/ ServiceReturns(s) \/ AdmitConnect(s) \/ ConnectReturns(s)
  BY <1>3, SMT DEF Admit, ServiceReturns, AdmitConnect, ConnectReturns, Respond
<1>4. CASE SendHead(s) \/ SendChunk(s) \/ SendFinish(s) \/ SendBreaks(s)
  BY <1>4 DEF SendHead, SendChunk, SendFinish, SendBreaks, SendFails, EndTask
<1>5. CASE HandshakeSent(s) \/ HandshakeFails(s) \/ TunnelJoined(s) \/ TunnelClosed(s) \/ TaskAborted(s)
  BY <1>5 DEF HandshakeSent, HandshakeFails, TunnelJoined, TunnelClosed, TaskAborted
<1>6. CASE PeerResets(s) \/ ReadBody(s) \/ BodyTimeout(s) \/ WatchdogEnds(s) \/ BodyOwnerDrops(s)
  BY <1>6 DEF PeerResets, ReadBody, BodyTimeout, WatchdogEnds, BodyOwnerDrops
<1>7. CASE TunnelDownFails(s) \/ HandlerReturns(s) \/ TunnelUp(s) \/ TunnelDown(s)
  BY <1>7 DEF TunnelDownFails, HandlerReturns, TunnelUp, TunnelDown
<1> QED BY <1>1, <1>2, <1>3, <1>4, <1>5, <1>6, <1>7 DEF TaskStep, OtherStep

LEMMA FailureStep ==
    ASSUME H3Inv, [H3Next]_h3Vars, serve' = serve, NEW x \in Streams, life'[x].reason # life[x].reason,
           NEW y \in Streams \ {x}
    PROVE  life'[y] = life[y] /\ task'[y] = task[y] /\ recv'[y] = recv[y] /\ send'[y] = send[y]
<1>1. life' # life
  OBVIOUS
<1>2. ~QuicCloses /\ ~ServeStep /\ ~UNCHANGED h3Vars
  BY <1>1 DEF QuicCloses, ServeStep, BeginDrain, AcceptEnds, AcceptFails, ConnectionClosed, Deadline, AbortAll,
     Joined, h3Vars
<1>3. PICK s \in Streams : TaskStep(s) \/ OtherStep(s) \/ TunnelUp(s) \/ TunnelDown(s)
  BY <1>2 DEF H3Next
<1>4. s = x
  BY <1>3, StreamsApart DEF H3Inv
<1> QED BY <1>3, <1>4, StreamsApart DEF H3Inv

\* Only SendFinish finishes a response, and it has compared the lengths.
LEMMA FinishStep ==
    ASSUME H3Inv, [H3Next]_h3Vars, NEW x \in Streams, task[x] = "sending", send'[x] = "finished",
           out[x].declared > 0
    PROVE  emitted[x] = out[x].declared
<1>1. send[x] \in {"idle", "head"} /\ out[x] \in SentBodies /\ H3Types
  BY DEF H3Inv, StreamInv, SendOrder
<1>2. send'[x] # send[x]
  BY <1>1
<1>3. ~QuicCloses /\ ~ServeStep /\ ~UNCHANGED h3Vars
  BY <1>2 DEF QuicCloses, ServeStep, BeginDrain, AcceptEnds, AcceptFails, ConnectionClosed, Deadline, AbortAll,
     Joined, h3Vars, sending
<1>4. PICK s \in Streams : TaskStep(s) \/ OtherStep(s) \/ TunnelUp(s) \/ TunnelDown(s)
  BY <1>3 DEF H3Next
<1>5. s = x
  BY <1>1, <1>2, <1>4, StreamsApart
<1>6. ~(OtherStep(x) \/ TunnelUp(x) \/ TunnelDown(x))
  BY <1>2 DEF OtherStep, AcceptStream, PeerResets, ReadBody, BodyTimeout, WatchdogEnds, BodyOwnerDrops,
     TunnelDownFails, HandlerReturns, TunnelUp, TunnelDown, bridgeless, sending
<1>7. ~(SendHead(x) \/ SendChunk(x) \/ SendBreaks(x) \/ TaskAborted(x))
  BY <1>1, <1>2 DEF H3Types, SendHead, SendChunk, SendBreaks, SendFails, TaskAborted, sending
<1>8. SendFinish(x)
  BY <1>4, <1>5, <1>6, <1>7 DEF TaskStep, Resolve, StartRequest, Probe, BufferEnds, Admit, ServiceReturns, AdmitConnect,
     ConnectReturns, HandshakeSent, HandshakeFails, TunnelJoined, TunnelClosed
<1>9. emitted[x] = out[x].len /\ (out[x].body = "stream" => emitted[x] = out[x].declared)
  BY <1>8 DEF SendFinish, LengthKept
<1>10. out[x].body # "stream" => out[x].declared = out[x].len
  <2>1. runtime_error_response.declared = runtime_error_response.len
    BY DEF runtime_error_response
  <2> QED BY <1>1, <2>1, H3Assumption DEF SentBodies
<1> QED BY <1>9, <1>10

\* For any finite set of streams, any permits and any requests and responses of an
\* HTTP/3 connection: services and tunnels run only under their permits and the
\* gauge is exact; a rejecting service sees no content and a refused request stops
\* its receive side; what a request is told is true; tunnel data sent early is
\* kept; a finished response carries what its head announced; and while the
\* connection is served the failure of a stream changes none of its siblings.
THEOREM H3StreamsAreIndependent == H3Spec => H3StreamsStandAlone
<1>1. H3Inv => WorkIsAdmitted /\ RejectSeesNoContent /\ RefusalStopsReceive
  BY WorkHoldsPermits DEF H3Inv, StreamInv, ContentUnread, RefusalStops, RejectSeesNoContent, RefusalStopsReceive
<1>2. H3Inv => ReasonsAreTrue /\ EarlyTunnelDataKept
  BY DEF H3Inv, StreamInv, ReasonIsTrue, ReasonsAreTrue, ContentUnread, EarlyTunnelDataKept
<1>3. H3Inv /\ [H3Next]_h3Vars =>
        [\A s \in Streams :
            task[s] = "sending" /\ send'[s] = "finished" /\ out[s].declared > 0
                => emitted[s] = out[s].declared]_h3Vars
  BY FinishStep
<1>4. H3Inv /\ [H3Next]_h3Vars =>
        [serve' = serve =>
            \A s \in Streams : life'[s].reason # life[s].reason =>
                \A t \in Streams \ {s} :
                    /\ life'[t] = life[t] /\ task'[t] = task[t]
                    /\ recv'[t] = recv[t] /\ send'[t] = send[t]]_h3Vars
  BY FailureStep
<1> QED BY <1>1, <1>2, <1>3, <1>4, H3InitHolds, H3NextKeeps, PTL DEF H3Spec, H3StreamsStandAlone, FinishedIsWhole,
        StreamFailureIsLocal
==============================================================================
