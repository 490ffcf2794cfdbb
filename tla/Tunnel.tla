-------------------------------- MODULE Tunnel --------------------------------
(***************************************************************************)
(* HTTP/1 tunnels of eggserve-server: the one-shot TunnelCapability that a *)
(* service may move to a thread of its own, the pipeline that commits the  *)
(* response and takes a staged acceptance, the server-wide tunnel budget,  *)
(* the tracked run_tunnel task with the handler task it spawns, and the    *)
(* connection driver that drains the tunnels.  Each connection carries one *)
(* request that asks for a tunnel.                                         *)
(***************************************************************************)
EXTENDS Naturals, FiniteSets

CONSTANTS Conns,             \* connections
          MaxActiveTunnels   \* config.max_active_tunnels

ASSUME TunnelAssumption == IsFiniteSet(Conns) /\ MaxActiveTunnels \in Nat \ {0}

VARIABLES committed,   \* TunnelShared::committed
          claimed,     \* TunnelShared::accepted
          staged,      \* the sidecar holds an acceptance
          holder,      \* the thread that holds the capability
          pipe,        \* where invoke_service is
          result,      \* what the service call gave
          response,    \* what the pipeline answered
          tunnel,      \* the run_tunnel task
          handler,     \* the handler task that it spawns
          upgrade,     \* the OnUpgrade future
          cancel,   \* the request lifecycle is cancelled
          shutting,    \* the connection's shutdown token
          driving,      \* where drive_connection is
          permits      \* available permits of the tunnel semaphore

shared == <<committed, claimed, staged, holder>>
answer == <<pipe, result, response>>
tasks == <<tunnel, handler, permits>>
tunnelVars == <<shared, answer, tasks, upgrade, cancel, shutting, driving>>

TunnelTypeOK ==
    /\ committed \in [Conns -> BOOLEAN] /\ claimed \in [Conns -> BOOLEAN]
    /\ staged \in [Conns -> BOOLEAN] /\ cancel \in [Conns -> BOOLEAN]
    /\ shutting \in [Conns -> BOOLEAN]
    /\ holder \in [Conns -> {"held", "checked", "claimed", "accepted", "refused", "dropped"}]
    /\ pipe \in [Conns -> {"admit", "calling", "commit", "take", "done"}]
    /\ result \in [Conns -> {"none", "handshake", "ordinary", "error"}]
    /\ response \in [Conns -> {"none", "handoff", "normalized", "saturated", "error"}]
    /\ tunnel \in [Conns -> {"none", "upgrading", "bridging", "closing", "ended", "aborted"}]
    /\ handler \in [Conns -> {"none", "running", "aborting", "ended"}]
    /\ upgrade \in [Conns -> {"pending", "ok", "failed"}]
    /\ driving \in [Conns -> {"serving", "waiting", "closing_now", "closing_drain",
                             "abort", "draining", "reaping", "ended"}]
    /\ permits \in 0 .. MaxActiveTunnels

TunnelInit ==
    /\ committed = [k \in Conns |-> FALSE] /\ claimed = [k \in Conns |-> FALSE]
    /\ staged = [k \in Conns |-> FALSE] /\ cancel = [k \in Conns |-> FALSE]
    /\ shutting = [k \in Conns |-> FALSE]
    /\ holder = [k \in Conns |-> "held"]
    /\ pipe = [k \in Conns |-> "admit"]
    /\ result = [k \in Conns |-> "none"] /\ response = [k \in Conns |-> "none"]
    /\ tunnel = [k \in Conns |-> "none"] /\ handler = [k \in Conns |-> "none"]
    /\ upgrade = [k \in Conns |-> "pending"]
    /\ driving = [k \in Conns |-> "serving"]
    /\ permits = MaxActiveTunnels

\* Tasks in the connection's JoinSet that have not finished.
LiveTunnels == {k \in Conns : tunnel[k] \in {"upgrading", "bridging", "closing"}}

\* drive_connection still polls the Hyper connection, and so invoke_service.
TunnelPolled(k) == driving[k] \in {"serving", "closing_now", "closing_drain"}

-----------------------------------------------------------------------------
(* The capability, in the service's hands.                                 *)

\* accept() looks at the commitment ...
AcceptCheck(k) ==
    /\ holder[k] = "held" /\ pipe[k] \notin {"admit"}
    /\ holder' = [holder EXCEPT ![k] = IF committed[k] THEN "refused" ELSE "checked"]
    /\ UNCHANGED <<committed, claimed, staged, answer, tasks, upgrade, cancel, shutting, driving>>

\* ... builds the handshake, which may fail on the header limits, and claims the
\* one-shot state ...
AcceptClaim(k) ==
    /\ holder[k] = "checked"
    /\ \/ holder' = [holder EXCEPT ![k] = "refused"] /\ UNCHANGED claimed
       \/ /\ ~claimed[k]
          /\ claimed' = [claimed EXCEPT ![k] = TRUE]
          /\ holder' = [holder EXCEPT ![k] = "claimed"]
    /\ UNCHANGED <<committed, staged, answer, tasks, upgrade, cancel, shutting, driving>>

\* ... stages the acceptance and returns the handshake response.
AcceptStage(k) ==
    /\ holder[k] = "claimed"
    /\ staged' = [staged EXCEPT ![k] = TRUE]
    /\ holder' = [holder EXCEPT ![k] = "accepted"]
    /\ UNCHANGED <<committed, claimed, answer, tasks, upgrade, cancel, shutting, driving>>

\* The service declines.
DropCapability(k) ==
    /\ holder[k] = "held"
    /\ holder' = [holder EXCEPT ![k] = "dropped"]
    /\ UNCHANGED <<committed, claimed, staged, answer, tasks, upgrade, cancel, shutting, driving>>

-----------------------------------------------------------------------------
(* invoke_service.                                                         *)

\* guard.admit: without a service permit nothing runs, and the commitment makes a
\* later accept() fail.
Admit(k) ==
    /\ TunnelPolled(k) /\ pipe[k] = "admit"
    /\ \/ pipe' = [pipe EXCEPT ![k] = "calling"] /\ UNCHANGED <<committed, holder, response>>
       \/ /\ pipe' = [pipe EXCEPT ![k] = "done"]
          /\ committed' = [committed EXCEPT ![k] = TRUE]
          /\ holder' = [holder EXCEPT ![k] = "dropped"]
          /\ response' = [response EXCEPT ![k] = "error"]
    /\ UNCHANGED <<claimed, staged, result, tasks, upgrade, cancel, shutting, driving>>

\* call_with_tunnel returns, fails, panics or times out.  The handshake response
\* can be returned only by a service to which accept() gave it.
CallEnds(k) ==
    /\ TunnelPolled(k) /\ pipe[k] = "calling"
    /\ \E r \in {"ordinary", "error"} \cup (IF holder[k] = "accepted" THEN {"handshake"} ELSE {}) :
          result' = [result EXCEPT ![k] = r]
    /\ pipe' = [pipe EXCEPT ![k] = "commit"]
    /\ UNCHANGED <<shared, response, tasks, upgrade, cancel, shutting, driving>>

MarkCommitted(k) ==
    /\ TunnelPolled(k) /\ pipe[k] = "commit"
    /\ committed' = [committed EXCEPT ![k] = TRUE]
    /\ pipe' = [pipe EXCEPT ![k] = "take"]
    /\ UNCHANGED <<claimed, staged, holder, result, response, tasks, upgrade, cancel,
                   shutting, driving>>

\* admit_and_spawn: without a permit the acceptance is dropped and 503 is sent.
AdmitAndSpawn(k) ==
    IF permits > 0
    THEN /\ permits' = permits - 1
         /\ tunnel' = [tunnel EXCEPT ![k] = "upgrading"]
         /\ response' = [response EXCEPT ![k] = "handoff"]
    ELSE /\ response' = [response EXCEPT ![k] = "saturated"]
         /\ UNCHANGED <<permits, tunnel>>

\* After a successful call the pipeline takes what the sidecar holds.  A failed
\* call leaves the acceptance in the sidecar, and it is dropped with it.
TakeAcceptance(k) ==
    /\ TunnelPolled(k) /\ pipe[k] = "take"
    /\ pipe' = [pipe EXCEPT ![k] = "done"]
    /\ IF result[k] = "error"
       THEN response' = [response EXCEPT ![k] = "error"] /\ UNCHANGED <<staged, permits, tunnel>>
       ELSE /\ staged' = [staged EXCEPT ![k] = FALSE]
            /\ IF staged[k]
               THEN AdmitAndSpawn(k)
               ELSE response' = [response EXCEPT ![k] = "normalized"] /\ UNCHANGED <<permits, tunnel>>
    /\ UNCHANGED <<committed, claimed, holder, result, handler, upgrade, cancel, shutting, driving>>

-----------------------------------------------------------------------------
(* run_tunnel and its handler.                                             *)

\* The permit and the gauge are dropped with the task's future.
TunnelOver(k, how) ==
    /\ tunnel' = [tunnel EXCEPT ![k] = how]
    /\ permits' = permits + 1

UpgradeFailed(k) ==
    /\ tunnel[k] = "upgrading" /\ upgrade[k] = "failed"
    /\ TunnelOver(k, "ended")
    /\ UNCHANGED <<shared, answer, handler, upgrade, cancel, shutting, driving>>

\* The transport is ours: the handler gets a task of its own.
SpawnHandler(k) ==
    /\ tunnel[k] = "upgrading" /\ upgrade[k] = "ok"
    /\ tunnel' = [tunnel EXCEPT ![k] = "bridging"]
    /\ handler' = [handler EXCEPT ![k] = "running"]
    /\ UNCHANGED <<shared, answer, permits, upgrade, cancel, shutting, driving>>

\* cancel wins the select!: handler_join.abort(), then the join is awaited.
CancelHandler(k) ==
    /\ tunnel[k] = "bridging" /\ cancel[k]
    /\ tunnel' = [tunnel EXCEPT ![k] = "closing"]
    /\ handler' = [handler EXCEPT ![k] = IF @ = "running" THEN "aborting" ELSE @]
    /\ UNCHANGED <<shared, answer, permits, upgrade, cancel, shutting, driving>>

\* The handler completes, sees its transport closed, or is dropped by the abort.
HandlerEnds(k) ==
    /\ handler[k] \in {"running", "aborting"}
    /\ handler' = [handler EXCEPT ![k] = "ended"]
    /\ UNCHANGED <<shared, answer, tunnel, permits, upgrade, cancel, shutting, driving>>

\* Mutant: the permit is forgotten.
TunnelEndsLeaking(k) ==
    /\ tunnel[k] \in {"bridging", "closing"} /\ handler[k] = "ended"
    /\ tunnel' = [tunnel EXCEPT ![k] = "ended"]
    /\ UNCHANGED <<shared, answer, handler, permits, upgrade, cancel, shutting, driving>>

TunnelEnds(k) ==
    /\ tunnel[k] \in {"bridging", "closing"} /\ handler[k] = "ended"
    /\ TunnelOver(k, "ended")
    /\ UNCHANGED <<shared, answer, handler, upgrade, cancel, shutting, driving>>

-----------------------------------------------------------------------------
(* drive_connection.                                                       *)

ConnectionShutdown(k) ==
    /\ ~shutting[k]
    /\ shutting' = [shutting EXCEPT ![k] = TRUE]
    /\ UNCHANGED <<shared, answer, tasks, upgrade, cancel, driving>>

\* How the Hyper connection can end: after an answer, which resolves the OnUpgrade
\* of a handshake; or because the peer is gone.
ConnectionEnds(k, failed) ==
    /\ failed \/ pipe[k] = "done"
    /\ upgrade' = [upgrade EXCEPT ![k] = IF ~failed /\ response[k] = "handoff" THEN "ok" ELSE "failed"]

\* Mutant: accepted tunnels do not keep the driver.
HyperDoneUnwatched(k, failed) ==
    /\ driving[k] = "serving"
    /\ ConnectionEnds(k, failed)
    /\ cancel' = [cancel EXCEPT ![k] = @ \/ failed]
    /\ driving' = [driving EXCEPT ![k] = "ended"]
    /\ UNCHANGED <<shared, answer, tasks, shutting>>

\* The connection future completes in the select!.
HyperDone(k, failed) ==
    /\ driving[k] = "serving"
    /\ ConnectionEnds(k, failed)
    /\ cancel' = [cancel EXCEPT ![k] = @ \/ failed]
    /\ driving' = [driving EXCEPT ![k] = IF k \in LiveTunnels THEN "waiting" ELSE "ended"]
    /\ UNCHANGED <<shared, answer, tasks, shutting>>

\* A deadline of the driver, or the shutdown token: the lifecycles are cancelled
\* and the connection is closed, with no time or a bounded time for its tunnels.
StartClosing(k) ==
    /\ driving[k] = "serving"
    /\ \/ driving' = [driving EXCEPT ![k] = "closing_now"]
       \/ shutting[k] /\ driving' = [driving EXCEPT ![k] = "closing_drain"]
    /\ cancel' = [cancel EXCEPT ![k] = TRUE]
    /\ UNCHANGED <<shared, answer, tasks, upgrade, shutting>>

\* graceful_close returns: the connection ended, or its budget is spent and it is
\* polled no more.
CloseReturns(k) ==
    /\ driving[k] \in {"closing_now", "closing_drain"}
    /\ \/ \E failed \in BOOLEAN : ConnectionEnds(k, failed)
       \/ UNCHANGED upgrade
    /\ driving' = [driving EXCEPT ![k] = IF @ = "closing_now" THEN "abort" ELSE "draining"]
    /\ UNCHANGED <<shared, answer, tasks, cancel, shutting>>

\* The shutdown token fires while the driver waits for tunnels.
ShutdownWhileWaiting(k) ==
    /\ driving[k] = "waiting" /\ shutting[k]
    /\ cancel' = [cancel EXCEPT ![k] = TRUE]
    /\ driving' = [driving EXCEPT ![k] = "draining"]
    /\ UNCHANGED <<shared, answer, tasks, upgrade, shutting>>

\* drain_tunnels finds its JoinSet empty.
Drained(k) ==
    /\ driving[k] \in {"waiting", "draining", "abort", "reaping"}
    /\ k \notin LiveTunnels
    /\ driving' = [driving EXCEPT ![k] = "ended"]
    /\ UNCHANGED <<shared, answer, tasks, upgrade, cancel, shutting>>

\* Mutant: a shutdown drains without a deadline.
DrainExpiresNever(k) ==
    /\ driving[k] \in {"abort", "waiting"}
    /\ k \in LiveTunnels
    /\ TunnelOver(k, "aborted")
    /\ cancel' = [cancel EXCEPT ![k] = TRUE]
    /\ driving' = [driving EXCEPT ![k] = "reaping"]
    /\ UNCHANGED <<shared, answer, handler, upgrade, shutting>>

\* The deadline of drain_tunnels: abort_all() drops the future of run_tunnel, and
\* with it the JoinHandle of the handler, which detaches the handler's task.
DrainExpires(k) ==
    /\ driving[k] \in {"abort", "waiting", "draining"}
    /\ k \in LiveTunnels
    /\ TunnelOver(k, "aborted")
    /\ cancel' = [cancel EXCEPT ![k] = TRUE]
    /\ driving' = [driving EXCEPT ![k] = "reaping"]
    /\ UNCHANGED <<shared, answer, handler, upgrade, shutting>>

-----------------------------------------------------------------------------
ServiceStep(k) == AcceptClaim(k) \/ AcceptStage(k)

PipelineStep(k) == Admit(k) \/ MarkCommitted(k) \/ TakeAcceptance(k)

TunnelStep(k) == UpgradeFailed(k) \/ SpawnHandler(k) \/ CancelHandler(k) \/ TunnelEnds(k)

DriverStep(k) == CloseReturns(k) \/ ShutdownWhileWaiting(k) \/ Drained(k)

TunnelNext ==
    \E k \in Conns :
        \/ AcceptCheck(k) \/ DropCapability(k) \/ ServiceStep(k)
        \/ CallEnds(k) \/ PipelineStep(k)
        \/ TunnelStep(k) \/ HandlerEnds(k)
        \/ ConnectionShutdown(k) \/ DriverStep(k) \/ StartClosing(k) \/ DrainExpires(k)
        \/ \E failed \in BOOLEAN : HyperDone(k, failed)

\* Tasks that can proceed are polled and the budgets of the closing paths run
\* out.  Nothing obliges a service to return, a handler to end or a peer to leave;
\* a driver in its select! does see a shutdown token that stays set.
TunnelFairness ==
    \A k \in Conns :
        /\ WF_tunnelVars(ServiceStep(k)) /\ WF_tunnelVars(PipelineStep(k)) /\ WF_tunnelVars(TunnelStep(k))
        /\ WF_tunnelVars(DriverStep(k)) /\ WF_tunnelVars(shutting[k] /\ StartClosing(k))
        /\ WF_tunnelVars(driving[k] # "waiting" /\ DrainExpires(k))
        /\ WF_tunnelVars(handler[k] = "aborting" /\ HandlerEnds(k))

TunnelSpec == TunnelInit /\ [][TunnelNext]_tunnelVars /\ TunnelFairness

-----------------------------------------------------------------------------
(* Properties.                                                             *)

\* The tunnel budget is out exactly while run_tunnel tasks exist, over all ways a
\* tunnel ends: handler completion, cancellation, failed upgrade, abort.
BudgetFollowsTunnels == permits + Cardinality(LiveTunnels) = MaxActiveTunnels

\* drive_connection returns only when no run_tunnel task of its connection is
\* left, whichever of its paths it returns by.
NoTunnelOutlivesDriver == \A k \in Conns : driving[k] = "ended" => k \notin LiveTunnels

\* A tunnel that ends by cancellation has ended its handler first: run_tunnel
\* awaits the handler it aborts.
CancelledHandlerIsGone ==
    \A k \in Conns : tunnel[k] = "ended" => handler[k] \in {"none", "ended"}

\* A connection that is told to shut down ends, whatever its tunnel handler does
\* and wherever the handshake is.
ShutdownEndsConnection == \A k \in Conns : shutting[k] ~> (driving[k] = "ended")

-------------------------------------------------------------------------------
(* Stronger statements, which the code does not keep: each has a            *)
(* counterexample.                                                         *)

\* No handler is left running when its connection has ended.
NoHandlerOutlivesDriver ==
    \A k \in Conns : driving[k] = "ended" => handler[k] # "running"

\* accept() succeeds only before the final response is committed.
NoAcceptAfterCommit ==
    [][\A k \in Conns : holder[k] = "claimed" /\ holder'[k] = "accepted" => ~committed[k]]_tunnelVars

\* "Graceful shutdown stops new tunnel admission, signals lifecycles, waits": no
\* tunnel is spawned once the driver has signalled the lifecycles.
ShutdownStopsAdmission ==
    [][\A k \in Conns : tunnel[k] = "none" /\ tunnel'[k] # "none" => driving[k] # "closing_drain"]_tunnelVars

\* Nothing of a tunnel survives its owners: no run_tunnel task outlives the
\* driver of its connection, and one that ended has ended its handler first
\* (tunnel.rs, run_tunnel; driver.rs, the tunnel drain).
TunnelsEndWithOwners == NoTunnelOutlivesDriver /\ CancelledHandlerIsGone
==============================================================================
