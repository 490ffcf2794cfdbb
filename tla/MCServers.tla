------------------------------ MODULE MCServers ------------------------------
(***************************************************************************)
(* The two TCP servers, and what any of their connections may be given: a  *)
(* service behind Tower, and contexts to emit events through.  part says   *)
(* which one acts; the others rest.  Direct server: three peers and two *)
(* permits, enough for a rejected stream, for a permit that is released    *)
(* and taken again, and for two tasks to end differently.  Compatibility   *)
(* server: one borrowing thread beside the owner, two streams and one      *)
(* permit; a shutdown() call and the owner's make a receiver lag behind    *)
(* the one-slot broadcast channel.                                         *)
(***************************************************************************)
EXTENDS Server, CoreServer, TowerAdapter, Operations

CONSTANTS a, owner, runner, c1, c2, c3, r1, r2, e1, e2, x1

VARIABLE part

MCConns == {c1, c2, c3}
MCCoreConns == {c1, c2}
OneCaller == {a}
AllCalls == {"wait", "force", "drop"}
AllErrors == {"transient", "fatal"}

ServerRests ==
    /\ flag = TRUE /\ accept = "returned" /\ result = "Clean" /\ completion = "observed"
    /\ task = [c \in Conns |-> "none"] /\ joined = {} /\ permits = MaxConnections
    /\ terminal_error = FALSE

CoreRests ==
    /\ state = "Stopped" /\ ready = TRUE /\ ready_rx = {}
    /\ terminal_sent = 1 /\ terminal_rx = 1 /\ shutdown_sent = 1 /\ shutdown_open = FALSE
    /\ task_rx = 1 /\ conn_rx = [c \in CoreConns |-> 0]
    /\ pc = [t \in Threads |-> IF t = Task THEN "done"
                               ELSE IF t = Owner THEN "gone" ELSE "idle"]
    /\ owes = [t \in Threads |-> <<>>]
    /\ conn = [c \in CoreConns |-> "none"] /\ tasks = {} /\ core_permits = MaxCoreConnections
    /\ timed_out = FALSE /\ aborted = FALSE /\ outcome = "Clean" /\ call = "wait"
    /\ errors = 0 /\ signals = 0

(***************************************************************************)
(* Heads as the runtime makes them, and what layers do: nothing, rewrite   *)
(* the URI, replace or add a Host, or rebuild the request.                 *)
(***************************************************************************)
MCHeads == {[raw |-> "/p", authority |-> "a", hosts |-> <<"a">>],
            [raw |-> "/p", authority |-> "none", hosts |-> <<>>]}

MCEdits == {[uri |-> "/p"], [uri |-> "/q"], [hosts |-> <<"b">>], [hosts |-> <<"a", "b">>], [hosts |-> <<"malformed">>],
            [ext |-> FALSE, uri |-> "/q"], [ext |-> FALSE, uri |-> "/p", absolute |-> TRUE],
            [ext |-> FALSE, hosts |-> <<"b">>]}

\* One thing varies: the head is edited, the request is read, the response is streamed, or another
\* request asks for the slot.
OneVaries ==
    /\ answer[r2] = NoAnswer /\ frames[r2] = <<>>
    /\ http[r2] \in {NoHead, request_head_to_http(head[r2])}
    /\ Cardinality({w \in 1..4 : <<http[r1] \notin {NoHead, request_head_to_http(head[r1])},
                                  frames[r1] # <<>>, produced[r1] # <<>>, phase[r2] # "idle">>[w]}) <= 1

TowerStarts == TowerInit /\ head[r2].hosts = <<>>

(***************************************************************************)
(* Sinks: fan-outs whose first child may panic, a lone child that may, and *)
(* a fan-out of nothing.                                                   *)
(***************************************************************************)
Sound(min) == [min |-> min, kind |-> "app", fragile |-> FALSE]
Fragile == [min |-> 1, kind |-> "app", fragile |-> TRUE]
Fan(counts, sinks) == [owner |-> counts, children |-> sinks]

MCShapes == {Fan("owned", <<Fragile, Sound(2)>>), Fan("plain", <<Fragile>>),
             Fan("global", <<Fragile, Sound(1)>>), Fan("owned", <<>>)}
MCAppShapes == {Fan("plain", <<Fragile>>), Fan("global", <<Sound(2), Fragile>>)}
MCContexts == {x1}
MCTowerRequests == {r1, r2}
MCEmitters == {e1, e2}

TowerRests == TowerInit /\ head = [r \in TowerRequests |-> CHOOSE h \in MCHeads : h.hosts = <<>>]
OpsRest == OpsInit /\ sinkOf = [c \in Contexts |-> Fan("owned", <<>>)] /\ appSink = Fan("plain", <<Fragile>>)

ServersRest == ServerRests /\ CoreRests
AdaptersRest == TowerRests /\ OpsRest

MCInit ==
    \/ part = "direct" /\ Init /\ CoreRests /\ AdaptersRest
    \/ part = "core" /\ CoreInit /\ ServerRests /\ AdaptersRest
    \/ part = "tower" /\ TowerStarts /\ ServersRest /\ OpsRest
    \/ part = "ops" /\ OpsInit /\ ServersRest /\ TowerRests

MCNext ==
    \/ part = "direct" /\ Next /\ UNCHANGED <<part, coreVars, towerVars, opsVars>>
    \/ part = "core" /\ CoreNext /\ UNCHANGED <<part, vars, towerVars, opsVars>>
    \/ part = "tower" /\ TowerNext /\ OneVaries' /\ UNCHANGED <<part, vars, coreVars, opsVars>>
    \/ part = "ops" /\ OpsNext /\ UNCHANGED <<part, vars, coreVars, towerVars>>

MCSpec ==
    /\ MCInit /\ [][MCNext]_<<part, vars, coreVars, towerVars, opsVars>>
    /\ Fairness /\ CoreFairness

(* The direct server stops and tells (lib.rs), and the calls on a handle   *)
(* of the compatibility server return (handle.rs): see Server and          *)
(* CoreServer.                                                             *)
ServersSettle == ServerSettles /\ HandleCallsReturn
==============================================================================
