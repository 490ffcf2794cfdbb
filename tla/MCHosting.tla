------------------------------ MODULE MCHosting ------------------------------
(***************************************************************************)
(* Those who host a server, and what must come to an end in them: the      *)
(* command line process under a ServerProcess, a PyServer that two Python  *)
(* threads share, a tunnel and a streamed response with one end in Python, *)
(* and the HTTP/1 connection of a tunnel.  part says which of them acts;   *)
(* the others have not begun, and the connection has ended.                *)
(***************************************************************************)
EXTENDS Tunnel, CliProcess, PythonServer, PythonTunnel, PythonStreams

CONSTANTS k1, t1, t2, p1, p2, s1

VARIABLE part

MCConns == {k1}
MCThreads == {t1, t2}
MCPythons == {p1, p2}
MCStreamRequests == {s1}
AllFates == {"help", "error", "startFails", "serves"}

TunnelEnded ==
    /\ committed = [k \in Conns |-> TRUE] /\ claimed = [k \in Conns |-> FALSE]
    /\ staged = [k \in Conns |-> FALSE] /\ cancel = [k \in Conns |-> FALSE]
    /\ shutting = [k \in Conns |-> FALSE] /\ holder = [k \in Conns |-> "dropped"]
    /\ pipe = [k \in Conns |-> "done"] /\ result = [k \in Conns |-> "ordinary"]
    /\ response = [k \in Conns |-> "normalized"] /\ tunnel = [k \in Conns |-> "none"]
    /\ handler = [k \in Conns |-> "none"] /\ upgrade = [k \in Conns |-> "pending"]
    /\ driving = [k \in Conns |-> "ended"] /\ permits = MaxActiveTunnels

NoProcess == fate = "serves" /\ ProcInit
NoServer == facade = FALSE /\ PyInit
NoStream == async = FALSE /\ suppressed = {} /\ StreamInit

MCInit ==
    \/ part = "connection" /\ TunnelInit /\ NoProcess /\ NoServer /\ PyTunnelInit /\ NoStream
    \/ part = "process" /\ TunnelEnded /\ ProcInit /\ NoServer /\ PyTunnelInit /\ NoStream
    \/ part = "server" /\ TunnelEnded /\ NoProcess /\ PyInit /\ PyTunnelInit /\ NoStream
    \/ part = "tunnel" /\ TunnelEnded /\ NoProcess /\ NoServer /\ PyTunnelInit /\ NoStream
    \/ part = "stream" /\ TunnelEnded /\ NoProcess /\ NoServer /\ PyTunnelInit /\ StreamInit

MCNext ==
    \/ part = "connection" /\ TunnelNext /\ UNCHANGED <<part, procVars, pyVars, pyTunnelVars, streamVars>>
    \/ part = "process" /\ ProcNext /\ UNCHANGED <<part, tunnelVars, pyVars, pyTunnelVars, streamVars>>
    \/ part = "server" /\ PyNext /\ UNCHANGED <<part, tunnelVars, procVars, pyTunnelVars, streamVars>>
    \/ part = "tunnel" /\ PyTunnelNext /\ UNCHANGED <<part, tunnelVars, procVars, pyVars, streamVars>>
    \/ part = "stream" /\ StreamNext /\ UNCHANGED <<part, tunnelVars, procVars, pyVars, pyTunnelVars>>

MCSpec ==
    /\ MCInit /\ [][MCNext]_<<part, tunnelVars, procVars, pyVars, pyTunnelVars, streamVars>>
    /\ TunnelFairness /\ ProcFairness /\ PyFairness /\ PyTunnelFairness /\ StreamFairness

(* Hosts say and keep what is true: the exit code of the process and its   *)
(* owner's hold on it (lib.rs, subprocess.py), one native server per       *)
(* PyServer (runtime.rs), and the frames of a tunnel (tunnel_bridge.rs).   *)
HostsAreHonest == ProcessIsHonest /\ OneServerAtATime /\ PythonTunnelSound

(* Nobody who waits on a host waits for ever: a caught signal and stop()   *)
(* end the process, lifecycle calls return, permits and producer threads   *)
(* of streams come back, and a cancelled tunnel lets go of its callers.    *)
HostsSettle == ProcessEnds /\ CallsReturn /\ StreamsWindUp /\ CancelFreesPython
==============================================================================
