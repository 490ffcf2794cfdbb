------------------------------ MODULE MCH1Reuse ------------------------------
(***************************************************************************)
(* HTTP/1 at its larger instances: one connection that serves two requests *)
(* within a total lifetime, or the tunnels of two connections that compete *)
(* for one permit.  part says which of them acts.                          *)
(***************************************************************************)
EXTENDS H1Connection, Tunnel

CONSTANTS k1, k2

VARIABLE part

MCConns == {k1, k2}

MCInit == part \in {"connection", "tunnels"} /\ Init /\ TunnelInit

MCNext ==
    \/ part = "connection" /\ Next /\ UNCHANGED <<part, tunnelVars>>
    \/ part = "tunnels" /\ TunnelNext /\ UNCHANGED <<part, vars>>

MCSpec == MCInit /\ [][MCNext]_<<part, vars, tunnelVars>>
==============================================================================
