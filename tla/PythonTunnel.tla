---------------------------- MODULE PythonTunnel ----------------------------
(***************************************************************************)
(* A tunnel in Python: the one-shot capability, the shuttle task between   *)
(* the runtime's TunnelIo and two bounded channels, and the calls of       *)
(* Python threads on them (tunnel_bridge.rs).                              *)
(*                                                                         *)
(* Frames are numbered from 1 in each direction.                           *)
(***************************************************************************)
EXTENDS Integers, Sequences, FiniteSets

CONSTANTS
    Pythons,        \* Python threads
    TunnelBound,    \* TUNNEL_CHANNEL_BOUND
    PeerFrames,     \* frames the peer sends
    PyFrames        \* frames Python sends

ASSUME TunnelBoundAssumption == TunnelBound \in Nat \ {0} /\ PeerFrames \in Nat /\ PyFrames \in Nat

VARIABLES
    capability,   \* PyTunnelCapability.inner: offered, taken
    shuttle,      \* none, select, pushing, writing, ended
    why,          \* why it ended
    load,         \* the frame it carries; 0 is the error item
    peer,         \* [sent: frames in the transport or taken from it, state: open, eof or broken]
    read,         \* frames the shuttle has read
    written,      \* frames it has written
    toPython,     \* the channel to Python
    toRuntime,    \* the channel from Python
    rx,           \* PyTunnel.to_python_rx: here, out (in a recv), gone
    tx,           \* PyTunnel.to_runtime_tx is there
    shut,         \* PyTunnel.closed
    cut_off,      \* the request lifecycle is cancelled
    pycall,       \* thread -> idle, receiving, sending
    accepted,     \* frames whose send() has been taken by the channel
    received      \* the frames recv() returned

pyTunnelVars == <<capability, shuttle, why, load, peer, read, written, toPython, toRuntime, rx, tx, shut,
                  cut_off, pycall, accepted, received>>
shuttleVars == <<capability, shuttle, why, load, read, written>>
pythonVars == <<rx, tx, shut, pycall, accepted, received>>

Sending == {t \in Pythons : pycall[t] = "sending"}
Receiving == {t \in Pythons : pycall[t] = "receiving"}

PyTunnelInit ==
    /\ capability = "offered" /\ shuttle = "none" /\ why = "none" /\ load = 0
    /\ peer = [sent |-> 0, state |-> "open"] /\ read = 0 /\ written = 0
    /\ toPython = <<>> /\ toRuntime = <<>> /\ rx = "none" /\ tx = FALSE /\ shut = FALSE /\ cut_off = FALSE
    /\ pycall = [t \in Pythons |-> "idle"] /\ accepted = 0 /\ received = <<>>

(* The capability is taken first: a handshake with invalid headers spends  *)
(* it.  An accepted one starts the shuttle when the handshake is sent.     *)
Accept ==
    /\ capability = "offered"
    /\ capability' = "taken"
    /\ \/ shuttle' = "select" /\ rx' = "here" /\ tx' = TRUE
       \/ UNCHANGED <<shuttle, rx, tx>>
    /\ UNCHANGED <<why, load, peer, read, written, toPython, toRuntime, shut, cut_off, pycall, accepted, received>>

(***************************************************************************)
(* The peer and the runtime                                                *)
(***************************************************************************)

PeerSends ==
    /\ shuttle # "none" /\ peer.state = "open" /\ peer.sent < PeerFrames
    /\ peer' = [peer EXCEPT !.sent = @ + 1]
    /\ UNCHANGED <<shuttleVars, toPython, toRuntime, cut_off, pythonVars>>

PeerEnds ==
    /\ shuttle # "none" /\ peer.state = "open"
    /\ peer' \in {[peer EXCEPT !.state = "eof"], [peer EXCEPT !.state = "broken"]}
    /\ UNCHANGED <<shuttleVars, toPython, toRuntime, cut_off, pythonVars>>

CancelLifecycle ==
    /\ ~ cut_off /\ shuttle # "none"
    /\ cut_off' = TRUE
    /\ UNCHANGED <<shuttleVars, peer, toPython, toRuntime, pythonVars>>

(***************************************************************************)
(* The shuttle                                                             *)
(***************************************************************************)

Ends(reason) == shuttle' = "ended" /\ why' = reason /\ UNCHANGED load
Carries(place, item) == shuttle' = place /\ load' = item /\ UNCHANGED why

(* The runtime drops the handler of a cancelled tunnel after its grace.    *)
Abort ==
    /\ cut_off /\ shuttle \notin {"none", "ended"}
    /\ Ends("aborted")
    /\ UNCHANGED <<capability, peer, read, written, toPython, toRuntime, cut_off, pythonVars>>

Readable == read < peer.sent \/ peer.state # "open"

(* The arms of the select, in their order.                                 *)
SelectCancelled ==
    /\ shuttle = "select" /\ cut_off
    /\ Ends("cancelled")
    /\ UNCHANGED <<capability, peer, read, written, toPython, toRuntime, cut_off, pythonVars>>

SelectRead ==
    /\ shuttle = "select" /\ ~ cut_off /\ Readable
    /\ IF peer.state = "broken" THEN Carries("pushing", 0) /\ UNCHANGED read
       ELSE IF read < peer.sent THEN Carries("pushing", read + 1) /\ read' = read + 1
       ELSE Ends("eof") /\ UNCHANGED read
    /\ UNCHANGED <<capability, peer, written, toPython, toRuntime, cut_off, pythonVars>>

SelectTake ==
    /\ shuttle = "select" /\ ~ cut_off /\ ~ Readable
    /\ \/ toRuntime # <<>> /\ Carries("writing", Head(toRuntime)) /\ toRuntime' = Tail(toRuntime)
       \/ toRuntime = <<>> /\ ~ tx /\ Sending = {} /\ Ends("closed") /\ UNCHANGED toRuntime
    /\ UNCHANGED <<capability, peer, read, written, toPython, cut_off, pythonVars>>

(* Waits for room in the channel; not for the cancellation.                *)
Push ==
    /\ shuttle = "pushing"
    /\ IF rx = "gone" THEN Ends("receiver gone") /\ UNCHANGED toPython
       ELSE /\ Len(toPython) < TunnelBound
            /\ toPython' = Append(toPython, load)
            /\ IF load = 0 THEN Ends("broken") ELSE Carries("select", load)
    /\ UNCHANGED <<capability, peer, read, written, toRuntime, cut_off, pythonVars>>

WriteAll ==
    /\ shuttle = "writing"
    /\ \/ peer.state # "broken" /\ Carries("select", load) /\ written' = written + 1
       \/ peer.state = "broken" /\ Ends("broken") /\ UNCHANGED written
    /\ UNCHANGED <<capability, peer, read, toPython, toRuntime, cut_off, pythonVars>>

(***************************************************************************)
(* Python                                                                  *)
(***************************************************************************)

is_closed == shut \/ cut_off

(* The receiver is taken for the wait; a second recv() finds none.         *)
Recv(t) ==
    /\ pycall[t] = "idle" /\ rx = "here"
    /\ rx' = "out" /\ pycall' = [pycall EXCEPT ![t] = "receiving"]
    /\ UNCHANGED <<shuttleVars, peer, toPython, toRuntime, cut_off, tx, shut, accepted, received>>

(* A frame puts the receiver back, even into a tunnel closed meanwhile;    *)
(* the error and the end do not.                                           *)
RecvReturns(t) ==
    /\ pycall[t] = "receiving"
    /\ \/ /\ toPython # <<>> /\ toPython' = Tail(toPython)
          /\ IF Head(toPython) = 0 THEN rx' = "gone" /\ shut' = TRUE /\ UNCHANGED received
             ELSE rx' = "here" /\ received' = Append(received, Head(toPython)) /\ UNCHANGED shut
       \/ toPython = <<>> /\ shuttle = "ended" /\ rx' = "gone" /\ shut' = TRUE /\ UNCHANGED <<toPython, received>>
    /\ pycall' = [pycall EXCEPT ![t] = "idle"]
    /\ UNCHANGED <<shuttleVars, peer, toRuntime, cut_off, tx, accepted>>

Send1(t) ==
    /\ pycall[t] = "idle" /\ ~ is_closed /\ tx /\ accepted + Cardinality(Sending) < PyFrames
    /\ pycall' = [pycall EXCEPT ![t] = "sending"]
    /\ UNCHANGED <<shuttleVars, peer, toPython, toRuntime, cut_off, rx, tx, shut, accepted, received>>

SendReturns(t) ==
    /\ pycall[t] = "sending"
    /\ IF shuttle = "ended" THEN shut' = TRUE /\ UNCHANGED <<toRuntime, accepted>>
       ELSE /\ Len(toRuntime) < TunnelBound
            /\ toRuntime' = Append(toRuntime, accepted + 1) /\ accepted' = accepted + 1 /\ UNCHANGED shut
    /\ pycall' = [pycall EXCEPT ![t] = "idle"]
    /\ UNCHANGED <<shuttleVars, peer, toPython, cut_off, rx, tx, received>>

(* A send in progress has a sender of its own, a recv has the receiver.    *)
Close(t) ==
    /\ pycall[t] = "idle" /\ shuttle # "none" /\ (tx \/ rx = "here")
    /\ shut' = TRUE /\ tx' = FALSE
    /\ rx' = IF rx = "here" THEN "gone" ELSE rx
    /\ toPython' = IF rx = "here" THEN <<>> ELSE toPython
    /\ UNCHANGED <<shuttleVars, peer, toRuntime, cut_off, pycall, accepted, received>>

Shuttle == SelectCancelled \/ SelectRead \/ SelectTake \/ Push \/ WriteAll
Returns(t) == RecvReturns(t) \/ SendReturns(t)

PyTunnelNext ==
    \/ Accept \/ PeerSends \/ PeerEnds \/ CancelLifecycle \/ Abort \/ Shuttle
    \/ \E t \in Pythons : Recv(t) \/ Send1(t) \/ Close(t) \/ Returns(t)

(* The executor runs the shuttle, but for a write the peer does not read;  *)
(* the runtime aborts what was cancelled, and a blocked call that can      *)
(* return does.                                                            *)
PyTunnelFairness ==
    /\ WF_pyTunnelVars(SelectCancelled \/ SelectRead \/ SelectTake \/ Push) /\ WF_pyTunnelVars(Abort)
    /\ \A t \in Pythons : WF_pyTunnelVars(Returns(t))

PyTunnelSpec == PyTunnelInit /\ [][PyTunnelNext]_pyTunnelVars /\ PyTunnelFairness

(***************************************************************************)
(* Properties                                                              *)
(***************************************************************************)

(* In both directions frames arrive in order, once and without a gap, and  *)
(* at most two channels of them are in flight.                             *)
FramesInOrder ==
    /\ received = [i \in 1..Len(received) |-> i]
    /\ written <= accepted /\ accepted - written <= TunnelBound + 1
    /\ read - Len(received) <= TunnelBound + 1 \/ rx = "gone"

(* close() flushes: when it is what ended the tunnel, every frame that     *)
(* send() took has been written, those of overlapping calls included.      *)
CloseFlushes == why = "closed" => written = accepted

(* A tunnel in Python carries what it took (tunnel_bridge.rs): the two     *)
(* above.                                                                  *)
PythonTunnelSound == FramesInOrder /\ CloseFlushes

(* Neither a blocked recv() nor a blocked send() survives a cancelled      *)
(* request, although the shuttle does not look at the cancellation while   *)
(* it waits for the other side.                                            *)
CancelFreesPython == \A t \in Pythons : (cut_off /\ pycall[t] # "idle") ~> pycall[t] = "idle"

(* A frame that send() took is written although the peer has closed its    *)
(* sending half (tunnel_bridge.rs, the shuttle).  It is not: the end of    *)
(* the peer's half ends both directions.                                   *)
TakenIsWritten == why = "eof" => written = accepted
=============================================================================
