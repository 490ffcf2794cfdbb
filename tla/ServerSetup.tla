---------------------------- MODULE ServerSetup ----------------------------
(***************************************************************************)
(* From a ServerBuilder to a running server: the sockets the builder takes *)
(* (bound, handed over, or adopted from a process manager), what build()   *)
(* refuses, and start_with_service() up to the spawned accept loops.       *)
(* Sockets are entries of the process's descriptor table, whose numbers    *)
(* the kernel uses again: closing one that somebody else owns, or adopting *)
(* a number twice, is possible in the model as it is in the process.       *)
(*                                                                         *)
(* The setters that only store a value (runtime, serve_config,             *)
(* http3_identity) are the configuration each builder starts with.         *)
(***************************************************************************)
EXTENDS Integers, Sequences, FiniteSets

CONSTANTS
    Builders,       \* server builders of one process
    Inherited,      \* the descriptors the process manager passed, from number 3
    Activations,    \* environments: [pid, names], names <<>> when not set
    Setups,         \* builder -> [runtime, tls, http3, identity, root], as stored
    Ports,          \* TCP and UDP ports, all positive
    AdoptAgain,     \* may a caller adopt an index again whose descriptor was taken
    MaxFd,          \* the largest descriptor number
    MaxSetupCalls   \* calls that hand a socket to a builder

VARIABLES
    activation,     \* LISTEN_PID and LISTEN_FDNAMES; LISTEN_FDS counts Inherited
    settings,       \* per builder, what its setters stored
    table,          \* the descriptor table
    builder,        \* per builder or server: stage, sources, endpoints, origin
    taken,          \* indexes whose descriptor adopt_systemd_listener took over
    calls           \* calls that handled a socket so far

setupVars == <<activation, settings, table, builder, taken, calls>>

ASSUME SetupAssumption ==
    /\ MaxFd \in Nat /\ 3 + Len(Inherited) <= MaxFd + 1 /\ Ports \subseteq Nat
    /\ Inherited \in Seq([kind : {"tcp", "unix", "udp", "vsock", "other"}, port : Nat])
    /\ \A i \in 1..Len(Inherited) : Inherited[i].kind = "tcp" => Inherited[i].port \in Ports
    /\ \A a \in Activations : a.names \in Seq(STRING)
    /\ \A s \in Setups : s \in [Builders -> [runtime : {"none", "valid", "invalid"}, tls : BOOLEAN,
                                             http3 : BOOLEAN, identity : BOOLEAN,
                                             root : {"none", "good", "bad"}]]

----------------------------------------------------------------------------
Closed == [kind |-> "closed", port |-> 0]

Fds == 3 .. MaxFd

CloseFds(t, S) == [f \in DOMAIN t |-> IF f \in S THEN Closed ELSE t[f]]

(* The kernel hands out the lowest free number.                            *)
HasFree(t) == \E f \in DOMAIN t : t[f] = Closed
Lowest(t) == CHOOSE f \in DOMAIN t : t[f] = Closed /\ \A g \in DOMAIN t : t[g] = Closed => f <= g

PortFree(kind, p) == \A f \in Fds : table[f] # [kind |-> kind, port |-> p]

(* A source is <<>>, an address to bind <<"bind", p>> or a socket          *)
(* <<"fd", f>>.                                                            *)
FdOf(source) == IF source # <<>> /\ source[1] = "fd" THEN {source[2]} ELSE {}

OwnedFds(b) == FdOf(builder[b].tcp) \cup FdOf(builder[b].unix) \cup FdOf(builder[b].udp)

NewBuilder == [stage |-> "building", tcp |-> <<>>, unix |-> <<>>, udp |-> <<>>,
               endpoints |-> {}, origin |-> 0]

(* Every builder method takes self by value: an error drops the builder,   *)
(* and with it each socket it owned.                                       *)
Dropped == [NewBuilder EXCEPT !.stage = "failed"]

Building(b) == builder[b].stage = "building" /\ calls < MaxSetupCalls

----------------------------------------------------------------------------
(* A call that stores a socket source; the source it replaces is dropped.  *)
SetSource(b, field, source, t) ==
    /\ table' = CloseFds(t, FdOf(builder[b][field]) \ FdOf(source))
    /\ builder' = [builder EXCEPT ![b] = [builder[b] EXCEPT ![field] = source]]
    /\ calls' = calls + 1
    /\ UNCHANGED <<activation, settings, taken>>

FailSetup(b, t) ==
    /\ table' = CloseFds(t, OwnedFds(b))
    /\ builder' = [builder EXCEPT ![b] = Dropped]
    /\ UNCHANGED <<activation, settings, calls>>

BindTo(b, p) == Building(b) /\ SetSource(b, "tcp", <<"bind", p>>, table)

(* from_listener, and from_std_listener, whose conversion may fail and     *)
(* then closes the socket that was passed.                                 *)
HandOver(b, field, descriptor) ==
    LET f == Lowest(table) IN
    /\ Building(b) /\ HasFree(table)
    /\ descriptor.kind = "unix" \/ PortFree(descriptor.kind, descriptor.port)
    /\ \/ SetSource(b, field, <<"fd", f>>, [table EXCEPT ![f] = descriptor])
       \/ field # "udp" /\ FailSetup(b, table) /\ UNCHANGED taken

FromListener(b, p) == HandOver(b, "tcp", [kind |-> "tcp", port |-> p])

FromUnixListener(b) == HandOver(b, "unix", [kind |-> "unix", port |-> 0])

Http3Socket(b, p) == HandOver(b, "udp", [kind |-> "udp", port |-> p])

----------------------------------------------------------------------------
systemd_activation_count == IF activation.pid = "mine" THEN Len(Inherited) ELSE 0

ValidStreamListener(d) == d.kind \in {"tcp", "unix", "vsock"}

(* The family of an adopted descriptor says which listener it becomes.     *)
AdoptedAs(d) == IF d.kind = "unix" THEN "unix" ELSE "tcp"

(* Index i is checked on the borrowed descriptor, then taken over; a       *)
(* family that is neither, and a failed conversion, close it.              *)
AdoptIndex(b, i) ==
    LET f == 3 + i
        field == AdoptedAs(table[f]) IN
    IF \/ activation.pid = "malformed"
       \/ i >= systemd_activation_count
       \/ ~ValidStreamListener(table[f])
    THEN FailSetup(b, table) /\ UNCHANGED taken
    ELSE \/ /\ table[f].kind # "vsock"
            /\ table' = CloseFds(table, FdOf(builder[b][field]))
            /\ builder' = [builder EXCEPT ![b] = [builder[b] EXCEPT ![field] = <<"fd", f>>]]
            /\ taken' = taken \cup {i}
            /\ calls' = calls + 1
            /\ UNCHANGED <<activation, settings>>
         \/ /\ FailSetup(b, CloseFds(table, {f}))
            /\ taken' = taken \cup {i}

MayAdopt(b, i) == Building(b) /\ (AdoptAgain \/ i \notin taken)

from_systemd_index(b, i) == MayAdopt(b, i) /\ AdoptIndex(b, i)

NamedAt(n) == {i \in 1 .. Len(activation.names) : activation.names[i] = n}

from_systemd_name(b, n) ==
    IF NamedAt(n) = {}
    THEN Building(b) /\ FailSetup(b, table) /\ UNCHANGED taken
    ELSE LET i == CHOOSE i \in NamedAt(n) : \A j \in NamedAt(n) : i <= j
         IN MayAdopt(b, i - 1) /\ AdoptIndex(b, i - 1)

----------------------------------------------------------------------------
(* build(): a valid configuration from either source, a usable root, and   *)
(* no TLS on a server that only has a Unix socket.                         *)
Buildable(b) ==
    LET s == settings[b] IN
    /\ s.runtime = "valid" \/ (s.runtime = "none" /\ s.root # "none")
    /\ s.root # "bad"
    /\ ~(s.tls /\ builder[b].unix # <<>> /\ builder[b].tcp = <<>>)

Build(b) ==
    /\ builder[b].stage = "building"
    /\ IF Buildable(b)
       THEN /\ builder' = [builder EXCEPT ![b].stage = "built"]
            /\ UNCHANGED <<activation, settings, table, taken, calls>>
       ELSE FailSetup(b, table) /\ UNCHANGED taken

(* static_service(root): the same without the check on Unix sockets.       *)
BuildStatic(b, good) ==
    /\ builder[b].stage = "building"
    /\ IF settings[b].runtime # "invalid" /\ good
       THEN /\ builder' = [builder EXCEPT ![b].stage = "built"]
            /\ settings' = [settings EXCEPT ![b].root = "good",
                                            ![b].tls = @ /\ settings[b].runtime = "valid",
                                            ![b].http3 = @ /\ settings[b].runtime = "valid"]
            /\ UNCHANGED <<activation, table, taken, calls>>
       ELSE FailSetup(b, table) /\ UNCHANGED taken

----------------------------------------------------------------------------
UnixOnly(b) == builder[b].unix # <<>> /\ builder[b].tcp = <<>>

(* start() and start_with_service() up to the TCP listener: an explicit    *)
(* source wins, a server with only a Unix socket binds nothing, any other  *)
(* binds its configured address.  Port zero takes any free port.           *)
StartTcp(b, static) ==
    LET source == builder[b].tcp
        f == Lowest(table)
        wanted == IF source # <<>> THEN source[2] ELSE 0 IN
    /\ builder[b].stage = "built"
    /\ UNCHANGED taken
    /\ CASE static /\ settings[b].root # "good" -> FailSetup(b, table)
         [] UnixOnly(b) \/ FdOf(source) # {} ->
                /\ builder' = [builder EXCEPT ![b].stage = "starting"]
                /\ UNCHANGED <<activation, settings, table, calls>>
         [] OTHER ->
                \/ FailSetup(b, table)
                \/ \E p \in Ports :
                    /\ HasFree(table) /\ (wanted = 0 \/ p = wanted) /\ PortFree("tcp", p)
                    /\ table' = [table EXCEPT ![f] = [kind |-> "tcp", port |-> p]]
                    /\ builder' = [builder EXCEPT ![b].stage = "starting", ![b].tcp = <<"fd", f>>]
                    /\ UNCHANGED <<activation, settings, calls>>

TcpPort(b) == IF builder[b].tcp = <<>> THEN 0 ELSE table[builder[b].tcp[2]].port

(* Mutant: the UDP socket may have a port of its own.                      *)
StartableAnyPort(b) ==
    LET s == settings[b] IN
    /\ s.tls => builder[b].tcp # <<>>
    /\ s.http3 => builder[b].tcp # <<>> /\ s.identity
    /\ builder[b].udp # <<>> => s.http3

(* What start_with_service() refuses once its listeners are there.         *)
Startable(b) ==
    LET s == settings[b] IN
    /\ s.tls => builder[b].tcp # <<>>
    /\ s.http3 => builder[b].tcp # <<>> /\ s.identity
    /\ (s.http3 /\ builder[b].udp # <<>>) => table[builder[b].udp[2]].port = TcpPort(b)
    /\ builder[b].udp # <<>> => s.http3

Endpoints(b) == (IF builder[b].tcp # <<>> THEN {"tcp-0"} ELSE {})
                \cup (IF builder[b].unix # <<>> THEN {"unix-0"} ELSE {})

Serving(b) == [builder[b] EXCEPT !.stage = "running", !.endpoints = Endpoints(b), !.origin = TcpPort(b)]

(* The rest of start_with_service(), which runs without waiting: checks,   *)
(* the QUIC endpoint on the TCP port, the spawned accept loops.            *)
StartRest(b) ==
    LET f == Lowest(table) IN
    /\ builder[b].stage = "starting"
    /\ UNCHANGED taken
    /\ IF ~Startable(b) THEN FailSetup(b, table)
       ELSE IF ~settings[b].http3 \/ builder[b].udp # <<>>
       THEN \/ /\ builder' = [builder EXCEPT ![b] = Serving(b)]
               /\ UNCHANGED <<activation, settings, table, calls>>
            \/ settings[b].http3 /\ FailSetup(b, table)
       ELSE \/ FailSetup(b, table)
            \/ /\ HasFree(table) /\ PortFree("udp", TcpPort(b))
               /\ table' = [table EXCEPT ![f] = [kind |-> "udp", port |-> TcpPort(b)]]
               /\ builder' = [builder EXCEPT ![b] = [Serving(b) EXCEPT !.udp = <<"fd", f>>]]
               /\ UNCHANGED <<activation, settings, calls>>

(* The accept loops return and drop their listeners.                       *)
ServerEnds(b) ==
    /\ builder[b].stage = "running"
    /\ table' = CloseFds(table, OwnedFds(b))
    /\ builder' = [builder EXCEPT ![b] = [Dropped EXCEPT !.stage = "ended"]]
    /\ UNCHANGED <<activation, settings, taken, calls>>

----------------------------------------------------------------------------
SetupInit ==
    /\ activation \in Activations
    /\ settings \in Setups
    /\ table = [f \in Fds |-> IF f - 2 <= Len(Inherited) THEN Inherited[f - 2] ELSE Closed]
    /\ builder = [b \in Builders |-> NewBuilder]
    /\ taken = {}
    /\ calls = 0

Listen(b) ==
    \/ \E p \in Ports \cup {0} : BindTo(b, p)
    \/ \E p \in Ports : FromListener(b, p) \/ Http3Socket(b, p)
    \/ FromUnixListener(b)
    \/ \E i \in 0 .. Len(Inherited) : from_systemd_index(b, i)
    \/ \E n \in {"web", "admin"} : from_systemd_name(b, n)

Bring(b) ==
    \/ Build(b)
    \/ \E good \in BOOLEAN : BuildStatic(b, good)
    \/ \E static \in BOOLEAN : StartTcp(b, static)
    \/ StartRest(b)
    \/ ServerEnds(b)

SetupNext == \E b \in Builders : Listen(b) \/ Bring(b)

SetupSpec == SetupInit /\ [][SetupNext]_setupVars

----------------------------------------------------------------------------
(* Each socket has one owner, which it outlives no longer than its owner   *)
(* lives (listener.rs: "owned exactly once"): no two builders or servers   *)
(* hold the same descriptor, none holds a closed one or one of another     *)
(* kind, and an open descriptor is held or was never taken over.           *)
DescriptorsOwnedOnce ==
    /\ \A b, c \in Builders : b # c => OwnedFds(b) \cap OwnedFds(c) = {}
    /\ \A b \in Builders :
        /\ \A f \in FdOf(builder[b].tcp) : table[f].kind = "tcp"
        /\ \A f \in FdOf(builder[b].unix) : table[f].kind = "unix"
        /\ \A f \in FdOf(builder[b].udp) : table[f].kind = "udp"
    /\ \A f \in Fds : table[f] = Closed \/ (\E b \in Builders : f \in OwnedFds(b))
                      \/ (f - 3 < Len(Inherited) /\ f - 3 \notin taken)

(* A running server is the one that was asked for (start_with_service):    *)
(* its handle lists the listeners it serves and at least one, TLS and      *)
(* HTTP/3 come with a TCP listener, QUIC answers on the port of the TCP    *)
(* listener that Alt-Svc announces, and no socket was taken and ignored.   *)
RunningAsAsked ==
    \A b \in Builders : builder[b].stage = "running" =>
        LET s == settings[b] IN
        /\ builder[b].endpoints = Endpoints(b) /\ builder[b].endpoints # {}
        /\ (s.tls \/ s.http3) => "tcp-0" \in builder[b].endpoints
        /\ s.http3 <=> builder[b].udp # <<>>
        /\ s.http3 => \A f \in FdOf(builder[b].udp) : table[f].port = builder[b].origin
        /\ "tcp-0" \in builder[b].endpoints => builder[b].origin \in Ports

(* Setting up a server keeps its sockets and its promises (server/mod.rs,  *)
(* listener.rs): the two above.                                            *)
SetupIsSound == DescriptorsOwnedOnce /\ RunningAsAsked

(* "Failed validation never closes the descriptor" (listener.rs:21): an    *)
(* inherited descriptor that no builder adopted stays open.  It does not:  *)
(* the address family is looked at once the descriptor is owned.           *)
RefusedStaysOpen ==
    \A i \in 1 .. Len(Inherited) :
        Inherited[i].kind = "vsock" => table[i + 2] = Inherited[i]
=============================================================================
