--------------------------- MODULE BoundaryProofs ----------------------------
(***************************************************************************)
(* Proofs about what enters from outside: the sockets and descriptors a    *)
(* server is set up with, the heads of requests, and the directory buffers *)
(* the Windows kernel fills; for any number of builders and descriptors,   *)
(* any requests, limits and buffers.                                       *)
(***************************************************************************)
EXTENDS ServerSetup, RequestIntake, WindowsFiles, WellFoundedInduction, TLAPS

\* An assumption is visible to the section that needs it.
HIDE SetupAssumption
HIDE IntakeAssumption
HIDE BufferAssumption

-----------------------------------------------------------------------------
\* A nonempty set of naturals has a least element.
LEMMA LeastNatural ==
    ASSUME NEW T \in SUBSET Nat, T # {}
    PROVE  \E x \in T : \A y \in T : x <= y
<1>1. \E x \in T : \A y \in T : ~ (<<y, x>> \in OpToRel(<, Nat))
  BY WFMin, NatLessThanWellFounded, Zenon
<1>2. PICK x \in T : \A y \in T : ~ (<<y, x>> \in OpToRel(<, Nat))
  BY <1>1, Zenon
<1>3. ASSUME NEW y \in T, y < x PROVE FALSE
  <2>1. <<y, x>> \in Nat \X Nat /\ <<y, x>>[1] < <<y, x>>[2]
    BY <1>3, Zenon
  <2>2. <<y, x>> \in OpToRel(<, Nat)
    BY <2>1, Zenon DEF OpToRel
  <2> QED BY <1>2, <2>2, Zenon
<1> QED BY <1>3

-----------------------------------------------------------------------------
(* Setting up servers.  A builder holds a descriptor through the source of *)
(* one kind; what no builder holds is closed or still to be adopted.       *)

Kinds == {"tcp", "unix", "udp"}

Holds(r, f) == \E k \in Kinds : f \in FdOf(r[k])

Untaken(f) == f \in Fds /\ f - 3 < Len(Inherited) /\ f - 3 \notin taken

Descriptors == {Closed} \cup [kind : {"tcp", "unix", "udp", "vsock", "other"}, port : Nat]

Sources == {<<>>} \cup {<<"bind", p>> : p \in Ports \cup {0}} \cup {<<"fd", f>> : f \in Fds}
Sockets == {<<>>} \cup {<<"fd", f>> : f \in Fds}

BuilderRecords ==
    [stage : {"building", "built", "starting", "running", "failed", "ended"},
     tcp : Sources, unix : Sockets, udp : Sockets, endpoints : SUBSET {"tcp-0", "unix-0"}, origin : Nat]

SetupTypes ==
    /\ activation \in Activations
    /\ settings \in [Builders -> [runtime : {"none", "valid", "invalid"}, tls : BOOLEAN, http3 : BOOLEAN,
                                  identity : BOOLEAN, root : {"none", "good", "bad"}]]
    /\ table \in [Fds -> Descriptors] /\ taken \subseteq Nat
    /\ builder \in [Builders -> BuilderRecords]

Ownership ==
    /\ \A b, c \in Builders : \A f \in Fds : Holds(builder[b], f) /\ Holds(builder[c], f) => b = c
    /\ \A b \in Builders, k \in Kinds : \A f \in FdOf(builder[b][k]) : f \in Fds /\ table[f].kind = k
    /\ \A f \in Fds : table[f] = Closed \/ (\E b \in Builders : Holds(builder[b], f)) \/ Untaken(f)
    /\ \A f \in Fds : Untaken(f) => table[f] # Closed /\ \A b \in Builders : ~ Holds(builder[b], f)

\* A TCP socket has a port, and a server that starts has its listeners.
Listening ==
    /\ \A f \in Fds : table[f].kind = "tcp" => table[f].port \in Ports
    /\ \A b \in Builders : builder[b].stage \in {"starting", "running"} =>
          builder[b].tcp \in Sockets /\ (builder[b].tcp # <<>> \/ builder[b].unix # <<>>)

SetupInv == SetupTypes /\ Ownership /\ Listening /\ RunningAsAsked

LEMMA FdOfSource ==
    /\ FdOf(<<>>) = {}
    /\ \A p : FdOf(<<"bind", p>>) = {} /\ <<"bind", p>> # <<>>
    /\ \A f : FdOf(<<"fd", f>>) = {f} /\ <<"fd", f>> # <<>> /\ <<"fd", f>>[2] = f
BY Zenon DEF FdOf

LEMMA LowestIsFree ==
    ASSUME SetupTypes, HasFree(table)
    PROVE  Lowest(table) \in Fds /\ table[Lowest(table)] = Closed
<1> DEFINE T == {f \in DOMAIN table : table[f] = Closed}
<1>1. DOMAIN table = Fds
  BY Zenon DEF SetupTypes
<1>2. T \in SUBSET Nat /\ T # {}
  BY <1>1, SetupAssumption DEF Fds, HasFree
<1>3. \E x \in T : \A y \in T : x <= y
  <2> HIDE DEF T
  <2> QED BY <1>2, LeastNatural, Zenon
<1>4. \E f \in DOMAIN table : table[f] = Closed /\ \A g \in DOMAIN table : table[g] = Closed => f <= g
  BY <1>3, Zenon
<1>5. Lowest(table) \in DOMAIN table /\ table[Lowest(table)] = Closed
  BY <1>4, Zenon DEF Lowest
<1> QED BY <1>1, <1>5, Zenon

\* What a builder holds changes hands by one of its own steps only: what it
\* lets go is closed, what it takes was held by nobody, the rest stays.
LEMMA OwnershipMoves ==
    ASSUME SetupTypes, Ownership, table' \in [Fds -> Descriptors],
           NEW b \in Builders, NEW r, builder' = [builder EXCEPT ![b] = r],
           taken \subseteq taken',
           \A k \in Kinds : \A f \in FdOf(r[k]) : f \in Fds /\ table'[f].kind = k,
           \A f \in Fds : Holds(r, f) => Holds(builder[b], f) \/ \A c \in Builders : ~ Holds(builder[c], f),
           \A f \in Fds : Holds(r, f) => ~ Untaken(f)',
           \A f \in Fds : Holds(builder[b], f) /\ ~ Holds(r, f) => table'[f] = Closed,
           \A f \in Fds : ~ Holds(builder[b], f) /\ ~ Holds(r, f) =>
                \/ table'[f] = table[f] /\ (Untaken(f)' <=> Untaken(f))
                \/ Untaken(f) /\ ~ Untaken(f)' /\ table'[f] = Closed
    PROVE  /\ Ownership'
           /\ \A c \in Builders \ {b} : \A f \in Fds : Holds(builder[c], f) => table'[f] = table[f]
<1>1. builder'[b] = r /\ \A c \in Builders \ {b} : builder'[c] = builder[c]
  BY Zenon DEF SetupTypes
<1>2. \A c \in Builders \ {b} : \A f \in Fds : Holds(builder[c], f) =>
        ~ Holds(r, f) /\ ~ Holds(builder[b], f) /\ ~ Untaken(f) /\ table'[f] = table[f]
  BY Zenon DEF Ownership
<1>3. \A c, d \in Builders : \A f \in Fds : Holds(builder[c], f)' /\ Holds(builder[d], f)' => c = d
  <2> SUFFICES ASSUME NEW c \in Builders, NEW d \in Builders, NEW f \in Fds,
                      Holds(builder[c], f)', Holds(builder[d], f)', c # d
               PROVE  FALSE
    BY Zenon
  <2>1. \A e \in Builders : Holds(builder[e], f)' <=> Holds(builder'[e], f)
    BY Zenon DEF Holds, FdOf
  <2> QED BY <1>1, <1>2, <2>1 DEF Ownership
<1>4. \A c \in Builders, k \in Kinds : \A f \in FdOf(builder'[c][k]) : f \in Fds /\ table'[f].kind = k
  <2> SUFFICES ASSUME NEW c \in Builders, NEW k \in Kinds, NEW f \in FdOf(builder'[c][k])
               PROVE  f \in Fds /\ table'[f].kind = k
    BY Zenon
  <2>1. CASE c = b
    BY <1>1, <2>1, Zenon
  <2>2. CASE c # b
    <3>1. f \in FdOf(builder[c][k]) /\ f \in Fds /\ table[f].kind = k
      BY <1>1, <2>2 DEF Ownership
    <3>2. Holds(builder[c], f)
      BY <3>1, Zenon DEF Holds
    <3> QED BY <1>2, <2>2, <3>1, <3>2, Zenon
  <2> QED BY <2>1, <2>2, Zenon
<1>5. \A f \in Fds : table'[f] = Closed \/ (\E c \in Builders : Holds(builder'[c], f)) \/ Untaken(f)'
  <2> TAKE f \in Fds
  <2>1. CASE Holds(r, f) \/ Holds(builder[b], f)
    BY <1>1, <2>1, Zenon
  <2>2. CASE ~ Holds(r, f) /\ ~ Holds(builder[b], f)
    <3>1. CASE table'[f] = Closed
      BY <3>1, Zenon
    <3>2. CASE table'[f] = table[f] /\ (Untaken(f)' <=> Untaken(f))
      BY <1>1, <2>2, <3>2, Zenon DEF Ownership
    <3> QED BY <2>2, <3>1, <3>2, Zenon
  <2> QED BY <2>1, <2>2, Zenon
<1>6. \A f \in Fds : Untaken(f)' => table'[f] # Closed /\ \A c \in Builders : ~ Holds(builder'[c], f)
  <2> SUFFICES ASSUME NEW f \in Fds, Untaken(f)'
               PROVE  table'[f] # Closed /\ \A c \in Builders : ~ Holds(builder'[c], f)
    BY Zenon
  <2>1. Untaken(f)
    BY Zenon DEF Untaken
  <2>2. ~ Holds(r, f) /\ \A c \in Builders : ~ Holds(builder[c], f)
    BY <2>1, Zenon DEF Ownership
  <2>3. table'[f] = table[f]
    BY <2>2, Zenon
  <2>4. \A c \in Builders : builder'[c] = IF c = b THEN r ELSE builder[c]
    BY <1>1, Zenon
  <2>5. \A c \in Builders : ~ Holds(builder'[c], f)
    BY <2>2, <2>4, Zenon
  <2>6. table[f] # Closed
    BY <2>1, Zenon DEF Ownership
  <2> QED BY <2>3, <2>5, <2>6, Zenon
<1> QED BY <1>2, <1>3, <1>4, <1>5, <1>6, Zenon DEF Ownership, Holds, FdOf

\* A builder that replaces the source of one kind closes the old socket.
LEMMA SourceReplaced ==
    ASSUME SetupTypes, Ownership, table' \in [Fds -> Descriptors], taken \subseteq taken',
           NEW b \in Builders, NEW r, builder' = [builder EXCEPT ![b] = r],
           NEW k \in Kinds, \A j \in Kinds \ {k} : r[j] = builder[b][j],
           FdOf(r[k]) \subseteq Fds,
           \A f \in FdOf(r[k]) : table'[f].kind = k /\ ~ Untaken(f)' /\ \A c \in Builders : ~ Holds(builder[c], f),
           \A g \in Fds \ FdOf(r[k]) : /\ table'[g] = IF g \in FdOf(builder[b][k]) THEN Closed ELSE table[g]
                                       /\ Untaken(g)' <=> Untaken(g)
    PROVE  /\ Ownership'
           /\ \A c \in Builders \ {b} : \A f \in Fds : Holds(builder[c], f) => table'[f] = table[f]
<1>1. \A f : Holds(r, f) <=> f \in FdOf(r[k]) \/ \E j \in Kinds \ {k} : f \in FdOf(builder[b][j])
  BY Zenon DEF Holds
<1>2. \A j \in Kinds \ {k} : \A f \in FdOf(builder[b][j]) :
        f \in Fds /\ f \notin FdOf(builder[b][k]) /\ f \notin FdOf(r[k]) /\ table'[f] = table[f] /\ table[f].kind = j
  BY DEF Ownership, Holds
<1>3. \A j \in Kinds : \A f \in FdOf(r[j]) : f \in Fds /\ table'[f].kind = j
  BY <1>2
<1>4. \A f \in Fds : Holds(r, f) => Holds(builder[b], f) \/ \A c \in Builders : ~ Holds(builder[c], f)
  BY <1>1, Zenon DEF Holds
<1>5. \A f \in Fds : Holds(builder[b], f) => ~ Untaken(f)
  BY Zenon DEF Ownership
<1>6. \A f \in Fds : Holds(r, f) => ~ Untaken(f)'
  <2> SUFFICES ASSUME NEW f \in Fds, Holds(r, f), f \notin FdOf(r[k]) PROVE ~ Untaken(f)'
    BY Zenon
  <2>1. Holds(builder[b], f)
    BY <1>1, Zenon DEF Holds
  <2> QED BY <1>5, <2>1, Zenon
<1>7. \A f \in Fds : Holds(builder[b], f) /\ ~ Holds(r, f) => table'[f] = Closed
  <2> SUFFICES ASSUME NEW f \in Fds, Holds(builder[b], f), ~ Holds(r, f) PROVE table'[f] = Closed
    BY Zenon
  <2>1. f \in FdOf(builder[b][k]) /\ f \notin FdOf(r[k])
    BY <1>1, Zenon DEF Holds
  <2> QED BY <2>1, Zenon
<1>8. \A f \in Fds : ~ Holds(builder[b], f) /\ ~ Holds(r, f) =>
                        table'[f] = table[f] /\ (Untaken(f)' <=> Untaken(f))
  <2> SUFFICES ASSUME NEW f \in Fds, ~ Holds(builder[b], f), ~ Holds(r, f)
               PROVE  table'[f] = table[f] /\ (Untaken(f)' <=> Untaken(f))
    BY Zenon
  <2>1. f \notin FdOf(builder[b][k]) /\ f \notin FdOf(r[k])
    BY <1>1, Zenon DEF Holds
  <2> QED BY <2>1, Zenon
<1> QED BY <1>3, <1>4, <1>6, <1>7, <1>8, OwnershipMoves, Zenon

\* A builder that is dropped closes what it held, and perhaps the descriptor
\* that it was about to adopt.
LEMMA BuilderDropped ==
    ASSUME SetupTypes, Ownership, table' \in [Fds -> Descriptors], taken \subseteq taken',
           NEW b \in Builders, NEW r, builder' = [builder EXCEPT ![b] = r],
           \A k \in Kinds : FdOf(r[k]) = {},
           \A g \in Fds : \/ Holds(builder[b], g) /\ table'[g] = Closed
                          \/ /\ ~ Holds(builder[b], g) /\ table'[g] = table[g]
                             /\ Untaken(g)' <=> Untaken(g)
                          \/ Untaken(g) /\ ~ Untaken(g)' /\ table'[g] = Closed
    PROVE  /\ Ownership'
           /\ \A c \in Builders \ {b} : \A f \in Fds : Holds(builder[c], f) => table'[f] = table[f]
<1>1. \A f : ~ Holds(r, f)
  BY Zenon DEF Holds
<1>2. \A k \in Kinds : \A f \in FdOf(r[k]) : f \in Fds /\ table'[f].kind = k
  BY Zenon
<1>3. \A f \in Fds : Holds(builder[b], f) => table'[f] = Closed
  BY Zenon DEF Ownership
<1>4. \A f \in Fds : ~ Holds(builder[b], f) =>
                \/ table'[f] = table[f] /\ (Untaken(f)' <=> Untaken(f))
                \/ Untaken(f) /\ ~ Untaken(f)' /\ table'[f] = Closed
  BY Zenon
<1> QED BY <1>1, <1>2, <1>3, <1>4, OwnershipMoves, Zenon

\* What start_with_service promises of one server.
AsAsked(b) ==
    LET s == settings[b] IN
    /\ builder[b].endpoints = Endpoints(b) /\ builder[b].endpoints # {}
    /\ (s.tls \/ s.http3) => "tcp-0" \in builder[b].endpoints
    /\ s.http3 <=> builder[b].udp # <<>>
    /\ s.http3 => \A f \in FdOf(builder[b].udp) : table[f].port = builder[b].origin
    /\ "tcp-0" \in builder[b].endpoints => builder[b].origin \in Ports

\* What is true of the other servers stays true, and a builder that has not
\* been started is under no promise.
LEMMA OthersKeepRunning ==
    ASSUME SetupInv, NEW b \in Builders, NEW r \in BuilderRecords, builder' = [builder EXCEPT ![b] = r],
           r.stage \in {"starting", "running"} => r.tcp \in Sockets /\ (r.tcp # <<>> \/ r.unix # <<>>),
           r.stage = "running" => AsAsked(b)',
           \A c \in Builders \ {b} : settings'[c] = settings[c],
           \A c \in Builders \ {b} : \A f \in Fds : Holds(builder[c], f) => table'[f] = table[f],
           \A f \in Fds : table'[f].kind = "tcp" => table'[f].port \in Ports
    PROVE  Listening' /\ RunningAsAsked'
<1>1. builder'[b] = r /\ \A c \in Builders \ {b} : builder'[c] = builder[c]
  BY Zenon DEF SetupInv, SetupTypes
<1>2. Listening'
  BY <1>1, Zenon DEF SetupInv, Listening
<1>3. RunningAsAsked'
  <2> SUFFICES ASSUME NEW c \in Builders \ {b}, builder'[c].stage = "running" PROVE AsAsked(c)'
    BY <1>1 DEF RunningAsAsked, AsAsked
  <2>1. builder'[c] = builder[c] /\ settings'[c] = settings[c]
    BY <1>1, Zenon
  <2>2. Endpoints(c)' = Endpoints(c)
    BY <2>1, Zenon DEF Endpoints
  <2>3. \A f \in FdOf(builder[c].udp) : f \in Fds /\ table'[f] = table[f]
    <3>1. "udp" \in Kinds
      BY Zenon DEF Kinds
    <3>2. \A f \in FdOf(builder[c].udp) : f \in Fds /\ Holds(builder[c], f)
      BY <3>1, Zenon DEF SetupInv, Ownership, Holds
    <3> QED BY <2>1, <3>2, Zenon
  <2> QED BY <2>1, <2>2, <2>3 DEF SetupInv, RunningAsAsked, AsAsked, FdOf
<1> QED BY <1>2, <1>3, Zenon

LEMMA OwnedIsHeld ==
    ASSUME SetupTypes, NEW b \in Builders
    PROVE  \A f : f \in OwnedFds(b) <=> Holds(builder[b], f)
BY Zenon DEF OwnedFds, Holds, Kinds

LEMMA DropKeeps ==
    ASSUME SetupInv, NEW b \in Builders, NEW r \in {Dropped, [Dropped EXCEPT !.stage = "ended"]},
           builder' = [builder EXCEPT ![b] = r], UNCHANGED <<activation, settings>>,
           NEW S \in SUBSET Fds, \A f \in S : Untaken(f), taken' = taken \cup {f - 3 : f \in S},
           table' = [g \in Fds |-> IF g \in S \cup OwnedFds(b) THEN Closed ELSE table[g]]
    PROVE  SetupInv'
<1>1. r = [stage |-> r.stage, tcp |-> <<>>, unix |-> <<>>, udp |-> <<>>, endpoints |-> {}, origin |-> 0]
      /\ r.stage \in {"failed", "ended"}
  BY Zenon DEF Dropped, NewBuilder
<1>2. r \in BuilderRecords
  BY <1>1 DEF BuilderRecords, Sources, Sockets
<1>3. SetupTypes'
  <2>1. table' \in [Fds -> Descriptors]
    BY Zenon DEF SetupInv, SetupTypes, Descriptors
  <2>2. taken' \subseteq Nat
    BY DEF SetupInv, SetupTypes, Untaken, Fds
  <2>3. builder' \in [Builders -> BuilderRecords]
    BY <1>2, Zenon DEF SetupInv, SetupTypes
  <2> QED BY <2>1, <2>2, <2>3, Zenon DEF SetupInv, SetupTypes
<1>4. \A k \in Kinds : FdOf(r[k]) = {}
  BY <1>1, FdOfSource DEF Kinds
<1>5. \A g \in Fds : \/ Holds(builder[b], g) /\ table'[g] = Closed
                     \/ /\ ~ Holds(builder[b], g) /\ table'[g] = table[g]
                        /\ Untaken(g)' <=> Untaken(g)
                     \/ Untaken(g) /\ ~ Untaken(g)' /\ table'[g] = Closed
  <2> TAKE g \in Fds
  <2>1. CASE g \in S
    <3>1. table'[g] = Closed /\ Untaken(g) /\ g - 3 \in taken'
      BY <2>1, Zenon
    <3> QED BY <3>1, Zenon DEF Untaken
  <2>2. CASE g \notin S /\ Holds(builder[b], g)
    BY <2>2, OwnedIsHeld, Zenon DEF SetupInv
  <2>3. CASE g \notin S /\ ~ Holds(builder[b], g)
    <3>1. table'[g] = table[g]
      BY <2>3, OwnedIsHeld, Zenon DEF SetupInv
    <3>2. g - 3 \in taken' <=> g - 3 \in taken
      BY <2>3 DEF Fds
    <3> QED BY <2>3, <3>1, <3>2, Zenon DEF Untaken
  <2> QED BY <2>1, <2>2, <2>3, Zenon
<1>6. /\ Ownership'
      /\ \A c \in Builders \ {b} : \A f \in Fds : Holds(builder[c], f) => table'[f] = table[f]
  <2>1. table' \in [Fds -> Descriptors] /\ taken \subseteq taken'
    BY <1>3, Zenon DEF SetupTypes
  <2> QED BY <1>4, <1>5, <2>1, BuilderDropped, Zenon DEF SetupInv
<1>7. \A f \in Fds : table'[f].kind = "tcp" => table'[f].port \in Ports
  BY Zenon DEF SetupInv, Listening, Closed
<1>8. Listening' /\ RunningAsAsked'
  BY <1>1, <1>2, <1>6, <1>7, OthersKeepRunning, Zenon DEF SetupInv
<1> QED BY <1>3, <1>6, <1>8, Zenon DEF SetupInv

LEMMA FailKeeps ==
    ASSUME SetupInv, NEW b \in Builders,
           \/ FailSetup(b, table) /\ UNCHANGED taken
           \/ \E f \in Fds : Untaken(f) /\ FailSetup(b, CloseFds(table, {f})) /\ taken' = taken \cup {f - 3}
    PROVE  SetupInv'
<1>1. DOMAIN table = Fds
  BY Zenon DEF SetupInv, SetupTypes
<1>2. CASE FailSetup(b, table) /\ UNCHANGED taken
  <2>1. table' = [g \in Fds |-> IF g \in {} \cup OwnedFds(b) THEN Closed ELSE table[g]]
    BY <1>1, <1>2, Zenon DEF FailSetup, CloseFds
  <2>2. taken' = taken \cup {f - 3 : f \in {}}
    BY <1>2, Zenon
  <2>3. {} \in SUBSET Fds /\ \A g \in {} : Untaken(g)
    BY Zenon
  <2> QED BY <1>2, <2>1, <2>2, <2>3, DropKeeps, Zenon DEF FailSetup
<1>3. ASSUME NEW f \in Fds, Untaken(f), FailSetup(b, CloseFds(table, {f})), taken' = taken \cup {f - 3}
      PROVE  SetupInv'
  <2>1. CloseFds(table, {f}) = [g \in Fds |-> IF g \in {f} THEN Closed ELSE table[g]]
    BY <1>1, Zenon DEF CloseFds
  <2>2. table' = [g \in Fds |-> IF g \in {f} \cup OwnedFds(b) THEN Closed ELSE table[g]]
    BY <1>3, <2>1, Zenon DEF FailSetup, CloseFds
  <2>3. taken' = taken \cup {g - 3 : g \in {f}}
    BY <1>3, Zenon
  <2>4. {f} \in SUBSET Fds /\ \A g \in {f} : Untaken(g)
    BY <1>3, Zenon
  <2> QED BY <1>3, <2>2, <2>3, <2>4, DropKeeps, Zenon DEF FailSetup
<1> QED BY <1>2, <1>3, Zenon

\* A builder stores a socket, or an address, as the source of one kind.
Stores(b, k, source) ==
    /\ builder[b].stage = "building"
    /\ builder' = [builder EXCEPT ![b] = [builder[b] EXCEPT ![k] = source]]
    /\ UNCHANGED <<activation, settings>>
    /\ table' \in [Fds -> Descriptors] /\ taken \subseteq taken' /\ taken' \subseteq Nat

LEMMA SourceKeeps ==
    ASSUME SetupInv, NEW b \in Builders, NEW k \in Kinds, NEW source, Stores(b, k, source),
           source \in Sockets \/ (k = "tcp" /\ source \in Sources),
           \A f \in FdOf(source) : /\ table'[f].kind = k /\ (k = "tcp" => table'[f].port \in Ports)
                                   /\ ~ Untaken(f)' /\ \A c \in Builders : ~ Holds(builder[c], f),
           \A g \in Fds \ FdOf(source) :
                /\ table'[g] = IF g \in FdOf(builder[b][k]) THEN Closed ELSE table[g]
                /\ Untaken(g)' <=> Untaken(g)
    PROVE  SetupInv'
<1> DEFINE r == [builder[b] EXCEPT ![k] = source]
<1>1. builder[b] \in BuilderRecords
  BY Zenon DEF SetupInv, SetupTypes
<1>2. source \in Sources /\ FdOf(source) \subseteq Fds
  BY FdOfSource DEF Sources, Sockets
<1>3. r \in BuilderRecords /\ r[k] = source /\ r.stage = "building" /\ \A j \in Kinds \ {k} : r[j] = builder[b][j]
  BY <1>1, <1>2, Zenon DEF BuilderRecords, Kinds, Stores
<1> HIDE DEF r
<1>4. /\ builder' = [builder EXCEPT ![b] = r] /\ UNCHANGED <<activation, settings>>
      /\ table' \in [Fds -> Descriptors] /\ taken \subseteq taken' /\ taken' \subseteq Nat
  BY Zenon DEF r, Stores
<1>5. SetupTypes'
  BY <1>3, <1>4, Zenon DEF SetupInv, SetupTypes
<1>6. /\ Ownership'
      /\ \A c \in Builders \ {b} : \A f \in Fds : Holds(builder[c], f) => table'[f] = table[f]
  BY <1>2, <1>3, <1>4, SourceReplaced, Zenon DEF SetupInv
<1>7. \A f \in Fds : table'[f].kind = "tcp" => table'[f].port \in Ports
  <2> SUFFICES ASSUME NEW f \in Fds, table'[f].kind = "tcp" PROVE table'[f].port \in Ports
    BY Zenon
  <2>1. CASE f \in FdOf(source)
    BY <2>1, Zenon
  <2>2. CASE f \notin FdOf(source)
    BY <2>2 DEF SetupInv, Listening, Closed
  <2> QED BY <2>1, <2>2, Zenon
<1>8. Listening' /\ RunningAsAsked'
  BY <1>3, <1>4, <1>6, <1>7, OthersKeepRunning, Zenon DEF SetupInv
<1> QED BY <1>5, <1>6, <1>8, Zenon DEF SetupInv

\* The descriptor f is now a socket of kind k in the builder b alone, and the
\* socket b had of that kind is closed.
Arrives(b, k, f) ==
    /\ table'[f].kind = k /\ (k = "tcp" => table'[f].port \in Ports)
    /\ ~ Untaken(f)' /\ \A c \in Builders : ~ Holds(builder[c], f)
    /\ \A g \in Fds \ {f} : /\ table'[g] = IF g \in FdOf(builder[b][k]) THEN Closed ELSE table[g]
                            /\ Untaken(g)' <=> Untaken(g)

LEMMA SocketKeeps ==
    ASSUME SetupInv, NEW b \in Builders, NEW k \in Kinds, NEW f \in Fds, Stores(b, k, <<"fd", f>>), Arrives(b, k, f)
    PROVE  SetupInv'
<1>a. /\ table'[f].kind = k /\ (k = "tcp" => table'[f].port \in Ports)
      /\ ~ Untaken(f)' /\ \A c \in Builders : ~ Holds(builder[c], f)
      /\ \A g \in Fds \ {f} : /\ table'[g] = IF g \in FdOf(builder[b][k]) THEN Closed ELSE table[g]
                              /\ Untaken(g)' <=> Untaken(g)
  BY Zenon DEF Arrives
<1>0. PICK s : s = <<"fd", f>>
  BY Zenon
<1>1. FdOf(s) = {f} /\ s \in Sockets
  BY <1>0, FdOfSource, Zenon DEF Sockets
<1>2. \A g \in FdOf(s) : /\ table'[g].kind = k /\ (k = "tcp" => table'[g].port \in Ports)
                        /\ ~ Untaken(g)' /\ \A c \in Builders : ~ Holds(builder[c], g)
  BY <1>a, <1>1, Zenon
<1>3. \A g \in Fds \ FdOf(s) :
        /\ table'[g] = IF g \in FdOf(builder[b][k]) THEN Closed ELSE table[g]
        /\ Untaken(g)' <=> Untaken(g)
  BY <1>a, <1>1, Zenon
<1>4. s \in Sockets \/ (k = "tcp" /\ s \in Sources)
  BY <1>1, Zenon
<1>5. Stores(b, k, s)
  BY <1>0, Zenon
<1> QED BY <1>2, <1>3, <1>4, <1>5, SourceKeeps

LEMMA FreeIsHeldByNone ==
    ASSUME SetupInv, NEW f \in Fds, table[f] = Closed
    PROVE  ~ Untaken(f) /\ \A c \in Builders : ~ Holds(builder[c], f)
<1>1. table[f].kind \notin Kinds
  BY DEF Closed, Kinds
<1> QED BY <1>1 DEF SetupInv, Ownership, Holds

LEMMA BindKeeps ==
    ASSUME SetupInv, NEW b \in Builders, NEW p \in Ports \cup {0}, BindTo(b, p)
    PROVE  SetupInv'
<1>1. /\ builder' = [builder EXCEPT ![b] = [builder[b] EXCEPT !["tcp"] = <<"bind", p>>]]
      /\ UNCHANGED <<activation, settings, taken>> /\ builder[b].stage = "building"
      /\ table' = CloseFds(table, FdOf(builder[b]["tcp"]) \ FdOf(<<"bind", p>>))
  BY Zenon DEF BindTo, SetSource, Building
<1>2. FdOf(<<"bind", p>>) = {} /\ <<"bind", p>> \in Sources /\ "tcp" \in Kinds
  BY FdOfSource, Zenon DEF Sources, Kinds
<1>3. DOMAIN table = Fds /\ table \in [Fds -> Descriptors] /\ taken \subseteq Nat
  BY Zenon DEF SetupInv, SetupTypes
<1>4. table' = [g \in Fds |-> IF g \in FdOf(builder[b]["tcp"]) THEN Closed ELSE table[g]]
  BY <1>1, <1>2, <1>3, Zenon DEF CloseFds
<1>5. table' \in [Fds -> Descriptors]
  BY <1>3, <1>4, Zenon DEF Descriptors
<1>6. \A g \in Fds : Untaken(g)' <=> Untaken(g)
  BY <1>1, Zenon DEF Untaken
<1>7. Stores(b, "tcp", <<"bind", p>>)
  BY <1>1, <1>3, <1>5, Zenon DEF Stores
<1> QED BY <1>2, <1>4, <1>6, <1>7, SourceKeeps, Zenon

LEMMA HandOverKeeps ==
    ASSUME SetupInv, NEW b \in Builders, NEW k \in Kinds,
           NEW d \in [kind : {k}, port : Nat], k = "tcp" => d.port \in Ports, HandOver(b, k, d)
    PROVE  SetupInv'
<1>1. CASE FailSetup(b, table) /\ UNCHANGED taken
  BY <1>1, FailKeeps, Zenon
<1>2. CASE SetSource(b, k, <<"fd", Lowest(table)>>, [table EXCEPT ![Lowest(table)] = d])
  <2>0. PICK f : f = Lowest(table)
    BY Zenon
  <2>1. f \in Fds /\ table[f] = Closed /\ builder[b].stage = "building"
    BY <2>0, LowestIsFree, Zenon DEF HandOver, Building, SetupInv
  <2>2. ~ Untaken(f) /\ \A c \in Builders : ~ Holds(builder[c], f)
    BY <2>1, FreeIsHeldByNone, Zenon
  <2>3. FdOf(<<"fd", f>>) = {f} /\ <<"fd", f>> \in Sockets
    BY <2>1, FdOfSource, Zenon DEF Sockets
  <2>4. DOMAIN table = Fds /\ table \in [Fds -> Descriptors] /\ taken \subseteq Nat /\ d \in Descriptors
    BY Zenon DEF SetupInv, SetupTypes, Descriptors, Kinds
  <2>5. /\ builder' = [builder EXCEPT ![b] = [builder[b] EXCEPT ![k] = <<"fd", f>>]]
        /\ UNCHANGED <<activation, settings, taken>>
        /\ table' = CloseFds([table EXCEPT ![f] = d], FdOf(builder[b][k]) \ {f})
    BY <1>2, <2>0, <2>3, Zenon DEF SetSource
  <2>6. table' = [g \in Fds |-> IF g = f THEN d ELSE IF g \in FdOf(builder[b][k]) THEN Closed ELSE table[g]]
    BY <2>1, <2>4, <2>5, Zenon DEF CloseFds
  <2>7. table' \in [Fds -> Descriptors] /\ table'[f] = d /\ d.kind = k
        /\ \A g \in Fds \ {f} : table'[g] = IF g \in FdOf(builder[b][k]) THEN Closed ELSE table[g]
    BY <2>1, <2>4, <2>6, Zenon DEF Descriptors
  <2>8. \A g \in Fds : Untaken(g)' <=> Untaken(g)
    BY <2>5, Zenon DEF Untaken
  <2>9. taken \subseteq taken' /\ taken' \subseteq Nat /\ (k = "tcp" => table'[f].port \in Ports)
    BY <2>4, <2>5, <2>7, Zenon
  <2>10. ~ Untaken(f)' /\ table'[f].kind = k /\ UNCHANGED <<activation, settings>>
    BY <2>1, <2>2, <2>5, <2>7, <2>8, Zenon
  <2>11. \A g \in Fds \ {f} : /\ table'[g] = IF g \in FdOf(builder[b][k]) THEN Closed ELSE table[g]
                              /\ Untaken(g)' <=> Untaken(g)
    BY <2>7, <2>8, Zenon
  <2>12. Stores(b, k, <<"fd", f>>)
    BY <2>1, <2>4, <2>5, <2>7, Zenon DEF Stores
  <2>13. f \in Fds /\ Arrives(b, k, f)
    BY <2>1, <2>2, <2>9, <2>10, <2>11, Zenon DEF Arrives
  <2> QED BY <2>12, <2>13, SocketKeeps, Zenon
<1> QED BY <1>1, <1>2, Zenon DEF HandOver

\* An inherited descriptor that was not adopted is a socket of its own kind.
LEMMA InheritedFds ==
    ASSUME SetupInv, ~ AdoptAgain, NEW b \in Builders, NEW i \in Nat, i < Len(Inherited), MayAdopt(b, i)
    PROVE  3 + i \in Fds /\ Untaken(3 + i)
<1>1. Len(Inherited) \in Nat /\ Len(Inherited) <= MaxFd - 2 /\ i \notin taken /\ MaxFd \in Nat
  BY SetupAssumption DEF MayAdopt
<1>2. 3 + i \in Fds /\ (3 + i) - 3 = i
  BY <1>1 DEF Fds
<1> QED BY <1>1, <1>2, Zenon DEF Untaken

LEMMA AdoptKeeps ==
    ASSUME SetupInv, ~ AdoptAgain, NEW b \in Builders, NEW i \in Nat, MayAdopt(b, i), AdoptIndex(b, i)
    PROVE  SetupInv'
<1>0. builder[b].stage = "building"
  BY Zenon DEF MayAdopt, Building
<1>1. CASE FailSetup(b, table) /\ UNCHANGED taken
  BY <1>1, FailKeeps, Zenon
<1>2. ASSUME ~ (activation.pid = "malformed"), ~ (i >= systemd_activation_count), ValidStreamListener(table[3 + i])
      PROVE  SetupInv'
  <2>0. PICK f : f = 3 + i
    BY Zenon
  <2>1. f \in Fds /\ Untaken(f) /\ f - 3 = i
    <3>1. i < Len(Inherited)
      BY <1>2, SetupAssumption DEF systemd_activation_count
    <3> QED BY <2>0, <3>1, InheritedFds
  <2>2. table[f] # Closed /\ \A c \in Builders : ~ Holds(builder[c], f)
    BY <2>1, Zenon DEF SetupInv, Ownership
  <2>3. CASE FailSetup(b, CloseFds(table, {f})) /\ taken' = taken \cup {i}
    BY <2>1, <2>3, FailKeeps, Zenon
  <2>4. ASSUME NEW k \in Kinds, k = AdoptedAs(table[f]), table[f].kind # "vsock",
               table' = CloseFds(table, FdOf(builder[b][k])),
               builder' = [builder EXCEPT ![b] = [builder[b] EXCEPT ![k] = <<"fd", f>>]],
               taken' = taken \cup {i}, UNCHANGED <<activation, settings>>
        PROVE  SetupInv'
    <3>1. FdOf(<<"fd", f>>) = {f} /\ <<"fd", f>> \in Sockets
      BY <2>1, FdOfSource, Zenon DEF Sockets
    <3>2. table[f].kind = k
      BY <1>2, <2>0, <2>4, Zenon DEF ValidStreamListener, AdoptedAs
    <3>3. DOMAIN table = Fds /\ table \in [Fds -> Descriptors] /\ taken \subseteq Nat
      BY Zenon DEF SetupInv, SetupTypes
    <3>4. f \notin FdOf(builder[b][k])
      BY <2>2, Zenon DEF Holds
    <3>5. table' = [g \in Fds |-> IF g \in FdOf(builder[b][k]) THEN Closed ELSE table[g]]
      BY <2>4, <3>3, Zenon DEF CloseFds
    <3>6. table' \in [Fds -> Descriptors] /\ table'[f] = table[f]
      BY <2>1, <3>3, <3>4, <3>5, Zenon DEF Descriptors
    <3>7. taken \subseteq taken' /\ taken' \subseteq Nat /\ ~ Untaken(f)'
          /\ \A g \in Fds \ {f} : Untaken(g)' <=> Untaken(g)
      BY <2>1, <2>4, <3>3 DEF Untaken, Fds
    <3>8. k = "tcp" => table'[f].port \in Ports
      BY <2>1, <3>2, <3>6, Zenon DEF SetupInv, Listening
    <3>9. \A g \in Fds \ {f} : table'[g] = IF g \in FdOf(builder[b][k]) THEN Closed ELSE table[g]
      BY <3>5, Zenon
    <3>10. Stores(b, k, <<"fd", f>>)
      BY <1>0, <2>4, <3>6, <3>7, Zenon DEF Stores
    <3>11. table'[f].kind = k /\ ~ Untaken(f)' /\ \A c \in Builders : ~ Holds(builder[c], f)
      BY <2>1, <2>2, <3>2, <3>6, <3>7, Zenon
    <3>12. f \in Fds /\ Arrives(b, k, f)
      BY <2>1, <3>7, <3>8, <3>9, <3>11, Zenon DEF Arrives
    <3> QED BY <3>2, <3>10, <3>12, SocketKeeps, Zenon
  <2>5. AdoptedAs(table[f]) \in Kinds
    BY Zenon DEF AdoptedAs, Kinds
  <2> QED BY <1>2, <2>0, <2>3, <2>4, <2>5, Zenon DEF AdoptIndex
<1> QED BY <1>1, <1>2, Zenon DEF AdoptIndex

LEMMA NamedKeeps ==
    ASSUME SetupInv, ~ AdoptAgain, NEW b \in Builders, NEW n, from_systemd_name(b, n)
    PROVE  SetupInv'
<1>1. CASE NamedAt(n) = {}
  BY <1>1, FailKeeps, Zenon DEF from_systemd_name
<1>2. CASE NamedAt(n) # {}
  <2> DEFINE i == CHOOSE i \in NamedAt(n) : \A j \in NamedAt(n) : i <= j
  <2>1. NamedAt(n) \in SUBSET Nat /\ \A j \in NamedAt(n) : j - 1 \in Nat
    BY SetupAssumption DEF NamedAt, SetupInv, SetupTypes
  <2>2. \E x \in NamedAt(n) : \A y \in NamedAt(n) : x <= y
    BY <1>2, <2>1, LeastNatural, Zenon
  <2>3. i \in NamedAt(n)
    BY <2>2, Zenon
  <2>4. MayAdopt(b, i - 1) /\ AdoptIndex(b, i - 1)
    BY <1>2, Zenon DEF from_systemd_name
  <2> HIDE DEF i
  <2>5. PICK m \in Nat : m = i - 1
    BY <2>1, <2>3, Zenon
  <2> QED BY <2>4, <2>5, AdoptKeeps, Zenon
<1> QED BY <1>1, <1>2, Zenon

LEMMA ListenKeeps ==
    ASSUME SetupInv, ~ AdoptAgain, NEW b \in Builders, Listen(b)
    PROVE  SetupInv'
<1>0. Ports \subseteq Nat
  BY SetupAssumption, Zenon
<1>1. ASSUME NEW p \in Ports \cup {0}, BindTo(b, p) PROVE SetupInv'
  BY <1>1, BindKeeps, Zenon
<1>2. ASSUME NEW p \in Ports, FromListener(b, p) PROVE SetupInv'
  <2>1. "tcp" \in Kinds /\ [kind |-> "tcp", port |-> p] \in [kind : {"tcp"}, port : Nat]
    BY <1>0, Zenon DEF Kinds
  <2> QED BY <1>2, <2>1, HandOverKeeps, Zenon DEF FromListener
<1>3. ASSUME NEW p \in Ports, Http3Socket(b, p) PROVE SetupInv'
  <2>1. "udp" \in Kinds /\ [kind |-> "udp", port |-> p] \in [kind : {"udp"}, port : Nat]
    BY <1>0, Zenon DEF Kinds
  <2> QED BY <1>3, <2>1, HandOverKeeps, Zenon DEF Http3Socket
<1>4. CASE FromUnixListener(b)
  <2>1. "unix" \in Kinds /\ [kind |-> "unix", port |-> 0] \in [kind : {"unix"}, port : Nat]
    BY Zenon DEF Kinds
  <2> QED BY <1>4, <2>1, HandOverKeeps, Zenon DEF FromUnixListener
<1>5. ASSUME NEW i \in 0 .. Len(Inherited), from_systemd_index(b, i) PROVE SetupInv'
  BY <1>5, AdoptKeeps, SetupAssumption DEF from_systemd_index
<1>6. ASSUME NEW n, from_systemd_name(b, n) PROVE SetupInv'
  BY <1>6, NamedKeeps, Zenon
<1> QED BY <1>1, <1>2, <1>3, <1>4, <1>5, <1>6, Zenon DEF Listen

\* What a builder that owns its sockets is about to be: its promises hold as
\* soon as it runs.
Becomes(b, r) ==
    /\ r \in BuilderRecords /\ builder' = [builder EXCEPT ![b] = r]
    /\ r.stage \in {"starting", "running"} => r.tcp \in Sockets /\ (r.tcp # <<>> \/ r.unix # <<>>)
    /\ r.stage = "running" => AsAsked(b)'
    /\ UNCHANGED <<activation, taken>>
    /\ SetupTypes => settings' \in [Builders -> [runtime : {"none", "valid", "invalid"}, tls : BOOLEAN, http3 : BOOLEAN,
                                                identity : BOOLEAN, root : {"none", "good", "bad"}]]
    /\ \A c \in Builders \ {b} : settings'[c] = settings[c]

LEMMA SameSourcesKeep ==
    ASSUME SetupInv, NEW b \in Builders, NEW r, Becomes(b, r),
           \A k \in Kinds : r[k] = builder[b][k], UNCHANGED table
    PROVE  SetupInv'
<1>1. /\ r \in BuilderRecords /\ builder' = [builder EXCEPT ![b] = r] /\ UNCHANGED <<activation, taken>>
      /\ \A c \in Builders \ {b} : settings'[c] = settings[c]
  BY Zenon DEF Becomes
<1>2. \A f : Holds(r, f) <=> Holds(builder[b], f)
  BY Zenon DEF Holds
<1>3. \A f \in Fds : Untaken(f)' <=> Untaken(f)
  BY <1>1, Zenon DEF Untaken
<1>4. SetupTypes'
  BY <1>1, Zenon DEF Becomes, SetupInv, SetupTypes
<1>5. \A k \in Kinds : \A f \in FdOf(r[k]) : f \in Fds /\ table'[f].kind = k
  BY DEF SetupInv, Ownership
<1>6. \A f \in Fds : Holds(r, f) => ~ Untaken(f)'
  BY <1>2, <1>3, Zenon DEF SetupInv, Ownership
<1>7. table' \in [Fds -> Descriptors] /\ taken \subseteq taken'
  BY <1>1, <1>4, Zenon DEF SetupTypes
<1>8. /\ Ownership'
      /\ \A c \in Builders \ {b} : \A f \in Fds : Holds(builder[c], f) => table'[f] = table[f]
  BY <1>1, <1>2, <1>3, <1>5, <1>6, <1>7, OwnershipMoves, Zenon DEF SetupInv
<1>9. Listening' /\ RunningAsAsked'
  <2>1. \A f \in Fds : table'[f].kind = "tcp" => table'[f].port \in Ports
    BY Zenon DEF SetupInv, Listening
  <2> QED BY <1>1, <1>8, <2>1, OthersKeepRunning, Zenon DEF Becomes
<1> QED BY <1>4, <1>8, <1>9, Zenon DEF SetupInv

\* start_with_service binds a socket of its own for a kind that has none.
LEMMA NewSocketKeeps ==
    ASSUME SetupInv, NEW b \in Builders, NEW r, Becomes(b, r),
           NEW k \in Kinds, \A j \in Kinds \ {k} : r[j] = builder[b][j], FdOf(builder[b][k]) = {},
           NEW f \in Fds, table[f] = Closed, r[k] = <<"fd", f>>,
           NEW d \in Descriptors, d.kind = k, k = "tcp" => d.port \in Ports,
           table' = [table EXCEPT ![f] = d]
    PROVE  SetupInv'
<1>1. /\ r \in BuilderRecords /\ builder' = [builder EXCEPT ![b] = r] /\ UNCHANGED <<activation, taken>>
      /\ \A c \in Builders \ {b} : settings'[c] = settings[c]
      /\ SetupTypes => settings' \in [Builders -> [runtime : {"none", "valid", "invalid"}, tls : BOOLEAN, http3 : BOOLEAN,
                                                  identity : BOOLEAN, root : {"none", "good", "bad"}]]
  BY Zenon DEF Becomes
<1>2. table \in [Fds -> Descriptors]
  BY Zenon DEF SetupInv, SetupTypes
<1>3. table' \in [Fds -> Descriptors] /\ table'[f] = d /\ \A g \in Fds \ {f} : table'[g] = table[g]
  BY <1>2, Zenon
<1>4. SetupTypes'
  BY <1>1, <1>3, Zenon DEF SetupInv, SetupTypes
<1>5. ~ Untaken(f) /\ \A c \in Builders : ~ Holds(builder[c], f)
  BY FreeIsHeldByNone, Zenon
<1>6. \A g \in Fds : Untaken(g)' <=> Untaken(g)
  BY <1>1, Zenon DEF Untaken
<1>7. FdOf(r[k]) = {f} /\ FdOf(r[k]) \subseteq Fds /\ taken \subseteq taken' /\ SetupTypes /\ Ownership
  BY <1>1, FdOfSource DEF SetupInv
<1>8. \A g \in FdOf(r[k]) : table'[g].kind = k /\ ~ Untaken(g)' /\ \A c \in Builders : ~ Holds(builder[c], g)
  BY <1>3, <1>5, <1>6, <1>7
<1>9. \A g \in Fds \ FdOf(r[k]) : /\ table'[g] = IF g \in FdOf(builder[b][k]) THEN Closed ELSE table[g]
                                  /\ Untaken(g)' <=> Untaken(g)
  BY <1>3, <1>6, <1>7, Zenon
<1>10. /\ Ownership'
       /\ \A c \in Builders \ {b} : \A g \in Fds : Holds(builder[c], g) => table'[g] = table[g]
  BY ONLY b \in Builders, k \in Kinds, \A j \in Kinds \ {k} : r[j] = builder[b][j],
          <1>1, <1>3, <1>7, <1>8, <1>9, SourceReplaced, Zenon
<1>11. Listening' /\ RunningAsAsked'
  <2>1. \A g \in Fds : table'[g].kind = "tcp" => table'[g].port \in Ports
    BY <1>3, Zenon DEF SetupInv, Listening
  <2> QED BY <1>1, <1>10, <2>1, OthersKeepRunning, Zenon DEF Becomes
<1> QED BY <1>4, <1>10, <1>11, Zenon DEF SetupInv

LEMMA BuildKeeps ==
    ASSUME SetupInv, NEW b \in Builders, Build(b) \/ \E good \in BOOLEAN : BuildStatic(b, good)
    PROVE  SetupInv'
<1>0. builder[b] \in BuilderRecords /\ builder \in [Builders -> BuilderRecords]
  BY Zenon DEF SetupInv, SetupTypes
<1>1. CASE FailSetup(b, table) /\ UNCHANGED taken
  BY <1>1, FailKeeps, Zenon
<1>2. ASSUME builder' = [builder EXCEPT ![b].stage = "built"], UNCHANGED <<activation, table, taken>>,
             \/ UNCHANGED settings
             \/ settings' = [settings EXCEPT ![b].root = "good",
                                            ![b].tls = @ /\ settings[b].runtime = "valid",
                                            ![b].http3 = @ /\ settings[b].runtime = "valid"]
      PROVE  SetupInv'
  <2> DEFINE r == [builder[b] EXCEPT !.stage = "built"]
  <2>1. r \in BuilderRecords /\ r.stage = "built" /\ \A k \in Kinds : r[k] = builder[b][k]
    BY <1>0, Zenon DEF BuilderRecords, Kinds
  <2>2. builder' = [builder EXCEPT ![b] = r]
    BY <1>0, <1>2, Zenon
  <2>3. SetupTypes => settings' \in [Builders -> [runtime : {"none", "valid", "invalid"}, tls : BOOLEAN, http3 : BOOLEAN,
                                                identity : BOOLEAN, root : {"none", "good", "bad"}]]
    BY <1>2 DEF SetupTypes
  <2>4. \A c \in Builders \ {b} : settings'[c] = settings[c]
    BY <1>2, Zenon DEF SetupInv, SetupTypes
  <2> HIDE DEF r
  <2>5. Becomes(b, r)
    BY <1>2, <2>1, <2>2, <2>3, <2>4, Zenon DEF Becomes
  <2> QED BY <1>2, <2>1, <2>5, SameSourcesKeep
<1> QED BY <1>1, <1>2, Zenon DEF Build, BuildStatic

LEMMA StartTcpKeeps ==
    ASSUME SetupInv, NEW b \in Builders, NEW static \in BOOLEAN, StartTcp(b, static)
    PROVE  SetupInv'
<1>0. builder[b] \in BuilderRecords /\ builder \in [Builders -> BuilderRecords] /\ UNCHANGED taken
  BY Zenon DEF SetupInv, SetupTypes, StartTcp
<1>1. CASE FailSetup(b, table)
  BY <1>0, <1>1, FailKeeps, Zenon
<1>2. ASSUME UnixOnly(b) \/ FdOf(builder[b].tcp) # {}, builder' = [builder EXCEPT ![b].stage = "starting"],
             UNCHANGED <<activation, settings, table, taken>>
      PROVE  SetupInv'
  <2> DEFINE r == [builder[b] EXCEPT !.stage = "starting"]
  <2>1. r \in BuilderRecords /\ r.stage = "starting" /\ \A k \in Kinds : r[k] = builder[b][k]
    BY <1>0, Zenon DEF BuilderRecords, Kinds
  <2>2. builder' = [builder EXCEPT ![b] = r]
    BY <1>0, <1>2, Zenon
  <2>3. r.tcp \in Sockets /\ (r.tcp # <<>> \/ r.unix # <<>>)
    <3>1. builder[b].tcp \in Sources /\ r.tcp = builder[b].tcp /\ r.unix = builder[b].unix
      BY <1>0, Zenon DEF BuilderRecords
    <3>2. CASE UnixOnly(b)
      BY <3>1, <3>2, Zenon DEF UnixOnly, Sockets
    <3>3. CASE FdOf(builder[b].tcp) # {}
      BY <3>1, <3>3, FdOfSource, Zenon DEF Sources, Sockets
    <3> QED BY <1>2, <3>2, <3>3, Zenon
  <2> HIDE DEF r
  <2>4. Becomes(b, r)
    BY <1>2, <2>1, <2>2, <2>3, Zenon DEF Becomes, SetupTypes
  <2> QED BY <1>2, <2>1, <2>4, SameSourcesKeep
<1>3. ASSUME FdOf(builder[b].tcp) = {}, HasFree(table), UNCHANGED <<activation, settings, taken>>, NEW p \in Ports,
             table' = [table EXCEPT ![Lowest(table)] = [kind |-> "tcp", port |-> p]],
             builder' = [builder EXCEPT ![b].stage = "starting", ![b].tcp = <<"fd", Lowest(table)>>]
      PROVE  SetupInv'
  <2>0. PICK f : f = Lowest(table)
    BY Zenon
  <2>1. f \in Fds /\ table[f] = Closed
    BY <1>3, <2>0, LowestIsFree, Zenon DEF SetupInv
  <2> DEFINE r == [builder[b] EXCEPT !.stage = "starting", !.tcp = <<"fd", f>>]
             d == [kind |-> "tcp", port |-> p]
  <2>2. <<"fd", f>> \in Sockets /\ <<"fd", f>> \in Sources /\ <<"fd", f>> # <<>>
    BY <2>1, FdOfSource, Zenon DEF Sockets, Sources
  <2>3. /\ r \in BuilderRecords /\ r.stage = "starting" /\ r["tcp"] = <<"fd", f>> /\ r.tcp = <<"fd", f>>
        /\ \A k \in Kinds \ {"tcp"} : r[k] = builder[b][k]
    BY <1>0, <2>2, Zenon DEF BuilderRecords, Kinds
  <2>4. builder' = [builder EXCEPT ![b] = r]
    BY <1>0, <1>3, <2>0, Zenon
  <2>5. d \in Descriptors /\ d.kind = "tcp" /\ d.port \in Ports /\ table' = [table EXCEPT ![f] = d]
    BY <1>3, <2>0, SetupAssumption, Zenon DEF Descriptors
  <2>6. "tcp" \in Kinds /\ FdOf(builder[b]["tcp"]) = {}
    BY <1>3, Zenon DEF Kinds
  <2> HIDE DEF r, d
  <2>7. Becomes(b, r)
    BY <1>3, <2>2, <2>3, <2>4, Zenon DEF Becomes, SetupTypes
  <2> QED BY <2>1, <2>3, <2>5, <2>6, <2>7, NewSocketKeeps, Zenon
<1> QED BY <1>0, <1>1, <1>2, <1>3, Zenon DEF StartTcp

LEMMA TcpPortIsBound ==
    ASSUME SetupInv, NEW b \in Builders, builder[b].stage = "starting"
    PROVE  /\ builder[b] \in BuilderRecords /\ builder \in [Builders -> BuilderRecords]
           /\ builder[b].tcp \in Sockets /\ (builder[b].tcp # <<>> \/ builder[b].unix # <<>>)
           /\ TcpPort(b) \in Nat /\ (builder[b].tcp # <<>> => TcpPort(b) \in Ports)
<1>1. builder[b] \in BuilderRecords /\ builder \in [Builders -> BuilderRecords]
  BY Zenon DEF SetupInv, SetupTypes
<1>2. builder[b].tcp \in Sockets /\ (builder[b].tcp # <<>> \/ builder[b].unix # <<>>)
  BY Zenon DEF SetupInv, Listening
<1>3. ASSUME NEW f \in Fds, builder[b].tcp = <<"fd", f>> PROVE table[f].port \in Ports
  <2>1. f \in FdOf(builder[b]["tcp"]) /\ "tcp" \in Kinds
    BY <1>3, FdOfSource, Zenon DEF Kinds
  <2> QED BY <2>1, Zenon DEF SetupInv, Ownership, Listening
<1>4. CASE builder[b].tcp = <<>>
  BY <1>1, <1>2, <1>4, Zenon DEF TcpPort
<1>5. CASE builder[b].tcp # <<>>
  <2>1. PICK f \in Fds : builder[b].tcp = <<"fd", f>>
    BY <1>2, <1>5, Zenon DEF Sockets
  <2>2. TcpPort(b) = table[f].port
    BY <1>5, <2>1, FdOfSource, Zenon DEF TcpPort
  <2> QED BY <1>1, <1>2, <1>3, <2>1, <2>2, SetupAssumption, Zenon
<1> QED BY <1>4, <1>5, Zenon

\* A server that starts gets the promises: what start_with_service refuses
\* and what it binds make up for what the builder calls left open.
LEMMA StartsAsAsked ==
    ASSUME SetupInv, NEW b \in Builders, builder[b].stage = "starting", Startable(b), UNCHANGED settings,
           NEW r \in BuilderRecords, builder' = [builder EXCEPT ![b] = r],
           r.tcp = builder[b].tcp, r.unix = builder[b].unix,
           r.endpoints = Endpoints(b), r.origin = TcpPort(b),
           settings[b].http3 <=> r.udp # <<>>,
           \A f \in FdOf(r.udp) : settings[b].http3 => table'[f].port = TcpPort(b)
    PROVE  AsAsked(b)'
<1>1. builder'[b] = r
  BY Zenon DEF SetupInv, SetupTypes
<1>2. Endpoints(b)' = Endpoints(b)
  BY <1>1, Zenon DEF Endpoints
<1>3. Endpoints(b) # {} /\ ("tcp-0" \in Endpoints(b) <=> builder[b].tcp # <<>>)
  BY TcpPortIsBound, Zenon DEF Endpoints
<1>4. \A f \in FdOf(builder'[b].udp) : settings[b].http3 => table'[f].port = TcpPort(b)
  BY <1>1, Zenon
<1> QED BY <1>1, <1>2, <1>3, <1>4, TcpPortIsBound, Zenon DEF AsAsked, Startable, FdOf

LEMMA StartRestKeeps ==
    ASSUME SetupInv, NEW b \in Builders, StartRest(b)
    PROVE  SetupInv'
<1>0. builder[b].stage = "starting" /\ UNCHANGED taken
  BY Zenon DEF StartRest
<1>1. CASE FailSetup(b, table)
  BY <1>0, <1>1, FailKeeps, Zenon
<1>2. ASSUME Startable(b), ~ settings[b].http3 \/ builder[b].udp # <<>>,
             builder' = [builder EXCEPT ![b] = Serving(b)], UNCHANGED <<activation, settings, table>>
      PROVE  SetupInv'
  <2>1. PICK r : r = Serving(b)
    BY Zenon
  <2>2. /\ r \in BuilderRecords /\ r.stage = "running" /\ r.endpoints = Endpoints(b) /\ r.origin = TcpPort(b)
        /\ r.tcp = builder[b].tcp /\ r.unix = builder[b].unix /\ r.udp = builder[b].udp
        /\ \A k \in Kinds : r[k] = builder[b][k]
    BY <1>0, <2>1, TcpPortIsBound, Zenon DEF Serving, BuilderRecords, Kinds, Endpoints
  <2>3. builder' = [builder EXCEPT ![b] = r]
    BY <1>2, <2>1, Zenon
  <2>4. \A f \in FdOf(r.udp) : settings[b].http3 => table'[f].port = TcpPort(b)
    <3>1. r.udp \in Sockets
      BY <2>2, Zenon DEF BuilderRecords
    <3> QED BY <1>2, <2>2, <3>1, FdOfSource DEF Startable, Sockets
  <2>5. settings[b].http3 <=> r.udp # <<>>
    BY <1>2, <2>2, Zenon DEF Startable
  <2>6. AsAsked(b)'
    BY <1>0, <1>2, <2>2, <2>3, <2>4, <2>5, StartsAsAsked, Zenon
  <2>7. r.tcp \in Sockets /\ (r.tcp # <<>> \/ r.unix # <<>>)
    BY <1>0, <2>2, TcpPortIsBound, Zenon
  <2>8. Becomes(b, r)
    BY <1>0, <1>2, <2>2, <2>3, <2>6, <2>7, Zenon DEF Becomes, SetupTypes
  <2> QED BY <1>2, <2>2, <2>8, SameSourcesKeep, Zenon
<1>3. ASSUME Startable(b), settings[b].http3, builder[b].udp = <<>>, HasFree(table),
             table' = [table EXCEPT ![Lowest(table)] = [kind |-> "udp", port |-> TcpPort(b)]],
             builder' = [builder EXCEPT ![b] = [Serving(b) EXCEPT !.udp = <<"fd", Lowest(table)>>]],
             UNCHANGED <<activation, settings>>
      PROVE  SetupInv'
  <2>0. PICK f : f = Lowest(table)
    BY Zenon
  <2>1. f \in Fds /\ table[f] = Closed /\ table \in [Fds -> Descriptors]
    BY <1>3, <2>0, LowestIsFree, Zenon DEF SetupInv, SetupTypes
  <2>2. PICK r : r = [Serving(b) EXCEPT !.udp = <<"fd", f>>]
    BY Zenon
  <2>3. PICK d : d = [kind |-> "udp", port |-> TcpPort(b)]
    BY Zenon
  <2>4. <<"fd", f>> \in Sockets /\ <<"fd", f>> # <<>> /\ FdOf(<<"fd", f>>) = {f}
    BY <2>1, FdOfSource, Zenon DEF Sockets
  <2>5. /\ r \in BuilderRecords /\ r.stage = "running" /\ r.endpoints = Endpoints(b) /\ r.origin = TcpPort(b)
        /\ r.tcp = builder[b].tcp /\ r.unix = builder[b].unix /\ r.udp = <<"fd", f>> /\ r["udp"] = <<"fd", f>>
        /\ \A k \in Kinds \ {"udp"} : r[k] = builder[b][k]
    BY <1>0, <2>2, <2>4, TcpPortIsBound, Zenon DEF Serving, BuilderRecords, Kinds, Endpoints
  <2>6. builder' = [builder EXCEPT ![b] = r]
    BY <1>3, <2>0, <2>2, Zenon
  <2>7. d \in Descriptors /\ d.kind = "udp" /\ d.port = TcpPort(b) /\ table' = [table EXCEPT ![f] = d]
    BY <1>0, <1>3, <2>0, <2>3, TcpPortIsBound, Zenon DEF Descriptors
  <2>8. \A g \in FdOf(r.udp) : settings[b].http3 => table'[g].port = TcpPort(b)
    BY <2>1, <2>4, <2>5, <2>7, Zenon
  <2>9. settings[b].http3 <=> r.udp # <<>>
    BY <1>3, <2>4, <2>5, Zenon
  <2>10. AsAsked(b)'
    BY <1>0, <1>3, <2>5, <2>6, <2>8, <2>9, StartsAsAsked, Zenon
  <2>11. r.tcp \in Sockets /\ (r.tcp # <<>> \/ r.unix # <<>>)
    BY <1>0, <2>5, TcpPortIsBound, Zenon
  <2>12. Becomes(b, r)
    BY <1>0, <1>3, <2>5, <2>6, <2>10, <2>11, Zenon DEF Becomes, SetupTypes
  <2>13. "udp" \in Kinds /\ FdOf(builder[b]["udp"]) = {}
    BY <1>3, FdOfSource, Zenon DEF Kinds
  <2>14. PICK k : k = "udp"
    BY Zenon
  <2>15. /\ k \in Kinds /\ FdOf(builder[b][k]) = {} /\ r[k] = <<"fd", f>> /\ d.kind = k
         /\ k = "tcp" => d.port \in Ports
         /\ \A j \in Kinds \ {k} : r[j] = builder[b][j]
    BY <2>5, <2>7, <2>13, <2>14, Zenon
  <2>16. d \in Descriptors /\ table' = [table EXCEPT ![f] = d]
    BY <2>7, Zenon
  <2> QED BY <2>1, <2>12, <2>15, <2>16, NewSocketKeeps, Zenon
<1> QED BY <1>0, <1>1, <1>2, <1>3, Zenon DEF StartRest

LEMMA EndKeeps ==
    ASSUME SetupInv, NEW b \in Builders, ServerEnds(b)
    PROVE  SetupInv'
<1>1. DOMAIN table = Fds
  BY Zenon DEF SetupInv, SetupTypes
<1>2. table' = [g \in Fds |-> IF g \in {} \cup OwnedFds(b) THEN Closed ELSE table[g]]
  BY <1>1, Zenon DEF ServerEnds, CloseFds
<1>3. taken' = taken \cup {f - 3 : f \in {}} /\ {} \in SUBSET Fds /\ \A g \in {} : Untaken(g)
  BY Zenon DEF ServerEnds
<1>4. PICK r : r = [Dropped EXCEPT !.stage = "ended"]
  BY Zenon
<1>5. builder' = [builder EXCEPT ![b] = r] /\ UNCHANGED <<activation, settings>>
  BY <1>4, Zenon DEF ServerEnds
<1> QED BY <1>2, <1>3, <1>4, <1>5, DropKeeps, Zenon

LEMMA SetupInitHolds == SetupInit => SetupInv
<1> SUFFICES ASSUME SetupInit PROVE SetupInv
  BY Zenon
<1>1. NewBuilder \in BuilderRecords /\ NewBuilder.stage = "building" /\ \A k \in Kinds : NewBuilder[k] = <<>>
  BY DEF NewBuilder, BuilderRecords, Sources, Sockets, Kinds
<1>2. \A b \in Builders : builder[b] = NewBuilder
  BY Zenon DEF SetupInit
<1>3. \A b \in Builders : \A f : ~ Holds(builder[b], f)
  BY <1>1, <1>2, FdOfSource, Zenon DEF Holds
<1>4. \A f \in Fds : f - 2 \in Nat \ {0} /\ (f - 2 <= Len(Inherited) <=> f - 3 < Len(Inherited))
  BY SetupAssumption DEF Fds
<1>5. \A i \in 1 .. Len(Inherited) :
        /\ Inherited[i] \in [kind : {"tcp", "unix", "udp", "vsock", "other"}, port : Nat]
        /\ Inherited[i].kind = "tcp" => Inherited[i].port \in Ports
  <2> DEFINE K == [kind : {"tcp", "unix", "udp", "vsock", "other"}, port : Nat]
  <2>1. Inherited \in Seq(K) /\ \A i \in 1 .. Len(Inherited) : Inherited[i].kind = "tcp" => Inherited[i].port \in Ports
    BY SetupAssumption, Zenon
  <2> HIDE DEF K
  <2>2. \A i \in 1 .. Len(Inherited) : Inherited[i] \in K
    BY <2>1
  <2> QED BY <2>1, <2>2, Zenon DEF K
<1>6. \A f \in Fds : \/ /\ ~ Untaken(f) /\ table[f] = Closed
                       \/ /\ Untaken(f) /\ table[f] \in [kind : {"tcp", "unix", "udp", "vsock", "other"}, port : Nat]
                          /\ table[f].kind = "tcp" => table[f].port \in Ports
  <2> TAKE f \in Fds
  <2>1. table[f] = IF f - 2 <= Len(Inherited) THEN Inherited[f - 2] ELSE Closed
    BY Zenon DEF SetupInit
  <2>2. Untaken(f) <=> f - 2 <= Len(Inherited)
    BY <1>4, Zenon DEF Untaken, SetupInit
  <2>3. f - 2 <= Len(Inherited) => f - 2 \in 1 .. Len(Inherited)
    <3>1. f \in Int /\ f - 2 >= 1 /\ Len(Inherited) \in Nat
      BY SetupAssumption DEF Fds
    <3> QED BY <3>1
  <2> QED BY <1>5, <2>1, <2>2, <2>3, Zenon
<1>7. table \in [Fds -> Descriptors]
  BY <1>6, Zenon DEF SetupInit, Descriptors
<1>8. SetupTypes
  BY <1>1, <1>7, SetupAssumption, Zenon DEF SetupInit, SetupTypes
<1>9. Ownership
  <2>1. \A f \in Fds : Untaken(f) => table[f] # Closed
    BY <1>6 DEF Closed
  <2>2. \A b \in Builders, k \in Kinds : FdOf(builder[b][k]) = {}
    BY <1>1, <1>2, FdOfSource, Zenon
  <2> QED BY <1>3, <1>6, <2>1, <2>2, Zenon DEF Ownership
<1>10. Listening
  BY <1>1, <1>2, <1>6 DEF Listening, Closed
<1>11. RunningAsAsked
  BY <1>1, <1>2, Zenon DEF RunningAsAsked
<1> QED BY <1>8, <1>9, <1>10, <1>11, Zenon DEF SetupInv

LEMMA SetupInvImplies == SetupInv => SetupIsSound
<1> SUFFICES ASSUME SetupInv PROVE DescriptorsOwnedOnce
  BY Zenon DEF SetupInv, SetupIsSound
<1>1. \A b \in Builders : \A f : f \in OwnedFds(b) <=> Holds(builder[b], f)
  BY OwnedIsHeld, Zenon DEF SetupInv
<1>2. \A b \in Builders : \A f : Holds(builder[b], f) => f \in Fds
  BY Zenon DEF SetupInv, Ownership, Holds
<1>3. \A b, c \in Builders : b # c => OwnedFds(b) \cap OwnedFds(c) = {}
  BY <1>1, <1>2, Zenon DEF SetupInv, Ownership
<1>4. \A b \in Builders : /\ \A f \in FdOf(builder[b].tcp) : table[f].kind = "tcp"
                          /\ \A f \in FdOf(builder[b].unix) : table[f].kind = "unix"
                          /\ \A f \in FdOf(builder[b].udp) : table[f].kind = "udp"
  BY Zenon DEF SetupInv, Ownership, Kinds
<1>5. \A f \in Fds : table[f] = Closed \/ (\E b \in Builders : f \in OwnedFds(b))
                      \/ (f - 3 < Len(Inherited) /\ f - 3 \notin taken)
  BY <1>1, Zenon DEF SetupInv, Ownership, Untaken
<1> QED BY <1>3, <1>4, <1>5, Zenon DEF DescriptorsOwnedOnce

\* Every descriptor has one owner, and a running server is the one that was
\* asked for (listener.rs, server/mod.rs start_with_service): for every set of
\* builders, every table of inherited descriptors and every order of the
\* calls, as long as an inherited index is adopted at most once (the contract
\* of the two adopting calls; without it the index is adopted again).
THEOREM SetupsAreSound ==
    ASSUME ~ AdoptAgain
    PROVE  SetupSpec => []SetupIsSound
<1>1. SetupInv /\ [SetupNext]_setupVars => SetupInv'
  <2> SUFFICES ASSUME SetupInv, [SetupNext]_setupVars PROVE SetupInv'
    BY Zenon
  <2>1. ASSUME NEW b \in Builders, Listen(b) PROVE SetupInv'
    BY <2>1, ListenKeeps, Zenon
  <2>2. ASSUME NEW b \in Builders, Bring(b) PROVE SetupInv'
    BY <2>2, BuildKeeps, StartTcpKeeps, StartRestKeeps, EndKeeps, Zenon DEF Bring
  <2>3. CASE UNCHANGED setupVars
    <3>1. UNCHANGED <<activation, settings, table, builder, taken>>
      BY <2>3, Zenon DEF setupVars
    <3>2. SetupTypes' /\ Ownership'
      BY <3>1 DEF SetupInv, SetupTypes, Ownership, Holds, Untaken, FdOf
    <3>3. Listening' /\ RunningAsAsked'
      BY <3>1, Zenon DEF SetupInv, Listening, RunningAsAsked, Endpoints, FdOf
    <3> QED BY <3>2, <3>3, Zenon DEF SetupInv
  <2> QED BY <2>1, <2>2, <2>3, Zenon DEF SetupNext
<1> QED BY <1>1, SetupInitHolds, SetupInvImplies, PTL DEF SetupSpec

-----------------------------------------------------------------------------
(* Request intake.  A dispatched request passed every check of the table,  *)
(* since the first that fails is the answer and no answer has status 0.    *)

IntakeChecks == [status : Nat, close : BOOLEAN]

\* No failure means that every check of both tables passed.
LEMMA NoFailure ==
    ASSUME NEW a \in Seq(IntakeChecks), NEW b \in Seq(IntakeChecks), FirstFailure(a \o b) = <<>>
    PROVE  /\ \A i \in 1..Len(a) : a[i].status = 0
           /\ \A i \in 1..Len(b) : b[i].status = 0
<1> DEFINE c == a \o b
           refused == {i \in DOMAIN c : c[i].status # 0}
<1>1. refused = {}
  <2>1. \A x : <<x>> # <<>>
    BY Zenon
  <2> QED BY <2>1, Zenon DEF FirstFailure
<1>2. \A i \in 1..Len(a) : i \in DOMAIN c /\ c[i] = a[i]
  OBVIOUS
<1>3. \A i \in 1..Len(b) : Len(a) + i \in DOMAIN c /\ c[Len(a) + i] = b[i]
  OBVIOUS
<1> HIDE DEF c
<1> QED BY <1>1, <1>2, <1>3

\* A failure is one of the checks that fail, so it has a status.
LEMMA FailureAnswers ==
    ASSUME NEW c \in Seq(IntakeChecks), FirstFailure(c) # <<>>
    PROVE  FirstFailure(c)[1].status # 0
<1> DEFINE refused == {i \in DOMAIN c : c[i].status # 0}
           first == CHOOSE i \in refused : \A j \in refused : i <= j
<1>1. refused # {} /\ FirstFailure(c) = <<c[first]>>
  BY Zenon DEF FirstFailure
<1>2. refused \in SUBSET Nat
  OBVIOUS
<1>3. \E i \in refused : \A j \in refused : i <= j
  <2> HIDE DEF refused
  <2> QED BY <1>1, <1>2, LeastNatural, Zenon
<1>4. first \in refused
  <2> HIDE DEF refused
  <2> QED BY <1>3, Zenon
<1>5. c[first].status # 0
  BY <1>4, Zenon
<1> HIDE DEF first
<1> QED BY <1>1, <1>5

LEMMA CheckIsTyped ==
    ASSUME NEW fails, NEW status \in Nat, NEW close \in BOOLEAN
    PROVE  Check(fails, status, close) \in IntakeChecks
BY Zenon DEF Check, IntakeChecks

LEMMA HeadChecksAreTyped ==
    ASSUME NEW r, NEW l
    PROVE  convert_request_head(r, l) \in Seq(IntakeChecks) /\ Len(convert_request_head(r, l)) = 14
<1> DEFINE c1 == Check(r.method = "bad", 400, KeepAlive)
           c2 == Check(r.version \notin {"1.0", "1.1"}, 505, KeepAlive)
           c3 == Check(Exceeds(r.target_len, l.max_target), 414, KeepAlive)
           c4 == Check(r.uri # <<>> /\ Exceeds(r.uri_len, l.max_target), 414, KeepAlive)
           c5 == Check(r.form = "absolute" /\ ~ l.absolute, 400, KeepAlive)
           c6 == Check(r.form = "asterisk", 405, KeepAlive)
           c7 == Check(r.form = "authority" /\ ~ is_connect_authority_form(r), 405, KeepAlive)
           c8 == Check(~ target_parses(r), 400, KeepAlive)
           c9 == Check(Exceeds(r.header_bytes, l.max_header), 431, KeepAlive)
           c10 == Check(~ r.fields_valid, 400, KeepAlive)
           c11 == Check(host_invalid(r), 400, KeepAlive)
           c12 == Check(r.uri # <<>> /\ ~ Authority_parse(r.uri[1]), 400, KeepAlive)
           c13 == Check(host_conflict(r), 400, KeepAlive)
           c14 == Check(authority_conflict(r), 400, KeepAlive)
<1>1. convert_request_head(r, l) = <<c1, c2, c3, c4, c5, c6, c7, c8, c9, c10, c11, c12, c13, c14>>
  BY Zenon DEF convert_request_head
<1>2. KeepAlive \in BOOLEAN
  BY Zenon DEF KeepAlive
<1>3. c1 \in IntakeChecks /\ c2 \in IntakeChecks /\ c3 \in IntakeChecks /\ c4 \in IntakeChecks /\ c5 \in IntakeChecks
  BY <1>2, CheckIsTyped
<1>4. c6 \in IntakeChecks /\ c7 \in IntakeChecks /\ c8 \in IntakeChecks /\ c9 \in IntakeChecks /\ c10 \in IntakeChecks
  BY <1>2, CheckIsTyped
<1>5. c11 \in IntakeChecks /\ c12 \in IntakeChecks /\ c13 \in IntakeChecks /\ c14 \in IntakeChecks
  BY <1>2, CheckIsTyped
<1> HIDE DEF c1, c2, c3, c4, c5, c6, c7, c8, c9, c10, c11, c12, c13, c14
<1> QED BY <1>1, <1>3, <1>4, <1>5

LEMMA ContentChecksAreTyped ==
    ASSUME NEW r, NEW policy
    PROVE  intake_checks(r, policy) \in Seq(IntakeChecks) /\ Len(intake_checks(r, policy)) = 6
<1> DEFINE large == policy.kind # "Reject" /\ Exceeds(IF declared_length(r) = <<>> THEN 0 ELSE declared_length(r)[1],
                                                      <<policy.max>>)
           invited == policy.kind = "Reject" /\ expects_continue(r)
           given == policy.kind = "Reject" /\ has_body(r)
           c1 == Check(trace_with_content(r), 400, CloseAndCancel)
           c2 == Check(~ validate_body_framing(r), 400, KeepAlive)
           c3 == Check(large, 413, CloseAndCancel)
           c4 == Check(unknown_expect(r), 417, KeepAlive)
           c5 == Check(invited, 413, CloseAndCancel)
           c6 == Check(given, 413, CloseAndCancel)
<1>1. intake_checks(r, policy) = <<c1, c2, c3, c4, c5, c6>>
  BY Zenon DEF intake_checks
<1>2. c1 \in IntakeChecks /\ c2 \in IntakeChecks /\ c3 \in IntakeChecks /\ c4 \in IntakeChecks /\ c5 \in IntakeChecks /\ c6 \in IntakeChecks
  <2> HIDE DEF large, invited, given
  <2> QED BY DEF Check, IntakeChecks, KeepAlive, CloseAndCancel
<1> HIDE DEF c1, c2, c3, c4, c5, c6
<1> QED BY <1>1, <1>2

LEMMA CheckPasses ==
    ASSUME NEW fails, NEW status \in Nat \ {0}, NEW close, Check(fails, status, close).status = 0
    PROVE  ~ fails
BY Zenon DEF Check

\* What the head conversion leaves: the ceilings are kept and the hosts agree.
LEMMA HeadPassed ==
    ASSUME NEW r, NEW l, \A i \in 1..14 : convert_request_head(r, l)[i].status = 0
    PROVE  /\ ~ Exceeds(r.target_len, l.max_target) /\ ~ Exceeds(r.header_bytes, l.max_header)
           /\ ~ host_invalid(r) /\ ~ host_conflict(r) /\ ~ authority_conflict(r)
<1> DEFINE t == convert_request_head(r, l)
<1>1. /\ t[3] = Check(Exceeds(r.target_len, l.max_target), 414, KeepAlive)
      /\ t[9] = Check(Exceeds(r.header_bytes, l.max_header), 431, KeepAlive)
      /\ t[11] = Check(host_invalid(r), 400, KeepAlive)
      /\ t[13] = Check(host_conflict(r), 400, KeepAlive)
      /\ t[14] = Check(authority_conflict(r), 400, KeepAlive)
  BY DEF convert_request_head
<1>2. t[3].status = 0 /\ t[9].status = 0 /\ t[11].status = 0 /\ t[13].status = 0 /\ t[14].status = 0
  OBVIOUS
<1> HIDE DEF t
<1> QED BY <1>1, <1>2, CheckPasses

\* What the later checks leave.
LEMMA ContentPassed ==
    ASSUME NEW r, NEW policy, \A i \in 1..6 : intake_checks(r, policy)[i].status = 0
    PROVE  /\ validate_body_framing(r) /\ ~ unknown_expect(r)
           /\ ~ (policy.kind # "Reject" /\ Exceeds(IF declared_length(r) = <<>> THEN 0 ELSE declared_length(r)[1],
                                                   <<policy.max>>))
           /\ ~ (policy.kind = "Reject" /\ expects_continue(r)) /\ ~ (policy.kind = "Reject" /\ has_body(r))
<1> DEFINE t == intake_checks(r, policy)
           large == policy.kind # "Reject" /\ Exceeds(IF declared_length(r) = <<>> THEN 0 ELSE declared_length(r)[1],
                                                      <<policy.max>>)
           invited == policy.kind = "Reject" /\ expects_continue(r)
           sent == policy.kind = "Reject" /\ has_body(r)
<1>1. /\ t[2] = Check(~ validate_body_framing(r), 400, KeepAlive)
      /\ t[3] = Check(large, 413, CloseAndCancel)
      /\ t[4] = Check(unknown_expect(r), 417, KeepAlive)
      /\ t[5] = Check(invited, 413, CloseAndCancel)
      /\ t[6] = Check(sent, 413, CloseAndCancel)
  BY Zenon DEF intake_checks
<1>2. t[2].status = 0 /\ t[3].status = 0 /\ t[4].status = 0 /\ t[5].status = 0 /\ t[6].status = 0
  OBVIOUS
<1>3. ~ large /\ ~ invited /\ ~ sent /\ ~ ~ validate_body_framing(r) /\ ~ unknown_expect(r)
  <2> HIDE DEF t, large, invited, sent
  <2>1. ~ ~ validate_body_framing(r) /\ ~ unknown_expect(r)
    BY <1>1, <1>2 DEF Check
  <2>2. ~ large
    BY <1>1, <1>2 DEF Check
  <2>3. ~ invited /\ ~ sent
    BY <1>1, <1>2 DEF Check
  <2> QED BY <2>1, <2>2, <2>3, Zenon
<1> QED BY <1>3, Zenon

IntakeInv ==
    /\ incoming \in IntakeRequests /\ limits \in IntakePolicies /\ wanted \in ServicePolicies
    /\ DispatchIsSound

\* The host lines and the target of a request that passed name one authority.
LEMMA OneAuthority ==
    ASSUME NEW r \in IntakeRequests, ~ host_invalid(r), ~ host_conflict(r), ~ authority_conflict(r)
    PROVE  /\ \A a, b \in Authorities(r) : a = b
           /\ "bad" \notin {r.hosts[i] : i \in DOMAIN r.hosts}
<1> DEFINE names == {r.hosts[i] : i \in DOMAIN r.hosts} \cup {r.uri[i] : i \in DOMAIN r.uri}
<1>1. r.uri \in Seq(STRING) /\ Len(r.uri) <= 1 /\ r.hosts \in Seq(STRING)
  BY IntakeAssumption, Zenon
<1>2. "bad" \notin {r.hosts[i] : i \in DOMAIN r.hosts}
  BY Zenon DEF host_invalid, Authority_parse
<1>3. \A i \in DOMAIN r.hosts : r.hosts[i] = r.hosts[1]
  BY Zenon DEF host_conflict
<1>4. \A i \in DOMAIN r.uri : i = 1 /\ r.uri # <<>>
  BY <1>1
<1>5. \A i \in DOMAIN r.hosts : r.hosts # <<>>
  BY <1>1
<1>6. r.uri # <<>> /\ r.hosts # <<>> => r.uri[1] = r.hosts[1]
  BY Zenon DEF authority_conflict
<1>7. \E x : names \subseteq {x}
  <2>1. CASE r.hosts # <<>>
    <3>1. names \subseteq {r.hosts[1]}
      BY <1>3, <1>4, <1>6, <2>1, Zenon
    <3> QED BY <3>1, Zenon
  <2>2. CASE r.hosts = <<>>
    <3>1. names \subseteq {r.uri[1]}
      BY <1>4, <1>5, <2>2, Zenon
    <3> QED BY <3>1, Zenon
  <2> QED BY <2>1, <2>2, Zenon
<1>8. PICK x : names \subseteq {x}
  BY <1>7, Zenon
<1> QED BY <1>2, <1>8, Zenon DEF Authorities

\* The policy a request runs under: no wider than the service or the runtime allows.
LEMMA PolicyNarrows ==
    ASSUME limits \in IntakePolicies, wanted \in ServicePolicies, effective_policy.kind # "Reject"
    PROVE  /\ effective_policy.max \in Nat /\ effective_policy.max <= wanted.max
           /\ limits.max_body # <<>> => effective_policy.max > 0 /\ effective_policy.max <= limits.max_body[1]
<1>1. wanted \in [kind : {"Reject", "Buffer", "Stream"}, max : Nat] /\ limits.max_body \in Seq(Nat)
  BY IntakeAssumption, Zenon
<1>2. CASE limits.max_body = <<>>
  <2>1. effective_policy = wanted
    BY <1>2, Zenon DEF effective_policy, select_body_policy_with_ceiling
  <2> QED BY <1>1, <1>2, <2>1
<1>3. CASE limits.max_body # <<>>
  <2> DEFINE m == limits.max_body[1]
             narrow == IF wanted.max < m THEN wanted.max ELSE m
  <2>1. m \in Nat
    BY <1>1, <1>3
  <2>2. effective_policy = IF wanted.kind = "Reject" \/ narrow = 0 THEN [kind |-> "Reject", max |-> 0]
                           ELSE [wanted EXCEPT !.max = narrow]
    BY <1>3, Zenon DEF effective_policy, select_body_policy_with_ceiling, select_body_policy
  <2>3. narrow \in Nat /\ narrow <= wanted.max /\ narrow <= m
    BY <1>1, <2>1
  <2> HIDE DEF narrow, m
  <2>4. effective_policy.max = narrow /\ narrow # 0
    BY <1>1, <2>2, Zenon
  <2> QED BY <2>3, <2>4 DEF m
<1> QED BY <1>2, <1>3, Zenon

LEMMA IntakeStepKeeps ==
    ASSUME IntakeInv, IntakeStep
    PROVE  DispatchIsSound'
<1> DEFINE head == convert_request_head(incoming, limits)
           rest == intake_checks(incoming, effective_policy)
<1>1. /\ incoming \in IntakeRequests /\ limits \in IntakePolicies /\ wanted \in ServicePolicies
      /\ incoming' = incoming /\ limits' = limits /\ wanted' = wanted
  BY Zenon DEF IntakeInv, IntakeStep
<1>2. head \in Seq(IntakeChecks) /\ Len(head) = 14 /\ rest \in Seq(IntakeChecks) /\ Len(rest) = 6
  BY HeadChecksAreTyped, ContentChecksAreTyped, Zenon
<1>3. CASE FirstFailure(head \o rest) # <<>>
  <2>1. head \o rest \in Seq(IntakeChecks)
    BY <1>2
  <2>2. FirstFailure(head \o rest)[1].status # 0
    BY <1>3, <2>1, FailureAnswers, Zenon
  <2>3. Refuse(FirstFailure(head \o rest)[1])
    BY <1>3, Zenon DEF IntakeStep
  <2> HIDE DEF head, rest
  <2>4. intake'[1].status # 0
    BY <2>2, <2>3, Zenon DEF Refuse
  <2> QED BY <2>4, Zenon DEF DispatchIsSound, DispatchedIsUnambiguous, DispatchedWithinLimits, TunnelHasNoBody, Dispatched
<1>4. CASE FirstFailure(head \o rest) = <<>>
  <2>1. Dispatch
    BY <1>4, Zenon DEF IntakeStep
  <2>2. (\A i \in 1..14 : head[i].status = 0) /\ (\A i \in 1..6 : rest[i].status = 0)
    <3> HIDE DEF head, rest
    <3> QED BY <1>2, <1>4, NoFailure, Zenon
  <2>3. /\ ~ Exceeds(incoming.target_len, limits.max_target)
        /\ ~ Exceeds(incoming.header_bytes, limits.max_header)
        /\ ~ host_invalid(incoming) /\ ~ host_conflict(incoming) /\ ~ authority_conflict(incoming)
    BY <2>2, HeadPassed, Zenon
  <2>4. /\ validate_body_framing(incoming) /\ ~ unknown_expect(incoming)
        /\ ~ (effective_policy.kind # "Reject"
              /\ Exceeds(IF declared_length(incoming) = <<>> THEN 0 ELSE declared_length(incoming)[1],
                         <<effective_policy.max>>))
        /\ ~ (effective_policy.kind = "Reject" /\ expects_continue(incoming))
        /\ ~ (effective_policy.kind = "Reject" /\ has_body(incoming))
    BY <2>2, ContentPassed, Zenon
  <2> HIDE DEF head, rest
  <2>5. /\ intake'[1].policy = effective_policy.kind /\ intake'[1].max = effective_policy.max
        /\ intake'[1].tunnel = classify_tunnel(incoming) /\ intake'[1].authority = authority_of(incoming)
    BY <2>1, Zenon DEF Dispatch
  <2>6. DispatchedIsUnambiguous'
    <3>1. /\ \A a, b \in Authorities(incoming) : a = b
          /\ "bad" \notin {incoming.hosts[i] : i \in DOMAIN incoming.hosts}
      BY <1>1, <2>3, OneAuthority, Zenon
    <3>2. Len(incoming.lengths) <= 1 /\ (incoming.te => incoming.lengths = <<>>)
      BY <2>4, Zenon DEF validate_body_framing
    <3>3. \A i \in DOMAIN incoming.expects : incoming.expects[i] \in {"100-continue", "empty"}
      BY <1>1, <2>4, IntakeAssumption DEF unknown_expect
    <3>4. Authorities(incoming)' = Authorities(incoming)
      BY <1>1, Zenon DEF Authorities
    <3> QED BY <1>1, <3>1, <3>2, <3>3, <3>4, Zenon DEF DispatchedIsUnambiguous
  <2>7. DispatchedWithinLimits'
    <3>1. intake'[1].policy = "Reject" => ~ has_body(incoming) /\ ~ expects_continue(incoming)
      BY <2>4, <2>5, Zenon
    <3>2. ASSUME intake'[1].policy # "Reject"
          PROVE  /\ intake'[1].max <= wanted.max /\ (limits.max_body # <<>> => intake'[1].max > 0)
                 /\ ~ Exceeds(intake'[1].max, limits.max_body)
                 /\ declared_length(incoming) # <<>> => declared_length(incoming)[1] <= intake'[1].max
      <4>1. effective_policy.kind # "Reject"
        BY <2>5, <3>2, Zenon
      <4>2. /\ effective_policy.max \in Nat /\ effective_policy.max <= wanted.max
            /\ limits.max_body # <<>> => effective_policy.max > 0 /\ effective_policy.max <= limits.max_body[1]
        BY <1>1, <4>1, PolicyNarrows, Zenon
      <4>3. limits.max_body # <<>> => limits.max_body[1] \in Nat
        BY <1>1, IntakeAssumption
      <4>4. ~ Exceeds(effective_policy.max, limits.max_body)
        BY <4>2, <4>3 DEF Exceeds
      <4>5. declared_length(incoming) # <<>> => declared_length(incoming)[1] \in Int
        BY <1>1, IntakeAssumption DEF declared_length
      <4>6. declared_length(incoming) # <<>> => declared_length(incoming)[1] <= effective_policy.max
        <5> SUFFICES ASSUME declared_length(incoming) # <<>>
                     PROVE  declared_length(incoming)[1] <= effective_policy.max
          BY Zenon
        <5>1. ~ Exceeds(declared_length(incoming)[1], <<effective_policy.max>>)
          BY <2>4, <4>1, Zenon
        <5>2. ~ (declared_length(incoming)[1] > effective_policy.max)
          BY <5>1, Zenon DEF Exceeds
        <5> QED BY <4>2, <4>5, <5>2
      <4> QED BY <2>5, <4>2, <4>4, <4>6, Zenon
    <3>3. /\ (has_body(incoming))' = has_body(incoming)
          /\ (expects_continue(incoming))' = expects_continue(incoming)
          /\ (declared_length(incoming))' = declared_length(incoming)
      BY <1>1, Zenon DEF has_body, expects_continue, declared_length
    <3> QED BY <1>1, <2>3, <3>1, <3>2, <3>3, Zenon DEF DispatchedWithinLimits, Exceeds
  <2>8. TunnelHasNoBody'
    <3>1. ASSUME classify_tunnel(incoming) # "none"
          PROVE  /\ ~ has_body(incoming) /\ incoming.version = "1.1"
                 /\ classify_tunnel(incoming) = "Connect" => authority_of(incoming) # <<>>
      BY <3>1, Zenon DEF classify_tunnel
    <3>2. ASSUME ~ has_body(incoming)
          PROVE  ~ incoming.te /\ (declared_length(incoming) = <<>> \/ declared_length(incoming)[1] = 0)
      <4>1. declared_length(incoming) # <<>> => declared_length(incoming)[1] \in Nat
        BY <1>1, IntakeAssumption DEF declared_length
      <4> QED BY <3>2, <4>1 DEF has_body
    <3>3. (declared_length(incoming))' = declared_length(incoming)
      BY <1>1, Zenon DEF declared_length
    <3> QED BY <1>1, <2>5, <3>1, <3>2, <3>3, Zenon DEF TunnelHasNoBody
  <2> QED BY <2>6, <2>7, <2>8, Zenon DEF DispatchIsSound
<1> QED BY <1>3, <1>4, Zenon

\* A dispatched request has one meaning (pipeline.rs): for any requests, connection
\* policies and services, what reaches the service names one authority, has one
\* body length within the narrower of both limits, asks for no expectation the
\* runtime does not keep, and gets a tunnel only with no body pending.
THEOREM DispatchesAreSound == IntakeSpec => []DispatchIsSound
<1>1. IntakeInit => IntakeInv
  BY Zenon DEF IntakeInit, IntakeInv, DispatchIsSound, DispatchedIsUnambiguous, DispatchedWithinLimits,
         TunnelHasNoBody, Dispatched
<1>2. IntakeInv /\ [IntakeNext]_intakeVars => IntakeInv'
  <2> SUFFICES ASSUME IntakeInv, [IntakeNext]_intakeVars PROVE IntakeInv'
    BY Zenon
  <2>1. CASE IntakeStep
    <3>1. incoming' = incoming /\ limits' = limits /\ wanted' = wanted
      BY <2>1, Zenon DEF IntakeStep
    <3> QED BY <2>1, <3>1, IntakeStepKeeps, Zenon DEF IntakeInv
  <2>2. CASE UNCHANGED intakeVars
    BY <2>2 DEF intakeVars, IntakeInv, DispatchIsSound, DispatchedIsUnambiguous, DispatchedWithinLimits,
                TunnelHasNoBody, Dispatched, Exceeds, has_body, expects_continue, declared_length
  <2> QED BY <2>1, <2>2, Zenon DEF IntakeNext
<1>3. IntakeInv => DispatchIsSound
  BY Zenon DEF IntakeInv
<1> QED BY <1>1, <1>2, <1>3, PTL DEF IntakeSpec

-----------------------------------------------------------------------------
(* Proof that the parser of directory buffers stays inside the buffer,     *)
(* moves on, and keeps to its budget, for every size, budget and kernel.   *)

ParsedEntries == [name : STRING, kind : STRING]

DirTypes ==
    /\ entriesOf \in Directories
    /\ max_entries \in Nat /\ total_len \in Nat /\ offset \in Nat /\ visited \in Nat
    /\ entries \in Seq(ParsedEntries) /\ all_entries \in Seq(ParsedEntries)

(***************************************************************************)
(* The inductive invariant: besides the types, a buffer is only read while *)
(* the entries it has given leave room in the budget.                      *)
(***************************************************************************)
DirInv ==
    /\ DirTypes
    /\ ParserStaysInside
    /\ dirPc = "parse" => Len(all_entries) + Len(entries) < max_entries

\* A record the parser meets has the fields of one, whoever wrote it.
LEMMA RecordIsTyped ==
    ASSUME DirTypes, NEW r \in RecordsHere
    PROVE  r.next \in Nat /\ [name |-> r.name, kind |-> r.kind] \in ParsedEntries
<1>1. CASE faithful
  <2>1. PICK k \in 1..Len(entriesOf) : r = RecordOf(k)
    BY <1>1 DEF RecordsHere
  <2>2. entriesOf[k] \in [name : STRING, kind : STRING, len : Nat]
    <3>1. entriesOf \in Seq([name : STRING, kind : STRING, len : Nat])
      BY BufferAssumption DEF DirTypes
    <3>2. \A S, s : s \in Seq(S) => \A i \in 1..Len(s) : s[i] \in S
      OBVIOUS
    <3> QED
      BY <3>1, <3>2, Zenon
  <2>3. RecordSize(entriesOf[k]) \in Nat
    BY <2>2, BufferAssumption DEF RecordSize
  <2> QED
    BY <2>1, <2>2, <2>3 DEF RecordOf, ParsedEntries
<1>2. CASE ~ faithful
  BY <1>2, BufferAssumption DEF RecordsHere, ParsedEntries
<1> QED
  BY <1>1, <1>2

\* The invariant holds of a listing that has not begun.
LEMMA DirInitHolds == DirInit => DirInv
BY BufferAssumption DEF DirInit, DirInv, DirTypes, ParserStaysInside

\* A record either ends the parse or moves it on by a header at least.
LEMMA ParseKeepsInside ==
    ASSUME DirInv, dirPc = "parse", NEW r \in RecordsHere, ParseRecord(r)
    PROVE  DirInv'
<1> DEFINE record == [name |-> r.name, kind |-> r.kind]
           parsed == IF Pseudo(r.name) THEN entries ELSE Append(entries, record)
           full   == ~ Pseudo(r.name) /\ Len(parsed) >= Remaining
<1>1. r.next \in Nat /\ record \in ParsedEntries
  BY RecordIsTyped DEF DirInv
<1>2. parsed \in Seq(ParsedEntries) /\ Len(parsed) <= Len(entries) + 1
      /\ (Pseudo(r.name) => parsed = entries)
  BY <1>1 DEF DirInv, DirTypes
<1>3. Len(all_entries) + Len(parsed) <= max_entries
  BY <1>2 DEF DirInv, DirTypes
<1>4. /\ visited' = visited + 1
      /\ UNCHANGED <<entriesOf, max_entries, total_len>>
  BY DEF ParseRecord
<1>5. CASE RecordError(r) # "none"
  BY <1>4, <1>5 DEF ParseRecord, DirInv, DirTypes, ParserStaysInside
<1>6. CASE RecordError(r) = "none" /\ (full \/ r.next = 0)
  <2>1. entries' = parsed /\ BatchParsed(parsed) /\ offset' = offset
    BY <1>6 DEF ParseRecord
  <2>2. all_entries' = all_entries \o parsed /\ dirPc' # "parse"
    BY <2>1 DEF BatchParsed
  <2>3. Len(all_entries') <= max_entries' /\ all_entries' \in Seq(ParsedEntries)
    BY <2>2, <1>2, <1>3, <1>4 DEF DirInv, DirTypes
  <2> QED
    BY <1>2, <1>4, <2>1, <2>2, <2>3 DEF DirInv, DirTypes, ParserStaysInside
<1>7. CASE RecordError(r) = "none" /\ ~ (full \/ r.next = 0)
  <2>1. entries' = parsed /\ all_entries' = all_entries
    BY <1>7 DEF ParseRecord
  <2>2. CASE advance_offset(offset, r.next, total_len) # "none"
    <3>1. dirPc' # "parse" /\ offset' = offset
      BY <1>7, <2>2 DEF ParseRecord
    <3> QED
      BY <1>2, <1>4, <2>1, <3>1 DEF DirInv, DirTypes, ParserStaysInside
  <2>3. CASE advance_offset(offset, r.next, total_len) = "none"
    <3>1. offset' = offset + r.next /\ dirPc' = dirPc
      BY <1>7, <2>3 DEF ParseRecord
    <3>2. offset + r.next < total_len /\ r.next >= HeaderSize
      BY <2>3, <1>1, BufferAssumption DEF advance_offset, DirInv, DirTypes
    <3>3. (visited + 1) * HeaderSize = visited * HeaderSize + HeaderSize
      BY BufferAssumption DEF DirInv, DirTypes
    <3>4. offset' < total_len' /\ visited' * HeaderSize <= offset'
      <4>1. visited * HeaderSize \in Nat
        BY BufferAssumption DEF DirInv, DirTypes
      <4> QED
        BY <1>1, <1>4, <3>1, <3>2, <3>3, <4>1, BufferAssumption DEF DirInv, DirTypes, ParserStaysInside
    <3>5. Len(all_entries) + Len(parsed) < max_entries
      BY <1>2, <1>7 DEF Remaining, DirInv, DirTypes
    <3> QED
      BY <1>1, <1>2, <1>4, <2>1, <3>1, <3>4, <3>5 DEF DirInv, DirTypes, ParserStaysInside
  <2> QED
    BY <2>2, <2>3
<1> QED
  BY <1>5, <1>6, <1>7

\* Every step keeps the invariant.
LEMMA DirStepKeeps == DirInv /\ [DirNext]_dirVars => DirInv'
<1> SUFFICES ASSUME DirInv, [DirNext]_dirVars
             PROVE  DirInv'
  OBVIOUS
<1>1. ASSUME NEW pc \in {"filter", "failed"}, StopQuery(pc)
      PROVE  DirInv'
  BY <1>1 DEF StopQuery, DirInv, DirTypes, ParserStaysInside
<1>2. CASE BudgetSpent \/ NoMoreFiles \/ QueryStatusFails
  BY <1>1, <1>2 DEF BudgetSpent, NoMoreFiles, QueryStatusFails
<1>3. CASE NtQueryDirectoryFile
  <2>1. PICK n, bytes : IF bytes \in 1..BufferSize THEN Filled(n, bytes) ELSE StopQuery("filter")
    BY <1>3 DEF NtQueryDirectoryFile
  <2>2. CASE bytes \in 1..BufferSize
    <3>1. Filled(n, bytes) /\ Len(all_entries) < max_entries
      BY <1>3, <2>1, <2>2 DEF NtQueryDirectoryFile, Asking
    <3>2. bytes \in Nat /\ bytes > 0 /\ 0 * HeaderSize = 0
      BY <2>2, BufferAssumption
    <3> QED
      BY <3>1, <3>2 DEF Filled, DirInv, DirTypes, ParserStaysInside
  <2> QED
    BY <1>1, <2>1, <2>2
<1>4. CASE list_directory_handle
  BY <1>4 DEF list_directory_handle, DirInv, DirTypes, ParserStaysInside
<1>5. CASE dirPc = "parse" /\ \E r \in RecordsHere : ParseRecord(r)
  BY <1>5, ParseKeepsInside
<1>6. CASE UNCHANGED dirVars
  BY <1>6 DEF dirVars, DirInv, DirTypes, ParserStaysInside
<1> QED
  BY <1>2, <1>3, <1>4, <1>5, <1>6 DEF DirNext

\* parse_directory_buffer never leaves the buffer it was given, whatever bytes
\* stand in it, reads at most total_len / HeaderSize records of it, and
\* enumerate_directory keeps to max_entries.
THEOREM DirectoryParserStaysInside == DirSpec => []ParserStaysInside
<1>1. DirInv => ParserStaysInside
  BY DEF DirInv
<1> QED
  BY <1>1, DirInitHolds, DirStepKeeps, PTL DEF DirSpec
=============================================================================
