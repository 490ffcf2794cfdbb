---------------------------- MODULE RequestProofs ----------------------------
(***************************************************************************)
(* Proofs about requests: the lifecycle of one, for any number of callers  *)
(* and waiters, and the HTTP/2 connection that counts, cancels and ends    *)
(* many of them at once, for any finite set of streams.                    *)
(***************************************************************************)
EXTENDS RequestLifecycle, Http2Connection, FiniteSetTheorems, TLAPS

-----------------------------------------------------------------------------
(* The lifecycle of one request                                            *)

\* Every step is a step of one caller or of one waiter.
OneStep ==
    \/ \E c \in Callers :
          \/ \E target \in Contract!BodyTerminal,
                r \in RequestCancellationReason \cup {NoReason} : Mark(c, target, r)
          \/ \E r \in RequestCancellationReason : CancelCall(c, r)
          \/ CallerStep(c)
    \/ \E w \in Waiters : WaiterStep(w) \/ PollByOtherArm(w)

\* Every step of Next is a compare_exchange, a cancel call, or the step of one
\* caller or waiter: the case split the invariance proofs use.
LEMMA NextIsStep == Next => OneStep
BY ReasonAssumption
   DEF Next, OneStep, NewCall, MarkComplete, MarkAbandoned, MarkFailed,
       MarkFailedWithReason, Contract!BodyTerminal

\* The fields of RequestShared and AsyncNotify, and the local state of the
\* tasks that use them, keep their types under every interleaving.
THEOREM TypeCorrect == Spec => []TypeOK
<1>1. Init => TypeOK
  <2> SUFFICES ASSUME Init PROVE TypeOK
    OBVIOUS
  <2>1. body_state \in BodyLifecycleState
    BY DEF Init, BodyLifecycleState, Contract!BodyLifecycleState
  <2>2. cancelled \in BOOLEAN /\ woken \in [Waiters -> BOOLEAN]
    BY Zenon DEF Init
  <2>3. /\ generation \in [Channels -> Nat]
        /\ waiters \in [Channels -> SUBSET Waiters]
        /\ snapshot \in [Waiters -> Nat]
        /\ taken \in [Callers -> SUBSET Waiters]
    BY DEF Init
  <2> QED BY <2>1, <2>2, <2>3 DEF Init, TypeOK, Channels, CallerPc, WaiterPc
<1>2. TypeOK /\ [Next]_vars => TypeOK'
  <2> SUFFICES ASSUME TypeOK, OneStep \/ UNCHANGED vars PROVE TypeOK'
    BY NextIsStep
  <2> USE DEF TypeOK, CallerPc, Channels
  <2>1. ASSUME NEW c \in Callers, NEW target \in Contract!BodyTerminal,
               NEW r \in RequestCancellationReason \cup {NoReason}, Mark(c, target, r)
        PROVE TypeOK'
    BY <2>1 DEF Mark, SwapBodyState, notify, waiter, BodyLifecycleState,
                Contract!BodyLifecycleState
  <2>2. ASSUME NEW c \in Callers, NEW r \in RequestCancellationReason, CancelCall(c, r)
        PROVE TypeOK'
    BY <2>2 DEF CancelCall, notify, waiter
  <2>3. ASSUME NEW c \in Callers, CallerStep(c) PROVE TypeOK'
    <3>1. CASE CancelAfterFailure(c)
      BY <3>1 DEF CancelAfterFailure, notify, waiter
    <3>2. CASE SetReason(c)
      BY <3>2 DEF SetReason, notify, waiter
    <3>3. CASE BumpGeneration(c)
      BY <3>3 DEF BumpGeneration, shared, waiter
    <3>4. CASE TakeWaiters(c)
      BY <3>4 DEF TakeWaiters, shared, waiter
    <3>5. CASE WakeOne(c)
      BY <3>5 DEF WakeOne, shared, notify
    <3>6. CASE NotifyReturns(c)
      BY <3>6 DEF NotifyReturns, AfterNotify, shared, notify, waiter
    <3> QED BY <2>3, <3>1, <3>2, <3>3, <3>4, <3>5, <3>6 DEF CallerStep
  <2>4. ASSUME NEW w \in Waiters, WaiterStep(w) \/ PollByOtherArm(w) PROVE TypeOK'
    <3> ChannelOf(w) \in Channels
      BY DEF ChannelOf
    <3> USE DEF WaiterPc
    <3>1. CASE CheckFlag(w)
      BY <3>1 DEF CheckFlag, Goto, shared, notify, caller
    <3>2. CASE Notified(w)
      BY <3>2 DEF Notified, Goto, shared, notify, caller
    <3>3. CASE PollGeneration(w)
      BY <3>3 DEF PollGeneration, Goto, shared, notify, caller
    <3>4. CASE RegisterWaker(w)
      BY <3>4 DEF RegisterWaker, Goto, shared, caller
    <3>5. CASE RecheckGeneration(w)
      BY <3>5 DEF RecheckGeneration, Goto, shared, notify, caller
    <3>6. CASE Rewake(w)
      BY <3>6 DEF Rewake, Goto, shared, notify, caller
    <3>7. CASE PollByOtherArm(w)
      BY <3>7 DEF PollByOtherArm, Goto, shared, notify, caller
    <3> QED BY <2>4, <3>1, <3>2, <3>3, <3>4, <3>5, <3>6, <3>7 DEF WaiterStep
  <2>5. CASE UNCHANGED vars
    BY <2>5 DEF vars, shared, notify, caller, waiter
  <2> QED BY <2>1, <2>2, <2>3, <2>4, <2>5 DEF OneStep
<1> QED BY <1>1, <1>2, PTL DEF Spec

-----------------------------------------------------------------------------
(* No registered waiter is stranded.  The property is not inductive: when  *)
(* the generation moves, the parked task must still be known to somebody.  *)

\* The waker of w is listed, held by a caller that is firing wakers, or fired.
WakerKnown(w) ==
    \/ w \in waiters[ChannelOf(w)]
    \/ woken[w]
    \/ \E c \in Callers : pc[c] = "wake" /\ w \in taken[c]

\* Every task past its registration can still be reached by a notification.
ParkedAreKnown ==
    \A w \in Waiters : wpc[w] \in {"recheck", "asleep"} => WakerKnown(w)

\* The inductive invariant behind NoLostRegisteredWake.
WakeInv == TypeOK /\ ParkedAreKnown /\ NoLostRegisteredWake

\* A caller's step leaves the invariant intact.
LEMMA CallerKeepsWakers ==
    ASSUME WakeInv, TypeOK', NEW c \in Callers, CallerStep(c)
    PROVE  ParkedAreKnown' /\ NoLostRegisteredWake'
<1> USE DEF WakeInv, ParkedAreKnown, NoLostRegisteredWake, WakerKnown, WakeOnItsWay,
            GenerationMoved
<1>0. \A w \in Waiters : ChannelOf(w) \in Channels
  BY DEF ChannelOf, Channels
<1>1. CASE CancelAfterFailure(c)
  BY <1>1 DEF CancelAfterFailure, notify, waiter, TypeOK, ChannelOf
<1>2. CASE SetReason(c)
  BY <1>2 DEF SetReason, notify, waiter, TypeOK, ChannelOf
<1>3. CASE BumpGeneration(c)
  BY <1>0, <1>3 DEF BumpGeneration, shared, waiter, TypeOK, ChannelOf
<1>4. CASE TakeWaiters(c)
  BY <1>0, <1>4 DEF TakeWaiters, shared, waiter, TypeOK, ChannelOf
<1>5. CASE WakeOne(c)
  BY <1>0, <1>5 DEF WakeOne, shared, notify, TypeOK, ChannelOf
<1>6. CASE NotifyReturns(c)
  BY <1>6 DEF NotifyReturns, AfterNotify, shared, notify, waiter, TypeOK, ChannelOf
<1> QED BY <1>1, <1>2, <1>3, <1>4, <1>5, <1>6 DEF CallerStep

\* A waiter's own step leaves the invariant intact.
LEMMA WaiterKeepsWakers ==
    ASSUME WakeInv, TypeOK', NEW w \in Waiters, WaiterStep(w) \/ PollByOtherArm(w)
    PROVE  ParkedAreKnown' /\ NoLostRegisteredWake'
<1> USE DEF WakeInv, ParkedAreKnown, NoLostRegisteredWake, WakerKnown, WakeOnItsWay,
            GenerationMoved
<1>0. \A v \in Waiters : ChannelOf(v) \in Channels
  BY DEF ChannelOf, Channels
<1>1. CASE CheckFlag(w)
  BY <1>1 DEF CheckFlag, Goto, shared, notify, caller, TypeOK, ChannelOf
<1>2. CASE Notified(w)
  BY <1>2 DEF Notified, Goto, shared, notify, caller, TypeOK, ChannelOf
<1>3. CASE PollGeneration(w)
  BY <1>3 DEF PollGeneration, Goto, shared, notify, caller, TypeOK, ChannelOf
<1>4. CASE RegisterWaker(w)
  BY <1>0, <1>4 DEF RegisterWaker, Goto, shared, caller, TypeOK, ChannelOf
<1>5. CASE RecheckGeneration(w)
  BY <1>5 DEF RecheckGeneration, Goto, shared, notify, caller, TypeOK, ChannelOf
<1>6. CASE Rewake(w)
  BY <1>6 DEF Rewake, Goto, shared, notify, caller, TypeOK, ChannelOf
<1>7. CASE PollByOtherArm(w)
  BY <1>7 DEF PollByOtherArm, Goto, shared, notify, caller, TypeOK, ChannelOf
<1> QED BY <1>1, <1>2, <1>3, <1>4, <1>5, <1>6, <1>7 DEF WaiterStep

\* notify_waiters reaches every task parked before it: for any number of
\* callers and waiters, a parked task whose snapshot is out of date has a wake
\* on its way.
THEOREM RegisteredWakesReachTheirTask == Spec => []NoLostRegisteredWake
<1>1. Init => ParkedAreKnown /\ NoLostRegisteredWake
  BY DEF Init, ParkedAreKnown, NoLostRegisteredWake
<1>2. WakeInv /\ TypeOK' /\ [Next]_vars => ParkedAreKnown' /\ NoLostRegisteredWake'
  <2> SUFFICES ASSUME WakeInv, TypeOK', OneStep \/ UNCHANGED vars
               PROVE  ParkedAreKnown' /\ NoLostRegisteredWake'
    BY NextIsStep
  <2> USE DEF WakeInv, ParkedAreKnown, NoLostRegisteredWake, WakerKnown,
              WakeOnItsWay, GenerationMoved
  <2>1. ASSUME NEW c \in Callers, NEW target, NEW r, Mark(c, target, r)
        PROVE  ParkedAreKnown' /\ NoLostRegisteredWake'
    BY <2>1 DEF Mark, SwapBodyState, notify, waiter, TypeOK, ChannelOf
  <2>2. ASSUME NEW c \in Callers, NEW r, CancelCall(c, r)
        PROVE  ParkedAreKnown' /\ NoLostRegisteredWake'
    BY <2>2 DEF CancelCall, notify, waiter, TypeOK, ChannelOf
  <2>3. CASE UNCHANGED vars
    BY <2>3 DEF vars, shared, notify, caller, waiter, ChannelOf
  <2> QED BY <2>1, <2>2, <2>3, CallerKeepsWakers, WaiterKeepsWakers DEF OneStep
<1> QED BY <1>1, <1>2, TypeCorrect, PTL DEF Spec, WakeInv

-----------------------------------------------------------------------------
(* The write-once contract.  The swap on cancelled elects one caller, and  *)
(* only that caller writes the reason.                                     *)

\* At most one caller has won the swap and not yet written its reason, and
\* whoever is going to cancel carries a reason.
OneCanceller ==
    /\ reason # NoReason => cancelled
    /\ \A c \in Callers : pc[c] \in {"cancel", "set_reason"} => pending[c] # NoReason
    /\ \A c \in Callers : pc[c] = "set_reason" => cancelled /\ reason = NoReason
    /\ \A c, d \in Callers : pc[c] = "set_reason" /\ pc[d] = "set_reason" => c = d

\* Every step keeps OneCanceller and is a step of the contract, or changes
\* neither the body state nor the reason.
LEMMA StepKeepsContract ==
    ASSUME TypeOK, TypeOK', OneCanceller, [Next]_vars
    PROVE  OneCanceller' /\ [Contract!Next]_<<body_state, reason>>
<1> DEFINE Goal == OneCanceller' /\ [Contract!Next]_<<body_state, reason>>
<1> SUFFICES ASSUME OneStep \/ UNCHANGED vars PROVE Goal
  BY NextIsStep
<1> USE ReasonAssumption DEF OneCanceller
<1>1. ASSUME NEW c \in Callers, NEW target \in Contract!BodyTerminal,
             NEW r \in RequestCancellationReason \cup {NoReason}, Mark(c, target, r)
      PROVE  Goal
  BY <1>1 DEF Mark, SwapBodyState, TypeOK, Contract!Next, Contract!Terminate
<1>2. ASSUME NEW c \in Callers, NEW r \in RequestCancellationReason, CancelCall(c, r)
      PROVE  Goal
  BY <1>2 DEF CancelCall, TypeOK
<1>3. ASSUME NEW c \in Callers, CallerStep(c) PROVE Goal
  <2>1. CASE CancelAfterFailure(c)
    BY <2>1 DEF CancelAfterFailure, TypeOK
  <2>2. CASE SetReason(c)
    BY <2>2 DEF SetReason, TypeOK, Contract!Next, Contract!Cancel
  <2>3. CASE BumpGeneration(c)
    BY <2>3 DEF BumpGeneration, shared, TypeOK
  <2>4. CASE TakeWaiters(c)
    BY <2>4 DEF TakeWaiters, shared, TypeOK
  <2>5. CASE WakeOne(c)
    BY <2>5 DEF WakeOne, shared
  <2>6. CASE NotifyReturns(c)
    BY <2>6 DEF NotifyReturns, AfterNotify, shared, TypeOK
  <2> QED BY <1>3, <2>1, <2>2, <2>3, <2>4, <2>5, <2>6 DEF CallerStep
<1>4. ASSUME NEW w \in Waiters, WaiterStep(w) \/ PollByOtherArm(w) PROVE Goal
  BY <1>4 DEF WaiterStep, CheckFlag, Notified, PollGeneration, RegisterWaker,
              RecheckGeneration, Rewake, PollByOtherArm, shared, caller
<1>5. CASE UNCHANGED vars
  BY <1>5 DEF vars, shared, caller
<1> QED BY <1>1, <1>2, <1>3, <1>4, <1>5 DEF OneStep

\* RequestShared implements the write-once contract for any number of tasks:
\* the body leaves Active once, and the first reason wins.
THEOREM LifecycleImplementsContract == Spec => ImplementsContract
<1>1. Init => OneCanceller /\ Contract!Init
  BY DEF Init, OneCanceller, Contract!Init
<1> QED BY <1>1, StepKeepsContract, TypeCorrect, PTL
        DEF Spec, ImplementsContract, Contract!Spec

-----------------------------------------------------------------------------
(* An HTTP/2 connection.  The counters are cardinalities of sets of        *)
(* streams; the rest of the invariant says what the driver may still       *)
(* believe of its snapshot, and why it ends as it does.  The leaves are    *)
(* first-order; those about arithmetic name SMT.                           *)

USE Zenon

H2Labels == {"none", "buffer", "service", "finished", "response", "done"}
H2BodyStates == {"none", "Active", "Complete", "Abandoned", "Failed"}
H2Reasons == {NotTold, "TransportFailure", "ConnectionTimeout", "ServerShutdown", "PeerDisconnected"}
LoopLabels == {"top", "counters", "decide", "select", "idle"}

\* What the streams have: the types, the counters, and which parts of a stream's
\* state go together.
StreamTypes ==
    /\ stream \in [H2Streams -> H2Labels]
    /\ h2body \in [H2Streams -> H2BodyStates]
    /\ told \in [H2Streams -> H2Reasons]
    /\ tracking \subseteq H2Streams /\ known \subseteq H2Streams
    /\ completed \in Nat

TrackedHaveReturned ==
    /\ \A s \in tracking : stream[s] \in {"finished", "response", "done"}
    /\ \A s \in H2Streams : stream[s] = "none" => h2body[s] = "none"

\* What the driver knows: the streams of its snapshot have been opened, and when
\* it read no request in flight, none of them is being served.
SnapshotInv ==
    /\ snap \in [stale : BOOLEAN, in_flight : Nat] /\ quiet \in BOOLEAN
    /\ busy \subseteq H2Streams
    /\ \A s \in busy : stream[s] # "none"
    /\ driver = "decide" /\ snap.in_flight = 0 => \A s \in busy : stream[s] \notin Guarded

LimitReached == H2MaxRequests > 0 /\ completed >= H2MaxRequests

\* The outcome says why the driver left its loop.
OutcomeIsCause ==
    /\ driver \in LoopLabels \cup {"closing", "budget", "tunnels", "returned"}
    /\ driver \in LoopLabels => outcome = "none"
    /\ driver = "budget" => outcome = "Shutdown"
    /\ drain \/ outcome = "Drain" => LimitReached
    /\ driver = "tunnels" => outcome \in {"Normal", "HeaderTimeout"} \/ (outcome = "ClientError" /\ peer = "error")

\* A timeout is told while the driver closes for it, or for one that lasts.
ReasonHolds(s) ==
    /\ told[s] = "PeerDisconnected" => peer = "error"
    /\ told[s] = "ServerShutdown" => stop \/ LimitReached
    /\ told[s] = "ConnectionTimeout" =>
          \/ h2body[s] = "Failed" \/ total \/ peer = "timeout"
          \/ driver \in {"closing", "returned"} /\ outcome \in {"TotalTimeout", "WriteTimeout", "ClientError"}

H2Inv ==
    /\ StreamTypes /\ CountersExact /\ TrackedHaveReturned
    /\ SnapshotInv /\ OutcomeIsCause
    /\ \A s \in H2Streams : ReasonHolds(s)

-----------------------------------------------------------------------------
LEMMA H2InitHolds == H2Init => H2Inv
<1> SUFFICES ASSUME H2Init PROVE H2Inv
  OBVIOUS
<1>1. StreamTypes
  BY DEF H2Init, StreamTypes, H2Labels, H2BodyStates, H2Reasons
<1>2. CountersExact
  <2>1. {s \in H2Streams : stream[s] \in Guarded} = {} /\ {s \in H2Streams : stream[s] = "response"} = {}
    BY DEF H2Init, Guarded
  <2> QED BY <2>1, FS_EmptySet DEF H2Init, CountersExact
<1>3. TrackedHaveReturned
  BY DEF H2Init, TrackedHaveReturned
<1>4. SnapshotInv
  BY DEF H2Init, SnapshotInv, NoSnap
<1>5. OutcomeIsCause
  BY DEF H2Init, OutcomeIsCause, LoopLabels
<1>6. \A s \in H2Streams : ReasonHolds(s)
  BY DEF H2Init, ReasonHolds, NotTold
<1> QED BY <1>1, <1>2, <1>3, <1>4, <1>5, <1>6 DEF H2Inv

\* Moving one stream moves the two counts of its label by one, or not at all.
LEMMA StreamMoves ==
    ASSUME StreamTypes, CountersExact, NEW s \in H2Streams, NEW label \in H2Labels, Step(s, label)
    PROVE  /\ stream' \in [H2Streams -> H2Labels] /\ stream'[s] = label
           /\ \A x \in H2Streams \ {s} : stream'[x] = stream[x]
           /\ in_flight \in Nat /\ outstanding \in Nat
           /\ Cardinality({x \in H2Streams : stream[x] \in Guarded}') =
                 CASE stream[s] \in Guarded /\ label \notin Guarded -> in_flight - 1
                   [] stream[s] \notin Guarded /\ label \in Guarded -> in_flight + 1
                   [] OTHER -> in_flight
           /\ Cardinality({x \in H2Streams : stream[x] = "response"}') =
                 CASE stream[s] = "response" /\ label # "response" -> outstanding - 1
                   [] stream[s] # "response" /\ label = "response" -> outstanding + 1
                   [] OTHER -> outstanding
<1> DEFINE g == {x \in H2Streams : stream[x] \in Guarded}
           r == {x \in H2Streams : stream[x] = "response"}
<1>1. stream' \in [H2Streams -> H2Labels] /\ stream'[s] = label /\ \A x \in H2Streams \ {s} : stream'[x] = stream[x]
  BY DEF StreamTypes, Step
<1>2. IsFiniteSet(g) /\ IsFiniteSet(r)
  BY H2Assumption, FS_Subset
<1>3. Cardinality(g) = in_flight /\ Cardinality(r) = outstanding
  BY DEF CountersExact
<1>4. in_flight \in Nat /\ outstanding \in Nat
  BY <1>2, <1>3, FS_CardinalityType
<1>5. g' = IF label \in Guarded THEN g \cup {s} ELSE g \ {s}
  BY <1>1, SMT
<1>6. r' = IF label = "response" THEN r \cup {s} ELSE r \ {s}
  BY <1>1
<1>7. s \in g <=> stream[s] \in Guarded
  OBVIOUS
<1>8. s \in r <=> stream[s] = "response"
  OBVIOUS
<1> HIDE DEF g, r
<1>9. Cardinality(g') = CASE stream[s] \in Guarded /\ label \notin Guarded -> in_flight - 1
                         [] stream[s] \notin Guarded /\ label \in Guarded -> in_flight + 1
                         [] OTHER -> in_flight
  <2>1. CASE label \in Guarded
    BY <1>2, <1>3, <1>5, <1>7, <2>1, FS_AddElement
  <2>2. CASE label \notin Guarded
    BY <1>2, <1>3, <1>5, <1>7, <2>2, FS_RemoveElement
  <2> QED BY <2>1, <2>2
<1>10. Cardinality(r') = CASE stream[s] = "response" /\ label # "response" -> outstanding - 1
                          [] stream[s] # "response" /\ label = "response" -> outstanding + 1
                          [] OTHER -> outstanding
  <2>1. CASE label = "response"
    BY <1>2, <1>3, <1>6, <1>8, <2>1, FS_AddElement
  <2>2. CASE label # "response"
    BY <1>2, <1>3, <1>6, <1>8, <2>2, FS_RemoveElement
  <2> QED BY <2>1, <2>2
<1> QED BY <1>1, <1>4, <1>9, <1>10 DEF g, r

\* What a step of one stream may change.
LEMMA StreamStep ==
    ASSUME H2Inv, UNCHANGED <<driving, peer, total, stop>>, quiet' \in BOOLEAN,
           StreamTypes', CountersExact', TrackedHaveReturned',
           completed' >= completed, drain' => drain \/ LimitReached',
           \A x \in H2Streams : stream[x] # "none" => stream'[x] # "none",
           \A x \in H2Streams : stream'[x] \in Guarded => stream[x] \in Guarded \cup {"none"},
           \A x \in H2Streams : h2body[x] = "Failed" => h2body'[x] = "Failed",
           \A x \in H2Streams : told'[x] # told[x] =>
               told'[x] = "TransportFailure" \/ (told'[x] = "ConnectionTimeout" /\ h2body'[x] = "Failed")
    PROVE  H2Inv'
<1>1. LimitReached => LimitReached'
  BY H2Assumption, SMT DEF LimitReached, H2Inv, StreamTypes
<1>2. SnapshotInv'
  BY DEF H2Inv, SnapshotInv, driving
<1>3. OutcomeIsCause'
  BY <1>1 DEF H2Inv, OutcomeIsCause, driving
<1>4. \A s \in H2Streams : ReasonHolds(s)'
  <2> SUFFICES ASSUME NEW s \in H2Streams PROVE ReasonHolds(s)'
    OBVIOUS
  <2>1. CASE told'[s] = told[s]
    BY <1>1, <2>1 DEF H2Inv, ReasonHolds, driving
  <2>2. CASE told'[s] # told[s]
    BY <2>2 DEF ReasonHolds
  <2> QED BY <2>1, <2>2
<1> QED BY <1>2, <1>3, <1>4 DEF H2Inv

\* What the driver, the peer and the clock may change.
LEMMA DriverStep ==
    ASSUME H2Inv, UNCHANGED <<stream, h2body, known, tracking, in_flight, outstanding, deferred, completed>>,
           told' \in [H2Streams -> H2Reasons], SnapshotInv', OutcomeIsCause',
           total => total', stop => stop', peer # "open" => peer' = peer,
           driver \in {"closing", "returned"} /\ outcome \in {"TotalTimeout", "WriteTimeout", "ClientError"} =>
               driver' \in {"closing", "returned"} /\ outcome' = outcome,
           NEW why, \A s \in H2Streams : told'[s] = told[s] \/ told'[s] = why,
           why = "PeerDisconnected" => peer' = "error",
           why = "ServerShutdown" => stop' \/ LimitReached',
           why = "ConnectionTimeout" =>
               \/ total' \/ peer' = "timeout"
               \/ driver' \in {"closing", "returned"} /\ outcome' \in {"TotalTimeout", "WriteTimeout", "ClientError"}
    PROVE  H2Inv'
<1>1. StreamTypes' /\ TrackedHaveReturned'
  BY DEF H2Inv, StreamTypes, TrackedHaveReturned
<1>2. CountersExact'
  BY DEF H2Inv, CountersExact
<1>3. LimitReached => LimitReached'
  BY DEF LimitReached
<1>4. \A s \in H2Streams : ReasonHolds(s)'
  <2> SUFFICES ASSUME NEW s \in H2Streams PROVE ReasonHolds(s)'
    OBVIOUS
  <2>1. CASE told'[s] = told[s]
    BY <1>3, <2>1 DEF H2Inv, ReasonHolds
  <2>2. CASE told'[s] = why
    BY <2>2 DEF ReasonHolds
  <2> QED BY <2>1, <2>2
<1> QED BY <1>1, <1>2, <1>4 DEF H2Inv

LEMMA CancelAllTells ==
    ASSUME StreamTypes, NEW why \in H2Reasons, CancelAll(why)
    PROVE  /\ told' \in [H2Streams -> H2Reasons]
           /\ \A s \in H2Streams : told'[s] = told[s] \/ told'[s] = why
           /\ why # NotTold => \A s \in known : Live(s) => told'[s] # NotTold
  BY DEF StreamTypes, CancelAll

-----------------------------------------------------------------------------
\* The slots of a finished or invoked pipeline.
LEMMA FinishCounts ==
    ASSUME StreamTypes, CountersExact, NEW s \in H2Streams, NEW slots, Finish(s, slots),
           slots = IF stream[s] \in Guarded THEN in_flight ELSE in_flight + 1,
           stream[s] # "response", UNCHANGED outstanding
    PROVE  /\ stream' \in [H2Streams -> H2Labels] /\ stream'[s] = "finished"
           /\ \A x \in H2Streams \ {s} : stream'[x] = stream[x]
           /\ in_flight' = Cardinality({x \in H2Streams : stream[x] \in Guarded}')
           /\ outstanding' = Cardinality({x \in H2Streams : stream[x] = "response"}')
           /\ completed' \in Nat /\ completed' >= completed /\ (drain' => drain \/ LimitReached')
<1>1. "finished" \in H2Labels /\ "finished" \notin Guarded
  BY DEF H2Labels, Guarded
<1>2. /\ stream' \in [H2Streams -> H2Labels] /\ stream'[s] = "finished"
      /\ \A x \in H2Streams \ {s} : stream'[x] = stream[x]
      /\ in_flight \in Nat /\ outstanding \in Nat
      /\ Cardinality({x \in H2Streams : stream[x] \in Guarded}') =
            IF stream[s] \in Guarded THEN in_flight - 1 ELSE in_flight
      /\ Cardinality({x \in H2Streams : stream[x] = "response"}') = outstanding
  BY <1>1, StreamMoves DEF Finish
<1>3. in_flight' = slots - 1
  BY DEF Finish
<1>4. completed' = completed + 1 /\ completed \in Nat
  BY DEF Finish, StreamTypes
<1>5. drain' => drain \/ LimitReached'
  BY <1>4 DEF Finish, LimitReached
<1> QED BY <1>2, <1>3, <1>4, <1>5, SMT

LEMMA InvokeCounts ==
    ASSUME StreamTypes, CountersExact, NEW s \in H2Streams, NEW slots, Invoke(s, slots),
           slots = IF stream[s] \in Guarded THEN in_flight ELSE in_flight + 1,
           stream[s] # "response", UNCHANGED outstanding
    PROVE  /\ stream' \in [H2Streams -> H2Labels] /\ stream'[s] \in {"service", "finished"}
           /\ \A x \in H2Streams \ {s} : stream'[x] = stream[x]
           /\ in_flight' = Cardinality({x \in H2Streams : stream[x] \in Guarded}')
           /\ outstanding' = Cardinality({x \in H2Streams : stream[x] = "response"}')
           /\ completed' \in Nat /\ completed' >= completed /\ (drain' => drain \/ LimitReached')
<1>1. CASE Finish(s, slots)
  BY <1>1, FinishCounts
<1>2. CASE Step(s, "service") /\ in_flight' = slots /\ UNCHANGED <<completed, drain>>
  <2>1. "service" \in H2Labels /\ "service" \in Guarded
    BY DEF H2Labels, Guarded
  <2>2. /\ stream' \in [H2Streams -> H2Labels] /\ stream'[s] = "service"
        /\ \A x \in H2Streams \ {s} : stream'[x] = stream[x]
        /\ in_flight \in Nat /\ outstanding \in Nat
        /\ Cardinality({x \in H2Streams : stream[x] \in Guarded}') =
              IF stream[s] \in Guarded THEN in_flight ELSE in_flight + 1
        /\ Cardinality({x \in H2Streams : stream[x] = "response"}') = outstanding
    BY <1>2, <2>1, StreamMoves
  <2> QED BY <1>2, <2>2, SMT DEF StreamTypes
<1> QED BY <1>1, <1>2 DEF Invoke

-----------------------------------------------------------------------------
\* One lemma per action of a stream.
LEMMA OpenStreamKeeps ==
    ASSUME H2Inv, NEW s \in H2Streams, OpenStream(s)
    PROVE  H2Inv'
<1> DEFINE Body == {"Active", "Complete", "Abandoned"}
<1>1. stream[s] = "none" /\ s \notin tracking /\ h2body[s] = "none" /\ "none" \notin Guarded
  BY DEF OpenStream, H2Inv, TrackedHaveReturned, Guarded
<1>2. StreamTypes /\ CountersExact /\ TrackedHaveReturned
  BY DEF H2Inv
<1>3. /\ stream' \in [H2Streams -> H2Labels] /\ stream'[s] \in {"buffer", "service", "finished"}
      /\ \A x \in H2Streams \ {s} : stream'[x] = stream[x]
      /\ in_flight' = Cardinality({x \in H2Streams : stream[x] \in Guarded}')
      /\ outstanding' = Cardinality({x \in H2Streams : stream[x] = "response"}')
      /\ completed' \in Nat /\ completed' >= completed /\ (drain' => drain \/ LimitReached')
  <2>0. UNCHANGED outstanding
    BY DEF OpenStream
  <2>1. CASE Finish(s, in_flight + 1)
    BY <1>1, <1>2, <2>0, <2>1, FinishCounts
  <2>2. CASE Invoke(s, in_flight + 1)
    BY <1>1, <1>2, <2>0, <2>2, InvokeCounts
  <2>3. CASE Step(s, "buffer") /\ in_flight' = in_flight + 1 /\ UNCHANGED <<completed, drain>>
    <3>1. "buffer" \in H2Labels /\ "buffer" \in Guarded
      BY DEF H2Labels, Guarded
    <3>2. /\ stream' \in [H2Streams -> H2Labels] /\ stream'[s] = "buffer"
          /\ \A x \in H2Streams \ {s} : stream'[x] = stream[x]
          /\ in_flight \in Nat /\ outstanding \in Nat
          /\ Cardinality({x \in H2Streams : stream[x] \in Guarded}') = in_flight + 1
          /\ Cardinality({x \in H2Streams : stream[x] = "response"}') = outstanding
      BY <1>1, <1>2, <2>3, <3>1, StreamMoves
    <3> QED BY <1>2, <2>0, <2>3, <3>2, SMT DEF StreamTypes
  <2> QED BY <2>1, <2>2, <2>3 DEF OpenStream
<1>4. h2body' = h2body \/ \E b \in Body : h2body' = [h2body EXCEPT ![s] = b]
  BY DEF OpenStream
<1>5. known' \in {known, known \cup {s}}
  BY DEF OpenStream, Invoke
<1>6. UNCHANGED <<driving, peer, total, stop, deferred, told, tracking>> /\ quiet' = FALSE
  BY DEF OpenStream
<1>7. h2body' \in [H2Streams -> H2BodyStates] /\ \A x \in H2Streams \ {s} : h2body'[x] = h2body[x]
  BY <1>2, <1>4 DEF StreamTypes, H2BodyStates
<1>8. StreamTypes'
  BY <1>2, <1>3, <1>5, <1>6, <1>7 DEF StreamTypes
<1>9. CountersExact'
  BY <1>2, <1>3, <1>6 DEF CountersExact
<1>10. TrackedHaveReturned'
  BY <1>1, <1>2, <1>3, <1>6, <1>7 DEF TrackedHaveReturned, StreamTypes
<1>11. \A x \in H2Streams :
          /\ stream[x] # "none" => stream'[x] # "none"
          /\ stream'[x] \in Guarded => stream[x] \in Guarded \cup {"none"}
          /\ h2body[x] = "Failed" => h2body'[x] = "Failed"
          /\ told'[x] = told[x]
  BY <1>1, <1>3, <1>6, <1>7
<1> QED BY <1>3, <1>6, <1>8, <1>9, <1>10, <1>11, StreamStep

LEMMA FailBodyTypes ==
    ASSUME StreamTypes, NEW s \in H2Streams, NEW state \in H2BodyStates, FailBody(s, state)
    PROVE  /\ h2body' \in [H2Streams -> H2BodyStates]
           /\ \A x \in H2Streams : h2body'[x] # h2body[x] => x = s /\ h2body[x] = "Active" /\ h2body'[x] = state
  BY DEF StreamTypes, FailBody

\* A step that takes one stream on, beyond its label.
LEMMA StreamMoved ==
    ASSUME H2Inv, NEW s \in H2Streams,
           UNCHANGED <<driving, peer, total, stop>>, quiet' \in BOOLEAN,
           stream' \in [H2Streams -> H2Labels],
           stream[s] \notin {"none", "done"}, s \in tracking => stream[s] \notin Guarded,
           stream'[s] \in {"service", "finished", "response", "done"},
           stream[s] \notin Guarded => stream'[s] # "service",
           s \in tracking' => stream'[s] # "service",
           \A x \in H2Streams \ {s} : stream'[x] = stream[x],
           in_flight' = Cardinality({x \in H2Streams : stream[x] \in Guarded}'),
           outstanding' = Cardinality({x \in H2Streams : stream[x] = "response"}'),
           deferred' = Cardinality(tracking'),
           completed' \in Nat, completed' >= completed, drain' => drain \/ LimitReached',
           h2body' \in [H2Streams -> H2BodyStates],
           \A x \in H2Streams : h2body'[x] # h2body[x] => x = s /\ h2body[x] = "Active",
           known' \in {known, known \cup {s}}, tracking' \in {tracking, tracking \cup {s}},
           told' \in [H2Streams -> H2Reasons],
           \A x \in H2Streams : told'[x] # told[x] => told'[x] = "TransportFailure"
    PROVE  H2Inv'
<1>1. StreamTypes'
  BY DEF H2Inv, StreamTypes
<1>2. CountersExact'
  BY DEF CountersExact
<1>3. TrackedHaveReturned'
  BY DEF H2Inv, StreamTypes, TrackedHaveReturned
<1>4. \A x \in H2Streams :
          /\ stream[x] # "none" => stream'[x] # "none"
          /\ stream'[x] \in Guarded => stream[x] \in Guarded \cup {"none"}
          /\ h2body[x] = "Failed" => h2body'[x] = "Failed"
  BY DEF Guarded
<1> QED BY <1>1, <1>2, <1>3, <1>4, StreamStep

LEMMA BufferedKeeps ==
    ASSUME H2Inv, NEW s \in H2Streams, Buffered(s)
    PROVE  H2Inv'
<1>1. stream[s] = "buffer" /\ stream[s] \in Guarded /\ s \notin tracking
  BY DEF Buffered, H2Inv, TrackedHaveReturned, Guarded
<1>2. StreamTypes /\ CountersExact
  BY DEF H2Inv
<1>3. /\ stream' \in [H2Streams -> H2Labels] /\ stream'[s] \in {"service", "finished"}
      /\ \A x \in H2Streams \ {s} : stream'[x] = stream[x]
      /\ in_flight' = Cardinality({x \in H2Streams : stream[x] \in Guarded}')
      /\ outstanding' = Cardinality({x \in H2Streams : stream[x] = "response"}')
      /\ completed' \in Nat /\ completed' >= completed /\ (drain' => drain \/ LimitReached')
  BY <1>1, <1>2, FinishCounts, InvokeCounts DEF Buffered
<1>4. \E state \in H2BodyStates : FailBody(s, state)
  BY DEF Buffered, H2BodyStates
<1>5. /\ h2body' \in [H2Streams -> H2BodyStates]
      /\ \A x \in H2Streams : h2body'[x] # h2body[x] => x = s /\ h2body[x] = "Active"
  BY <1>2, <1>4, FailBodyTypes
<1>6. known' \in {known, known \cup {s}}
  BY DEF Buffered, Invoke
<1>7. UNCHANGED <<driving, peer, total, stop, deferred, told, tracking>>
  BY DEF Buffered
<1>8. quiet' \in BOOLEAN
  BY DEF Buffered
<1>9. told' \in [H2Streams -> H2Reasons] /\ deferred' = Cardinality(tracking')
  BY <1>2, <1>7 DEF StreamTypes, CountersExact
<1> QED BY <1>1, <1>3, <1>5, <1>6, <1>7, <1>8, <1>9, StreamMoved

LEMMA CallReturnsKeeps ==
    ASSUME H2Inv, NEW s \in H2Streams, CallReturns(s)
    PROVE  H2Inv'
<1>1. stream[s] = "service" /\ stream[s] \in Guarded /\ s \notin tracking
  BY DEF CallReturns, H2Inv, TrackedHaveReturned, Guarded
<1>2. StreamTypes /\ CountersExact
  BY DEF H2Inv
<1>3. /\ stream' \in [H2Streams -> H2Labels] /\ stream'[s] = "finished"
      /\ \A x \in H2Streams \ {s} : stream'[x] = stream[x]
      /\ in_flight' = Cardinality({x \in H2Streams : stream[x] \in Guarded}')
      /\ outstanding' = Cardinality({x \in H2Streams : stream[x] = "response"}')
      /\ completed' \in Nat /\ completed' >= completed /\ (drain' => drain \/ LimitReached')
  BY <1>1, <1>2, FinishCounts DEF CallReturns
<1>4. UNCHANGED h2body \/ \E state \in H2BodyStates : FailBody(s, state)
  BY DEF CallReturns, H2BodyStates
<1>5. /\ h2body' \in [H2Streams -> H2BodyStates]
      /\ \A x \in H2Streams : h2body'[x] # h2body[x] => x = s /\ h2body[x] = "Active"
  BY <1>2, <1>4, FailBodyTypes DEF StreamTypes
<1>6. told' = told \/ told' = Tell(s, "TransportFailure")
  BY DEF CallReturns
<1>7. /\ told' \in [H2Streams -> H2Reasons]
      /\ \A x \in H2Streams : told'[x] # told[x] => told'[x] = "TransportFailure"
  BY <1>2, <1>6 DEF StreamTypes, Tell, H2Reasons
<1>8. UNCHANGED <<driving, peer, total, stop, known>> /\ quiet' = FALSE
  BY DEF CallReturns
<1>9. tracking' \in {tracking, tracking \cup {s}}
  BY DEF CallReturns
<1>10. deferred' = Cardinality(tracking')
  <2>1. IsFiniteSet(tracking) /\ Cardinality(tracking \cup {s}) = Cardinality(tracking) + 1
    BY <1>1, <1>2, H2Assumption, FS_Subset, FS_AddElement DEF StreamTypes
  <2>2. (UNCHANGED <<deferred, tracking>>) \/ (deferred' = deferred + 1 /\ tracking' = tracking \cup {s})
    BY DEF CallReturns
  <2> QED BY <1>2, <2>1, <2>2 DEF CountersExact
<1> QED BY <1>1, <1>3, <1>5, <1>7, <1>8, <1>9, <1>10, StreamMoved

LEMMA StartResponseKeeps ==
    ASSUME H2Inv, NEW s \in H2Streams, StartResponse(s)
    PROVE  H2Inv'
<1>1. stream[s] = "finished" /\ stream[s] \notin Guarded
  BY DEF StartResponse, H2Inv, TrackedHaveReturned, Guarded
<1>2. StreamTypes /\ CountersExact
  BY DEF H2Inv
<1>3. Step(s, "response") /\ "response" \in H2Labels /\ "response" \notin Guarded
  BY DEF StartResponse, H2Labels, Guarded
<1>4. /\ stream' \in [H2Streams -> H2Labels] /\ stream'[s] = "response"
      /\ \A x \in H2Streams \ {s} : stream'[x] = stream[x]
      /\ in_flight \in Nat /\ outstanding \in Nat
      /\ Cardinality({x \in H2Streams : stream[x] \in Guarded}') = in_flight
      /\ Cardinality({x \in H2Streams : stream[x] = "response"}') = outstanding + 1
  BY <1>1, <1>2, <1>3, StreamMoves
<1>5. in_flight' = in_flight /\ outstanding' = outstanding + 1 /\ quiet' = FALSE
  BY DEF StartResponse
<1>6. UNCHANGED <<driving, peer, total, stop, completed, drain, told, known, deferred, tracking>>
  BY DEF StartResponse
<1>7. /\ h2body' \in [H2Streams -> H2BodyStates]
      /\ \A x \in H2Streams : h2body'[x] # h2body[x] => x = s /\ h2body[x] = "Active"
  BY <1>2 DEF StartResponse, StreamTypes
<1>8. /\ told' \in [H2Streams -> H2Reasons] /\ deferred' = Cardinality(tracking')
      /\ completed' \in Nat /\ completed' >= completed
  BY <1>2, <1>6, SMT DEF StreamTypes, CountersExact
<1> QED BY <1>1, <1>4, <1>5, <1>6, <1>7, <1>8, StreamMoved

LEMMA EndResponseKeeps ==
    ASSUME H2Inv, NEW s \in H2Streams, EndResponse(s)
    PROVE  H2Inv'
<1>1. stream[s] = "response" /\ stream[s] \notin Guarded
  BY DEF EndResponse, H2Inv, TrackedHaveReturned, Guarded
<1>2. StreamTypes /\ CountersExact
  BY DEF H2Inv
<1>3. Step(s, "done") /\ "done" \in H2Labels /\ "done" \notin Guarded
  BY DEF EndResponse, H2Labels, Guarded
<1>4. /\ stream' \in [H2Streams -> H2Labels] /\ stream'[s] = "done"
      /\ \A x \in H2Streams \ {s} : stream'[x] = stream[x]
      /\ in_flight \in Nat /\ outstanding \in Nat
      /\ Cardinality({x \in H2Streams : stream[x] \in Guarded}') = in_flight
      /\ Cardinality({x \in H2Streams : stream[x] = "response"}') = outstanding - 1
  BY <1>1, <1>2, <1>3, StreamMoves
<1>5. in_flight' = in_flight /\ outstanding' = outstanding - 1 /\ quiet' = FALSE
  BY DEF EndResponse
<1>6. UNCHANGED <<driving, peer, total, stop, completed, drain, told, known, deferred, tracking>>
  BY DEF EndResponse
<1>7. /\ h2body' \in [H2Streams -> H2BodyStates]
      /\ \A x \in H2Streams : h2body'[x] # h2body[x] => x = s /\ h2body[x] = "Active"
  BY <1>2 DEF EndResponse, StreamTypes
<1>8. /\ told' \in [H2Streams -> H2Reasons] /\ deferred' = Cardinality(tracking')
      /\ completed' \in Nat /\ completed' >= completed
  BY <1>2, <1>6, SMT DEF StreamTypes, CountersExact
<1> QED BY <1>1, <1>4, <1>5, <1>6, <1>7, <1>8, StreamMoved

LEMMA DropPipelineKeeps ==
    ASSUME H2Inv, NEW s \in H2Streams, DropPipeline(s)
    PROVE  H2Inv'
<1>1. stream[s] \in {"buffer", "service"} /\ stream[s] \in Guarded /\ s \notin tracking
  BY DEF DropPipeline, H2Inv, TrackedHaveReturned, Guarded
<1>2. StreamTypes /\ CountersExact
  BY DEF H2Inv
<1>3. Step(s, "done") /\ "done" \in H2Labels /\ "done" \notin Guarded
  BY DEF DropPipeline, H2Labels, Guarded
<1>4. /\ stream' \in [H2Streams -> H2Labels] /\ stream'[s] = "done"
      /\ \A x \in H2Streams \ {s} : stream'[x] = stream[x]
      /\ in_flight \in Nat /\ outstanding \in Nat
      /\ Cardinality({x \in H2Streams : stream[x] \in Guarded}') = in_flight - 1
      /\ Cardinality({x \in H2Streams : stream[x] = "response"}') = outstanding
  BY <1>1, <1>2, <1>3, StreamMoves
<1>5. in_flight' = in_flight - 1 /\ outstanding' = outstanding /\ quiet' = FALSE
  BY DEF DropPipeline
<1>6. UNCHANGED <<driving, peer, total, stop, completed, drain, told, known, deferred, tracking>>
  BY DEF DropPipeline
<1>7. /\ h2body' \in [H2Streams -> H2BodyStates]
      /\ \A x \in H2Streams : h2body'[x] # h2body[x] => x = s /\ h2body[x] = "Active"
  <2>1. FailBody(s, "Abandoned") \/ UNCHANGED h2body
    BY DEF DropPipeline
  <2> QED BY <1>2, <2>1, FailBodyTypes DEF StreamTypes, H2BodyStates
<1>8. /\ told' \in [H2Streams -> H2Reasons] /\ deferred' = Cardinality(tracking')
      /\ completed' \in Nat /\ completed' >= completed
  BY <1>2, <1>6, SMT DEF StreamTypes, CountersExact
<1> QED BY <1>1, <1>4, <1>5, <1>6, <1>7, <1>8, StreamMoved

\* The steps that leave every pipeline where it is.
LEMMA PipelinesStay ==
    ASSUME H2Inv, UNCHANGED <<driving, peer, total, stop, stream, in_flight, outstanding, completed,
                              drain, known>>,
           quiet' \in BOOLEAN, tracking' \subseteq tracking, deferred' = Cardinality(tracking'),
           h2body' \in [H2Streams -> H2BodyStates],
           \A x \in H2Streams : h2body'[x] # h2body[x] => h2body[x] = "Active",
           told' \in [H2Streams -> H2Reasons],
           \A x \in H2Streams : told'[x] # told[x] =>
               told'[x] = "TransportFailure" \/ (told'[x] = "ConnectionTimeout" /\ h2body'[x] = "Failed")
    PROVE  H2Inv'
<1>1. StreamTypes' /\ TrackedHaveReturned'
  BY DEF H2Inv, StreamTypes, TrackedHaveReturned
<1>2. CountersExact'
  BY DEF H2Inv, CountersExact
<1>3. completed' >= completed
  BY SMT DEF H2Inv, StreamTypes
<1> QED BY <1>1, <1>2, <1>3, StreamStep

LEMMA PollOrStallKeeps ==
    ASSUME H2Inv, NEW s \in H2Streams, PollProgress(s) \/ Stall(s) \/ TunnelEnds(s)
    PROVE  H2Inv'
<1>1. UNCHANGED <<driving, peer, total, stop, quiet, stream, in_flight, outstanding, completed, drain,
                  known, tracking, deferred, h2body, told>>
  BY DEF PollProgress, Stall, TunnelEnds, world, activity
<1>2. /\ quiet' \in BOOLEAN /\ deferred' = Cardinality(tracking') /\ h2body' \in [H2Streams -> H2BodyStates]
      /\ told' \in [H2Streams -> H2Reasons]
  BY <1>1 DEF H2Inv, SnapshotInv, StreamTypes, CountersExact
<1> QED BY <1>1, <1>2, PipelinesStay

LEMMA OwnerEndsKeeps ==
    ASSUME H2Inv, NEW s \in H2Streams, OwnerEnds(s)
    PROVE  H2Inv'
<1>1. StreamTypes /\ \E state \in H2BodyStates : FailBody(s, state)
  BY DEF OwnerEnds, H2BodyStates, H2Inv
<1>2. /\ h2body' \in [H2Streams -> H2BodyStates]
      /\ \A x \in H2Streams : h2body'[x] # h2body[x] => h2body[x] = "Active"
  BY <1>1, FailBodyTypes
<1>3. told' = told \/ told' = Tell(s, "TransportFailure")
  BY DEF OwnerEnds
<1>4. /\ told' \in [H2Streams -> H2Reasons]
      /\ \A x \in H2Streams : told'[x] # told[x] => told'[x] = "TransportFailure"
  BY <1>1, <1>3 DEF StreamTypes, Tell, H2Reasons
<1>5. UNCHANGED <<driving, peer, total, stop, quiet, stream, in_flight, outstanding, completed, drain,
                  known, tracking, deferred>>
  BY DEF OwnerEnds, world, activity
<1>6. quiet' \in BOOLEAN /\ deferred' = Cardinality(tracking')
  BY <1>5 DEF H2Inv, SnapshotInv, CountersExact
<1> QED BY <1>2, <1>4, <1>5, <1>6, PipelinesStay

LEMMA WatchdogKeeps ==
    ASSUME H2Inv, NEW s \in H2Streams, WatchdogFires(s)
    PROVE  H2Inv'
<1>1. StreamTypes /\ FailBody(s, "Failed") /\ "Failed" \in H2BodyStates /\ h2body[s] = "Active"
  BY DEF WatchdogFires, H2BodyStates, H2Inv
<1>2. /\ h2body' \in [H2Streams -> H2BodyStates]
      /\ \A x \in H2Streams : h2body'[x] # h2body[x] => h2body[x] = "Active"
  BY <1>1, FailBodyTypes
<1>3. h2body'[s] = "Failed"
  BY <1>1 DEF FailBody, StreamTypes
<1>4. /\ told' \in [H2Streams -> H2Reasons]
      /\ \A x \in H2Streams : told'[x] # told[x] => x = s /\ told'[x] = "ConnectionTimeout"
  BY <1>1 DEF WatchdogFires, StreamTypes, Tell, H2Reasons
<1>5. UNCHANGED <<driving, peer, total, stop, quiet, stream, in_flight, outstanding, completed, drain,
                  known, tracking, deferred>>
  BY DEF WatchdogFires, world
<1>6. quiet' \in BOOLEAN /\ deferred' = Cardinality(tracking')
  BY <1>5 DEF H2Inv, SnapshotInv, CountersExact
<1> QED BY <1>2, <1>3, <1>4, <1>5, <1>6, PipelinesStay

LEMMA TrackerKeeps ==
    ASSUME H2Inv, NEW s \in H2Streams, TrackerEnds(s)
    PROVE  H2Inv'
<1>1. s \in tracking /\ tracking' = tracking \ {s} /\ deferred' = deferred - 1
  BY DEF TrackerEnds
<1>2. IsFiniteSet(tracking)
  BY H2Assumption, FS_Subset DEF H2Inv, StreamTypes
<1>3. Cardinality(tracking \ {s}) = Cardinality(tracking) - 1
  BY <1>1, <1>2, FS_RemoveElement
<1>4. deferred' = Cardinality(tracking')
  BY <1>1, <1>3 DEF H2Inv, CountersExact
<1>5. UNCHANGED <<driving, peer, total, stop, stream, in_flight, outstanding, completed, drain, known,
                  h2body, told>> /\ quiet' = FALSE
  BY DEF TrackerEnds
<1>6. h2body' \in [H2Streams -> H2BodyStates] /\ told' \in [H2Streams -> H2Reasons]
  BY <1>5 DEF H2Inv, StreamTypes
<1> QED BY <1>1, <1>4, <1>5, <1>6, PipelinesStay

-----------------------------------------------------------------------------
\* The driver, the peer, the clock and the server.
LEMMA QuietDriverStep ==
    ASSUME H2Inv, UNCHANGED <<stream, h2body, known, tracking, in_flight, outstanding, deferred, completed, told>>,
           SnapshotInv', OutcomeIsCause',
           total => total', stop => stop', peer # "open" => peer' = peer,
           driver \in {"closing", "returned"} /\ outcome \in {"TotalTimeout", "WriteTimeout", "ClientError"} =>
               driver' \in {"closing", "returned"} /\ outcome' = outcome
    PROVE  H2Inv'
<1>1. told' \in [H2Streams -> H2Reasons] /\ \A s \in H2Streams : told'[s] = told[s] \/ told'[s] = NotTold
  BY DEF H2Inv, StreamTypes
<1>2. NotTold \notin {"PeerDisconnected", "ServerShutdown", "ConnectionTimeout"}
  BY DEF NotTold
<1> QED BY <1>1, <1>2, DriverStep

\* A snapshot that is kept outside the decision, or forgotten.
LEMMA SnapshotKept ==
    ASSUME H2Inv, UNCHANGED stream, quiet' \in BOOLEAN, driver' # "decide",
           (UNCHANGED <<snap, busy>>) \/ (snap' = NoSnap /\ busy' = {})
    PROVE  SnapshotInv'
<1>1. NoSnap \in [stale : BOOLEAN, in_flight : Nat]
  BY DEF NoSnap
<1>2. SnapshotInv
  BY DEF H2Inv
<1>3. CASE UNCHANGED <<snap, busy>>
  BY <1>2, <1>3 DEF SnapshotInv
<1>4. CASE snap' = NoSnap /\ busy' = {}
  BY <1>1, <1>4 DEF SnapshotInv
<1> QED BY <1>3, <1>4

LEMMA LoopCloses ==
    ASSUME H2Inv, driver \in LoopLabels, NEW result, Close(result),
           UNCHANGED <<stream, h2body, known, tracking, in_flight, outstanding, deferred, completed, world>>,
           drain' => drain, result = "Drain" => LimitReached,
           NEW why \in H2Reasons, told' = told \/ CancelAll(why),
           why # "PeerDisconnected", why = "ServerShutdown" => stop,
           why = "ConnectionTimeout" => result \in {"TotalTimeout", "WriteTimeout", "ClientError"}
    PROVE  H2Inv'
<1>1. driver' = "closing" /\ outcome' = result /\ UNCHANGED <<snap, busy, peer, total, quiet, stop>>
  BY DEF Close, world
<1>2. told' \in [H2Streams -> H2Reasons] /\ \A s \in H2Streams : told'[s] = told[s] \/ told'[s] = why
  BY CancelAllTells DEF H2Inv, StreamTypes
<1>3. SnapshotInv'
  BY <1>1, SnapshotKept DEF H2Inv, SnapshotInv
<1>4. OutcomeIsCause'
  BY <1>1 DEF H2Inv, OutcomeIsCause, LoopLabels, LimitReached
<1>5. driver \notin {"closing", "returned"}
  BY DEF LoopLabels
<1> QED BY <1>1, <1>2, <1>3, <1>4, <1>5, DriverStep

LEMMA DecisionsKeep ==
    ASSUME H2Inv, TotalDeadline \/ TakeBodyTimeout \/ TakeDrainRequest \/ IdleClose \/ StallClose \/ ShutdownBranch
    PROVE  H2Inv'
<1>0. {NotTold, "ConnectionTimeout", "ServerShutdown"} \subseteq H2Reasons /\ NotTold = "none"
  BY DEF H2Reasons, NotTold
<1>1. CASE TotalDeadline
  <2>1. /\ driver \in LoopLabels /\ Close("TotalTimeout") /\ CancelAll("ConnectionTimeout")
        /\ UNCHANGED <<stream, h2body, known, tracking, in_flight, outstanding, deferred, completed, world, drain>>
    BY <1>1 DEF TotalDeadline, LoopLabels, activity
  <2> QED BY <1>0, <2>1, LoopCloses
<1>2. CASE TakeBodyTimeout
  <2>1. /\ driver \in LoopLabels /\ Close("ClientError") /\ told' = told
        /\ UNCHANGED <<stream, h2body, known, tracking, in_flight, outstanding, deferred, completed, world, drain>>
    BY <1>2 DEF TakeBodyTimeout, LoopLabels, request
  <2> QED BY <1>0, <2>1, LoopCloses
<1>3. CASE TakeDrainRequest
  <2>1. /\ driver \in LoopLabels /\ Close("Drain") /\ told' = told /\ drain /\ drain' = FALSE
        /\ UNCHANGED <<stream, h2body, known, tracking, in_flight, outstanding, deferred, completed, world>>
    BY <1>3 DEF TakeDrainRequest, LoopLabels, request
  <2>2. LimitReached
    BY <2>1 DEF H2Inv, OutcomeIsCause
  <2> QED BY <1>0, <2>1, <2>2, LoopCloses
<1>4. CASE IdleClose
  <2>1. /\ driver \in LoopLabels /\ Close("IdleTimeout") /\ told' = told
        /\ UNCHANGED <<stream, h2body, known, tracking, in_flight, outstanding, deferred, completed, world, drain>>
    BY <1>4 DEF IdleClose, LoopLabels, request, activity
  <2> QED BY <1>0, <2>1, LoopCloses
<1>5. CASE StallClose
  <2>1. /\ driver \in LoopLabels /\ Close("WriteTimeout") /\ CancelAll("ConnectionTimeout")
        /\ UNCHANGED <<stream, h2body, known, tracking, in_flight, outstanding, deferred, completed, world, drain>>
    BY <1>5 DEF StallClose, LoopLabels, activity
  <2> QED BY <1>0, <2>1, LoopCloses
<1>6. CASE ShutdownBranch
  <2>1. /\ driver \in LoopLabels /\ Close("Shutdown") /\ CancelAll("ServerShutdown") /\ stop
        /\ UNCHANGED <<stream, h2body, known, tracking, in_flight, outstanding, deferred, completed, world, drain>>
    BY <1>6 DEF ShutdownBranch, Selecting, LoopLabels, activity
  <2> QED BY <1>0, <2>1, LoopCloses
<1> QED BY <1>1, <1>2, <1>3, <1>4, <1>5, <1>6

\* The loop goes round: a snapshot is begun, completed, used or forgotten.
LEMMA LoopGoesOn ==
    ASSUME H2Inv, ReadState \/ LoadInFlight \/ Wait \/ Wake
    PROVE  H2Inv'
<1>1. /\ driver \in LoopLabels /\ driver' \in LoopLabels
      /\ UNCHANGED <<outcome, peer, total, quiet, stop, drain, stream, h2body, known, tracking,
                     in_flight, outstanding, deferred, completed, told>>
  BY DEF ReadState, LoadInFlight, Wait, Wake, Selecting, LoopLabels, world, activity, request
<1>2. OutcomeIsCause'
  BY <1>1 DEF H2Inv, OutcomeIsCause, LoopLabels, LimitReached
<1>3. SnapshotInv'
  <2>1. CASE ReadState
    BY <1>1, <2>1 DEF ReadState, H2Inv, SnapshotInv, NoSnap
  <2>2. CASE LoadInFlight
    <3>1. IsFiniteSet({s \in H2Streams : stream[s] \in Guarded})
      BY H2Assumption, FS_Subset
    <3>2. in_flight \in Nat /\ (in_flight = 0 => {s \in H2Streams : stream[s] \in Guarded} = {})
      BY <3>1, FS_CardinalityType, FS_EmptySet DEF H2Inv, CountersExact
    <3>3. snap' \in [stale : BOOLEAN, in_flight : Nat] /\ snap'.in_flight = in_flight /\ UNCHANGED busy
      BY <2>2, <3>2 DEF LoadInFlight, H2Inv, SnapshotInv
    <3>4. in_flight = 0 => \A s \in H2Streams : stream[s] \notin Guarded
      BY <3>2
    <3> QED BY <1>1, <3>3, <3>4 DEF H2Inv, SnapshotInv
  <2>3. CASE Wait
    <3>1. driver' # "decide" /\ UNCHANGED <<snap, busy>>
      BY <2>3 DEF Wait
    <3> QED BY <1>1, <3>1, SnapshotKept DEF H2Inv, SnapshotInv
  <2>4. CASE Wake
    <3>1. driver' # "decide" /\ snap' = NoSnap /\ busy' = {}
      BY <2>4 DEF Wake
    <3> QED BY <1>1, <3>1, SnapshotKept DEF H2Inv, SnapshotInv
  <2> QED BY <2>1, <2>2, <2>3, <2>4
<1>4. driver \notin {"closing", "returned"}
  BY <1>1 DEF LoopLabels
<1> QED BY <1>1, <1>2, <1>3, <1>4, QuietDriverStep

\* The driver returns, or begins to wait for its tunnels.
LEMMA DriverLeaves ==
    ASSUME H2Inv, driver \notin {"returned"},
           driver' \in {"returned", "tunnels", "budget"},
           UNCHANGED <<total, quiet, stop, activity, stream, h2body, known, tracking>>,
           (UNCHANGED <<snap, busy>>) \/ (snap' = NoSnap /\ busy' = {}),
           peer # "open" => peer' = peer,
           driver = "closing" => outcome' = outcome,
           driver = "closing" /\ outcome # "Shutdown" => driver' = "returned",
           driver' = "budget" => outcome' = "Shutdown",
           driver' = "tunnels" => outcome' \in {"Normal", "HeaderTimeout"} \/ (outcome' = "ClientError" /\ peer' = "error"),
           outcome' = "Drain" => LimitReached,
           NEW why \in H2Reasons, told' \in [H2Streams -> H2Reasons],
           \A s \in H2Streams : told'[s] = told[s] \/ told'[s] = why,
           why = "PeerDisconnected" => peer' = "error",
           why = "ServerShutdown" => stop \/ LimitReached,
           why = "ConnectionTimeout" =>
               \/ total \/ peer' = "timeout"
               \/ driver' = "returned" /\ outcome' \in {"TotalTimeout", "WriteTimeout", "ClientError"}
    PROVE  H2Inv'
<1>1. UNCHANGED <<in_flight, outstanding, deferred, completed, drain>>
  BY DEF activity
<1>2. LimitReached' = LimitReached
  BY <1>1 DEF LimitReached
<1>3. SnapshotInv'
  BY SnapshotKept DEF H2Inv, SnapshotInv
<1>4. OutcomeIsCause'
  BY <1>1, <1>2 DEF H2Inv, OutcomeIsCause, LoopLabels
<1> QED BY <1>1, <1>2, <1>3, <1>4, DriverStep

\* The close tells what its outcome says, to every live request it knows.
LEMMA CloseEndsTells ==
    ASSUME H2Inv, CloseEnds, outcome # "Shutdown"
    PROVE  /\ Return(outcome)
           /\ outcome = "ClientError" => CancelAll("ConnectionTimeout")
           /\ outcome = "Drain" => CancelAll("ServerShutdown")
           /\ outcome \notin {"ClientError", "Drain"} => told' = told
  BY DEF CloseEnds

LEMMA CloseEndsKeeps ==
    ASSUME H2Inv, CloseEnds
    PROVE  H2Inv'
<1>0. /\ driver = "closing" /\ StreamTypes /\ (outcome = "Drain" => LimitReached)
      /\ UNCHANGED <<total, quiet, stop, activity, stream, h2body, known, tracking>>
  BY DEF CloseEnds, H2Inv, OutcomeIsCause
<1>1. CASE outcome = "Shutdown"
  <2>1. driver' = "budget" /\ UNCHANGED <<outcome, snap, busy, peer, told>>
    BY <1>1 DEF CloseEnds
  <2>2. NotTold \in H2Reasons /\ NotTold = "none" /\ told' \in [H2Streams -> H2Reasons]
    BY <1>0, <2>1 DEF H2Reasons, NotTold, StreamTypes
  <2> QED BY <1>0, <1>1, <2>1, <2>2, DriverLeaves
<1>2. CASE outcome # "Shutdown"
  <2>1. /\ driver' = "returned" /\ outcome' = outcome /\ snap' = NoSnap /\ busy' = {}
        /\ peer # "open" => peer' = peer
    BY <1>2, CloseEndsTells DEF Return
  <2>2. CASE outcome = "ClientError"
    <3>1. /\ "ConnectionTimeout" \in H2Reasons /\ told' \in [H2Streams -> H2Reasons]
          /\ \A s \in H2Streams : told'[s] = told[s] \/ told'[s] = "ConnectionTimeout"
      BY <1>0, <1>2, <2>2, CloseEndsTells, CancelAllTells DEF H2Reasons
    <3> QED BY <1>0, <2>1, <2>2, <3>1, DriverLeaves
  <2>3. CASE outcome = "Drain"
    <3>1. /\ "ServerShutdown" \in H2Reasons /\ told' \in [H2Streams -> H2Reasons]
          /\ \A s \in H2Streams : told'[s] = told[s] \/ told'[s] = "ServerShutdown"
      BY <1>0, <1>2, <2>3, CloseEndsTells, CancelAllTells DEF H2Reasons
    <3> QED BY <1>0, <2>1, <2>3, <3>1, DriverLeaves
  <2>4. CASE outcome \notin {"ClientError", "Drain"}
    <3>1. NotTold \in H2Reasons /\ NotTold = "none" /\ told' = told /\ told' \in [H2Streams -> H2Reasons]
      BY <1>0, <1>2, <2>4, CloseEndsTells DEF H2Reasons, NotTold, StreamTypes
    <3> QED BY <1>0, <2>1, <2>4, <3>1, DriverLeaves
  <2> QED BY <2>2, <2>3, <2>4
<1> QED BY <1>1, <1>2

LEMMA BudgetKeeps ==
    ASSUME H2Inv, BudgetEnds \/ TunnelsDrained
    PROVE  H2Inv'
<1>1. /\ driver \in {"budget", "tunnels"} /\ driver' = "returned" /\ outcome' = outcome /\ told' = told
      /\ snap' = NoSnap /\ busy' = {} /\ (peer # "open" => peer' = peer)
      /\ UNCHANGED <<total, quiet, stop, activity, stream, h2body, known, tracking>>
  BY DEF BudgetEnds, TunnelsDrained, Return, request
<1>2. /\ NotTold \in H2Reasons /\ NotTold = "none" /\ told' \in [H2Streams -> H2Reasons]
      /\ (outcome = "Drain" => LimitReached)
  BY <1>1 DEF H2Reasons, NotTold, StreamTypes, H2Inv, OutcomeIsCause
<1> QED BY <1>1, <1>2, DriverLeaves

\* finish_conn_result: what the connection future's end means.
LEMMA ConnDoneMeans ==
    ASSUME ConnDone
    PROVE  /\ peer # "open" /\ driver \in {"select", "idle"}
           /\ \/ peer = "error" /\ CancelAll("PeerDisconnected") /\ outcome' = "ClientError"
              \/ peer = "timeout" /\ CancelAll("ConnectionTimeout") /\ outcome' = "HeaderTimeout"
              \/ peer \notin {"error", "timeout"} /\ told' = told /\ outcome' = "Normal"
           /\ \/ driver' = "returned" /\ snap' = NoSnap /\ busy' = {}
              \/ driver' = "tunnels" /\ UNCHANGED <<snap, busy>>
           /\ UNCHANGED <<peer, total, quiet, stop, activity, stream, h2body, known, tracking>>
<1>1. CASE peer = "error"
  BY <1>1 DEF ConnDone, Selecting, Return
<1>2. CASE peer = "timeout"
  BY <1>2 DEF ConnDone, Selecting, Return
<1>3. CASE peer \notin {"error", "timeout"}
  BY <1>3 DEF ConnDone, Selecting, Return
<1> QED BY <1>1, <1>2, <1>3

LEMMA ConnDoneKeeps ==
    ASSUME H2Inv, ConnDone
    PROVE  H2Inv'
<1>1. /\ peer # "open" /\ peer' = peer /\ driver \in {"select", "idle"} /\ driver' \in {"returned", "tunnels"}
      /\ (UNCHANGED <<snap, busy>>) \/ (snap' = NoSnap /\ busy' = {})
      /\ UNCHANGED <<total, quiet, stop, activity, stream, h2body, known, tracking>>
  BY ConnDoneMeans
<1>2. StreamTypes
  BY DEF H2Inv
<1>3. CASE peer = "error" /\ CancelAll("PeerDisconnected") /\ outcome' = "ClientError"
  <2>1. /\ "PeerDisconnected" \in H2Reasons /\ told' \in [H2Streams -> H2Reasons]
        /\ \A s \in H2Streams : told'[s] = told[s] \/ told'[s] = "PeerDisconnected"
    BY <1>2, <1>3, CancelAllTells DEF H2Reasons
  <2> QED BY <1>1, <1>3, <2>1, DriverLeaves
<1>4. CASE peer = "timeout" /\ CancelAll("ConnectionTimeout") /\ outcome' = "HeaderTimeout"
  <2>1. /\ "ConnectionTimeout" \in H2Reasons /\ told' \in [H2Streams -> H2Reasons]
        /\ \A s \in H2Streams : told'[s] = told[s] \/ told'[s] = "ConnectionTimeout"
    BY <1>2, <1>4, CancelAllTells DEF H2Reasons
  <2> QED BY <1>1, <1>4, <2>1, DriverLeaves
<1>5. CASE told' = told /\ outcome' = "Normal"
  <2>1. NotTold \in H2Reasons /\ NotTold = "none" /\ told' \in [H2Streams -> H2Reasons]
    BY <1>2, <1>5 DEF H2Reasons, NotTold, StreamTypes
  <2> QED BY <1>1, <1>5, <2>1, DriverLeaves
<1> QED BY <1>3, <1>4, <1>5, ConnDoneMeans

LEMMA TunnelsKeep ==
    ASSUME H2Inv, TunnelsOverdue \/ TunnelsShutDown
    PROVE  H2Inv'
<1>1. StreamTypes
  BY DEF H2Inv
<1>2. CASE TunnelsOverdue
  <2>1. /\ driver = "tunnels" /\ driver' = "returned" /\ outcome' = "TotalTimeout" /\ total
        /\ snap' = NoSnap /\ busy' = {} /\ (peer # "open" => peer' = peer)
        /\ UNCHANGED <<total, quiet, stop, activity, stream, h2body, known, tracking>>
    BY <1>2 DEF TunnelsOverdue, Return
  <2>2. /\ "ConnectionTimeout" \in H2Reasons /\ told' \in [H2Streams -> H2Reasons]
        /\ \A s \in H2Streams : told'[s] = told[s] \/ told'[s] = "ConnectionTimeout"
    BY <1>1, <1>2 DEF TunnelsOverdue, StreamTypes, H2Reasons
  <2> QED BY <2>1, <2>2, DriverLeaves
<1>3. CASE TunnelsShutDown
  <2>1. /\ driver = "tunnels" /\ driver' = "budget" /\ outcome' = "Shutdown" /\ stop
        /\ UNCHANGED <<snap, busy, peer, total, quiet, stop, activity, stream, h2body, known, tracking>>
    BY <1>3 DEF TunnelsShutDown, world
  <2>2. /\ "ServerShutdown" \in H2Reasons /\ told' \in [H2Streams -> H2Reasons]
        /\ \A s \in H2Streams : told'[s] = told[s] \/ told'[s] = "ServerShutdown"
    BY <1>1, <1>3, CancelAllTells DEF TunnelsShutDown, H2Reasons
  <2> QED BY <2>1, <2>2, DriverLeaves
<1> QED BY <1>2, <1>3

LEMMA WorldKeeps ==
    ASSUME H2Inv, PeerEnds \/ TotalPasses \/ IdlePasses \/ StopServer
    PROVE  H2Inv'
<1>1. /\ UNCHANGED <<driver, outcome, snap, busy, drain, stream, h2body, known, tracking,
                     in_flight, outstanding, deferred, completed, told>>
      /\ (total => total') /\ (stop => stop') /\ (peer # "open" => peer' = peer)
  BY SMT DEF PeerEnds, TotalPasses, IdlePasses, StopServer, driving, activity, request
<1>2. quiet' \in BOOLEAN
  BY DEF PeerEnds, TotalPasses, IdlePasses, StopServer, H2Inv, SnapshotInv
<1>3. SnapshotInv' /\ OutcomeIsCause'
  BY <1>1, <1>2 DEF H2Inv, SnapshotInv, OutcomeIsCause, LimitReached
<1> QED BY <1>1, <1>3, QuietDriverStep

LEMMA H2NextKeeps == H2Inv /\ [H2Next]_h2Vars => H2Inv'
<1> SUFFICES ASSUME H2Inv, [H2Next]_h2Vars PROVE H2Inv'
  OBVIOUS
<1>1. CASE Driver
  BY <1>1, DecisionsKeep, LoopGoesOn, CloseEndsKeeps, BudgetKeeps, ConnDoneKeeps, TunnelsKeep DEF Driver
<1>2. CASE PeerEnds \/ TotalPasses \/ IdlePasses \/ StopServer
  BY <1>2, WorldKeeps
<1>3. ASSUME NEW s \in H2Streams, OpenStream(s) \/ Pipeline(s) \/ EndResponse(s) \/ DropPipeline(s)
      PROVE  H2Inv'
  BY <1>3, OpenStreamKeeps, BufferedKeeps, CallReturnsKeeps, StartResponseKeeps, TrackerKeeps, EndResponseKeeps,
     DropPipelineKeeps DEF Pipeline
<1>4. ASSUME NEW s \in H2Streams,
             PollProgress(s) \/ OwnerEnds(s) \/ WatchdogFires(s) \/ TunnelEnds(s) \/ Stall(s)
      PROVE  H2Inv'
  BY <1>4, PollOrStallKeeps, OwnerEndsKeeps, WatchdogKeeps
<1>5. CASE UNCHANGED h2Vars
  <2>1. UNCHANGED <<driver, outcome, snap, busy, peer, total, quiet, stop, drain, stream, h2body, known,
                    tracking, in_flight, outstanding, deferred, completed, told>>
    BY <1>5 DEF h2Vars, driving, world, activity, request
  <2>2. SnapshotInv' /\ OutcomeIsCause'
    BY <2>1 DEF H2Inv, SnapshotInv, OutcomeIsCause, LimitReached
  <2> QED BY <2>1, <2>2, QuietDriverStep
<1> QED BY <1>1, <1>2, <1>3, <1>4, <1>5 DEF H2Next

\* Only the idle decision makes an idle timeout, and it was made from a count.
LEMMA IdleStep ==
    ASSUME H2Inv, [H2Next]_h2Vars, outcome' = "IdleTimeout", outcome # "IdleTimeout"
    PROVE  \A s \in busy : stream[s] \notin Guarded
<1>1. Driver
  <2>1. driving' # driving
    BY DEF driving
  <2>2. ASSUME NEW s \in H2Streams,
               \/ OpenStream(s) \/ Pipeline(s) \/ PollProgress(s) \/ EndResponse(s) \/ DropPipeline(s)
               \/ OwnerEnds(s) \/ WatchdogFires(s) \/ TunnelEnds(s) \/ Stall(s)
        PROVE  FALSE
    BY <2>1, <2>2 DEF OpenStream, Pipeline, Buffered, CallReturns, StartResponse, TrackerEnds, PollProgress,
       EndResponse, DropPipeline, OwnerEnds, WatchdogFires, TunnelEnds, Stall
  <2>3. ~(PeerEnds \/ TotalPasses \/ IdlePasses \/ StopServer)
    BY <2>1 DEF PeerEnds, TotalPasses, IdlePasses, StopServer
  <2> QED BY <2>1, <2>2, <2>3 DEF H2Next, h2Vars
<1>2. IdleClose
  <2>1. ~ConnDone
    BY ConnDoneMeans
  <2>2. ~CloseEnds
    BY CloseEndsTells DEF CloseEnds, Return
  <2>3. ~(TotalDeadline \/ TakeBodyTimeout \/ TakeDrainRequest \/ StallClose \/ ShutdownBranch)
    BY DEF TotalDeadline, TakeBodyTimeout, TakeDrainRequest, StallClose, ShutdownBranch, Close
  <2>4. ~(ReadState \/ LoadInFlight \/ Wait \/ Wake)
    BY DEF ReadState, LoadInFlight, Wait, Wake
  <2>5. ~(BudgetEnds \/ TunnelsDrained \/ TunnelsOverdue \/ TunnelsShutDown)
    BY DEF BudgetEnds, TunnelsDrained, TunnelsOverdue, TunnelsShutDown, Return
  <2> QED BY <1>1, <2>1, <2>2, <2>3, <2>4, <2>5 DEF Driver
<1> QED BY <1>2 DEF IdleClose, Idle, H2Inv, SnapshotInv

\* Of the ways to return, the one after a body timeout or a drain request tells.
LEMMA CloseStep ==
    ASSUME H2Inv, [H2Next]_h2Vars, driver # "returned", driver' = "returned",
           outcome' \in {"Drain", "ClientError"}, peer # "error"
    PROVE  \A s \in known : Live(s) => told'[s] # NotTold
<1>1. Driver
  <2>1. driving' # driving
    BY DEF driving
  <2>2. ASSUME NEW s \in H2Streams,
               \/ OpenStream(s) \/ Pipeline(s) \/ PollProgress(s) \/ EndResponse(s) \/ DropPipeline(s)
               \/ OwnerEnds(s) \/ WatchdogFires(s) \/ TunnelEnds(s) \/ Stall(s)
        PROVE  FALSE
    BY <2>1, <2>2 DEF OpenStream, Pipeline, Buffered, CallReturns, StartResponse, TrackerEnds, PollProgress,
       EndResponse, DropPipeline, OwnerEnds, WatchdogFires, TunnelEnds, Stall
  <2>3. ~(PeerEnds \/ TotalPasses \/ IdlePasses \/ StopServer)
    BY <2>1 DEF PeerEnds, TotalPasses, IdlePasses, StopServer
  <2> QED BY <2>1, <2>2, <2>3 DEF H2Next, h2Vars
<1>2. CloseEnds /\ outcome' = outcome /\ outcome # "Shutdown"
  <2>1. ~ConnDone
    BY ConnDoneMeans
  <2>2. ~(TotalDeadline \/ TakeBodyTimeout \/ TakeDrainRequest \/ StallClose \/ ShutdownBranch \/ IdleClose)
    BY DEF TotalDeadline, TakeBodyTimeout, TakeDrainRequest, StallClose, ShutdownBranch, IdleClose, Close
  <2>3. ~(ReadState \/ LoadInFlight \/ Wait \/ Wake)
    BY DEF ReadState, LoadInFlight, Wait, Wake
  <2>4. ~(BudgetEnds \/ TunnelsDrained \/ TunnelsOverdue \/ TunnelsShutDown)
    BY DEF BudgetEnds, TunnelsDrained, TunnelsOverdue, TunnelsShutDown, Return, H2Inv, OutcomeIsCause
  <2>5. CloseEnds
    BY <1>1, <2>1, <2>2, <2>3, <2>4 DEF Driver
  <2>6. outcome # "Shutdown"
    BY <2>5 DEF CloseEnds
  <2> QED BY <2>5, <2>6, CloseEndsTells DEF Return
<1>3. CancelAll("ConnectionTimeout") \/ CancelAll("ServerShutdown")
  BY <1>2, CloseEndsTells
<1>4. {"ConnectionTimeout", "ServerShutdown"} \subseteq H2Reasons \ {NotTold} /\ StreamTypes
  BY DEF H2Reasons, NotTold, H2Inv
<1> QED BY <1>3, <1>4, CancelAllTells

\* For any finite set of streams and any configuration of an HTTP/2 connection:
\* in_flight, outstanding and deferred count exactly the pipelines, responses and
\* deferred bodies; what a cancelled request is told is true; drive_connection
\* never idles out a connection whose snapshot it took while a request that is
\* still being served was being served; and after a body timeout or the last
\* request of the connection every live registered request has been told.
THEOREM H2AccountsForItsStreams == H2Spec => H2StreamsAreAccounted
<1>1. H2Inv => CountersExact /\ H2ReasonsAreTrue
  BY DEF H2Inv, ReasonHolds, H2ReasonsAreTrue, LimitReached
<1>2. H2Inv /\ [H2Next]_h2Vars =>
        [outcome' = "IdleTimeout" /\ outcome # "IdleTimeout" => \A s \in busy : stream[s] \notin Guarded]_h2Vars
  BY IdleStep
<1>3. H2Inv /\ [H2Next]_h2Vars =>
        [driver # "returned" /\ driver' = "returned" /\ outcome' \in {"Drain", "ClientError"}
           /\ peer # "error"
           => \A s \in known : Live(s) => told'[s] # NotTold]_h2Vars
  BY CloseStep
<1> QED BY <1>1, <1>2, <1>3, H2InitHolds, H2NextKeeps, PTL DEF H2Spec, H2StreamsAreAccounted,
        IdleSparesService, CloseTellsEveryone
==============================================================================
