---------------------------- MODULE ServerProofs -----------------------------
(***************************************************************************)
(* Proofs about Server, for any finite number of streams and any positive  *)
(* connection limit, and about the Tower adapters on its service, for any  *)
(* number of requests and of slots.                                        *)
(***************************************************************************)
EXTENDS Server, TowerAdapter, FiniteSetTheorems, TLAPS

\* An assumption is visible to the section that needs it.
HIDE TowerAssumption

-----------------------------------------------------------------------------
(* The accept loop.                                                        *)

\* The steps that involve no connection permit.
PermitFree ==
    \/ RequestShutdown \/ ObserveResult \/ DropCompletion
    \/ AcceptTransient \/ AcceptFatal \/ AcceptTask
    \/ \E c \in Conns : Relay(c)
    \/ UNCHANGED vars

\* How a connection task ends.
Endings == {"ended", "failed", "cancelled"}

\* Every step takes one permit, returns one, or involves none.
LEMMA StepKinds ==
    ASSUME [Next]_vars
    PROVE  \/ PermitFree
           \/ \E c \in Conns : Accept(c)
           \/ \E c \in Conns, how \in Endings :
                 EndTask(c, how) /\ (how = "cancelled" => accept = "reap")
BY DEF Next, PermitFree, Finish, Panic, AbortTask, Endings

\* Steps that involve no permit leave the semaphore and the live tasks alone.
LEMMA PermitFreeFrame ==
    ASSUME TypeOK, PermitFree
    PROVE  permits' = permits /\ Live' = Live
<1>1. ASSUME NEW c \in Conns, Relay(c) PROVE permits' = permits /\ Live' = Live
  BY <1>1 DEF Relay, Live, TypeOK
<1> QED
  BY <1>1 DEF PermitFree, RequestShutdown, ObserveResult, DropCompletion,
     AcceptTransient, AcceptFatal, AcceptTask, StopAccepting, BackoffElapsed,
     DrainTimeout, ReturnDrained, ReturnTimeout, JoinNext, DrainJoin, ReapAborted,
     Live, conns, vars

\* Live tasks are among the finitely many streams.
LEMMA LiveIsFinite == IsFiniteSet(Live) /\ Cardinality(Live) \in Nat
BY ConnsAssumption, FS_Subset, FS_CardinalityType DEF Live

\* The accept task, its tasks and its semaphore stay well typed; in particular
\* the semaphore never holds more than max_connections permits.
THEOREM ServerTypeCorrect == Spec => [](TypeOK /\ PermitsConserved)
<1>1. Init => TypeOK /\ PermitsConserved
  <2>1. Init => Live = {}
    BY DEF Init, Live
  <2>2. Init => PermitsConserved
    BY <2>1, FS_EmptySet, MaxConnectionsAssumption DEF Init, PermitsConserved
  <2>3. Init => flag \in BOOLEAN /\ terminal_error \in BOOLEAN
    BY Zenon DEF Init
  <2> QED
    BY <2>2, <2>3, MaxConnectionsAssumption DEF Init, TypeOK
<1>2. TypeOK /\ PermitsConserved /\ [Next]_vars => TypeOK' /\ PermitsConserved'
  <2> SUFFICES ASSUME TypeOK, PermitsConserved, [Next]_vars
               PROVE  TypeOK' /\ PermitsConserved'
    OBVIOUS
  <2> USE MaxConnectionsAssumption, LiveIsFinite
  <2>1. CASE PermitFree
    <3>1. PermitsConserved'
      BY <2>1, PermitFreeFrame DEF PermitsConserved
    <3>2. ASSUME NEW c \in Conns, Relay(c) PROVE TypeOK'
      BY <3>2 DEF Relay, TypeOK
    <3>3. ASSUME NEW c \in Conns, JoinNext(c) \/ DrainJoin(c) \/ ReapAborted(c)
          PROVE  TypeOK'
      <4>1. CASE JoinNext(c)
        BY <4>1 DEF JoinNext, TypeOK
      <4>2. CASE DrainJoin(c)
        <5>1. terminal_error' \in BOOLEAN
          BY <4>2, Zenon DEF DrainJoin
        <5> QED BY <4>2, <5>1 DEF DrainJoin, TypeOK
      <4>3. CASE ReapAborted(c)
        BY <4>3 DEF ReapAborted, TypeOK
      <4> QED BY <3>3, <4>1, <4>2, <4>3
    <3>4. ASSUME \/ RequestShutdown \/ ObserveResult \/ DropCompletion
                 \/ AcceptTransient \/ AcceptFatal \/ StopAccepting \/ BackoffElapsed
                 \/ DrainTimeout \/ ReturnDrained \/ ReturnTimeout \/ UNCHANGED vars
          PROVE  TypeOK'
      BY <3>4 DEF RequestShutdown, ObserveResult, DropCompletion, AcceptTransient,
         AcceptFatal, StopAccepting, BackoffElapsed, DrainTimeout, ReturnDrained,
         ReturnTimeout, vars, conns, TypeOK
    <3>5. TypeOK'
      BY ONLY <2>1, <3>2, <3>3, <3>4 DEF PermitFree, AcceptTask
    <3> QED BY <3>1, <3>5
  <2>2. ASSUME NEW c \in Conns, Accept(c) PROVE TypeOK' /\ PermitsConserved'
    <3>1. CASE permits > 0
      <4>1. Live' = Live \cup {c} /\ c \notin Live
        BY <2>2, <3>1 DEF Accept, Live, TypeOK
      <4>2. Cardinality(Live') = Cardinality(Live) + 1
        BY <4>1, FS_AddElement
      <4> QED BY <2>2, <3>1, <4>2 DEF Accept, TypeOK, PermitsConserved
    <3>2. CASE ~(permits > 0)
      <4>1. Live' = Live
        BY <2>2, <3>2 DEF Accept, Live, TypeOK
      <4> QED BY <2>2, <3>2, <4>1 DEF Accept, TypeOK, PermitsConserved
    <3> QED BY <3>1, <3>2
  <2>3. ASSUME NEW c \in Conns, NEW how \in Endings, EndTask(c, how)
        PROVE  TypeOK' /\ PermitsConserved'
    <3>1. Live' = Live \ {c} /\ c \in Live
      BY <2>3 DEF EndTask, Live, TypeOK, Endings
    <3>2. Cardinality(Live') = Cardinality(Live) - 1
      BY <3>1, FS_RemoveElement
    <3>3. Cardinality(Live') \in Nat
      BY <3>1, FS_RemoveElement, FS_CardinalityType
    <3> QED BY <2>3, <3>2, <3>3 DEF EndTask, TypeOK, PermitsConserved, Endings
  <2> QED BY <2>1, <2>2, <2>3, StepKinds
<1> QED BY <1>1, <1>2, PTL DEF Spec

-----------------------------------------------------------------------------
(* The result is truthful.  What it says about the past has to be carried  *)
(* in the state: joined tasks have ended, an error joined before the       *)
(* return is in terminal_error, and only the reaping phase cancels.        *)

ResultInv ==
    /\ \A c \in joined : task[c] \in Endings
    /\ accept = "returned" <=> result # "none"
    /\ accept = "returned" => Owned = {}
    /\ accept \in {"select", "backoff", "drain"} /\ ~terminal_error
          => \A c \in joined : task[c] = "ended"
    /\ \A c \in Conns : task[c] = "cancelled" => accept = "reap" \/ result = "Timeout"
    /\ CleanIsTruthful

\* Every step preserves ResultInv.
LEMMA ResultInvStep ==
    ASSUME TypeOK, TypeOK', ResultInv, [Next]_vars
    PROVE  ResultInv'
<1> USE DEF ResultInv, Owned, Live, CleanIsTruthful, Endings
<1>1. ASSUME NEW c \in Conns, Accept(c) PROVE ResultInv'
  BY <1>1 DEF Accept, TypeOK
<1>2. ASSUME NEW c \in Conns, NEW how \in Endings, EndTask(c, how),
             how = "cancelled" => accept = "reap"
      PROVE  ResultInv'
  BY <1>2 DEF EndTask, TypeOK
<1>3. ASSUME NEW c \in Conns, Relay(c) PROVE ResultInv'
  BY <1>3 DEF Relay, TypeOK
<1>4. ASSUME NEW c \in Conns, JoinNext(c) PROVE ResultInv'
  BY <1>4 DEF JoinNext, TypeOK
<1>5. ASSUME NEW c \in Conns, DrainJoin(c) PROVE ResultInv'
  BY <1>5 DEF DrainJoin, TypeOK
<1>6. ASSUME NEW c \in Conns, ReapAborted(c) PROVE ResultInv'
  BY <1>6 DEF ReapAborted, TypeOK
<1>7. ASSUME ReturnDrained PROVE ResultInv'
  BY <1>7 DEF ReturnDrained, conns, TypeOK
<1>8. ASSUME ReturnTimeout PROVE ResultInv'
  BY <1>8 DEF ReturnTimeout, conns, TypeOK
<1>9. ASSUME \/ RequestShutdown \/ ObserveResult \/ DropCompletion \/ AcceptTransient
             \/ AcceptFatal \/ StopAccepting \/ BackoffElapsed \/ DrainTimeout
             \/ UNCHANGED vars
      PROVE  ResultInv'
  BY <1>9 DEF RequestShutdown, ObserveResult, DropCompletion, AcceptTransient,
     AcceptFatal, StopAccepting, BackoffElapsed, DrainTimeout, conns, vars, TypeOK
<1> QED
  BY ONLY <1>1, <1>2, <1>3, <1>4, <1>5, <1>6, <1>7, <1>8, <1>9, StepKinds, [Next]_vars
     DEF PermitFree, AcceptTask

\* For every number of connections permits are conserved through every ending,
\* Clean means that no connection task was aborted or panicked, and when the
\* accept task has returned every connection task has been joined and every
\* permit is back in the semaphore.
THEOREM ServerOwnershipIsExact == Spec => []OwnershipIsExact
<1>1. Init => ResultInv
  BY DEF Init, ResultInv, Owned, CleanIsTruthful
<1>2. TypeOK /\ PermitsConserved /\ ResultInv => ReturnedOwnsNothing
  <2> SUFFICES ASSUME TypeOK, PermitsConserved, ResultInv, result # "none"
               PROVE  Owned = {} /\ permits = MaxConnections
    BY DEF ReturnedOwnsNothing
  <2>1. Owned = {}
    BY DEF ResultInv
  <2>2. Live = {}
    BY <2>1 DEF ResultInv, Owned, Live, Endings
  <2> QED BY <2>1, <2>2, FS_EmptySet DEF PermitsConserved, TypeOK
<1>3. TypeOK /\ PermitsConserved /\ ResultInv => OwnershipIsExact
  BY <1>2 DEF ResultInv, OwnershipIsExact
<1> QED BY <1>1, <1>3, ResultInvStep, ServerTypeCorrect, PTL DEF Spec

-----------------------------------------------------------------------------
(* The accept loop implements the admission contract.                      *)

\* The fates of all streams, as the contract sees them.
Fates == [c \in Conns |-> Fate(c)]

\* The loop has been left.
Left == accept \notin {"select", "backoff"}

\* The contract counts exactly the live tasks.
LEMMA HeldIsLive ==
    ASSUME TypeOK
    PROVE  Admission!Cardinality(Admission!Held) = Cardinality(Live)
<1>1. Admission!Held = Live
  BY DEF Admission!Held, Fate, Live, TypeOK
<1>2. Admission!Cardinality(Live) = Cardinality(Live)
  BY Zenon DEF Admission!Cardinality, Cardinality
<1> QED BY <1>1, <1>2

\* A step that accepts and ends no connection leaves every fate alone; if it
\* leaves the loop, it is the contract's Close.
LEMMA QuietStepRefines ==
    ASSUME TypeOK, PermitFree
    PROVE  Admission!Close \/ UNCHANGED <<Fates, Left>>
<1>1. Fates' = Fates
  <2>1. ASSUME NEW c \in Conns, Relay(c) PROVE \A d \in Conns : Fate(d)' = Fate(d)
    BY <2>1 DEF Relay, Fate, Live, TypeOK
  <2>2. task' = task \/ \E c \in Conns : Relay(c)
    BY DEF PermitFree, RequestShutdown, ObserveResult, DropCompletion, AcceptTransient,
       AcceptFatal, AcceptTask, StopAccepting, BackoffElapsed, DrainTimeout, ReturnDrained,
       ReturnTimeout, JoinNext, DrainJoin, ReapAborted, conns, vars
  <2>3. ASSUME task' = task PROVE \A d \in Conns : Fate(d)' = Fate(d)
    BY <2>3 DEF Fate, Live
  <2> QED BY <2>1, <2>2, <2>3, Zenon DEF Fates
<1>2. Left => Left'
  BY DEF Left, PermitFree, RequestShutdown, ObserveResult, DropCompletion, AcceptTransient,
     AcceptFatal, AcceptTask, StopAccepting, BackoffElapsed, DrainTimeout, ReturnDrained,
     ReturnTimeout, JoinNext, DrainJoin, ReapAborted, Relay, vars
<1>3. CASE ~Left /\ Left'
  BY <1>1, <1>3, Zenon DEF Admission!Close, Fates, Left
<1>4. CASE ~(~Left /\ Left')
  <2>1. Left' = Left
    BY <1>2, <1>4, Zenon DEF Left
  <2> QED BY <1>1, <2>1
<1> QED BY <1>3, <1>4

\* Accepting a stream is an admission while a permit is free, a refusal when
\* the live tasks hold them all.
LEMMA AcceptRefines ==
    ASSUME TypeOK, PermitsConserved, NEW c \in Conns, Accept(c)
    PROVE  Admission!Admit(c) \/ Admission!Refuse(c)
<1> USE MaxConnectionsAssumption, LiveIsFinite, HeldIsLive
<1>1. Fates[c] = "none"
  BY DEF Accept, Fates, Fate, Live, TypeOK
<1>2. ~Left
  BY DEF Accept, Left
<1>3. Left' = Left
  BY DEF Accept, Left
<1>4. CASE permits > 0
  <2>1. Admission!Cardinality(Admission!Held) < MaxConnections
    BY <1>4 DEF PermitsConserved, TypeOK
  <2>2. Fates' = [Fates EXCEPT ![c] = "held"]
    BY <1>4 DEF Accept, Fates, Fate, Live, TypeOK
  <2> QED BY <1>1, <1>2, <1>3, <2>1, <2>2 DEF Admission!Admit, Fates, Left
<1>5. CASE ~(permits > 0)
  <2>1. Admission!Cardinality(Admission!Held) = MaxConnections
    BY <1>5 DEF PermitsConserved, TypeOK
  <2>2. Fates' = [Fates EXCEPT ![c] = "refused"]
    BY <1>5 DEF Accept, Fates, Fate, Live, TypeOK
  <2> QED BY <1>1, <1>2, <1>3, <2>1, <2>2 DEF Admission!Refuse, Fates, Left
<1> QED BY <1>4, <1>5

\* However a task ends, the contract sees one release.
LEMMA EndingRefines ==
    ASSUME TypeOK, NEW c \in Conns, NEW how \in Endings, EndTask(c, how)
    PROVE  Admission!Release(c)
<1>1. Fate(c) = "held"
  BY DEF EndTask, Fate, Live, TypeOK
<1>2. Fates' = [Fates EXCEPT ![c] = "released"]
  BY DEF EndTask, Fates, Fate, Live, TypeOK, Endings
<1>3. Left' = Left
  BY Zenon DEF EndTask, Left
<1> QED BY <1>1, <1>2, <1>3, Zenon DEF Admission!Release, Fates, Left

\* The direct server implements the admission contract, for any finite number of
\* streams and any limit: no stream is dropped while a permit is free, none is
\* admitted above the limit or after the loop is left, and each is released once
\* however its task ends.
THEOREM ServerImplementsAdmission == Spec => AdmitsWithinLimit
<1>1. ASSUME Init PROVE Admission!Init
  <2>1. \A c \in Conns : Fate(c) = "none"
    BY <1>1 DEF Init, Fate, Live
  <2>2. (accept \notin {"select", "backoff"}) \in BOOLEAN
    BY Zenon
  <2> QED BY <2>1, <2>2, Zenon DEF Admission!Init
<1>2. TypeOK /\ PermitsConserved /\ [Next]_vars => [Admission!Next]_<<Fates, Left>>
  <2> SUFFICES ASSUME TypeOK, PermitsConserved, [Next]_vars
               PROVE  Admission!Next \/ UNCHANGED <<Fates, Left>>
    OBVIOUS
  <2>1. CASE PermitFree
    BY <2>1, QuietStepRefines DEF Admission!Next
  <2>2. CASE \E c \in Conns : Accept(c)
    BY <2>2, AcceptRefines DEF Admission!Next
  <2>3. CASE \E c \in Conns, how \in Endings : EndTask(c, how)
    BY <2>3, EndingRefines DEF Admission!Next
  <2> QED BY <2>1, <2>2, <2>3, StepKinds
<1> QED
  BY <1>1, <1>2, ServerTypeCorrect, PTL DEF Spec, AdmitsWithinLimit, Admission!Spec, Fates, Left

-----------------------------------------------------------------------------
(* The Tower adapters.  Each exchange is described by where it is.         *)

Phases == {"idle", "readying", "ready", "serving", "streaming", "trailing", "over"}

TowerTypes ==
    /\ phase \in [TowerRequests -> Phases] /\ readied \subseteq TowerRequests /\ slots \in Nat
    /\ head \in [TowerRequests -> Heads] /\ DOMAIN http = TowerRequests /\ DOMAIN served = TowerRequests
    /\ view \in [TowerRequests -> [state : {"open", "complete", "error"}, failure : BOOLEAN]]
    /\ frames \in [TowerRequests -> Seq({"data", "trailers", "end", "error"})]
    /\ answer \in [TowerRequests -> Answers \cup {NoAnswer}]
    /\ produced \in [TowerRequests -> Seq(ResponseFrames)]
    /\ slot \in [TowerRequests -> [filled : {"unset", "some", "nothing", "error"}, emitted : BOOLEAN]]
    /\ passed \in [TowerRequests -> Nat]
    /\ verdict \in [TowerRequests -> {"none", "failed", "empty", "complete", "trailed", "dropped"}]

\* The head: nobody but the runtime writes it before the stack is called.
Crossed(h, q, s) ==
    /\ \A i \in DOMAIN q.hosts : q.hosts[i] = s.authority
    /\ q.ext => s.raw = h.raw /\ h.authority \in {"none", s.authority}

HeadHolds(p, h, q, s) ==
    /\ p \in {"idle", "readying", "ready"} => s = NoHead
    /\ p \in {"readying", "ready"} => q = request_head_to_http(h)
    /\ s # NoHead => Crossed(h, q, s)

\* The request's frames: data while the body is open, then what ended it.
FramesHold(v, s) ==
    /\ v.state = "open" => \A i \in DOMAIN s : s[i] = "data"
    /\ v.state = "complete" => \A i \in DOMAIN s : s[i] # "error"
    /\ v.state = "error" /\ v.failure => \A i \in DOMAIN s : s[i] \notin {"trailers", "end"}
    /\ \A i, j \in DOMAIN s : i < j /\ s[i] \in {"trailers", "end"} => s[j] = "end"

\* The response: what the frames so far have put into the slot.
FramesOf(s, T) == \A i \in DOMAIN s : s[i] \in T

ResponseHolds(p, a, s, n, l, v) ==
    /\ n = DataFrames(s)
    /\ p \in {"idle", "readying", "ready", "serving"} => s = <<>>
    /\ p \in {"idle", "readying", "ready", "serving", "streaming"} =>
           FramesOf(s, {"data", "empty"}) /\ l.filled = "unset" /\ ~ l.emitted
    /\ p = "trailing" =>
           /\ FramesOf(s, {"data", "empty", "blank", "trailers", "forbidden", "end"})
           /\ (l.filled = "some") <=> ~ FramesOf(s, ResponseFrames \ {"trailers"})
           /\ l.filled # "error" => FramesOf(s, ResponseFrames \ {"forbidden"})
    /\ p # "over" => v = "none"
    /\ v \in {"complete", "trailed"} =>
           /\ FramesOf(s, ResponseFrames \ {"error", "forbidden"}) /\ a.exact \subseteq {n}
           /\ (v = "trailed") <=> ~ FramesOf(s, ResponseFrames \ {"trailers"})
    /\ v = "empty" => a.ended /\ s = <<>>

Exchange(r) ==
    /\ (r \in readied) <=> (phase[r] \in {"ready", "serving"})
    /\ HeadHolds(phase[r], head[r], http[r], served[r])
    /\ FramesHold(view[r], frames[r])
    /\ ResponseHolds(phase[r], answer[r], produced[r], passed[r], slot[r], verdict[r])

TowerInv == TowerTypes /\ slots + Cardinality(readied) = TowerSlots /\ \A r \in TowerRequests : Exchange(r)

LEMMA TowerInvImplies == TowerInv => AdapterKeepsExchanges
<1> SUFFICES ASSUME TowerInv PROVE AdapterKeepsExchanges
  BY Zenon
<1>1. SlotsBelongToClones
  BY Zenon DEF TowerInv, Exchange, SlotsBelongToClones
<1>2. HeadsCross
  BY Zenon DEF TowerInv, Exchange, HeadHolds, Crossed, HeadsCross
<1>3. RequestFramesInOrder
  BY DEF TowerInv, Exchange, FramesHold, RequestFramesInOrder, is_end_stream, Given
<1>4. ResponsesCross
  <2> SUFFICES ASSUME NEW r \in TowerRequests
               PROVE  /\ verdict[r] \in {"complete", "trailed"} =>
                             /\ Given(produced[r]) \cap {"error", "forbidden"} = {}
                             /\ passed[r] = DataFrames(produced[r])
                             /\ answer[r].exact \subseteq {passed[r]}
                             /\ verdict[r] = "trailed" <=> "trailers" \in Given(produced[r])
                      /\ verdict[r] = "empty" => answer[r].ended /\ produced[r] = <<>>
    BY Zenon DEF ResponsesCross
  <2>1. ResponseHolds(phase[r], answer[r], produced[r], passed[r], slot[r], verdict[r])
    BY Zenon DEF TowerInv, Exchange
  <2>2. \A i \in DOMAIN produced[r] : produced[r][i] \in ResponseFrames
    BY DEF TowerInv, TowerTypes
  <2>3. FramesOf(produced[r], ResponseFrames \ {"error", "forbidden"}) => Given(produced[r]) \cap {"error", "forbidden"} = {}
    BY Zenon DEF FramesOf, Given
  <2>4. ~ FramesOf(produced[r], ResponseFrames \ {"trailers"}) <=> "trailers" \in Given(produced[r])
    BY <2>2, Zenon DEF FramesOf, Given
  <2> QED BY <2>1, <2>3, <2>4, Zenon DEF ResponseHolds
<1> QED BY <1>1, <1>2, <1>3, <1>4, Zenon DEF AdapterKeepsExchanges

LEMMA TowerInitHolds == TowerInit => TowerInv
<1> SUFFICES ASSUME TowerInit PROVE TowerInv
  BY Zenon
<1>1. TowerTypes
  BY TowerAssumption DEF TowerInit, TowerTypes, Phases
<1>2. slots + Cardinality(readied) = TowerSlots
  BY TowerAssumption, FS_EmptySet DEF TowerInit
<1>3. DataFrames(<<>>) = 0
  <2>1. {i \in DOMAIN <<>> : <<>>[i] = "data"} = {}
    OBVIOUS
  <2> QED BY <2>1, FS_EmptySet DEF DataFrames
<1>4. ASSUME NEW r \in TowerRequests PROVE Exchange(r)
  <2>1. (r \in readied) <=> (phase[r] \in {"ready", "serving"})
    BY Zenon DEF TowerInit
  <2>2. HeadHolds(phase[r], head[r], http[r], served[r])
    BY Zenon DEF TowerInit, HeadHolds
  <2>3. FramesHold(view[r], frames[r])
    BY DEF TowerInit, FramesHold
  <2>4. ResponseHolds(phase[r], answer[r], produced[r], passed[r], slot[r], verdict[r])
    BY <1>3 DEF TowerInit, ResponseHolds, FramesOf
  <2> QED BY <2>1, <2>2, <2>3, <2>4, Zenon DEF Exchange
<1> QED BY <1>1, <1>2, <1>4, Zenon DEF TowerInv

\* A step of one exchange leaves the others alone.
Elsewhere(r) == \A c \in TowerRequests \ {r} :
    /\ c \in readied' <=> c \in readied
    /\ phase'[c] = phase[c] /\ head'[c] = head[c] /\ http'[c] = http[c] /\ served'[c] = served[c]
    /\ view'[c] = view[c] /\ frames'[c] = frames[c] /\ answer'[c] = answer[c] /\ produced'[c] = produced[c]
    /\ slot'[c] = slot[c] /\ passed'[c] = passed[c] /\ verdict'[c] = verdict[c]

LEMMA ExchangeSteps ==
    ASSUME TowerInv, NEW r \in TowerRequests, Elsewhere(r), TowerTypes',
           slots' + Cardinality(readied') = TowerSlots,
           (r \in readied') <=> (phase'[r] \in {"ready", "serving"}),
           HeadHolds(phase'[r], head'[r], http'[r], served'[r]),
           FramesHold(view'[r], frames'[r]),
           ResponseHolds(phase'[r], answer'[r], produced'[r], passed'[r], slot'[r], verdict'[r])
    PROVE  TowerInv'
<1>1. Exchange(r)'
  BY Zenon DEF Exchange
<1>2. ASSUME NEW c \in TowerRequests \ {r} PROVE Exchange(c)'
  <2>1. Exchange(c)
    BY Zenon DEF TowerInv
  <2> QED BY <1>2, <2>1, Zenon DEF Exchange, Elsewhere
<1>3. \A c \in TowerRequests : Exchange(c)'
  BY <1>1, <1>2, Zenon
<1> QED BY <1>3, Zenon DEF TowerInv

LEMMA DropReturnsSlot ==
    ASSUME TowerInv, NEW r \in TowerRequests, DropClone(r)
    PROVE  /\ readied' \subseteq TowerRequests /\ slots' \in Nat /\ slots' + Cardinality(readied') = TowerSlots
           /\ r \notin readied' /\ \A c \in TowerRequests \ {r} : c \in readied' <=> c \in readied
<1>1. readied \subseteq TowerRequests /\ slots \in Nat /\ slots + Cardinality(readied) = TowerSlots
  BY Zenon DEF TowerInv, TowerTypes
<1>2. IsFiniteSet(readied) /\ Cardinality(readied) \in Nat
  BY <1>1, TowerAssumption, FS_Subset, FS_CardinalityType
<1>3. CASE r \in readied
  <2>1. Cardinality(readied \ {r}) = Cardinality(readied) - 1
    BY <1>2, <1>3, FS_RemoveElement, Zenon
  <2>2. readied' = readied \ {r} /\ slots' = slots + 1
    BY <1>3, Zenon DEF DropClone
  <2> QED BY <1>1, <1>2, <2>1, <2>2, TowerAssumption
<1>4. CASE r \notin readied
  <2>1. readied' = readied /\ slots' = slots
    BY <1>4, Zenon DEF DropClone
  <2> QED BY <1>1, <1>4, <2>1, Zenon
<1> QED BY <1>3, <1>4, Zenon

\* An exchange that ends without a further word on its response.
LEMMA OverHolds ==
    ASSUME NEW p, p # "over", NEW a, NEW s, NEW n, NEW l, NEW v, ResponseHolds(p, a, s, n, l, v), NEW w \in {"failed", "dropped"}
    PROVE  ResponseHolds("over", a, s, n, l, w)
BY Zenon DEF ResponseHolds

LEMMA CallHolds ==
    ASSUME TowerInv, NEW r \in TowerRequests, Call(r)
    PROVE  TowerInv'
<1>1. phase[r] = "idle" /\ Exchange(r) /\ TowerTypes /\ slots + Cardinality(readied) = TowerSlots
      /\ UNCHANGED <<readied, slots, head, served, view, frames, answer, produced, slot, passed>>
  BY Zenon DEF Call, TowerInv
<1>2. HeadHolds("idle", head[r], http[r], served[r]) /\ FramesHold(view[r], frames[r]) /\ r \notin readied
      /\ ResponseHolds("idle", answer[r], produced[r], passed[r], slot[r], verdict[r])
  BY <1>1, Zenon DEF Exchange
<1>3. CASE /\ phase' = [phase EXCEPT ![r] = "readying"] /\ UNCHANGED verdict
           /\ http' = [http EXCEPT ![r] = request_head_to_http(head[r])]
  <2>1. TowerTypes' /\ Elsewhere(r)
    BY <1>1, <1>3, Zenon DEF TowerTypes, Elsewhere, Phases
  <2>2. phase'[r] = "readying" /\ http'[r] = request_head_to_http(head[r])
    BY <1>1, <1>3, Zenon DEF TowerTypes
  <2>3. HeadHolds(phase'[r], head'[r], http'[r], served'[r])
    BY <1>1, <1>2, <2>2, Zenon DEF HeadHolds
  <2>4. ResponseHolds(phase'[r], answer'[r], produced'[r], passed'[r], slot'[r], verdict'[r])
    BY <1>1, <1>2, <1>3, <2>2, Zenon DEF ResponseHolds
  <2> QED BY <1>1, <1>2, <2>1, <2>2, <2>3, <2>4, ExchangeSteps, Zenon
<1>4. CASE /\ phase' = [phase EXCEPT ![r] = "over"] /\ verdict' = [verdict EXCEPT ![r] = "failed"]
           /\ UNCHANGED http
  <2>1. TowerTypes' /\ Elsewhere(r)
    BY <1>1, <1>4, Zenon DEF TowerTypes, Elsewhere, Phases
  <2>2. phase'[r] = "over" /\ verdict'[r] = "failed"
    BY <1>1, <1>4, Zenon DEF TowerTypes
  <2>3. HeadHolds(phase'[r], head'[r], http'[r], served'[r])
    BY <1>1, <1>2, <1>4, <2>2, Zenon DEF HeadHolds
  <2>4. ResponseHolds(phase'[r], answer'[r], produced'[r], passed'[r], slot'[r], verdict'[r])
    BY <1>1, <1>2, <2>2, OverHolds, Zenon
  <2> QED BY <1>1, <1>2, <2>1, <2>2, <2>3, <2>4, ExchangeSteps, Zenon
<1> QED BY <1>3, <1>4, Zenon DEF Call

LEMMA PollReadyHolds ==
    ASSUME TowerInv, NEW r \in TowerRequests, PollReady(r)
    PROVE  TowerInv'
<1>1. phase[r] = "readying" /\ Exchange(r) /\ TowerTypes /\ slots + Cardinality(readied) = TowerSlots
      /\ phase' = [phase EXCEPT ![r] = "ready"] /\ readied' = readied \cup {r} /\ slots' = slots - 1 /\ slots > 0
      /\ UNCHANGED <<head, http, served, view, frames, answer, produced, slot, passed, verdict>>
  BY Zenon DEF PollReady, TowerInv
<1>2. HeadHolds("readying", head[r], http[r], served[r]) /\ FramesHold(view[r], frames[r]) /\ r \notin readied
      /\ ResponseHolds("readying", answer[r], produced[r], passed[r], slot[r], verdict[r])
  BY <1>1, Zenon DEF Exchange
<1>3. TowerTypes' /\ Elsewhere(r) /\ phase'[r] = "ready"
  BY <1>1 DEF TowerTypes, Elsewhere, Phases
<1>4. slots' + Cardinality(readied') = TowerSlots
  <2>1. IsFiniteSet(readied) /\ Cardinality(readied) \in Nat
    BY <1>1, TowerAssumption, FS_Subset, FS_CardinalityType DEF TowerTypes
  <2>2. Cardinality(readied \cup {r}) = Cardinality(readied) + 1
    BY <1>2, <2>1, FS_AddElement, Zenon
  <2>3. slots \in Nat
    BY <1>1, Zenon DEF TowerTypes
  <2> QED BY <1>1, <2>1, <2>2, <2>3, TowerAssumption
<1>5. HeadHolds(phase'[r], head'[r], http'[r], served'[r])
  BY <1>1, <1>2, <1>3, Zenon DEF HeadHolds
<1>6. ResponseHolds(phase'[r], answer'[r], produced'[r], passed'[r], slot'[r], verdict'[r])
  BY <1>1, <1>2, <1>3, Zenon DEF ResponseHolds
<1> QED BY <1>1, <1>2, <1>3, <1>4, <1>5, <1>6, ExchangeSteps, Zenon

\* The future or the stream is dropped, or the call fails.
LEMMA EndHolds ==
    ASSUME TowerInv, NEW r \in TowerRequests, phase[r] # "over", DropClone(r), NEW w \in {"failed", "dropped"},
           phase' = [phase EXCEPT ![r] = "over"], verdict' = [verdict EXCEPT ![r] = w],
           DOMAIN http' = TowerRequests, \A c \in TowerRequests \ {r} : http'[c] = http[c],
           http'[r] = http[r] \/ served[r] = NoHead,
           UNCHANGED <<head, served, view, frames, answer, produced, slot, passed>>
    PROVE  TowerInv'
<1>1. Exchange(r) /\ TowerTypes
  BY Zenon DEF TowerInv
<1>2. HeadHolds(phase[r], head[r], http[r], served[r]) /\ FramesHold(view[r], frames[r])
      /\ ResponseHolds(phase[r], answer[r], produced[r], passed[r], slot[r], verdict[r])
  BY <1>1, Zenon DEF Exchange
<1>3. /\ readied' \subseteq TowerRequests /\ slots' \in Nat /\ slots' + Cardinality(readied') = TowerSlots
      /\ r \notin readied' /\ \A c \in TowerRequests \ {r} : c \in readied' <=> c \in readied
  BY DropReturnsSlot, Zenon
<1>4. TowerTypes' /\ phase'[r] = "over" /\ verdict'[r] = w
  BY <1>1, <1>3, Zenon DEF TowerTypes, Phases
<1>5. Elsewhere(r)
  BY <1>1, <1>3, Zenon DEF TowerTypes, Elsewhere
<1>6. HeadHolds(phase'[r], head'[r], http'[r], served'[r])
  BY <1>2, <1>4, Zenon DEF HeadHolds
<1>7. ResponseHolds(phase'[r], answer'[r], produced'[r], passed'[r], slot'[r], verdict'[r])
  BY <1>2, <1>4, OverHolds
<1> QED BY <1>2, <1>3, <1>4, <1>5, <1>6, <1>7, ExchangeSteps, Zenon

LEMMA RefuseHolds ==
    ASSUME TowerInv, NEW r \in TowerRequests, Refuse(r) \/ Abandon(r)
    PROVE  TowerInv'
<1>1. DOMAIN http = TowerRequests
  BY Zenon DEF TowerInv, TowerTypes
<1>2. CASE Refuse(r)
  BY <1>1, <1>2, EndHolds, Zenon DEF Refuse, Fail
<1>3. CASE Abandon(r)
  BY <1>1, <1>3, EndHolds, Zenon DEF Abandon
<1> QED BY <1>2, <1>3, Zenon

\* A layer's edits cannot make the two heads contradict each other: what
\* request_head_from_http accepts it takes from the extensions or from Host.
LEMMA EditsCross ==
    ASSUME NEW h \in Heads, NEW edit \in Edits, NEW q,
           q = [f \in DOMAIN request_head_to_http(h) |->
                    IF f \in DOMAIN edit THEN edit[f] ELSE request_head_to_http(h)[f]],
           request_head_from_http(q) # NoHead
    PROVE  Crossed(h, q, request_head_from_http(q))
<1>1. h \in [raw : STRING, authority : STRING, hosts : Seq(STRING)]
  BY TowerAssumption, Zenon
<1>2. /\ DOMAIN edit \subseteq {"uri", "absolute", "hosts", "ext"}
      /\ "hosts" \in DOMAIN edit => edit.hosts \in Seq(STRING)
      /\ "ext" \in DOMAIN edit => edit.ext \in BOOLEAN
  BY TowerAssumption, Zenon
<1>3. DOMAIN request_head_to_http(h) = {"uri", "absolute", "hosts", "raw", "ext", "authority"}
  BY Zenon DEF request_head_to_http
<1>4. q.raw = h.raw /\ q.authority = h.authority
  BY <1>2, <1>3, Zenon DEF request_head_to_http
<1>5. q.hosts \in Seq(STRING) /\ q.ext \in BOOLEAN
  BY <1>1, <1>2, <1>3, Zenon DEF request_head_to_http
<1> DEFINE s == request_head_from_http(q)
<1>6. /\ q.hosts # <<>> => /\ \A i \in DOMAIN q.hosts : q.hosts[i] = Head(q.hosts)
                           /\ q.ext /\ q.authority # "none" => Head(q.hosts) = q.authority
      /\ s.raw = IF q.ext THEN q.raw ELSE q.uri
      /\ s.authority = IF q.ext /\ q.authority # "none" THEN q.authority
                       ELSE IF q.hosts # <<>> THEN Head(q.hosts) ELSE "none"
  <2> DEFINE agreed == q.hosts # <<>> => \A i \in DOMAIN q.hosts : q.hosts[i] = Head(q.hosts)
             fits == q.hosts # <<>> => /\ Head(q.hosts) # "malformed"
                                       /\ q.ext /\ q.authority # "none" => Head(q.hosts) = q.authority
             parts == [raw |-> IF q.ext THEN q.raw ELSE q.uri,
                       authority |-> IF q.ext /\ q.authority # "none" THEN q.authority
                                     ELSE IF q.hosts # <<>> THEN Head(q.hosts) ELSE "none"]
  <2>1. s = IF agreed /\ fits /\ (q.ext \/ ~ q.absolute) THEN parts ELSE NoHead
    BY Zenon DEF request_head_from_http
  <2>2. agreed /\ fits /\ s = parts
    <3> HIDE DEF agreed, fits, parts
    <3> QED BY <2>1, Zenon
  <2>3. s.raw = parts.raw /\ s.authority = parts.authority
    <3> HIDE DEF s
    <3> QED BY <2>2, Zenon
  <2> HIDE DEF s
  <2> QED BY <2>2, <2>3, Zenon
<1> HIDE DEF s
<1>7. \A i \in DOMAIN q.hosts : q.hosts[i] = s.authority
  <2>1. CASE q.hosts = <<>>
    BY <2>1
  <2>2. CASE q.hosts # <<>>
    <3>1. s.authority = Head(q.hosts) /\ \A i \in DOMAIN q.hosts : q.hosts[i] = Head(q.hosts)
      BY <1>6, <2>2, Zenon
    <3> QED BY <3>1, Zenon
  <2> QED BY <2>1, <2>2, Zenon
<1>8. q.ext => s.raw = h.raw /\ h.authority \in {"none", s.authority}
  BY <1>4, <1>6, Zenon
<1> QED BY <1>7, <1>8, Zenon DEF Crossed, s

LEMMA CallStackHolds ==
    ASSUME TowerInv, NEW r \in TowerRequests, CallStack(r)
    PROVE  TowerInv'
<1>1. PICK edit \in Edits :
        http' = [http EXCEPT ![r] = [f \in DOMAIN http[r] |-> IF f \in DOMAIN edit THEN edit[f] ELSE http[r][f]]]
  BY Zenon DEF CallStack
<1>2. phase[r] = "ready" /\ Exchange(r) /\ TowerTypes /\ slots + Cardinality(readied) = TowerSlots
      /\ UNCHANGED <<head, view, frames, answer, produced, slot, passed>>
  BY Zenon DEF CallStack, TowerInv
<1>3. HeadHolds("ready", head[r], http[r], served[r]) /\ FramesHold(view[r], frames[r]) /\ r \in readied
      /\ ResponseHolds("ready", answer[r], produced[r], passed[r], slot[r], verdict[r])
  BY <1>2, Zenon DEF Exchange
<1>4. DOMAIN http' = TowerRequests /\ (\A c \in TowerRequests \ {r} : http'[c] = http[c]) /\ served[r] = NoHead
      /\ http[r] = request_head_to_http(head[r])
  BY <1>1, <1>2, <1>3, Zenon DEF TowerTypes, HeadHolds
<1>5. CASE request_head_from_http(http'[r]) = NoHead
  BY <1>2, <1>4, <1>5, EndHolds, Zenon DEF CallStack, Fail
<1>6. CASE request_head_from_http(http'[r]) # NoHead
  <2>1. /\ served' = [served EXCEPT ![r] = request_head_from_http(http'[r])]
        /\ phase' = [phase EXCEPT ![r] = "serving"] /\ UNCHANGED <<readied, slots, verdict>>
    BY <1>6, Zenon DEF CallStack
  <2>2. TowerTypes' /\ Elsewhere(r)
    BY <1>2, <1>4, <2>1, Zenon DEF TowerTypes, Elsewhere, Phases
  <2>3. phase'[r] = "serving" /\ served'[r] = request_head_from_http(http'[r]) /\ head[r] \in Heads
    BY <1>2, <2>1, Zenon DEF TowerTypes
  <2>4. http'[r] = [f \in DOMAIN request_head_to_http(head[r]) |->
                       IF f \in DOMAIN edit THEN edit[f] ELSE request_head_to_http(head[r])[f]]
    BY <1>1, <1>2, <1>4, Zenon DEF TowerTypes
  <2>5. Crossed(head[r], http'[r], served'[r])
    BY <1>6, <2>3, <2>4, EditsCross, Zenon
  <2>6. HeadHolds(phase'[r], head'[r], http'[r], served'[r])
    BY <1>2, <2>3, <2>5, Zenon DEF HeadHolds
  <2>7. ResponseHolds(phase'[r], answer'[r], produced'[r], passed'[r], slot'[r], verdict'[r])
    BY <1>2, <1>3, <2>1, <2>3, Zenon DEF ResponseHolds
  <2> QED BY <1>2, <1>3, <2>1, <2>2, <2>3, <2>6, <2>7, ExchangeSteps, Zenon
<1> QED BY <1>5, <1>6, Zenon

LEMMA AppendFrame ==
    ASSUME NEW T, NEW s \in Seq(T), NEW e \in T
    PROVE  /\ Append(s, e) \in Seq(T) /\ Len(s) \in Nat /\ DOMAIN s = 1 .. Len(s)
           /\ DOMAIN Append(s, e) = 1 .. Len(s) + 1 /\ Append(s, e)[Len(s) + 1] = e
           /\ \A i \in DOMAIN s : Append(s, e)[i] = s[i]
OBVIOUS

\* What HttpRequestBody gives next in state v, and the state w it leaves.
FollowsIn(v, w, e) ==
    \/ v.state = "open" /\ w.state = "open" /\ e = "data"
    \/ v.state = "open" /\ w.state = "error" /\ e = "error"
    \/ v.state = "open" /\ w.state = "complete" /\ e \in {"trailers", "end"}
    \/ (v.state = "complete" \/ (v.state = "error" /\ ~ v.failure)) /\ w = v /\ e = "end"
    \/ v.state = "error" /\ v.failure /\ w = v /\ e = "error"

LEMMA FrameGiven ==
    ASSUME NEW s \in Seq({"data", "trailers", "end", "error"}), NEW e \in {"data", "trailers", "end", "error"},
           NEW v, NEW w, FramesHold(v, s), FollowsIn(v, w, e)
    PROVE  FramesHold(w, Append(s, e))
<1> DEFINE q == Append(s, e)
<1>1. Len(s) \in Nat /\ DOMAIN s = 1 .. Len(s) /\ DOMAIN q = 1 .. Len(s) + 1 /\ q[Len(s) + 1] = e
      /\ \A i \in DOMAIN s : q[i] = s[i]
  BY AppendFrame
<1> HIDE DEF q
<1>2. \A i \in DOMAIN q : (i \in DOMAIN s /\ q[i] = s[i]) \/ (i = Len(s) + 1 /\ q[i] = e)
  BY <1>1
<1>3. w.state = "open" => \A i \in DOMAIN q : q[i] = "data"
  BY <1>2, Zenon DEF FramesHold, FollowsIn
<1>4. w.state = "complete" => \A i \in DOMAIN q : q[i] # "error"
  BY <1>2, Zenon DEF FramesHold, FollowsIn
<1>5. w.state = "error" /\ w.failure => \A i \in DOMAIN q : q[i] \notin {"trailers", "end"}
  BY <1>2, Zenon DEF FramesHold, FollowsIn
<1>6. e = "end" \/ \A i \in DOMAIN s : s[i] \notin {"trailers", "end"}
  BY Zenon DEF FramesHold, FollowsIn
<1>7. ASSUME NEW i \in DOMAIN q, NEW j \in DOMAIN q, i < j, q[i] \in {"trailers", "end"} PROVE q[j] = "end"
  <2>1. i \in DOMAIN s /\ q[i] = s[i]
    BY <1>1, <1>7
  <2>2. CASE j \in DOMAIN s
    BY <1>1, <1>7, <2>1, <2>2, Zenon DEF FramesHold, FollowsIn
  <2>3. CASE j \notin DOMAIN s
    BY <1>2, <1>6, <1>7, <2>1, <2>3, Zenon
  <2> QED BY <2>2, <2>3, Zenon
<1>8. \A i, j \in DOMAIN q : i < j /\ q[i] \in {"trailers", "end"} => q[j] = "end"
  BY <1>7, Zenon
<1> QED BY <1>3, <1>4, <1>5, <1>8, Zenon DEF FramesHold, q

LEMMA PollFrameHolds ==
    ASSUME TowerInv, NEW r \in TowerRequests, PollFrame(r)
    PROVE  TowerInv'
<1>1. Exchange(r) /\ TowerTypes /\ slots + Cardinality(readied) = TowerSlots
      /\ UNCHANGED <<phase, readied, slots, head, http, served, answer, produced, slot, passed, verdict>>
  BY Zenon DEF PollFrame, TowerInv
<1> DEFINE V == [state : {"open", "complete", "error"}, failure : BOOLEAN]
           Gives(w, e) == view' = [view EXCEPT ![r] = w] /\ frames' = [frames EXCEPT ![r] = Append(frames[r], e)]
<1>2. view[r] \in V /\ view[r] = [state |-> view[r].state, failure |-> view[r].failure]
  BY <1>1, Zenon DEF TowerTypes
<1>3. \E w \in V, e \in {"data", "trailers", "end", "error"} : Gives(w, e) /\ FollowsIn(view[r], w, e)
  <2>1. ASSUME view[r].state = "open", Gives([state |-> "open", failure |-> FALSE], "data")
        PROVE  Gives([state |-> "open", failure |-> FALSE], "data")
               /\ FollowsIn(view[r], [state |-> "open", failure |-> FALSE], "data")
    BY <2>1, Zenon DEF FollowsIn
  <2>2. ASSUME view[r].state = "open", NEW bad \in BOOLEAN, Gives([state |-> "error", failure |-> bad], "error")
        PROVE  Gives([state |-> "error", failure |-> bad], "error")
               /\ FollowsIn(view[r], [state |-> "error", failure |-> bad], "error")
    BY <2>2, Zenon DEF FollowsIn
  <2>3. ASSUME view[r].state = "open", NEW last \in {"trailers", "end"}, Gives([state |-> "complete", failure |-> FALSE], last)
        PROVE  Gives([state |-> "complete", failure |-> FALSE], last)
               /\ FollowsIn(view[r], [state |-> "complete", failure |-> FALSE], last)
    BY <2>3, Zenon DEF FollowsIn
  <2>4. ASSUME view[r].state = "complete" \/ (view[r].state = "error" /\ ~ view[r].failure),
               Gives([state |-> view[r].state, failure |-> view[r].failure], "end")
        PROVE  Gives(view[r], "end") /\ FollowsIn(view[r], view[r], "end")
    <3>1. Gives(view[r], "end")
      BY <1>2, <2>4, Zenon
    <3> QED BY <2>4, <3>1, Zenon DEF FollowsIn
  <2>5. ASSUME view[r].state = "error", view[r].failure, Gives([state |-> "error", failure |-> TRUE], "error")
        PROVE  Gives(view[r], "error") /\ FollowsIn(view[r], view[r], "error")
    <3>1. view[r] = [state |-> "error", failure |-> TRUE]
      BY <1>2, <2>5, Zenon
    <3>2. Gives(view[r], "error")
      BY <2>5, <3>1, Zenon
    <3> QED BY <2>5, <3>2, Zenon DEF FollowsIn
  <2>6. /\ [state |-> "open", failure |-> FALSE] \in V /\ [state |-> "complete", failure |-> FALSE] \in V
        /\ \A bad \in BOOLEAN : [state |-> "error", failure |-> bad] \in V
    BY Zenon
  <2>7. \/ view[r].state = "open" /\ Gives([state |-> "open", failure |-> FALSE], "data")
        \/ \E bad \in BOOLEAN : view[r].state = "open" /\ Gives([state |-> "error", failure |-> bad], "error")
        \/ \E last \in {"trailers", "end"} :
                view[r].state = "open" /\ Gives([state |-> "complete", failure |-> FALSE], last)
        \/ /\ view[r].state = "complete" \/ (view[r].state = "error" /\ ~ view[r].failure)
           /\ Gives([state |-> view[r].state, failure |-> view[r].failure], "end")
        \/ view[r].state = "error" /\ view[r].failure /\ Gives([state |-> "error", failure |-> TRUE], "error")
    BY Zenon DEF PollFrame
  <2> HIDE DEF V, Gives
  <2> QED BY <1>2, <2>1, <2>2, <2>3, <2>4, <2>5, <2>6, <2>7, Zenon
<1>4. PICK w \in V, e \in {"data", "trailers", "end", "error"} : Gives(w, e) /\ FollowsIn(view[r], w, e)
  BY <1>3, Zenon
<1>5. frames[r] \in Seq({"data", "trailers", "end", "error"}) /\ FramesHold(view[r], frames[r])
  BY <1>1, Zenon DEF TowerTypes, Exchange
<1>6. FramesHold(w, Append(frames[r], e)) /\ Append(frames[r], e) \in Seq({"data", "trailers", "end", "error"})
  BY <1>4, <1>5, FrameGiven, AppendFrame, Zenon
<1>7. view'[r] = w /\ frames'[r] = Append(frames[r], e)
  BY <1>1, <1>4, Zenon DEF TowerTypes
<1>8. TowerTypes' /\ Elsewhere(r)
  BY <1>1, <1>4, <1>6, Zenon DEF TowerTypes, Elsewhere
<1> QED BY <1>1, <1>6, <1>7, <1>8, ExchangeSteps, Zenon DEF Exchange

LEMMA AnswerHolds ==
    ASSUME TowerInv, NEW r \in TowerRequests, Answer(r)
    PROVE  TowerInv'
<1>1. phase[r] = "serving" /\ Exchange(r) /\ TowerTypes
      /\ UNCHANGED <<head, http, served, view, frames, produced, slot, passed>>
  BY Zenon DEF Answer, TowerInv
<1>2. HeadHolds("serving", head[r], http[r], served[r]) /\ FramesHold(view[r], frames[r])
      /\ ResponseHolds("serving", answer[r], produced[r], passed[r], slot[r], verdict[r])
  BY <1>1, Zenon DEF Exchange
<1>3. PICK a \in Answers :
        /\ answer' = [answer EXCEPT ![r] = a]
        /\ verdict' = [verdict EXCEPT ![r] = response_from_http_body(r, a)]
        /\ phase' = [phase EXCEPT ![r] = IF response_from_http_body(r, a) = "none" THEN "streaming" ELSE "over"]
  BY Zenon DEF Answer
<1>4. /\ readied' \subseteq TowerRequests /\ slots' \in Nat /\ slots' + Cardinality(readied') = TowerSlots
      /\ r \notin readied' /\ \A c \in TowerRequests \ {r} : c \in readied' <=> c \in readied
  BY DropReturnsSlot, Zenon DEF Answer
<1>5. response_from_http_body(r, a) \in {"none", "failed", "empty"}
      /\ (response_from_http_body(r, a) = "empty" => a.ended)
  BY Zenon DEF response_from_http_body
<1>6. /\ answer'[r] = a /\ verdict'[r] \in {"none", "failed", "empty"} /\ (verdict'[r] = "empty" => a.ended)
      /\ phase'[r] \in {"streaming", "over"} /\ (phase'[r] # "over" => verdict'[r] = "none")
  BY <1>1, <1>3, <1>5, Zenon DEF TowerTypes
<1>7. TowerTypes' /\ Elsewhere(r)
  BY <1>1, <1>3, <1>4, <1>5, Zenon DEF TowerTypes, Elsewhere, Phases
<1>8. HeadHolds(phase'[r], head'[r], http'[r], served'[r])
  BY <1>1, <1>2, <1>6, Zenon DEF HeadHolds
<1>9. ResponseHolds(phase'[r], answer'[r], produced'[r], passed'[r], slot'[r], verdict'[r])
  BY <1>1, <1>2, <1>6, Zenon DEF ResponseHolds
<1> QED BY <1>1, <1>2, <1>4, <1>6, <1>7, <1>8, <1>9, ExchangeSteps, Zenon

LEMMA DataFramesOfAppend ==
    ASSUME NEW s \in Seq(ResponseFrames), NEW e \in ResponseFrames
    PROVE  /\ DataFrames(s) \in Nat
           /\ DataFrames(Append(s, e)) = IF e = "data" THEN DataFrames(s) + 1 ELSE DataFrames(s)
<1> DEFINE D == {i \in DOMAIN s : s[i] = "data"}
           q == Append(s, e)
           E == {i \in DOMAIN q : q[i] = "data"}
<1>1. Len(s) \in Nat /\ DOMAIN s = 1 .. Len(s) /\ DOMAIN q = 1 .. Len(s) + 1 /\ q[Len(s) + 1] = e
      /\ \A i \in DOMAIN s : q[i] = s[i]
  BY AppendFrame
<1>2. IsFiniteSet(1 .. Len(s)) /\ D \subseteq 1 .. Len(s)
  BY <1>1, FS_Interval
<1>3. IsFiniteSet(D) /\ Cardinality(D) \in Nat
  BY <1>2, FS_Subset, FS_CardinalityType
<1>4. Len(s) + 1 \notin D
  BY <1>1
<1>5. CASE e = "data"
  <2>1. E = D \cup {Len(s) + 1}
    <3> HIDE DEF q
    <3> QED BY <1>1, <1>5
  <2> HIDE DEF D, E
  <2>2. Cardinality(E) = Cardinality(D) + 1
    BY <1>3, <1>4, <2>1, FS_AddElement, Zenon
  <2> QED BY <1>3, <1>5, <2>2, Zenon DEF DataFrames, D, E
<1>6. CASE e # "data"
  <2>1. E = D
    <3> HIDE DEF q
    <3> QED BY <1>1, <1>6
  <2> QED BY <1>3, <1>6, <2>1, Zenon DEF DataFrames
<1> QED BY <1>5, <1>6, Zenon

\* HttpBodyDataStream::poll_next stores in the slot what the frame says.
Stored(l, frame) ==
    CASE frame = "trailers" -> [filled |-> "some", emitted |-> TRUE]
      [] frame = "blank" -> [filled |-> "nothing", emitted |-> TRUE]
      [] frame = "forbidden" -> [filled |-> "error", emitted |-> TRUE]
      [] frame = "error" -> Store(l, "error")
      [] frame = "end" /\ ~ l.emitted /\ l.filled = "unset" -> Store(l, "nothing")
      [] OTHER -> l

LEMMA ResponseFrameHolds ==
    ASSUME NEW a, NEW s \in Seq(ResponseFrames), NEW n, NEW frame \in ResponseFrames,
           NEW l \in [filled : {"unset", "some", "nothing", "error"}, emitted : BOOLEAN],
           ResponseHolds("streaming", a, s, n, l, "none"),
           NEW p, p = IF frame \in {"data", "empty"} THEN "streaming" ELSE IF frame = "error" THEN "over" ELSE "trailing",
           NEW m, m = IF frame = "data" THEN n + 1 ELSE n,
           NEW v, v = IF frame = "error" THEN "failed" ELSE "none"
    PROVE  ResponseHolds(p, a, Append(s, frame), m, Stored(l, frame), v)
<1> DEFINE q == Append(s, frame)
           k == Stored(l, frame)
<1>1. m = DataFrames(q)
  BY DataFramesOfAppend, Zenon DEF ResponseHolds
<1>2. Len(s) \in Nat /\ DOMAIN s = 1 .. Len(s) /\ DOMAIN q = 1 .. Len(s) + 1 /\ q[Len(s) + 1] = frame
      /\ \A i \in DOMAIN s : q[i] = s[i]
  BY AppendFrame
<1>3. FramesOf(s, {"data", "empty"}) /\ l.filled = "unset" /\ ~ l.emitted
  BY Zenon DEF ResponseHolds
<1>4. \A T : FramesOf(s, T) /\ frame \in T => FramesOf(q, T)
  <2> HIDE DEF q
  <2> QED BY <1>2 DEF FramesOf
<1>5. \A T : FramesOf(q, T) => frame \in T
  <2> HIDE DEF q
  <2>1. Len(s) + 1 \in DOMAIN q
    BY <1>2
  <2> QED BY <1>2, <2>1, Zenon DEF FramesOf
<1>6. \A T : {"data", "empty"} \subseteq T => FramesOf(s, T)
  BY <1>3, Zenon DEF FramesOf
<1>7. p = "streaming" => FramesOf(q, {"data", "empty"}) /\ k.filled = "unset" /\ ~ k.emitted
  <2> HIDE DEF q
  <2> QED BY <1>3, <1>4, Zenon DEF Stored, ResponseFrames
<1>8. ASSUME p = "trailing"
      PROVE  /\ FramesOf(q, {"data", "empty", "blank", "trailers", "forbidden", "end"})
             /\ (k.filled = "some") <=> ~ FramesOf(q, ResponseFrames \ {"trailers"})
             /\ k.filled # "error" => FramesOf(q, ResponseFrames \ {"forbidden"})
  <2> HIDE DEF q
  <2>1. frame \in {"blank", "trailers", "forbidden", "end"}
    BY <1>8, Zenon DEF ResponseFrames
  <2>2. /\ (k.filled = "some") <=> frame = "trailers"
        /\ (k.filled = "error") <=> frame = "forbidden"
    BY <1>3, <2>1, Zenon DEF Stored, Store
  <2>3. FramesOf(q, {"data", "empty", "blank", "trailers", "forbidden", "end"})
    BY <1>4, <1>6, <2>1
  <2>4. FramesOf(q, ResponseFrames \ {"trailers"}) <=> frame # "trailers"
    <3>1. {"data", "empty"} \subseteq ResponseFrames \ {"trailers"}
      BY Zenon DEF ResponseFrames
    <3> HIDE DEF k
    <3> QED BY <1>4, <1>5, <1>6, <3>1, Zenon
  <2>5. frame # "forbidden" => FramesOf(q, ResponseFrames \ {"forbidden"})
    <3>1. {"data", "empty"} \subseteq ResponseFrames \ {"forbidden"}
      BY Zenon DEF ResponseFrames
    <3> QED BY <1>4, <1>6, <3>1, Zenon
  <2> HIDE DEF k
  <2> QED BY <2>2, <2>3, <2>4, <2>5, Zenon
<1>9. p \in {"streaming", "over", "trailing"} /\ (p # "over" => v = "none") /\ v \in {"none", "failed"}
  BY Zenon
<1> HIDE DEF q, k
<1> QED BY <1>1, <1>7, <1>8, <1>9, Zenon DEF ResponseHolds, q, k

\* The verdict of the transport once the data has ended.
Judged(a, n, l) == IF ~(a.exact \subseteq {n}) THEN "failed" ELSE trailer_future(l)

LEMMA ResponseTrails ==
    ASSUME NEW a, NEW s \in Seq(ResponseFrames), NEW n,
           NEW l \in [filled : {"unset", "some", "nothing", "error"}, emitted : BOOLEAN], NEW k,
           ResponseHolds("trailing", a, s, n, l, "none"), NEW v, v = Judged(a, n, l)
    PROVE  v \in {"failed", "trailed", "complete"} /\ ResponseHolds("over", a, s, n, k, v)
<1>1. /\ FramesOf(s, {"data", "empty", "blank", "trailers", "forbidden", "end"})
      /\ (l.filled = "some") <=> ~ FramesOf(s, ResponseFrames \ {"trailers"})
      /\ l.filled # "error" => FramesOf(s, ResponseFrames \ {"forbidden"})
      /\ n = DataFrames(s)
  BY Zenon DEF ResponseHolds
<1>2. /\ v \in {"failed", "trailed", "complete"} /\ (v # "failed" => a.exact \subseteq {n} /\ l.filled # "error")
      /\ v # "failed" => ((v = "trailed") <=> l.filled = "some")
  BY Zenon DEF Judged, trailer_future
<1>3. v # "failed" => FramesOf(s, ResponseFrames \ {"error", "forbidden"})
  BY <1>1, <1>2, Zenon DEF FramesOf
<1> QED BY <1>1, <1>2, <1>3, Zenon DEF ResponseHolds

LEMMA FrameHolds ==
    ASSUME TowerInv, NEW r \in TowerRequests, NEW frame \in ResponseFrames, Frame(r, frame)
    PROVE  TowerInv'
<1>1. phase[r] = "streaming" /\ Exchange(r) /\ TowerTypes /\ slots + Cardinality(readied) = TowerSlots
      /\ UNCHANGED <<readied, slots, head, http, served, view, frames, answer>>
  BY Zenon DEF Frame, TowerInv
<1>2. HeadHolds("streaming", head[r], http[r], served[r]) /\ FramesHold(view[r], frames[r]) /\ r \notin readied
      /\ ResponseHolds("streaming", answer[r], produced[r], passed[r], slot[r], verdict[r])
  BY <1>1, Zenon DEF Exchange
<1>3. /\ produced' = [produced EXCEPT ![r] = Append(produced[r], frame)]
      /\ passed' = [passed EXCEPT ![r] = IF frame = "data" THEN passed[r] + 1 ELSE passed[r]]
      /\ slot' = [slot EXCEPT ![r] = Stored(slot[r], frame)]
      /\ phase' = [phase EXCEPT ![r] = IF frame \in {"data", "empty"} THEN phase[r]
                                       ELSE IF frame = "error" THEN "over" ELSE "trailing"]
      /\ verdict' = [verdict EXCEPT ![r] = IF frame = "error" THEN "failed" ELSE verdict[r]]
  BY Zenon DEF Frame, Stored
<1>4. /\ produced[r] \in Seq(ResponseFrames) /\ verdict[r] = "none" /\ passed[r] \in Nat
      /\ slot[r] \in [filled : {"unset", "some", "nothing", "error"}, emitted : BOOLEAN]
  BY <1>1, <1>2, Zenon DEF TowerTypes, ResponseHolds
<1>5. Stored(slot[r], frame) \in [filled : {"unset", "some", "nothing", "error"}, emitted : BOOLEAN]
      /\ Append(produced[r], frame) \in Seq(ResponseFrames)
  BY <1>4 DEF Stored, Store
<1>6. /\ produced'[r] = Append(produced[r], frame) /\ slot'[r] = Stored(slot[r], frame)
      /\ passed'[r] = IF frame = "data" THEN passed[r] + 1 ELSE passed[r]
      /\ phase'[r] = IF frame \in {"data", "empty"} THEN "streaming" ELSE IF frame = "error" THEN "over" ELSE "trailing"
      /\ verdict'[r] = IF frame = "error" THEN "failed" ELSE "none"
  BY <1>1, <1>3, <1>4, Zenon DEF TowerTypes
<1>7. TowerTypes' /\ Elsewhere(r)
  <2>1. produced' \in [TowerRequests -> Seq(ResponseFrames)]
    BY <1>1, <1>3, <1>5, Zenon DEF TowerTypes
  <2>2. slot' \in [TowerRequests -> [filled : {"unset", "some", "nothing", "error"}, emitted : BOOLEAN]]
    BY <1>1, <1>3, <1>5, Zenon DEF TowerTypes
  <2>3. /\ passed' \in [TowerRequests -> Nat] /\ phase' \in [TowerRequests -> Phases]
        /\ verdict' \in [TowerRequests -> {"none", "failed", "empty", "complete", "trailed", "dropped"}]
    BY <1>1, <1>3, <1>4 DEF TowerTypes, Phases
  <2>4. Elsewhere(r)
    BY <1>1, <1>3, Zenon DEF TowerTypes, Elsewhere
  <2> QED BY <1>1, <2>1, <2>2, <2>3, <2>4, Zenon DEF TowerTypes
<1>8. HeadHolds(phase'[r], head'[r], http'[r], served'[r])
  BY <1>1, <1>2, <1>6, Zenon DEF HeadHolds
<1>9. ResponseHolds(phase'[r], answer'[r], produced'[r], passed'[r], slot'[r], verdict'[r])
  BY <1>1, <1>2, <1>4, <1>6, ResponseFrameHolds
<1>10. phase'[r] \notin {"ready", "serving"}
  BY <1>6, Zenon
<1> QED BY <1>1, <1>2, <1>7, <1>8, <1>9, <1>10, ExchangeSteps, Zenon

LEMMA TrailHolds ==
    ASSUME TowerInv, NEW r \in TowerRequests, Trail(r)
    PROVE  TowerInv'
<1>1. phase[r] = "trailing" /\ Exchange(r) /\ TowerTypes /\ slots + Cardinality(readied) = TowerSlots
      /\ UNCHANGED <<readied, slots, head, http, served, view, frames, answer, produced, passed>>
  BY Zenon DEF Trail, TowerInv
<1>2. HeadHolds("trailing", head[r], http[r], served[r]) /\ FramesHold(view[r], frames[r]) /\ r \notin readied
      /\ ResponseHolds("trailing", answer[r], produced[r], passed[r], slot[r], verdict[r])
  BY <1>1, Zenon DEF Exchange
<1>3. PICK v : v = Judged(answer[r], passed[r], slot[r])
  BY Zenon
<1>4. /\ produced[r] \in Seq(ResponseFrames) /\ verdict[r] = "none"
      /\ slot[r] \in [filled : {"unset", "some", "nothing", "error"}, emitted : BOOLEAN]
  BY <1>1, <1>2, Zenon DEF TowerTypes, ResponseHolds
<1>5. v \in {"failed", "trailed", "complete"}
      /\ ResponseHolds("over", answer[r], produced[r], passed[r], slot'[r], v)
  <2>1. ResponseHolds("trailing", answer[r], produced[r], passed[r], slot[r], "none")
    BY <1>2, <1>4, Zenon
  <2>2. \A k : v \in {"failed", "trailed", "complete"} /\ ResponseHolds("over", answer[r], produced[r], passed[r], k, v)
    BY <1>3, <1>4, <2>1, ResponseTrails, Zenon
  <2> QED BY <2>2, Zenon
<1>6. /\ phase' = [phase EXCEPT ![r] = "over"] /\ verdict' = [verdict EXCEPT ![r] = v]
      /\ slot' = [slot EXCEPT ![r].filled = "unset"]
  BY <1>3, Zenon DEF Trail, Judged
<1>7. TowerTypes' /\ Elsewhere(r) /\ phase'[r] = "over" /\ verdict'[r] = v
  <2>1. slot' \in [TowerRequests -> [filled : {"unset", "some", "nothing", "error"}, emitted : BOOLEAN]]
    BY <1>1, <1>6, Zenon DEF TowerTypes
  <2>2. /\ phase' \in [TowerRequests -> Phases] /\ phase'[r] = "over" /\ verdict'[r] = v
        /\ verdict' \in [TowerRequests -> {"none", "failed", "empty", "complete", "trailed", "dropped"}]
    BY <1>1, <1>5, <1>6, Zenon DEF TowerTypes, Phases
  <2>3. Elsewhere(r)
    BY <1>1, <1>6, Zenon DEF TowerTypes, Elsewhere
  <2> QED BY <1>1, <2>1, <2>2, <2>3, Zenon DEF TowerTypes
<1>8. HeadHolds(phase'[r], head'[r], http'[r], served'[r])
  BY <1>1, <1>2, <1>7, Zenon DEF HeadHolds
<1>9. ResponseHolds(phase'[r], answer'[r], produced'[r], passed'[r], slot'[r], verdict'[r])
  BY <1>1, <1>5, <1>7, Zenon
<1> QED BY <1>1, <1>2, <1>7, <1>8, <1>9, ExchangeSteps, Zenon

\* Through both adapters nothing is added, lost or called complete that is
\* not (tower.rs, interop.rs): for any number of requests and of slots of the
\* stack, any heads and layers, and bodies of any length.
THEOREM ExchangesCross == TowerSpec => []AdapterKeepsExchanges
<1>1. TowerInv /\ [TowerNext]_towerVars => TowerInv'
  <2> SUFFICES ASSUME TowerInv, [TowerNext]_towerVars PROVE TowerInv'
    BY Zenon
  <2>1. ASSUME NEW r \in TowerRequests,
               \/ Call(r) \/ PollReady(r) \/ CallStack(r) \/ PollFrame(r) \/ Refuse(r) \/ Answer(r)
               \/ Trail(r) \/ Abandon(r) \/ \E frame \in ResponseFrames : Frame(r, frame)
        PROVE  TowerInv'
    BY <2>1, CallHolds, PollReadyHolds, CallStackHolds, PollFrameHolds, RefuseHolds, AnswerHolds, TrailHolds, FrameHolds, Zenon
  <2>2. CASE UNCHANGED towerVars
    <3>1. TowerTypes'
      BY <2>2, Zenon DEF TowerInv, TowerTypes, towerVars
    <3>2. \A r \in TowerRequests : Exchange(r)'
      BY <2>2, Zenon DEF TowerInv, Exchange, towerVars
    <3> QED BY <2>2, <3>1, <3>2, Zenon DEF TowerInv, towerVars
  <2> QED BY <2>1, <2>2, Zenon DEF TowerNext
<1> QED BY <1>1, TowerInitHolds, TowerInvImplies, PTL DEF TowerSpec
=============================================================================
