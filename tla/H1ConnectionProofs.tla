------------------------- MODULE H1ConnectionProofs --------------------------
(***************************************************************************)
(* Proofs about H1Connection for every number of requests, every choice of *)
(* timeouts and ownership, and with no bound on the clock but MaxTime, and *)
(* about Tunnel, which such a connection becomes, for any finite number of *)
(* connections and any positive number of permits.                         *)
(***************************************************************************)
EXTENDS H1Connection, Tunnel, FiniteSetTheorems, TLAPS

\* An assumption is visible to the section that needs it.
HIDE TunnelAssumption

-----------------------------------------------------------------------------
(* The driver and its counters.                                            *)

\* The in-flight and outstanding counters are what the connection is doing.
LocalCounters ==
    /\ in_flight = IF phase \in {"buffering", "service"} /\ driver # "ended" THEN 1 ELSE 0
    /\ outstanding = IF phase = "sending" /\ driver # "ended" THEN 1 ELSE 0

\* A phase past the head belongs to a request, and only a request whose service
\* call is over has helpers.
HelpersFollowService ==
    /\ phase # "head" => served > 0
    /\ \A r \in Requests : tracker[r] # "none" =>
          r <= served /\ (r = served => phase \notin {"buffering", "service"})

Shape == TypeOK /\ LocalCounters /\ HelpersFollowService

\* The initial state has the shape.
LEMMA ShapeInit == Init => Shape
<1>1. Init => fired \in BOOLEAN /\ permit \in BOOLEAN /\ keep \in BOOLEAN
              /\ partial \in BOOLEAN /\ shutdown \in BOOLEAN
  BY Zenon DEF Init
<1> QED
  BY <1>1, ConstantsAreNatural DEF Init, NoSnap, Shape, TypeOK, LocalCounters,
     HelpersFollowService, Helpers, Watchdogs, Requests

\* Beginning a close.
LEMMA CloseShape ==
    ASSUME Shape, NEW why, BeginClose(why), fired' \in BOOLEAN, permit' \in BOOLEAN,
           driver # "ended"
    PROVE  Shape'
<1> USE ConstantsAreNatural
<1>1. keep' \in BOOLEAN
  BY Zenon DEF BeginClose
<1>2. resolved' \in {"no", "ok", "err", "timeout"}
  <2>1. resolved' = "ok" \/ resolved' = resolved
    BY Zenon DEF BeginClose
  <2> QED BY <2>1, Zenon DEF Shape, TypeOK
<1>3. UNCHANGED <<clockVars, countVars, timeVars, phase, partial, served, late,
                  body, owner, helperVars, shutdown>>
  BY Zenon DEF BeginClose
<1>4. driver' = "closing" /\ close_by' = now + DrainBudget /\ snap' = NoSnap /\ wake' = {}
  BY Zenon DEF BeginClose
<1> QED
  BY <1>1, <1>2, <1>3, <1>4 DEF Shape, TypeOK, LocalCounters, HelpersFollowService,
     clockVars, countVars, timeVars, helperVars, NoSnap

\* Returning from the driver.
LEMMA ReturnShape ==
    ASSUME Shape, NEW how, NEW m \in BOOLEAN, ReturnWith(how, m), driver # "ended"
    PROVE  Shape'
<1>1. owner' \in [Requests -> {"none", "service", "task", "eof", "gone"}]
  BY Zenon DEF Shape, TypeOK, ReturnWith
<1>2. body' \in [Requests -> {"none", "Active", "Complete", "Abandoned", "Failed"}]
  <2>1. \A r \in Requests : body[r] \in {"none", "Active", "Complete", "Abandoned", "Failed"}
    BY Zenon DEF Shape, TypeOK
  <2>2. body' = [r \in Requests |->
                   IF owner[r] = "service" /\ body[r] = "Active" /\ ~m
                   THEN "Abandoned" ELSE body[r]]
    BY Zenon DEF ReturnWith
  <2> QED BY <2>1, <2>2, Zenon
<1>3. permit' \in BOOLEAN /\ fired' \in BOOLEAN
  BY Zenon DEF ReturnWith, Shape, TypeOK
<1>4. last_activity' \in Nat
  BY Zenon DEF ReturnWith, Shape, TypeOK
<1>5. /\ driver' = "ended" /\ wake' = {} /\ close_by' = 0 /\ snap' = snap
      /\ in_flight' = IF phase \in {"buffering", "service"} THEN in_flight - 1 ELSE in_flight
      /\ outstanding' = IF phase = "sending" THEN outstanding - 1 ELSE outstanding
      /\ deferred' = deferred /\ last_write' = last_write
      /\ UNCHANGED <<clockVars, connVars, helperVars, shutdown>>
  BY Zenon DEF ReturnWith
<1> QED
  BY <1>1, <1>2, <1>3, <1>4, <1>5 DEF Shape, TypeOK, LocalCounters,
     HelpersFollowService, clockVars, connVars, helperVars

\* Returning stamps no time backwards.
LEMMA ReturnTimes ==
    ASSUME NEW how, NEW m, ReturnWith(how, m)
    PROVE  /\ driver' = "ended" /\ now' = now /\ last_write' = last_write
           /\ last_activity' \in {last_activity, now}
  BY Zenon DEF ReturnWith, clockVars

\* Every step of the connection keeps the shape.
LEMMA ShapeStep == Shape /\ [Next]_vars => Shape'
<1> SUFFICES ASSUME Shape, [Next]_vars PROVE Shape'
  BY Zenon
<1> USE ConstantsAreNatural DEF NoSnap
<1>1. CASE BytesRead
  <2>1. partial' \in BOOLEAN
    BY <1>1, Zenon DEF BytesRead
  <2> QED BY <1>1, <2>1 DEF BytesRead, Polled, Shape, TypeOK, LocalCounters,
     HelpersFollowService, clockVars, countVars, timeVars, driverVars,
     connVars, bodyVars, helperVars, Helpers, Watchdogs, Requests
<1>2. CASE BytesWritten
  BY <1>2, Zenon DEF BytesWritten, Polled, Shape, TypeOK, LocalCounters,
     HelpersFollowService, clockVars, countVars, timeVars, driverVars,
     connVars, bodyVars, helperVars, Helpers, Watchdogs, Requests
<1>3. ASSUME NEW reuse \in BOOLEAN, NEW s \in {"eof", "gone"}, DispatchRejected(reuse, s) PROVE Shape'
  <2>1. keep' \in BOOLEAN
    BY <1>3, Zenon DEF DispatchRejected
  <2>2. served' \in Requests /\ served' = served + 1
    BY <1>3 DEF DispatchRejected, Requests, Shape, TypeOK
  <2>3. owner' \in [Requests -> {"none", "service", "task", "eof", "gone"}]
    BY <1>3, <2>2, Zenon DEF DispatchRejected, Shape, TypeOK
  <2>4. HelpersFollowService'
    BY <1>3, <2>2 DEF DispatchRejected, HelpersFollowService, Shape, TypeOK,
       helperVars, Requests
  <2>5. LocalCounters'
    BY <1>3 DEF DispatchRejected, Polled, LocalCounters, Shape, TypeOK, driverVars
  <2>6. late' = late /\ partial' = FALSE /\ permit' = TRUE
    BY <1>3, Zenon DEF DispatchRejected
  <2>7. /\ outstanding' \in Nat
        /\ phase' = "sending"
        /\ last_activity' = now /\ last_write' = now
        /\ UNCHANGED <<clockVars, in_flight, deferred, fired, driverVars, resolved,
                       body, helperVars, shutdown>>
    BY <1>3 DEF DispatchRejected, Shape, TypeOK
  <2>8. served' \in 0..MaxRequests
    BY <2>2 DEF Requests
  <2> QED
    BY Zenon, <2>1, <2>3, <2>4, <2>5, <2>6, <2>7, <2>8 DEF Shape, TypeOK, clockVars,
       driverVars, helperVars
<1>4. ASSUME NEW kind \in {"plain", "stream", "buffer"}, Dispatch(kind) PROVE Shape'
  <2>1. served' \in Requests /\ served' = served + 1
    <3>1. served < MaxRequests /\ served' = served + 1
      BY <1>4, Zenon DEF Dispatch
    <3> QED BY <3>1 DEF Requests, Shape, TypeOK
  <2>2. owner' \in [Requests -> {"none", "service", "task", "eof", "gone"}]
    BY <1>4, <2>1, Zenon DEF Dispatch, Shape, TypeOK
  <2>3. body' \in [Requests -> {"none", "Active", "Complete", "Abandoned", "Failed"}]
    BY <1>4, <2>1, Zenon DEF Dispatch, Shape, TypeOK
  <2>4. HelpersFollowService'
    <3>1. tracker' = tracker /\ \A r \in Requests : tracker[r] # "none" => r <= served
      BY <1>4, Zenon DEF Dispatch, helperVars, Shape, HelpersFollowService
    <3> QED BY <2>1, <3>1 DEF HelpersFollowService, Shape, TypeOK, Requests
  <2>5. LocalCounters'
    BY <1>4 DEF Dispatch, Polled, LocalCounters, Shape, TypeOK, driverVars
  <2>6. late' \in SUBSET Requests
    BY <1>4, <2>1 DEF Dispatch, Late, Shape, TypeOK
  <2>7. partial' = FALSE /\ permit' = TRUE
    BY <1>4, Zenon DEF Dispatch
  <2>8. /\ in_flight' \in Nat
        /\ phase' \in {"buffering", "service"}
        /\ UNCHANGED <<clockVars, outstanding, deferred, timeVars, fired, driverVars,
                       resolved, keep, helperVars, shutdown>>
    BY <1>4 DEF Dispatch, Shape, TypeOK
  <2>9. served' \in 0..MaxRequests
    BY <2>1 DEF Requests
  <2> QED
    BY Zenon, <2>2, <2>3, <2>4, <2>5, <2>6, <2>7, <2>8, <2>9 DEF Shape, TypeOK, clockVars,
       timeVars, driverVars, helperVars
<1>5. CASE BufferDone
  BY <1>5 DEF BufferDone, Polled, Late, Shape, TypeOK, LocalCounters,
     HelpersFollowService, clockVars, countVars, timeVars, driverVars,
     connVars, bodyVars, helperVars, Helpers, Watchdogs, Requests
<1>6. CASE BufferFails
  <2>1. keep' \in BOOLEAN
    BY <1>6, Zenon DEF BufferFails, Finish
  <2> QED BY <1>6, <2>1 DEF BufferFails, Polled, Finish, Shape, TypeOK,
     LocalCounters, HelpersFollowService, clockVars, countVars, timeVars,
     driverVars, connVars, bodyVars, helperVars, Helpers, Watchdogs, Requests
<1>7. CASE ServiceReturns
  <2>1. keep' \in BOOLEAN
    BY <1>7, Zenon DEF ServiceReturns, Conclude, Finish
  <2> QED BY <1>7, <2>1 DEF ServiceReturns, Polled, Conclude, Finish, Shape,
     TypeOK, LocalCounters, HelpersFollowService, clockVars, countVars,
     timeVars, driverVars, connVars, bodyVars, helperVars, Helpers, Watchdogs,
     Requests
<1>8. ASSUME NEW m \in BOOLEAN, ServiceTimesOut(m) PROVE Shape'
  <2>1. keep' \in BOOLEAN
    BY <1>8, Zenon DEF ServiceTimesOut, Conclude, Finish
  <2> QED BY <1>8, <2>1 DEF ServiceTimesOut, Polled, Conclude, Finish, Cancel,
     Shape, TypeOK, LocalCounters, HelpersFollowService, clockVars, countVars,
     timeVars, driverVars, connVars, bodyVars, helperVars, Helpers, Watchdogs,
     Requests
<1>9. CASE ResponseFinished
  BY <1>9 DEF ResponseFinished, Polled, Shape, TypeOK, LocalCounters,
     HelpersFollowService, clockVars, countVars, timeVars, driverVars,
     connVars, bodyVars, helperVars, Helpers, Watchdogs, Requests
<1>10. CASE Flushed
  BY <1>10 DEF Flushed, Polled, Shape, TypeOK, LocalCounters,
     HelpersFollowService, clockVars, countVars, timeVars, driverVars,
     connVars, bodyVars, helperVars, Helpers, Watchdogs, Requests
<1>11. CASE ReuseOrClose
  BY <1>11 DEF ReuseOrClose, Polled, Shape, TypeOK, LocalCounters,
     HelpersFollowService, clockVars, countVars, timeVars, driverVars,
     connVars, bodyVars, helperVars, Helpers, Watchdogs, Requests
<1>12. ASSUME NEW how \in {"ok", "err", "timeout"}, PeerEnds(how) PROVE Shape'
  BY <1>12 DEF PeerEnds, Polled, Shape, TypeOK, LocalCounters,
     HelpersFollowService, clockVars, countVars, timeVars, driverVars,
     connVars, bodyVars, helperVars, Helpers, Watchdogs, Requests
<1>13. CASE LoopTop
  <2>1. CASE TotalDue
    BY <1>13, <2>1, CloseShape, Zenon DEF LoopTop, Shape, TypeOK
  <2>2. CASE ~TotalDue /\ fired
    <3>1. BeginClose("BodyTimeout") /\ fired' = FALSE /\ permit' = permit
      BY <1>13, <2>2, Zenon DEF LoopTop
    <3> QED BY Zenon, <1>13, <3>1, CloseShape DEF LoopTop, Shape, TypeOK
  <2>3. CASE ~TotalDue /\ ~fired
    <3>1. /\ driver' = "decide"
          /\ snap' = [activity |-> last_activity, write |-> last_write, at |-> now]
          /\ UNCHANGED <<clockVars, countVars, timeVars, fired, permit, wake,
                         close_by, outcome, connVars, bodyVars, helperVars, shutdown>>
      BY <1>13, <2>3, Zenon DEF LoopTop
    <3> QED
      BY <1>13, <3>1 DEF LoopTop, Shape, TypeOK, LocalCounters, HelpersFollowService,
         clockVars, countVars, timeVars, connVars, bodyVars, helperVars
  <2> QED BY <2>1, <2>2, <2>3, Zenon
<1>14. CASE Decide
  <2>1. ASSUME NEW why, BeginClose(why), UNCHANGED <<fired, permit>> PROVE Shape'
    BY <1>14, <2>1, CloseShape, Zenon DEF Decide, Shape, TypeOK
  <2>2. CASE driver' = "parked"
    <3>1. wake' \in SUBSET Nat
      BY <1>14, <2>2 DEF Decide, BeginClose, ArmedDeadlines, Shape, TypeOK
    <3> QED
      BY <1>14, <2>2, <3>1 DEF Decide, BeginClose, Shape, TypeOK, LocalCounters,
         HelpersFollowService, clockVars, countVars, timeVars, connVars, bodyVars,
         helperVars
  <2> QED BY <1>14, <2>1, <2>2, Zenon DEF Decide
<1>15. CASE ShutdownArm
  BY <1>15, CloseShape DEF ShutdownArm, Shape, TypeOK
<1>16. CASE NotifyArm
  BY Zenon, <1>16 DEF NotifyArm, Shape, TypeOK, LocalCounters, HelpersFollowService,
     clockVars, countVars, timeVars, driverVars, connVars, bodyVars,
     helperVars, Helpers, Watchdogs, Requests
<1>17. CASE SleepArm
  BY <1>17 DEF SleepArm, Shape, TypeOK, LocalCounters, HelpersFollowService,
     clockVars, countVars, timeVars, driverVars, connVars, bodyVars,
     helperVars, Helpers, Watchdogs, Requests
<1>18. ASSUME NEW m \in BOOLEAN, ConnArm(m) PROVE Shape'
  <2>1. \E how : ReturnWith(how, m)
    BY Zenon, <1>18 DEF ConnArm, Shape, TypeOK
  <2> QED BY <1>18, <2>1, ReturnShape, Zenon DEF ConnArm
<1>19. ASSUME NEW m \in BOOLEAN, CloseDone(m) PROVE Shape'
  <2>1. \E how : ReturnWith(how, m)
    BY <1>19, Zenon DEF CloseDone
  <2> QED BY <1>19, <2>1, ReturnShape, Zenon DEF CloseDone
<1>20. CASE RequestShutdown
  BY <1>20 DEF RequestShutdown, Shape, TypeOK, LocalCounters,
     HelpersFollowService, clockVars, countVars, timeVars, driverVars,
     connVars, bodyVars, helperVars, Helpers, Watchdogs, Requests
<1>21. CASE Tick
  BY <1>21 DEF Tick, Shape, TypeOK, LocalCounters, HelpersFollowService,
     clockVars, countVars, timeVars, driverVars, connVars, bodyVars,
     helperVars, Helpers, Watchdogs, Requests
<1>22. ASSUME NEW r \in Requests, TrackerCounts(r) PROVE Shape'
  BY <1>22 DEF TrackerCounts, HelperFrame, Terminal, Shape, TypeOK,
     LocalCounters, HelpersFollowService, clockVars, countVars, timeVars,
     driverVars, connVars, bodyVars, helperVars, Helpers, Watchdogs, Requests
<1>23. ASSUME NEW r \in Requests, TrackerTouches(r) PROVE Shape'
  BY <1>23 DEF TrackerTouches, HelperFrame, Shape, TypeOK, LocalCounters,
     HelpersFollowService, clockVars, countVars, timeVars, driverVars,
     connVars, bodyVars, helperVars, Helpers, Watchdogs, Requests
<1>24. ASSUME NEW r \in Requests, TrackerNotifies(r) PROVE Shape'
  BY <1>24 DEF TrackerNotifies, HelperFrame, Shape, TypeOK, LocalCounters,
     HelpersFollowService, clockVars, countVars, timeVars, driverVars,
     connVars, bodyVars, helperVars, Helpers, Watchdogs, Requests
<1>25. ASSUME NEW r \in Requests, WatchdogWakes(r) PROVE Shape'
  BY <1>25 DEF WatchdogWakes, HelperFrame, Terminal, Shape, TypeOK,
     LocalCounters, HelpersFollowService, clockVars, countVars, timeVars,
     driverVars, connVars, bodyVars, helperVars, Helpers, Watchdogs, Requests
<1>26. ASSUME NEW r \in Requests, WatchdogMarks(r) PROVE Shape'
  BY <1>26 DEF WatchdogMarks, HelperFrame, Marked, Shape, TypeOK,
     LocalCounters, HelpersFollowService, clockVars, countVars, timeVars,
     driverVars, connVars, bodyVars, helperVars, Helpers, Watchdogs, Requests
<1>27. ASSUME NEW r \in Requests, WatchdogFires(r) PROVE Shape'
  BY <1>27 DEF WatchdogFires, HelperFrame, Shape, TypeOK, LocalCounters,
     HelpersFollowService, clockVars, countVars, timeVars, driverVars,
     connVars, bodyVars, helperVars, Helpers, Watchdogs, Requests
<1>28. ASSUME NEW r \in Requests, WatchdogNotifies(r) PROVE Shape'
  BY <1>28 DEF WatchdogNotifies, HelperFrame, Shape, TypeOK, LocalCounters,
     HelpersFollowService, clockVars, countVars, timeVars, driverVars,
     connVars, bodyVars, helperVars, Helpers, Watchdogs, Requests
<1>29. ASSUME NEW r \in Requests, Delegate(r) PROVE Shape'
  BY <1>29 DEF Delegate, Shape, TypeOK, LocalCounters, HelpersFollowService,
     clockVars, countVars, timeVars, driverVars, connVars, bodyVars,
     helperVars, Helpers, Watchdogs, Requests
<1>30. ASSUME NEW r \in Requests, BodyEnds(r) PROVE Shape'
  BY <1>30 DEF BodyEnds, Marked, Shape, TypeOK, LocalCounters,
     HelpersFollowService, clockVars, countVars, timeVars, driverVars,
     connVars, bodyVars, helperVars, Helpers, Watchdogs, Requests
<1>31. ASSUME NEW r \in Requests, BodyFails(r) PROVE Shape'
  BY <1>31 DEF BodyFails, Marked, Shape, TypeOK, LocalCounters,
     HelpersFollowService, clockVars, countVars, timeVars, driverVars,
     connVars, bodyVars, helperVars, Helpers, Watchdogs, Requests
<1>32. ASSUME NEW r \in Requests, NEW m \in BOOLEAN, BodyDropped(r, m) PROVE Shape'
  BY <1>32 DEF BodyDropped, Marked, Shape, TypeOK, LocalCounters,
     HelpersFollowService, clockVars, countVars, timeVars, driverVars,
     connVars, bodyVars, helperVars, Helpers, Watchdogs, Requests
<1>33. CASE UNCHANGED vars
  BY <1>33 DEF vars, Shape, TypeOK, LocalCounters, HelpersFollowService,
     clockVars, countVars, timeVars, driverVars, connVars, bodyVars,
     helperVars, Helpers, Watchdogs, Requests
<1> QED
  BY Zenon, <1>1, <1>2, <1>3, <1>4, <1>5, <1>6, <1>7, <1>8, <1>9, <1>10, <1>11, <1>12,
     <1>13, <1>14, <1>15, <1>16, <1>17, <1>18, <1>19, <1>20, <1>21, <1>22,
     <1>23, <1>24, <1>25, <1>26, <1>27, <1>28, <1>29, <1>30, <1>31, <1>32,
     <1>33 DEF Next, Driver, Hyper, Helper, BodyOwner

\* The connection's variables keep their types, the counters of its own task
\* are the phase of its request, and only delegated bodies have helpers.
THEOREM ConnectionTypeCorrect == Spec => []Shape
  BY ShapeInit, ShapeStep, PTL DEF Spec

-----------------------------------------------------------------------------
(* The deferred counter.                                                   *)

Waiting == {r \in Requests : tracker[r] = "waiting"}

\* What a step may do to the delegated bodies and their counter.
Unaffected == deferred' = deferred /\ Waiting' = Waiting
Delegates ==
    /\ served \in Requests \ Waiting
    /\ Waiting' = Waiting \cup {served}
    /\ deferred' = deferred + 1
CountsOff ==
    \E r \in Waiting :
       /\ Waiting' = Waiting \ {r}
       /\ deferred' = IF deferred = 0 THEN 0 ELSE deferred - 1

DeferredStep == Unaffected \/ Delegates \/ CountsOff

\* Finishing a service call delegates its body or leaves the counter alone.
LEMMA ConcludeKinds ==
    ASSUME Shape, phase = "service", NEW s, Conclude(s)
    PROVE  DeferredStep
<1>1. served \in Requests /\ tracker[served] = "none"
  BY DEF Shape, TypeOK, HelpersFollowService, Requests
<1>2. CASE s = "Active"
  <2>1. tracker' = [tracker EXCEPT ![served] = "waiting"] /\ deferred' = deferred + 1
    BY <1>2, Zenon DEF Conclude
  <2> QED BY <1>1, <2>1 DEF Waiting, Delegates, DeferredStep, Shape, TypeOK
<1>3. CASE s # "Active"
  BY <1>3, Zenon DEF Conclude, Waiting, Unaffected, DeferredStep, helperVars
<1> QED BY <1>2, <1>3, Zenon

\* Every step delegates a body, counts one off or leaves the counter alone.
LEMMA DeferredSteps == Shape /\ [Next]_vars => DeferredStep
<1> SUFFICES ASSUME Shape, [Next]_vars PROVE DeferredStep
  BY Zenon
<1>1. CASE BytesRead
  BY <1>1, Zenon DEF BytesRead, Polled, Waiting, Unaffected, clockVars, countVars,
     timeVars, driverVars, connVars, bodyVars, helperVars, DeferredStep
<1>2. CASE BytesWritten
  BY <1>2, Zenon DEF BytesWritten, Polled, Waiting, Unaffected, clockVars, countVars,
     timeVars, driverVars, connVars, bodyVars, helperVars, DeferredStep
<1>3. ASSUME NEW reuse \in BOOLEAN, NEW s \in {"eof", "gone"}, DispatchRejected(reuse, s) PROVE DeferredStep
  BY <1>3, Zenon DEF DispatchRejected, Polled, Waiting, Unaffected, clockVars,
     countVars, timeVars, driverVars, connVars, bodyVars, helperVars,
     DeferredStep
<1>4. ASSUME NEW kind \in {"plain", "stream", "buffer"}, Dispatch(kind) PROVE DeferredStep
  BY <1>4, Zenon DEF Dispatch, Polled, Late, Waiting, Unaffected, clockVars,
     countVars, timeVars, driverVars, connVars, bodyVars, helperVars,
     DeferredStep
<1>5. CASE BufferDone
  BY <1>5, Zenon DEF BufferDone, Polled, Late, Waiting, Unaffected, clockVars,
     countVars, timeVars, driverVars, connVars, bodyVars, helperVars,
     DeferredStep
<1>6. CASE BufferFails
  BY <1>6, Zenon DEF BufferFails, Polled, Finish, Waiting, Unaffected, clockVars,
     countVars, timeVars, driverVars, connVars, bodyVars, helperVars,
     DeferredStep
<1>7. CASE ServiceReturns
  BY <1>7, ConcludeKinds, Zenon DEF ServiceReturns, DeferredStep
<1>8. ASSUME NEW m \in BOOLEAN, ServiceTimesOut(m) PROVE DeferredStep
  BY <1>8, ConcludeKinds, Zenon DEF ServiceTimesOut, DeferredStep
<1>9. CASE ResponseFinished
  BY <1>9, Zenon DEF ResponseFinished, Polled, Waiting, Unaffected, clockVars,
     countVars, timeVars, driverVars, connVars, bodyVars, helperVars,
     DeferredStep
<1>10. CASE Flushed
  BY <1>10, Zenon DEF Flushed, Polled, Waiting, Unaffected, clockVars, countVars,
     timeVars, driverVars, connVars, bodyVars, helperVars, DeferredStep
<1>11. CASE ReuseOrClose
  BY <1>11, Zenon DEF ReuseOrClose, Polled, Waiting, Unaffected, clockVars, countVars,
     timeVars, driverVars, connVars, bodyVars, helperVars, DeferredStep
<1>12. ASSUME NEW how \in {"ok", "err", "timeout"}, PeerEnds(how) PROVE DeferredStep
  BY <1>12, Zenon DEF PeerEnds, Polled, Waiting, Unaffected, clockVars, countVars,
     timeVars, driverVars, connVars, bodyVars, helperVars, DeferredStep
<1>13. CASE LoopTop
  BY <1>13, Zenon DEF LoopTop, BeginClose, Waiting, Unaffected, clockVars, countVars,
     timeVars, driverVars, connVars, bodyVars, helperVars, DeferredStep
<1>14. CASE Decide
  BY <1>14, Zenon DEF Decide, BeginClose, ArmedDeadlines, Idle, Waiting, Unaffected,
     clockVars, countVars, timeVars, driverVars, connVars, bodyVars,
     helperVars, DeferredStep
<1>15. CASE ShutdownArm
  BY <1>15, Zenon DEF ShutdownArm, BeginClose, Waiting, Unaffected, clockVars,
     countVars, timeVars, driverVars, connVars, bodyVars, helperVars,
     DeferredStep
<1>16. CASE NotifyArm
  BY <1>16, Zenon DEF NotifyArm, Waiting, Unaffected, clockVars, countVars, timeVars,
     driverVars, connVars, bodyVars, helperVars, DeferredStep
<1>17. CASE SleepArm
  BY <1>17, Zenon DEF SleepArm, Waiting, Unaffected, clockVars, countVars, timeVars,
     driverVars, connVars, bodyVars, helperVars, DeferredStep
<1>18. ASSUME NEW m \in BOOLEAN, ConnArm(m) PROVE DeferredStep
  <2>1. \E res : ReturnWith(res, m)
    BY Zenon, <1>18 DEF ConnArm, Shape, TypeOK
  <2> QED BY <2>1, Zenon DEF ReturnWith, Waiting, Unaffected, helperVars, DeferredStep
<1>19. ASSUME NEW m \in BOOLEAN, CloseDone(m) PROVE DeferredStep
  BY <1>19, Zenon DEF CloseDone, ReturnWith, Waiting, Unaffected, clockVars,
     countVars, timeVars, driverVars, connVars, bodyVars, helperVars,
     DeferredStep
<1>20. CASE RequestShutdown
  BY <1>20, Zenon DEF RequestShutdown, Waiting, Unaffected, clockVars, countVars,
     timeVars, driverVars, connVars, bodyVars, helperVars, DeferredStep
<1>21. CASE Tick
  BY <1>21, Zenon DEF Tick, Waiting, Unaffected, clockVars, countVars, timeVars,
     driverVars, connVars, bodyVars, helperVars, DeferredStep
<1>22. ASSUME NEW r \in Requests, TrackerCounts(r) PROVE DeferredStep
  BY <1>22, Zenon DEF TrackerCounts, Waiting, CountsOff, DeferredStep, Shape, TypeOK
<1>23. ASSUME NEW r \in Requests, TrackerTouches(r) PROVE DeferredStep
  BY <1>23, Zenon DEF TrackerTouches, Waiting, Unaffected, DeferredStep, Shape, TypeOK
<1>24. ASSUME NEW r \in Requests, TrackerNotifies(r) PROVE DeferredStep
  BY <1>24, Zenon DEF TrackerNotifies, Waiting, Unaffected, DeferredStep, Shape, TypeOK
<1>25. ASSUME NEW r \in Requests, WatchdogWakes(r) PROVE DeferredStep
  BY <1>25, Zenon DEF WatchdogWakes, HelperFrame, Terminal, Waiting, Unaffected,
     clockVars, countVars, timeVars, driverVars, connVars, bodyVars,
     helperVars, DeferredStep
<1>26. ASSUME NEW r \in Requests, WatchdogMarks(r) PROVE DeferredStep
  BY <1>26, Zenon DEF WatchdogMarks, HelperFrame, Marked, Waiting, Unaffected,
     clockVars, countVars, timeVars, driverVars, connVars, bodyVars,
     helperVars, DeferredStep
<1>27. ASSUME NEW r \in Requests, WatchdogFires(r) PROVE DeferredStep
  BY <1>27, Zenon DEF WatchdogFires, HelperFrame, Waiting, Unaffected, clockVars,
     countVars, timeVars, driverVars, connVars, bodyVars, helperVars,
     DeferredStep
<1>28. ASSUME NEW r \in Requests, WatchdogNotifies(r) PROVE DeferredStep
  BY <1>28, Zenon DEF WatchdogNotifies, HelperFrame, Waiting, Unaffected, clockVars,
     countVars, timeVars, driverVars, connVars, bodyVars, helperVars,
     DeferredStep
<1>29. ASSUME NEW r \in Requests, Delegate(r) PROVE DeferredStep
  BY <1>29, Zenon DEF Delegate, Waiting, Unaffected, clockVars, countVars, timeVars,
     driverVars, connVars, bodyVars, helperVars, DeferredStep
<1>30. ASSUME NEW r \in Requests, BodyEnds(r) PROVE DeferredStep
  BY <1>30, Zenon DEF BodyEnds, Marked, Waiting, Unaffected, clockVars, countVars,
     timeVars, driverVars, connVars, bodyVars, helperVars, DeferredStep
<1>31. ASSUME NEW r \in Requests, BodyFails(r) PROVE DeferredStep
  BY <1>31, Zenon DEF BodyFails, Marked, Waiting, Unaffected, clockVars, countVars,
     timeVars, driverVars, connVars, bodyVars, helperVars, DeferredStep
<1>32. ASSUME NEW r \in Requests, NEW m \in BOOLEAN, BodyDropped(r, m) PROVE DeferredStep
  BY <1>32, Zenon DEF BodyDropped, Marked, Waiting, Unaffected, clockVars, countVars,
     timeVars, driverVars, connVars, bodyVars, helperVars, DeferredStep
<1>33. CASE UNCHANGED vars
  BY <1>33, Zenon DEF vars, Waiting, Unaffected, clockVars, countVars, timeVars,
     driverVars, connVars, bodyVars, helperVars, DeferredStep
<1> QED
  BY Zenon, <1>1, <1>2, <1>3, <1>4, <1>5, <1>6, <1>7, <1>8, <1>9, <1>10, <1>11, <1>12,
     <1>13, <1>14, <1>15, <1>16, <1>17, <1>18, <1>19, <1>20, <1>21, <1>22,
     <1>23, <1>24, <1>25, <1>26, <1>27, <1>28, <1>29, <1>30, <1>31, <1>32,
     <1>33 DEF Next, Driver, Hyper, Helper, BodyOwner

\* The delegated bodies can be counted.
LEMMA WaitingIsFinite == IsFiniteSet(Waiting) /\ Cardinality(Waiting) \in Nat
<1>1. IsFiniteSet(Requests)
  BY ConstantsAreNatural, FS_Interval DEF Requests
<1> QED BY <1>1, FS_Subset, FS_CardinalityType DEF Waiting

\* in_flight, outstanding and deferred are always the numbers the driver takes
\* them for, however calls, responses and delegated bodies end.
THEOREM CountersAreExact == Spec => []CountersExact
<1> DEFINE Exact == deferred = Cardinality(Waiting)
<1>1. Init => Exact
  <2>1. Init => Waiting = {}
    BY Zenon DEF Init, Waiting
  <2> QED BY <2>1, FS_EmptySet DEF Init
<1>2. Shape /\ Exact /\ [Next]_vars => Exact'
  <2> SUFFICES ASSUME Shape, Exact, DeferredStep PROVE Exact'
    BY DeferredSteps, Zenon
  <2>1. CASE Unaffected
    BY <2>1, Zenon DEF Unaffected
  <2>2. CASE Delegates
    <3>1. Cardinality(Waiting \cup {served}) = Cardinality(Waiting) + 1
      BY <2>2, WaitingIsFinite, FS_AddElement DEF Delegates
    <3> QED BY <2>2, <3>1, Zenon DEF Delegates
  <2>3. CASE CountsOff
    <3>1. PICK r \in Waiting : /\ Waiting' = Waiting \ {r}
                              /\ deferred' = IF deferred = 0 THEN 0 ELSE deferred - 1
      BY <2>3, Zenon DEF CountsOff
    <3>2. Cardinality(Waiting \ {r}) = Cardinality(Waiting) - 1
      BY WaitingIsFinite, FS_RemoveElement
    <3>3. IsFiniteSet(Waiting \ {r})
      BY WaitingIsFinite, FS_Subset
    <3>4. Cardinality(Waiting \ {r}) \in Nat
      BY <3>3, FS_CardinalityType
    <3> QED BY <3>1, <3>2, <3>4, WaitingIsFinite
  <2> QED BY <2>1, <2>2, <2>3, Zenon DEF DeferredStep
<1>3. Shape /\ Exact => CountersExact
  BY Zenon DEF CountersExact, Shape, LocalCounters, Waiting
<1> QED
  BY <1>1, <1>2, <1>3, ShapeInit, ShapeStep, PTL DEF Spec

\* A connection is closed for idleness only while nothing is being served on it.
THEOREM IdleCloseInterruptsNothing == Spec => IdleNeverInterrupts
<1>1. Shape /\ CountersExact /\ [Next]_vars => [IdleClose => ~Busy]_vars
  <2> SUFFICES ASSUME Shape, CountersExact, [Next]_vars, IdleClose PROVE ~Busy
    BY Zenon
  <2>1. Decide
    <3>1. driver = "decide" /\ driver' = "closing"
      BY Zenon DEF IdleClose
    <3> QED
      BY Zenon, <3>1 DEF Next, Driver, Hyper, Helper, BodyOwner, LoopTop, ShutdownArm,
         NotifyArm, SleepArm, ConnArm, CloseDone, RequestShutdown, Tick, vars,
         BytesRead, BytesWritten, DispatchRejected, Dispatch, BufferDone, BufferFails,
         ServiceReturns, ServiceTimesOut, ResponseFinished, Flushed, ReuseOrClose,
         PeerEnds, Polled, TrackerCounts, TrackerTouches, TrackerNotifies,
         WatchdogWakes, WatchdogMarks, WatchdogFires, WatchdogNotifies, HelperFrame,
         Delegate, BodyEnds, BodyFails, BodyDropped, driverVars
  <2>2. Idle
    BY <2>1, Zenon DEF Decide, IdleClose, BeginClose
  <2>3. phase \notin {"buffering", "service", "sending"}
    BY <2>2 DEF IdleClose, Idle, CountersExact
  <2>4. \A r \in Requests : tracker[r] # "waiting"
    <3>1. Cardinality(Waiting) = 0
      BY <2>2, Zenon DEF Idle, CountersExact, Waiting
    <3> QED BY <3>1, WaitingIsFinite, FS_EmptySet DEF Waiting
  <2> QED BY <2>3, <2>4, Zenon DEF Busy
<1> QED
  BY <1>1, ConnectionTypeCorrect, CountersAreExact, PTL DEF Spec, IdleNeverInterrupts

-----------------------------------------------------------------------------
(* The driver never oversleeps.                                            *)

\* Activity is stamped with the past; a snapshot is no newer than the times.
Times ==
    /\ last_activity <= now /\ last_write <= now
    /\ driver = "decide" => snap.activity <= last_activity /\ snap.write <= last_write

\* A stored body timeout that the top of the loop has not taken still has its
\* notification pending or on its way.
FiredIsNotified ==
    driver \in {"decide", "parked"} /\ fired => permit \/ WakeUnderway

\* NoOversleep, one conjunct for each deadline.
Covered ==
    driver = "parked" /\ ~permit /\ ~WakeUnderway =>
       /\ TotalTimeout # 0 => \E w \in wake : w <= TotalTimeout
       /\ Idle /\ IdleOwned => \E w \in wake : w <= last_activity + IdleTimeout
       /\ outstanding > 0 /\ WriteOwned => \E w \in wake : w <= last_write + WriteTimeout

Awake == Times /\ FiredIsNotified /\ Covered

\* Covered and FiredIsNotified are NoOversleep and more.
LEMMA AwakeNeverOversleeps == Awake => NoOversleep
  BY Zenon DEF Awake, FiredIsNotified, Covered, NoOversleep, Required

\* A step that leaves the driver, what it waits for and the notification alone
\* and stamps no time backwards.
Quiet ==
    /\ driver' = driver /\ snap' = snap /\ wake' = wake
    /\ in_flight' = in_flight /\ outstanding' = outstanding /\ deferred' = deferred
    /\ fired' = fired /\ permit' = permit /\ WakeUnderway' = WakeUnderway
    /\ last_activity' \in {last_activity, now} /\ last_write' \in {last_write, now}
    /\ now' \in {now, now + 1}

\* Quiet steps keep the driver awake to what it waits for.
LEMMA QuietStep == Shape /\ Awake /\ Quiet => Awake'
<1> SUFFICES ASSUME Shape, Awake, Quiet PROVE Awake'
  BY Zenon
<1>0. /\ now \in Nat /\ last_activity \in Nat /\ last_write \in Nat
      /\ wake \subseteq Nat /\ IdleTimeout \in Nat /\ WriteTimeout \in Nat
      /\ snap \in [activity : Nat, write : Nat, at : Nat]
  BY ConstantsAreNatural, Zenon DEF Shape, TypeOK
<1>1. last_activity <= last_activity' /\ last_write <= last_write'
      /\ last_activity' \in Nat /\ last_write' \in Nat
  BY <1>0 DEF Awake, Times, Quiet
<1>2. Times'
  BY <1>0 DEF Awake, Times, Quiet
<1>3. FiredIsNotified'
  BY Zenon DEF Awake, FiredIsNotified, Quiet
<1>4. Covered'
  <2> SUFFICES ASSUME (driver = "parked" /\ ~permit /\ ~WakeUnderway)'
               PROVE  /\ TotalTimeout # 0 => \E w \in wake' : w <= TotalTimeout
                      /\ Idle' /\ IdleOwned => \E w \in wake' : w <= last_activity' + IdleTimeout
                      /\ outstanding' > 0 /\ WriteOwned
                           => \E w \in wake' : w <= last_write' + WriteTimeout
    BY Zenon DEF Covered
  <2>1. driver = "parked" /\ ~permit /\ ~WakeUnderway
    BY Zenon DEF Quiet
  <2>2. TotalTimeout # 0 => \E w \in wake' : w <= TotalTimeout
    BY <2>1, Zenon DEF Awake, Covered, Quiet
  <2>3. Idle' /\ IdleOwned => \E w \in wake' : w <= last_activity' + IdleTimeout
    <3> SUFFICES ASSUME Idle', IdleOwned
                 PROVE  \E w \in wake' : w <= last_activity' + IdleTimeout
      BY Zenon
    <3>1. Idle
      BY Zenon DEF Idle, Quiet
    <3>2. PICK w \in wake : w <= last_activity + IdleTimeout
      BY <2>1, <3>1, Zenon DEF Awake, Covered
    <3>3. w \in Nat
      BY <1>0, Zenon
    <3>4. ASSUME NEW a \in Nat, NEW b \in Nat, a <= b, w <= a + IdleTimeout
          PROVE  w <= b + IdleTimeout
      BY <1>0, <3>3, <3>4
    <3>5. w <= last_activity' + IdleTimeout
      BY Zenon, <1>0, <1>1, <3>2, <3>4
    <3> QED BY <3>5, Zenon DEF Quiet
  <2>4. outstanding' > 0 /\ WriteOwned => \E w \in wake' : w <= last_write' + WriteTimeout
    <3> SUFFICES ASSUME outstanding' > 0, WriteOwned
                 PROVE  \E w \in wake' : w <= last_write' + WriteTimeout
      BY Zenon
    <3>1. outstanding > 0
      BY Zenon DEF Quiet
    <3>2. PICK w \in wake : w <= last_write + WriteTimeout
      BY <2>1, <3>1, Zenon DEF Awake, Covered
    <3>3. w \in Nat
      BY <1>0, Zenon
    <3>4. ASSUME NEW a \in Nat, NEW b \in Nat, a <= b, w <= a + WriteTimeout
          PROVE  w <= b + WriteTimeout
      BY <1>0, <3>3, <3>4
    <3>5. w <= last_write' + WriteTimeout
      BY Zenon, <1>0, <1>1, <3>2, <3>4
    <3> QED BY <3>5, Zenon DEF Quiet
  <2> QED BY <2>2, <2>3, <2>4, Zenon
<1> QED BY <1>2, <1>3, <1>4, Zenon DEF Awake

\* A step that ends with the notification stored or on its way, or with the
\* driver neither deciding nor asleep, leaves only the times to look at.
Roused == permit' = TRUE \/ WakeUnderway' \/ driver' \notin {"decide", "parked"}

\* So they keep Awake as soon as they keep the times in order.
LEMMA RousedStep ==
    ASSUME Times', Roused PROVE Awake'
<1>1. FiredIsNotified'
  BY Zenon DEF Roused, FiredIsNotified
<1>2. Covered'
  <2>1. ~(driver' = "parked" /\ ~permit' /\ ~WakeUnderway')
    BY Zenon DEF Roused
  <2> QED BY <2>1, Zenon DEF Covered
<1> QED BY <1>1, <1>2, Zenon DEF Awake

\* Every step of the connection keeps the driver awake to what it waits for:
\* the quiet ones, the ones that notify it and its own.
LEMMA AwakeStep == Shape /\ Awake /\ [Next]_vars => Awake'
<1> SUFFICES ASSUME Shape, Awake, [Next]_vars PROVE Awake'
  BY Zenon
<1>1. CASE BytesRead
  BY Zenon, <1>1, QuietStep DEF BytesRead, Quiet, WakeUnderway, clockVars, countVars,
     timeVars, driverVars, connVars, bodyVars, helperVars
<1>2. CASE BytesWritten
  BY <1>2, QuietStep, Zenon DEF BytesWritten, Quiet, WakeUnderway, clockVars,
     countVars, timeVars, driverVars, connVars, bodyVars, helperVars
<1>3. ASSUME NEW reuse \in BOOLEAN, NEW s \in {"eof", "gone"}, DispatchRejected(reuse, s) PROVE Awake'
  <2>1. permit' = TRUE
    BY <1>3, Zenon DEF DispatchRejected
  <2>2. Times'
    BY <1>3 DEF DispatchRejected, Shape, TypeOK, Awake, Times, clockVars,
       countVars, timeVars, driverVars, connVars, bodyVars, helperVars
  <2> QED BY <2>1, <2>2, RousedStep, Zenon DEF Roused
<1>4. ASSUME NEW kind \in {"plain", "stream", "buffer"}, Dispatch(kind) PROVE Awake'
  <2>1. permit' = TRUE
    BY <1>4, Zenon DEF Dispatch
  <2>2. Times'
    BY <1>4, Zenon DEF Dispatch, Shape, TypeOK, Awake, Times, clockVars, countVars,
       timeVars, driverVars, connVars, bodyVars, helperVars
  <2> QED BY <2>1, <2>2, RousedStep, Zenon DEF Roused
<1>5. CASE BufferDone
  BY <1>5, QuietStep, Zenon DEF BufferDone, Quiet, WakeUnderway, clockVars, countVars,
     timeVars, driverVars, connVars, bodyVars, helperVars
<1>6. CASE BufferFails
  <2>1. permit' = TRUE
    BY <1>6, Zenon DEF BufferFails, Finish
  <2>2. Times'
    BY <1>6 DEF BufferFails, Finish, Shape, TypeOK, Awake, Times, clockVars,
       driverVars
  <2> QED BY <2>1, <2>2, RousedStep, Zenon DEF Roused
<1>7. CASE ServiceReturns
  <2>1. permit' = TRUE
    BY <1>7, Zenon DEF ServiceReturns, Conclude, Finish
  <2>2. Times'
    BY <1>7 DEF ServiceReturns, Conclude, Finish, Shape, TypeOK, Awake, Times,
       clockVars, driverVars
  <2> QED BY <2>1, <2>2, RousedStep, Zenon DEF Roused
<1>8. ASSUME NEW m \in BOOLEAN, ServiceTimesOut(m) PROVE Awake'
  <2>1. permit' = TRUE
    BY <1>8, Zenon DEF ServiceTimesOut, Conclude, Finish
  <2>2. Times'
    BY <1>8 DEF ServiceTimesOut, Conclude, Finish, Shape, TypeOK, Awake, Times,
       clockVars, driverVars
  <2> QED BY <2>1, <2>2, RousedStep, Zenon DEF Roused
<1>9. CASE ResponseFinished
  <2>1. permit' = TRUE
    BY <1>9, Zenon DEF ResponseFinished
  <2>2. Times'
    BY <1>9 DEF ResponseFinished, Shape, TypeOK, Awake, Times, clockVars,
       countVars, timeVars, driverVars, connVars, bodyVars, helperVars
  <2> QED BY <2>1, <2>2, RousedStep, Zenon DEF Roused
<1>10. CASE Flushed
  BY <1>10, QuietStep, Zenon DEF Flushed, Quiet, WakeUnderway, clockVars, countVars,
     timeVars, driverVars, connVars, bodyVars, helperVars
<1>11. CASE ReuseOrClose
  BY <1>11, QuietStep, Zenon DEF ReuseOrClose, Quiet, WakeUnderway, clockVars,
     countVars, timeVars, driverVars, connVars, bodyVars, helperVars
<1>12. ASSUME NEW how \in {"ok", "err", "timeout"}, PeerEnds(how) PROVE Awake'
  BY <1>12, QuietStep, Zenon DEF PeerEnds, Quiet, WakeUnderway, clockVars, countVars,
     timeVars, driverVars, connVars, bodyVars, helperVars
<1>13. CASE LoopTop
  <2>1. CASE driver' = "closing"
    <3>1. Times'
      BY <1>13, <2>1, Zenon DEF LoopTop, BeginClose, Awake, Times, clockVars, timeVars
    <3> QED BY <2>1, <3>1, RousedStep, Zenon DEF Roused
  <2>2. CASE driver' # "closing"
    <3>1. ~fired
      BY <1>13, <2>2, Zenon DEF LoopTop, BeginClose
    <3>2. /\ driver' = "decide" /\ fired' = fired
          /\ snap' = [activity |-> last_activity, write |-> last_write, at |-> now]
          /\ UNCHANGED <<clockVars, timeVars>>
      BY <1>13, <2>2, Zenon DEF LoopTop, BeginClose
    <3>3. Times'
      BY <3>2 DEF Shape, TypeOK, Awake, Times, clockVars, timeVars
    <3>4. FiredIsNotified'
      BY <3>1, <3>2, Zenon DEF FiredIsNotified
    <3> QED BY <3>2, <3>3, <3>4, Zenon DEF Awake, Covered
  <2> QED BY <2>1, <2>2, Zenon
<1>14. CASE Decide
  <2>1. CASE driver' = "closing"
    <3>1. Times'
      BY <1>14, <2>1, Zenon DEF Decide, BeginClose, Awake, Times, clockVars, timeVars
    <3> QED BY <2>1, <3>1, RousedStep, Zenon DEF Roused
  <2>2. CASE driver' # "closing"
    <3>1. /\ driver = "decide" /\ driver' = "parked" /\ wake' = ArmedDeadlines
          /\ UNCHANGED <<clockVars, countVars, timeVars, fired, permit, helperVars>>
      BY <1>14, <2>2, Zenon DEF Decide, BeginClose
    <3>2. WakeUnderway' = WakeUnderway
      BY <3>1, Zenon DEF WakeUnderway, helperVars
    <3>3. Times'
      BY <3>1, Zenon DEF Awake, Times, clockVars, timeVars
    <3>4. FiredIsNotified'
      BY <3>1, <3>2, Zenon DEF Awake, FiredIsNotified
    <3>5. snap.activity <= last_activity /\ snap.write <= last_write
      BY <3>1, Zenon DEF Awake, Times
    <3>6. Covered'
      <4>1. TotalTimeout # 0 => \E w \in ArmedDeadlines : w <= TotalTimeout
        BY ConstantsAreNatural DEF ArmedDeadlines
      <4>2. Idle /\ IdleOwned => \E w \in ArmedDeadlines : w <= last_activity + IdleTimeout
        <5>1. snap.activity + IdleTimeout <= last_activity + IdleTimeout
          BY <3>5, ConstantsAreNatural DEF Shape, TypeOK
        <5> QED BY <5>1, Zenon DEF ArmedDeadlines
      <4>3. outstanding > 0 /\ WriteOwned => \E w \in ArmedDeadlines : w <= last_write + WriteTimeout
        <5>1. snap.write + WriteTimeout <= last_write + WriteTimeout
          BY <3>5, ConstantsAreNatural DEF Shape, TypeOK
        <5> QED BY <5>1, Zenon DEF ArmedDeadlines
      <4> QED BY <3>1, <4>1, <4>2, <4>3, Zenon DEF Covered, Idle, countVars, timeVars
    <3> QED BY <3>3, <3>4, <3>6, Zenon DEF Awake
  <2> QED BY <2>1, <2>2, Zenon
<1>15. CASE ShutdownArm
  <2>1. driver' \notin {"decide", "parked"}
    BY <1>15, Zenon DEF ShutdownArm, BeginClose
  <2>2. Times'
    BY <1>15, <2>1, Zenon DEF ShutdownArm, BeginClose, Awake, Times, clockVars, timeVars
  <2> QED BY <2>1, <2>2, RousedStep, Zenon DEF Roused
<1>16. CASE NotifyArm
  <2>1. driver' \notin {"decide", "parked"}
    BY <1>16, Zenon DEF NotifyArm
  <2>2. Times'
    BY <1>16, <2>1, Zenon DEF NotifyArm, Awake, Times, clockVars, timeVars
  <2> QED BY <2>1, <2>2, RousedStep, Zenon DEF Roused
<1>17. CASE SleepArm
  <2>1. driver' \notin {"decide", "parked"}
    BY <1>17, Zenon DEF SleepArm
  <2>2. Times'
    BY <1>17, <2>1, Zenon DEF SleepArm, Awake, Times, clockVars, timeVars
  <2> QED BY <2>1, <2>2, RousedStep, Zenon DEF Roused
<1>18. ASSUME NEW m \in BOOLEAN, ConnArm(m) PROVE Awake'
  <2>0. \E res : ReturnWith(res, m)
    BY Zenon, <1>18 DEF ConnArm, Shape, TypeOK
  <2>1. /\ driver' = "ended" /\ now' = now /\ last_write' = last_write
        /\ last_activity' \in {last_activity, now}
    BY <2>0, ReturnTimes, Zenon
  <2>2. Times'
    BY <2>1 DEF Shape, TypeOK, Awake, Times
  <2> QED BY <2>1, <2>2, RousedStep, Zenon DEF Roused
<1>19. ASSUME NEW m \in BOOLEAN, CloseDone(m) PROVE Awake'
  <2>0. \E res : ReturnWith(res, m)
    BY <1>19, Zenon DEF CloseDone
  <2>1. /\ driver' = "ended" /\ now' = now /\ last_write' = last_write
        /\ last_activity' \in {last_activity, now}
    BY <2>0, ReturnTimes, Zenon
  <2>2. Times'
    BY <2>1 DEF Shape, TypeOK, Awake, Times
  <2> QED BY <2>1, <2>2, RousedStep, Zenon DEF Roused
<1>20. CASE RequestShutdown
  BY <1>20, QuietStep, Zenon DEF RequestShutdown, Quiet, WakeUnderway, clockVars,
     countVars, timeVars, driverVars, connVars, bodyVars, helperVars
<1>21. CASE Tick
  BY Zenon, <1>21, QuietStep DEF Tick, Quiet, WakeUnderway, clockVars, countVars,
     timeVars, driverVars, connVars, bodyVars, helperVars
<1>22. ASSUME NEW r \in Requests, TrackerCounts(r) PROVE Awake'
  <2>1. WakeUnderway'
    BY <1>22, Zenon DEF TrackerCounts, WakeUnderway, Shape, TypeOK
  <2>2. Times'
    BY <1>22, Zenon DEF TrackerCounts, HelperFrame, Shape, TypeOK, Awake, Times,
       clockVars, countVars, timeVars, driverVars, connVars, bodyVars,
       helperVars
  <2> QED BY <2>1, <2>2, RousedStep, Zenon DEF Roused
<1>23. ASSUME NEW r \in Requests, TrackerTouches(r) PROVE Awake'
  <2>1. WakeUnderway'
    BY <1>23, Zenon DEF TrackerTouches, WakeUnderway, Shape, TypeOK
  <2>2. Times'
    BY <1>23 DEF TrackerTouches, HelperFrame, Shape, TypeOK, Awake, Times,
       clockVars, countVars, timeVars, driverVars, connVars, bodyVars,
       helperVars
  <2> QED BY <2>1, <2>2, RousedStep, Zenon DEF Roused
<1>24. ASSUME NEW r \in Requests, TrackerNotifies(r) PROVE Awake'
  <2>1. permit' = TRUE
    BY <1>24, Zenon DEF TrackerNotifies
  <2>2. Times'
    BY <1>24, Zenon DEF TrackerNotifies, HelperFrame, Awake, Times, clockVars,
       countVars, timeVars, driverVars, connVars, bodyVars, helperVars
  <2> QED BY <2>1, <2>2, RousedStep, Zenon DEF Roused
<1>25. ASSUME NEW r \in Requests, WatchdogWakes(r) PROVE Awake'
  <2>1. WakeUnderway' = WakeUnderway
    BY <1>25, Zenon DEF WatchdogWakes, WakeUnderway, Shape, TypeOK, Watchdogs
  <2> QED BY <1>25, <2>1, QuietStep, Zenon DEF WatchdogWakes, HelperFrame, Quiet,
     clockVars, countVars, timeVars, driverVars, connVars, bodyVars, helperVars
<1>26. ASSUME NEW r \in Requests, WatchdogMarks(r) PROVE Awake'
  <2>1. WakeUnderway' = WakeUnderway
    BY <1>26, Zenon DEF WatchdogMarks, WakeUnderway, Shape, TypeOK, Watchdogs
  <2> QED BY Zenon, <1>26, <2>1, QuietStep DEF WatchdogMarks, HelperFrame, Quiet,
     clockVars, countVars, timeVars, driverVars, connVars, bodyVars, helperVars
<1>27. ASSUME NEW r \in Requests, WatchdogFires(r) PROVE Awake'
  <2>1. WakeUnderway'
    BY <1>27, Zenon DEF WatchdogFires, WakeUnderway, Shape, TypeOK
  <2>2. Times'
    BY <1>27, Zenon DEF WatchdogFires, HelperFrame, Shape, TypeOK, Awake, Times,
       clockVars, countVars, timeVars, driverVars, connVars, bodyVars,
       helperVars
  <2> QED BY <2>1, <2>2, RousedStep, Zenon DEF Roused
<1>28. ASSUME NEW r \in Requests, WatchdogNotifies(r) PROVE Awake'
  <2>1. permit' = TRUE
    BY <1>28, Zenon DEF WatchdogNotifies
  <2>2. Times'
    BY <1>28, Zenon DEF WatchdogNotifies, HelperFrame, Awake, Times, clockVars,
       countVars, timeVars, driverVars, connVars, bodyVars, helperVars
  <2> QED BY <2>1, <2>2, RousedStep, Zenon DEF Roused
<1>29. ASSUME NEW r \in Requests, Delegate(r) PROVE Awake'
  BY Zenon, <1>29, QuietStep DEF Delegate, Quiet, WakeUnderway, clockVars, countVars,
     timeVars, driverVars, connVars, bodyVars, helperVars
<1>30. ASSUME NEW r \in Requests, BodyEnds(r) PROVE Awake'
  BY <1>30, QuietStep, Zenon DEF BodyEnds, Quiet, WakeUnderway, clockVars, countVars,
     timeVars, driverVars, connVars, bodyVars, helperVars
<1>31. ASSUME NEW r \in Requests, BodyFails(r) PROVE Awake'
  BY <1>31, QuietStep, Zenon DEF BodyFails, Quiet, WakeUnderway, clockVars, countVars,
     timeVars, driverVars, connVars, bodyVars, helperVars
<1>32. ASSUME NEW r \in Requests, NEW m \in BOOLEAN, BodyDropped(r, m) PROVE Awake'
  BY <1>32, QuietStep, Zenon DEF BodyDropped, Quiet, WakeUnderway, clockVars,
     countVars, timeVars, driverVars, connVars, bodyVars, helperVars
<1>33. CASE UNCHANGED vars
  BY <1>33, QuietStep, Zenon DEF vars, Quiet, WakeUnderway, clockVars, countVars,
     timeVars, driverVars, connVars, bodyVars, helperVars
<1> QED
  BY Zenon, <1>1, <1>2, <1>3, <1>4, <1>5, <1>6, <1>7, <1>8, <1>9, <1>10, <1>11, <1>12,
     <1>13, <1>14, <1>15, <1>16, <1>17, <1>18, <1>19, <1>20, <1>21, <1>22,
     <1>23, <1>24, <1>25, <1>26, <1>27, <1>28, <1>29, <1>30, <1>31, <1>32,
     <1>33 DEF Next, Driver, Hyper, Helper, BodyOwner

\* "all transitions that create new (earlier) deadlines wake the driver": a
\* sleeping driver has a wake-up by every deadline that applies, or one is on
\* its way, for any number of requests and any timeouts.
THEOREM DriverNeverOversleeps == Spec => []NoOversleep
<1>1. Init => Awake
  BY ConstantsAreNatural DEF Init, Awake, Times, FiredIsNotified, Covered
<1> QED
  BY <1>1, AwakeStep, AwakeNeverOversleeps, ShapeInit, ShapeStep, PTL DEF Spec

-----------------------------------------------------------------------------
(* Tunnels of HTTP/1.1 connections.                                        *)

\* The inductive invariant: the tasks' states, and what a handler may be doing
\* while its tunnel is in a given one.
TasksOK ==
    /\ tunnel \in [Conns -> {"none", "upgrading", "bridging", "closing", "ended", "aborted"}]
    /\ handler \in [Conns -> {"none", "running", "aborting", "ended"}]
    /\ driving \in [Conns -> {"serving", "waiting", "closing_now", "closing_drain",
                             "abort", "draining", "reaping", "ended"}]
    /\ pipe \in [Conns -> {"admit", "calling", "commit", "take", "done"}]
    /\ permits \in Nat

HandlerFollowsTunnel ==
    \A k \in Conns : tunnel[k] \in {"none", "upgrading"} => handler[k] = "none"

\* A tunnel is spawned once: only the pipeline's last step creates it.
SpawnedAtTheEnd == \A k \in Conns : pipe[k] # "done" => tunnel[k] = "none"

TunnelInv ==
    /\ TasksOK
    /\ HandlerFollowsTunnel
    /\ SpawnedAtTheEnd
    /\ NoTunnelOutlivesDriver
    /\ CancelledHandlerIsGone
    /\ BudgetFollowsTunnels

\* What the steps that leave the tunnel tasks alone have in common.
LEMMA QuietTunnelStep ==
    ASSUME TunnelInv, UNCHANGED tasks,
           driving' \in [Conns -> {"serving", "waiting", "closing_now", "closing_drain",
                                  "abort", "draining", "reaping", "ended"}],
           pipe' \in [Conns -> {"admit", "calling", "commit", "take", "done"}],
           \A k \in Conns : pipe'[k] # "done" => pipe[k] # "done",
           \A k \in Conns : driving'[k] = "ended" => driving[k] = "ended" \/ k \notin LiveTunnels
    PROVE  TunnelInv'
<1>1. LiveTunnels' = LiveTunnels
  BY DEF tasks, LiveTunnels
<1>2. BudgetFollowsTunnels'
  BY <1>1 DEF TunnelInv, BudgetFollowsTunnels, tasks
<1>3. NoTunnelOutlivesDriver'
  BY <1>1 DEF TunnelInv, NoTunnelOutlivesDriver
<1>4. (HandlerFollowsTunnel /\ CancelledHandlerIsGone /\ SpawnedAtTheEnd)'
  BY DEF TunnelInv, HandlerFollowsTunnel, CancelledHandlerIsGone, SpawnedAtTheEnd, tasks
<1> QED BY <1>2, <1>3, <1>4 DEF TunnelInv, TasksOK, tasks

\* A permit comes back with the task that held it.
LEMMA TunnelOverKeepsBudget ==
    ASSUME TasksOK, BudgetFollowsTunnels, NEW k \in LiveTunnels, NEW how \in {"ended", "aborted"},
           TunnelOver(k, how)
    PROVE  BudgetFollowsTunnels' /\ LiveTunnels' = LiveTunnels \ {k} /\ permits' \in Nat
<1>1. LiveTunnels' = LiveTunnels \ {k}
  BY DEF TunnelOver, LiveTunnels, TasksOK
<1>2. IsFiniteSet(LiveTunnels)
  BY TunnelAssumption, FS_Subset DEF LiveTunnels
<1>3. Cardinality(LiveTunnels \ {k}) = Cardinality(LiveTunnels) - 1 /\ Cardinality(LiveTunnels) \in Nat
  BY <1>2, FS_RemoveElement, FS_CardinalityType
<1> QED BY <1>1, <1>3, TunnelAssumption DEF TunnelOver, BudgetFollowsTunnels, TasksOK

\* A permit goes out with the task that admit_and_spawn starts.
LEMMA SpawnKeepsBudget ==
    ASSUME TasksOK, BudgetFollowsTunnels, NEW k \in Conns \ LiveTunnels, permits > 0,
           permits' = permits - 1, tunnel' = [tunnel EXCEPT ![k] = "upgrading"]
    PROVE  BudgetFollowsTunnels' /\ LiveTunnels' = LiveTunnels \cup {k} /\ permits' \in Nat
<1>1. LiveTunnels' = LiveTunnels \cup {k}
  BY DEF LiveTunnels, TasksOK
<1>2. IsFiniteSet(LiveTunnels)
  BY TunnelAssumption, FS_Subset DEF LiveTunnels
<1>3. Cardinality(LiveTunnels \cup {k}) = Cardinality(LiveTunnels) + 1 /\ Cardinality(LiveTunnels) \in Nat
  BY <1>2, FS_AddElement, FS_CardinalityType
<1> QED BY <1>1, <1>3, TunnelAssumption DEF BudgetFollowsTunnels, TasksOK

\* Every way a tunnel task ends keeps the invariant.
LEMMA TunnelOverKeepsInv ==
    ASSUME TunnelInv, NEW k \in LiveTunnels, NEW how \in {"ended", "aborted"}, TunnelOver(k, how),
           handler' = handler, pipe' = pipe,
           driving' \in [Conns -> {"serving", "waiting", "closing_now", "closing_drain",
                                  "abort", "draining", "reaping", "ended"}],
           \A j \in Conns : driving'[j] = "ended" => driving[j] = "ended",
           how = "ended" => handler[k] \in {"none", "ended"}
    PROVE  TunnelInv'
<1> USE DEF TunnelInv
<1>1. BudgetFollowsTunnels' /\ LiveTunnels' = LiveTunnels \ {k} /\ permits' \in Nat
  BY TunnelOverKeepsBudget
<1>2. NoTunnelOutlivesDriver'
  BY <1>1 DEF NoTunnelOutlivesDriver
<1>3. k \in Conns /\ tunnel[k] # "none"
  BY DEF LiveTunnels
<1>4. tunnel' = [tunnel EXCEPT ![k] = how]
  BY DEF TunnelOver
<1>5. (HandlerFollowsTunnel /\ CancelledHandlerIsGone /\ SpawnedAtTheEnd)'
  BY <1>3, <1>4 DEF HandlerFollowsTunnel, CancelledHandlerIsGone, SpawnedAtTheEnd, TasksOK
<1>6. TasksOK'
  BY <1>1, <1>3, <1>4 DEF TasksOK
<1> QED BY <1>1, <1>2, <1>5, <1>6

\* The invariant holds at the start.
LEMMA TunnelInvInit == TunnelInit => TunnelInv
<1> SUFFICES ASSUME TunnelInit PROVE TunnelInv
  OBVIOUS
<1>1. LiveTunnels = {}
  BY DEF TunnelInit, LiveTunnels
<1>2. BudgetFollowsTunnels
  BY <1>1, FS_EmptySet, TunnelAssumption DEF TunnelInit, BudgetFollowsTunnels
<1>3. TasksOK /\ HandlerFollowsTunnel /\ SpawnedAtTheEnd /\ CancelledHandlerIsGone
  BY TunnelAssumption DEF TunnelInit, TasksOK, HandlerFollowsTunnel, SpawnedAtTheEnd, CancelledHandlerIsGone
<1> QED BY <1>1, <1>2, <1>3 DEF TunnelInv, NoTunnelOutlivesDriver

\* Taking the acceptance spawns at most one tunnel, and only while the driver
\* still polls the connection.
LEMMA TakeKeepsInv ==
    ASSUME TunnelInv, NEW k \in Conns, TakeAcceptance(k)
    PROVE  TunnelInv'
<1> USE DEF TunnelInv
<1>1. /\ driving[k] # "ended" /\ tunnel[k] = "none" /\ k \notin LiveTunnels
      /\ pipe' = [pipe EXCEPT ![k] = "done"] /\ handler' = handler /\ driving' = driving
  BY DEF TakeAcceptance, TunnelPolled, SpawnedAtTheEnd, LiveTunnels
<1>2. \/ permits' = permits /\ tunnel' = tunnel
      \/ permits > 0 /\ permits' = permits - 1 /\ tunnel' = [tunnel EXCEPT ![k] = "upgrading"]
  BY DEF TakeAcceptance, AdmitAndSpawn
<1>3. CASE permits' = permits /\ tunnel' = tunnel
  BY <1>1, <1>3, QuietTunnelStep DEF tasks, TasksOK
<1>4. CASE permits > 0 /\ permits' = permits - 1 /\ tunnel' = [tunnel EXCEPT ![k] = "upgrading"]
  <2>1. BudgetFollowsTunnels' /\ LiveTunnels' = LiveTunnels \cup {k} /\ permits' \in Nat
    BY <1>1, <1>4, SpawnKeepsBudget
  <2>2. NoTunnelOutlivesDriver'
    BY <1>1, <2>1 DEF NoTunnelOutlivesDriver
  <2>3. (HandlerFollowsTunnel /\ CancelledHandlerIsGone /\ SpawnedAtTheEnd)'
    BY <1>1, <1>4 DEF HandlerFollowsTunnel, CancelledHandlerIsGone, SpawnedAtTheEnd, TasksOK
  <2>4. TasksOK'
    BY <1>1, <1>4, <2>1 DEF TasksOK
  <2> QED BY <2>1, <2>2, <2>3, <2>4
<1> QED BY <1>2, <1>3, <1>4

\* The steps of run_tunnel and of its handler.
LEMMA TaskStepsKeepInv ==
    ASSUME TunnelInv, NEW k \in Conns, TunnelStep(k) \/ HandlerEnds(k)
    PROVE  TunnelInv'
<1> USE DEF TunnelInv
<1>1. CASE UpgradeFailed(k)
  <2>1. k \in LiveTunnels /\ handler[k] = "none"
    BY <1>1 DEF UpgradeFailed, LiveTunnels, HandlerFollowsTunnel
  <2>2. TunnelOver(k, "ended") /\ handler' = handler /\ pipe' = pipe /\ driving' = driving
    BY <1>1 DEF UpgradeFailed, answer
  <2> QED BY <2>1, <2>2, TunnelOverKeepsInv DEF TasksOK
<1>2. CASE TunnelEnds(k)
  <2>1. k \in LiveTunnels /\ handler[k] = "ended"
    BY <1>2 DEF TunnelEnds, LiveTunnels
  <2>2. TunnelOver(k, "ended") /\ handler' = handler /\ pipe' = pipe /\ driving' = driving
    BY <1>2 DEF TunnelEnds, answer
  <2> QED BY <2>1, <2>2, TunnelOverKeepsInv DEF TasksOK
<1>3. ASSUME NEW t \in {"bridging", "closing"}, NEW h \in {"running", "aborting", "ended"},
             k \in LiveTunnels, tunnel' = [tunnel EXCEPT ![k] = t],
             handler' = [handler EXCEPT ![k] = h],
             permits' = permits, driving' = driving, pipe' = pipe
      PROVE  TunnelInv'
  <2>1. LiveTunnels' = LiveTunnels
    BY <1>3 DEF LiveTunnels, TasksOK
  <2>2. BudgetFollowsTunnels' /\ NoTunnelOutlivesDriver'
    BY <1>3, <2>1 DEF BudgetFollowsTunnels, NoTunnelOutlivesDriver
  <2>3. (HandlerFollowsTunnel /\ CancelledHandlerIsGone /\ SpawnedAtTheEnd)'
    BY <1>3 DEF HandlerFollowsTunnel, CancelledHandlerIsGone, SpawnedAtTheEnd, TasksOK, LiveTunnels
  <2>4. TasksOK'
    BY <1>3 DEF TasksOK
  <2> QED BY <2>2, <2>3, <2>4
<1>4. CASE SpawnHandler(k)
  <2>1. /\ k \in LiveTunnels /\ tunnel' = [tunnel EXCEPT ![k] = "bridging"]
        /\ handler' = [handler EXCEPT ![k] = "running"]
        /\ permits' = permits /\ driving' = driving /\ pipe' = pipe
    BY <1>4 DEF SpawnHandler, LiveTunnels, answer
  <2> QED BY <2>1, <1>3
<1>5. CASE CancelHandler(k)
  <2>1. /\ k \in LiveTunnels /\ tunnel' = [tunnel EXCEPT ![k] = "closing"]
        /\ handler' = [handler EXCEPT ![k] = IF handler[k] = "running" THEN "aborting" ELSE handler[k]]
        /\ permits' = permits /\ driving' = driving /\ pipe' = pipe
    BY <1>5 DEF CancelHandler, LiveTunnels, answer
  <2>2. BudgetFollowsTunnels' /\ NoTunnelOutlivesDriver'
    <3>1. LiveTunnels' = LiveTunnels
      BY <2>1 DEF LiveTunnels, TasksOK
    <3> QED BY <2>1, <3>1 DEF BudgetFollowsTunnels, NoTunnelOutlivesDriver
  <2>3. (HandlerFollowsTunnel /\ CancelledHandlerIsGone /\ SpawnedAtTheEnd)'
    BY <2>1 DEF HandlerFollowsTunnel, CancelledHandlerIsGone, SpawnedAtTheEnd, TasksOK, LiveTunnels
  <2>4. TasksOK'
    BY <2>1 DEF TasksOK
  <2> QED BY <2>2, <2>3, <2>4
<1>6. CASE HandlerEnds(k)
  <2>1. /\ handler[k] \in {"running", "aborting"} /\ handler' = [handler EXCEPT ![k] = "ended"]
        /\ tunnel' = tunnel /\ permits' = permits /\ driving' = driving /\ pipe' = pipe
    BY <1>6 DEF HandlerEnds, answer
  <2>2. LiveTunnels' = LiveTunnels
    BY <2>1 DEF LiveTunnels
  <2>3. BudgetFollowsTunnels' /\ NoTunnelOutlivesDriver'
    BY <2>1, <2>2 DEF BudgetFollowsTunnels, NoTunnelOutlivesDriver
  <2>4. (HandlerFollowsTunnel /\ CancelledHandlerIsGone /\ SpawnedAtTheEnd)'
    BY <2>1 DEF HandlerFollowsTunnel, CancelledHandlerIsGone, SpawnedAtTheEnd, TasksOK
  <2>5. TasksOK'
    BY <2>1 DEF TasksOK
  <2> QED BY <2>3, <2>4, <2>5
<1> QED BY <1>1, <1>2, <1>4, <1>5, <1>6 DEF TunnelStep

\* The steps of the driver.
LEMMA DriverStepsKeepInv ==
    ASSUME TunnelInv, NEW k \in Conns,
           DriverStep(k) \/ StartClosing(k) \/ DrainExpires(k)
             \/ \E bad \in BOOLEAN : HyperDone(k, bad)
    PROVE  TunnelInv'
<1> USE DEF TunnelInv
<1>1. CASE DrainExpires(k)
  <2>1. /\ k \in LiveTunnels /\ TunnelOver(k, "aborted") /\ handler' = handler /\ pipe' = pipe
        /\ driving' = [driving EXCEPT ![k] = "reaping"]
    BY <1>1 DEF DrainExpires, answer
  <2>2. /\ driving' \in [Conns -> {"serving", "waiting", "closing_now", "closing_drain",
                                  "abort", "draining", "reaping", "ended"}]
        /\ \A j \in Conns : driving'[j] = "ended" => driving[j] = "ended"
    BY <2>1 DEF TasksOK
  <2> QED BY <2>1, <2>2, TunnelOverKeepsInv
<1>2. ASSUME NEW d \in {"waiting", "closing_now", "closing_drain", "abort", "draining", "ended"},
             d = "ended" => k \notin LiveTunnels,
             driving' = [driving EXCEPT ![k] = d], UNCHANGED <<answer, tasks>>
      PROVE  TunnelInv'
  <2>1. /\ driving' \in [Conns -> {"serving", "waiting", "closing_now", "closing_drain",
                                  "abort", "draining", "reaping", "ended"}]
        /\ \A j \in Conns : driving'[j] = "ended" => driving[j] = "ended" \/ j \notin LiveTunnels
    BY <1>2 DEF TasksOK
  <2>2. pipe' = pipe /\ UNCHANGED tasks
    BY <1>2 DEF answer
  <2> QED BY <2>1, <2>2, QuietTunnelStep DEF TasksOK
<1>3. CASE ~DrainExpires(k)
  <2>1. \E d \in {"waiting", "closing_now", "closing_drain", "abort", "draining", "ended"} :
            /\ d = "ended" => k \notin LiveTunnels
            /\ driving' = [driving EXCEPT ![k] = d] /\ UNCHANGED <<answer, tasks>>
    <3>1. CASE StartClosing(k)
      BY <3>1 DEF StartClosing
    <3>2. CASE \E bad \in BOOLEAN : HyperDone(k, bad)
      BY <3>2 DEF HyperDone
    <3>3. CASE CloseReturns(k)
      BY <3>3 DEF CloseReturns
    <3>4. CASE ShutdownWhileWaiting(k)
      BY <3>4 DEF ShutdownWhileWaiting
    <3>5. CASE Drained(k)
      BY <3>5 DEF Drained
    <3> QED BY <1>3, <3>1, <3>2, <3>3, <3>4, <3>5 DEF DriverStep
  <2> QED BY <2>1, <1>2
<1> QED BY <1>1, <1>3

\* Every step keeps the invariant.
LEMMA TunnelInvNext == TunnelInv /\ [TunnelNext]_tunnelVars => TunnelInv'
<1> SUFFICES ASSUME TunnelInv, [TunnelNext]_tunnelVars PROVE TunnelInv'
  OBVIOUS
<1>1. ASSUME NEW k \in Conns,
             \/ AcceptCheck(k) \/ DropCapability(k) \/ ServiceStep(k) \/ ConnectionShutdown(k)
      PROVE  TunnelInv'
  <2>1. UNCHANGED <<pipe, driving, tasks>>
    BY <1>1 DEF AcceptCheck, DropCapability, ServiceStep, AcceptClaim, AcceptStage,
                ConnectionShutdown, answer
  <2> QED BY <2>1, QuietTunnelStep DEF TunnelInv, TasksOK
<1>2. ASSUME NEW k \in Conns, Admit(k) \/ CallEnds(k) \/ MarkCommitted(k)
      PROVE  TunnelInv'
  <2>1. /\ UNCHANGED <<driving, tasks>> /\ pipe[k] # "done"
        /\ \E p \in {"calling", "done", "commit", "take"} : pipe' = [pipe EXCEPT ![k] = p]
    BY <1>2 DEF Admit, CallEnds, MarkCommitted
  <2>2. /\ pipe' \in [Conns -> {"admit", "calling", "commit", "take", "done"}]
        /\ \A j \in Conns : pipe'[j] # "done" => pipe[j] # "done"
    BY <2>1 DEF TunnelInv, TasksOK
  <2> QED BY <2>1, <2>2, QuietTunnelStep DEF TunnelInv, TasksOK
<1>3. CASE UNCHANGED tunnelVars
  <2>1. UNCHANGED <<pipe, driving, tasks>>
    BY <1>3 DEF tunnelVars, answer
  <2> QED BY <2>1, QuietTunnelStep DEF TunnelInv, TasksOK
<1> QED BY <1>1, <1>2, <1>3, TakeKeepsInv, TaskStepsKeepInv, DriverStepsKeepInv DEF TunnelNext, PipelineStep

\* The tunnel semaphore is exact for every number of connections: no path on
\* which a tunnel ends loses or invents a permit.
THEOREM TunnelBudgetIsExact == TunnelSpec => []BudgetFollowsTunnels
<1>1. TunnelInv => BudgetFollowsTunnels
  BY DEF TunnelInv
<1> QED BY <1>1, TunnelInvInit, TunnelInvNext, PTL DEF TunnelSpec

\* drive_connection never returns over a live run_tunnel task, and a run_tunnel
\* task that returns by itself leaves no handler behind.
THEOREM OwnersOutliveTheirTunnels == TunnelSpec => []TunnelsEndWithOwners
<1>1. TunnelInv => TunnelsEndWithOwners
  BY DEF TunnelInv, TunnelsEndWithOwners
<1> QED BY <1>1, TunnelInvInit, TunnelInvNext, PTL DEF TunnelSpec
=============================================================================
