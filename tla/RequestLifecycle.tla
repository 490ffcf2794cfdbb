--------------------------- MODULE RequestLifecycle ---------------------------
(***************************************************************************)
(* RequestShared of eggserve-primitives: the allocation shared by a        *)
(* request's body, its service, the deferred-body watchdog and tracker and *)
(* the connection driver, together with the two AsyncNotify instances      *)
(* (body_notify and cancel_notify) through which tasks wait on it.  Every  *)
(* atomic operation and every critical section is one step.                *)
(***************************************************************************)
EXTENDS Naturals

CONSTANTS Callers,        \* tasks that mark the body or cancel the request
          BodyWaiters,    \* tasks inside wait_body_terminal
          CancelWaiters,  \* tasks inside wait_cancelled
          RequestCancellationReason,
          NoReason        \* reason == None


VARIABLES body_state, cancelled, reason,   \* the fields of RequestShared
          generation, waiters,             \* the fields of each AsyncNotify
          pc, channel, pending, taken,     \* what each caller is doing
          wpc, snapshot, woken             \* what each waiting task is doing

shared == <<body_state, cancelled, reason>>
notify == <<generation, waiters>>
caller == <<pc, channel, pending, taken>>
waiter == <<wpc, snapshot, woken>>
vars == <<shared, notify, caller, waiter>>

\* The atomics of RequestShared are the contract's state; generations, waiters and
\* the program counters of callers and waiters are hidden by the mapping.
Contract == INSTANCE LifecycleContract
                WITH RequestCancellationReason <- RequestCancellationReason,
                     NoReason <- NoReason, body_state <- body_state, reason <- reason

BodyLifecycleState == Contract!BodyLifecycleState

\* The enum is non_exhaustive; mark_failed needs one of its variants by name.
ASSUME ReasonAssumption ==
    /\ "TransportFailure" \in RequestCancellationReason
    /\ NoReason \notin RequestCancellationReason

\* body_notify and cancel_notify.
Channels == {"body", "cancel"}

Waiters == BodyWaiters \cup CancelWaiters

\* The AsyncNotify a task waits on.
ChannelOf(w) == IF w \in BodyWaiters THEN "body" ELSE "cancel"

CallerPc == {"idle", "bump", "take", "wake", "cancel", "set_reason"}
WaiterPc == {"check", "snapshot", "poll", "register", "recheck", "asleep", "returned"}

TypeOK ==
    /\ body_state \in BodyLifecycleState
    /\ cancelled \in BOOLEAN
    /\ reason \in RequestCancellationReason \cup {NoReason}
    /\ generation \in [Channels -> Nat]
    /\ waiters \in [Channels -> SUBSET Waiters]
    /\ pc \in [Callers -> CallerPc]
    /\ channel \in [Callers -> Channels]
    /\ pending \in [Callers -> RequestCancellationReason \cup {NoReason}]
    /\ taken \in [Callers -> SUBSET Waiters]
    /\ wpc \in [Waiters -> WaiterPc]
    /\ snapshot \in [Waiters -> Nat]
    /\ woken \in [Waiters -> BOOLEAN]

\* RequestShared::new_active
Init ==
    /\ body_state = "Active"
    /\ cancelled = FALSE
    /\ reason = NoReason
    /\ generation = [ch \in Channels |-> 0]
    /\ waiters = [ch \in Channels |-> {}]
    /\ pc = [c \in Callers |-> "idle"]
    /\ channel = [c \in Callers |-> "body"]
    /\ pending = [c \in Callers |-> NoReason]
    /\ taken = [c \in Callers |-> {}]
    /\ wpc = [w \in Waiters |-> "check"]
    /\ snapshot = [w \in Waiters |-> 0]
    /\ woken = [w \in Waiters |-> FALSE]

-----------------------------------------------------------------------------
(* Marking the body.  A compare_exchange that fails returns false and      *)
(* changes nothing.                                                        *)

\* The store of a successful compare_exchange; the caller goes on to notify the
\* body waiters and then, when r is a reason, to cancel the request with it.
SwapBodyState(c, target, r) ==
    /\ pc[c] = "idle"
    /\ body_state' = target
    /\ pc' = [pc EXCEPT ![c] = "bump"]
    /\ channel' = [channel EXCEPT ![c] = "body"]
    /\ pending' = [pending EXCEPT ![c] = r]
    /\ UNCHANGED <<cancelled, reason, notify, taken, waiter>>

\* compare_exchange(Active, target)
Mark(c, target, r) == body_state = "Active" /\ SwapBodyState(c, target, r)

MarkComplete(c) == Mark(c, "Complete", NoReason)

MarkAbandoned(c) == Mark(c, "Abandoned", NoReason)

MarkFailed(c) == Mark(c, "Failed", "TransportFailure")

MarkFailedWithReason(c, r) == Mark(c, "Failed", r)

-----------------------------------------------------------------------------
(* Cancelling.                                                             *)

\* cancel(r) called directly: the connection driver's cancel_all.  The swap
\* elects one caller; one that finds the flag set returns at once.
CancelCall(c, r) ==
    /\ pc[c] = "idle"
    /\ ~cancelled
    /\ cancelled' = TRUE
    /\ pc' = [pc EXCEPT ![c] = "set_reason"]
    /\ pending' = [pending EXCEPT ![c] = r]
    /\ UNCHANGED <<body_state, reason, notify, channel, taken, waiter>>

\* cancel(r) at the end of a successful mark_failed or mark_failed_with_reason.
CancelAfterFailure(c) ==
    /\ pc[c] = "cancel"
    /\ cancelled' = TRUE
    /\ pc' = [pc EXCEPT ![c] = IF cancelled THEN "idle" ELSE "set_reason"]
    /\ pending' = [pending EXCEPT ![c] = IF cancelled THEN NoReason ELSE @]
    /\ UNCHANGED <<body_state, reason, notify, channel, taken, waiter>>

\* *guard = Some(reason), under the reason mutex.
SetReason(c) ==
    /\ pc[c] = "set_reason"
    /\ reason' = pending[c]
    /\ pc' = [pc EXCEPT ![c] = "bump"]
    /\ channel' = [channel EXCEPT ![c] = "cancel"]
    /\ pending' = [pending EXCEPT ![c] = NoReason]
    /\ UNCHANGED <<body_state, cancelled, notify, taken, waiter>>

-----------------------------------------------------------------------------
(* AsyncNotify::notify_waiters: bump the generation, take the registered   *)
(* wakers under the mutex, wake them after releasing it.                   *)

BumpGeneration(c) ==
    /\ pc[c] = "bump"
    /\ generation' = [generation EXCEPT ![channel[c]] = @ + 1]
    /\ pc' = [pc EXCEPT ![c] = "take"]
    /\ UNCHANGED <<shared, waiters, channel, pending, taken, waiter>>

TakeWaiters(c) ==
    /\ pc[c] = "take"
    /\ taken' = [taken EXCEPT ![c] = waiters[channel[c]]]
    /\ waiters' = [waiters EXCEPT ![channel[c]] = {}]
    /\ pc' = [pc EXCEPT ![c] = "wake"]
    /\ UNCHANGED <<shared, generation, channel, pending, waiter>>

\* waiter.wake() for one of the wakers taken.
WakeOne(c) ==
    /\ pc[c] = "wake"
    /\ \E w \in taken[c] :
           /\ woken' = [woken EXCEPT ![w] = TRUE]
           /\ taken' = [taken EXCEPT ![c] = @ \ {w}]
    /\ UNCHANGED <<shared, notify, pc, channel, pending, wpc, snapshot>>

\* Mutant: a failed body leaves the request running.
AfterNotifyReturn(c) == "idle"

\* The step after notify_waiters: mark_failed* cancels, everything else returns.
AfterNotify(c) == IF pending[c] # NoReason THEN "cancel" ELSE "idle"

NotifyReturns(c) ==
    /\ pc[c] = "wake" /\ taken[c] = {}
    /\ pc' = [pc EXCEPT ![c] = AfterNotify(c)]
    /\ channel' = [channel EXCEPT ![c] = "body"]
    /\ UNCHANGED <<shared, notify, pending, taken, waiter>>

-----------------------------------------------------------------------------
(* wait_body_terminal and wait_cancelled: test the flag, create a Notified *)
(* (which reads the generation), await it, test the flag again.            *)

\* is_body_terminal() or is_cancelled()
Flag(ch) == IF ch = "body" THEN body_state # "Active" ELSE cancelled

Goto(w, label) == wpc' = [wpc EXCEPT ![w] = label]

CheckFlag(w) ==
    /\ wpc[w] = "check"
    /\ Goto(w, IF Flag(ChannelOf(w)) THEN "returned" ELSE "snapshot")
    /\ UNCHANGED <<shared, notify, caller, snapshot, woken>>

\* AsyncNotify::notified
Notified(w) ==
    /\ wpc[w] = "snapshot"
    /\ snapshot' = [snapshot EXCEPT ![w] = generation[ChannelOf(w)]]
    /\ Goto(w, "poll")
    /\ UNCHANGED <<shared, notify, caller, woken>>

\* The generation moved since the Notified was created.
GenerationMoved(w) == generation[ChannelOf(w)] # snapshot[w]

\* Notified::poll, first test.
PollGeneration(w) ==
    /\ wpc[w] = "poll"
    /\ Goto(w, IF GenerationMoved(w) THEN "check" ELSE "register")
    /\ UNCHANGED <<shared, notify, caller, snapshot, woken>>

\* waiters.push under the mutex, skipped when the task is already listed.
RegisterWaker(w) ==
    /\ wpc[w] = "register"
    /\ waiters' = [waiters EXCEPT ![ChannelOf(w)] = @ \cup {w}]
    /\ Goto(w, "recheck")
    /\ UNCHANGED <<shared, generation, caller, snapshot, woken>>

\* Mutant: the task goes to sleep on the strength of the first test.
SleepUnchecked(w) ==
    /\ wpc[w] = "recheck"
    /\ Goto(w, "asleep")
    /\ UNCHANGED <<shared, notify, caller, snapshot, woken>>

\* Notified::poll, second test.
RecheckGeneration(w) ==
    /\ wpc[w] = "recheck"
    /\ Goto(w, IF GenerationMoved(w) THEN "check" ELSE "asleep")
    /\ UNCHANGED <<shared, notify, caller, snapshot, woken>>

\* The executor polls a task whose waker fired.
Rewake(w) ==
    /\ wpc[w] = "asleep" /\ woken[w]
    /\ woken' = [woken EXCEPT ![w] = FALSE]
    /\ Goto(w, "poll")
    /\ UNCHANGED <<shared, notify, caller, snapshot>>

\* The task is polled because another arm of its select! became ready.
PollByOtherArm(w) ==
    /\ wpc[w] = "asleep"
    /\ Goto(w, "poll")
    /\ UNCHANGED <<shared, notify, caller, snapshot, woken>>

-----------------------------------------------------------------------------
CallerStep(c) ==
    \/ CancelAfterFailure(c)
    \/ SetReason(c)
    \/ BumpGeneration(c)
    \/ TakeWaiters(c)
    \/ WakeOne(c)
    \/ NotifyReturns(c)

NewCall(c) ==
    \/ MarkComplete(c)
    \/ MarkAbandoned(c)
    \/ MarkFailed(c)
    \/ \E r \in RequestCancellationReason : MarkFailedWithReason(c, r)
    \/ \E r \in RequestCancellationReason : CancelCall(c, r)

WaiterStep(w) ==
    \/ CheckFlag(w)
    \/ Notified(w)
    \/ PollGeneration(w)
    \/ RegisterWaker(w)
    \/ RecheckGeneration(w)
    \/ Rewake(w)

Next ==
    \/ \E c \in Callers : NewCall(c) \/ CallerStep(c)
    \/ \E w \in Waiters : WaiterStep(w) \/ PollByOtherArm(w)

\* A running thread finishes the call it is in, and the executor eventually
\* polls a task that is runnable.  Nobody has to call, and no other arm of a
\* select! has to fire.
Fairness ==
    /\ \A c \in Callers : WF_vars(CallerStep(c))
    /\ \A w \in Waiters : WF_vars(WaiterStep(w))

Spec == Init /\ [][Next]_vars /\ Fairness

-----------------------------------------------------------------------------
(* Properties.                                                             *)

\* Somebody is committed to waking w: its waker is still listed and a caller
\* is about to take the list, or a caller holds it, or it has fired.
WakeOnItsWay(w) ==
    \/ woken[w]
    \/ \E c \in Callers :
          \/ pc[c] = "wake" /\ w \in taken[c]
          \/ pc[c] = "take" /\ channel[c] = ChannelOf(w) /\ w \in waiters[ChannelOf(w)]

\* AsyncNotify never strands a task it saw register: once the generation has
\* moved past the snapshot of a task parked in Notified::poll, a wake for that
\* task is pending, although the wakers are taken and fired outside the mutex.
NoLostRegisteredWake ==
    \A w \in Waiters : wpc[w] = "asleep" /\ GenerationMoved(w) => WakeOnItsWay(w)

\* Every body-state and reason change is one the write-once contract allows:
\* the compare_exchange and the swap make the first caller win under any
\* interleaving of mark_complete, mark_abandoned, mark_failed* and cancel.
ImplementsContract == Contract!Spec

\* A failed body always ends with an observable cancellation reason, whoever
\* wins the race to cancel (mark_failed: "Also cancels lifecycle").
FailedBodyIsCancelled == body_state = "Failed" ~> reason # NoReason

\* A waiter whose snapshot predates the notification returns from
\* wait_body_terminal or wait_cancelled.
NotifiedWaiterReturns ==
    \A w \in Waiters :
        wpc[w] \in {"poll", "register", "recheck", "asleep"} /\ GenerationMoved(w)
            ~> wpc[w] = "returned"

\* What the AsyncNotify documentation claims ("A generation counter closes the
\* check/register race"): once the flag is set, every waiter returns.
EveryWaiterReturns ==
    \A w \in Waiters : Flag(ChannelOf(w)) ~> wpc[w] = "returned"

\* Whoever waits on a request learns how its body ended: a body that fails
\* cancels the request in the same step, and a waiter that was registered when
\* the state changed returns (request_lifecycle.rs, fail_body and wait_*).
WaitersLearn == FailedBodyIsCancelled /\ NotifiedWaiterReturns
==============================================================================
