-------------------------- MODULE LifecycleContract --------------------------
(***************************************************************************)
(* What a request lifecycle promises the tasks that share it, whatever the *)
(* order in which body owner, watchdog and driver reach it: the body       *)
(* leaves Active once and for good, and the first cancellation reason is   *)
(* the only one anybody ever observes.                                     *)
(***************************************************************************)
CONSTANTS RequestCancellationReason, NoReason

VARIABLES body_state,   \* BodyLifecycleState of the request body
          reason        \* the observable cancellation reason, or NoReason

BodyTerminal == {"Complete", "Abandoned", "Failed"}

BodyLifecycleState == {"Active"} \cup BodyTerminal

Init == body_state = "Active" /\ reason = NoReason

Terminate ==
    /\ body_state = "Active"
    /\ body_state' \in BodyTerminal
    /\ UNCHANGED reason

Cancel ==
    /\ reason = NoReason
    /\ reason' \in RequestCancellationReason
    /\ UNCHANGED body_state

Next == Terminate \/ Cancel

Spec == Init /\ [][Next]_<<body_state, reason>>
==============================================================================
