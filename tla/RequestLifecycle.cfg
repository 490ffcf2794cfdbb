\* Two callers race for the body state and the cancellation (a body owner or
\* watchdog against the driver); the deferred-body tracker waits for the body
\* and a service waits for cancellation.
SPECIFICATION Spec
CHECK_DEADLOCK FALSE
CONSTANTS
    Callers = {bodyOwner, driver}
    BodyWaiters = {tracker}
    CancelWaiters = {service}
    RequestCancellationReason = {"TransportFailure", "ConnectionTimeout"}
    NoReason = none

INVARIANTS
    NoLostRegisteredWake

PROPERTIES
    ImplementsContract
    WaitersLearn
