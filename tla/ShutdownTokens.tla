---------------------------- MODULE ShutdownTokens ----------------------------
(***************************************************************************)
(* The two level-triggered shutdown tokens of eggserve-server:             *)
(* ServerShutdown, awaited by the accept loop and by the relay in every    *)
(* connection task, and ConnectionShutdown, awaited by the connection      *)
(* driver.  A token is an atomic flag plus a tokio Notify that is only a   *)
(* wake-up.  Of tokio the model takes what the code relies on: a           *)
(* notify_waiters call reaches every Notified that was enabled before it.  *)
(***************************************************************************)
CONSTANTS Tokens,        \* all tokens
          ServerTokens,  \* those that are a ServerShutdown
          Callers,       \* tasks that call shutdown()
          Waiters,       \* tasks that await cancelled()
          WaitsOn        \* the token each waiter awaits

ASSUME WaitsOnAssumption == WaitsOn \in [Waiters -> Tokens]

VARIABLES flag,        \* the atomic flag of each token
          notifying,   \* the token a caller is about to notify, or "none"
          wpc,         \* where each waiter is in cancelled()
          signalled    \* the waiter's enabled Notified has been notified

vars == <<flag, notifying, wpc, signalled>>

ASSUME TokenNameAssumption == "none" \notin Tokens

TypeOK ==
    /\ flag \in [Tokens -> BOOLEAN]
    /\ notifying \in [Callers -> Tokens \cup {"none"}]
    /\ wpc \in [Waiters -> {"check", "enable", "recheck", "await", "returned"}]
    /\ signalled \in [Waiters -> BOOLEAN]

Init ==
    /\ flag = [t \in Tokens |-> FALSE]
    /\ notifying = [c \in Callers |-> "none"]
    /\ wpc = [w \in Waiters |-> "check"]
    /\ signalled = [w \in Waiters |-> FALSE]

\* Mutant: the result of the swap is tested without its negation.
SkipsFirstNotify(t) == t \in ServerTokens /\ ~flag[t]

\* ServerShutdown::shutdown swaps and returns when the flag was already set.
SkipsNotify(t) == t \in ServerTokens /\ flag[t]

\* shutdown(): set the flag; ConnectionShutdown notifies on every call.
Shutdown(c, t) ==
    /\ notifying[c] = "none"
    /\ flag' = [flag EXCEPT ![t] = TRUE]
    /\ notifying' = [notifying EXCEPT ![c] = IF SkipsNotify(t) THEN "none" ELSE t]
    /\ UNCHANGED <<wpc, signalled>>

\* The Notified of w is registered with the token's Notify.
Registered(w) == wpc[w] \in {"recheck", "await"}

NotifyWaiters(c) ==
    /\ notifying[c] # "none"
    /\ signalled' = [w \in Waiters |->
                        signalled[w] \/ (Registered(w) /\ WaitsOn[w] = notifying[c])]
    /\ notifying' = [notifying EXCEPT ![c] = "none"]
    /\ UNCHANGED <<flag, wpc>>

-----------------------------------------------------------------------------
(* cancelled(): check, create and enable a Notified, check again, await.   *)

Goto(w, label) == wpc' = [wpc EXCEPT ![w] = label]

Check(w) ==
    /\ wpc[w] = "check"
    /\ Goto(w, IF flag[WaitsOn[w]] THEN "returned" ELSE "enable")
    /\ UNCHANGED <<flag, notifying, signalled>>

Enable(w) ==
    /\ wpc[w] = "enable"
    /\ Goto(w, "recheck")
    /\ signalled' = [signalled EXCEPT ![w] = FALSE]
    /\ UNCHANGED <<flag, notifying>>

\* Mutant: await straight after enabling.
AwaitUnchecked(w) ==
    /\ wpc[w] = "recheck"
    /\ Goto(w, "await")
    /\ UNCHANGED <<flag, notifying, signalled>>

Recheck(w) ==
    /\ wpc[w] = "recheck"
    /\ Goto(w, IF flag[WaitsOn[w]] THEN "returned" ELSE "await")
    /\ UNCHANGED <<flag, notifying, signalled>>

Notified(w) ==
    /\ wpc[w] = "await"
    /\ signalled[w]
    /\ Goto(w, "check")
    /\ UNCHANGED <<flag, notifying, signalled>>

\* Another arm of the select! wins: the future is dropped with its Notified,
\* and the next turn of the loop calls cancelled() afresh.
DropAndRetry(w) ==
    /\ wpc[w] \in {"enable", "recheck", "await"}
    /\ Goto(w, "check")
    /\ signalled' = [signalled EXCEPT ![w] = FALSE]
    /\ UNCHANGED <<flag, notifying>>

WaiterStep(w) == Check(w) \/ Enable(w) \/ Recheck(w) \/ Notified(w)

Next ==
    \/ \E c \in Callers : NotifyWaiters(c) \/ \E t \in Tokens : Shutdown(c, t)
    \/ \E w \in Waiters : WaiterStep(w) \/ DropAndRetry(w)

\* A call in progress finishes and a runnable task is polled; nobody has to
\* request shutdown and no other arm of a select! has to win.
Fairness ==
    /\ \A c \in Callers : WF_vars(NotifyWaiters(c))
    /\ \A w \in Waiters : WF_vars(WaiterStep(w))

Spec == Init /\ [][Next]_vars /\ Fairness

-----------------------------------------------------------------------------
(* Properties.                                                             *)

\* cancelled() documents that "no interleaving can leave a waiter pending after
\* the flag is true": a waiter parked on a set token has been notified, or the
\* caller that set the flag has still to notify.
ParkedIsNotified ==
    \A w \in Waiters :
        wpc[w] = "await" /\ flag[WaitsOn[w]]
            => signalled[w] \/ \E c \in Callers : notifying[c] = WaitsOn[w]

\* Level-triggered shutdown: once a token is set every current and future
\* waiter returns from cancelled(), even one whose select! keeps dropping it.
EveryWaiterReturns ==
    \A w \in Waiters : flag[WaitsOn[w]] ~> wpc[w] = "returned"
==============================================================================
