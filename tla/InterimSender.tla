---------------------------- MODULE InterimSender ----------------------------
(***************************************************************************)
(* InterimSender of eggserve-primitives: clones of one sender emit 1xx     *)
(* responses while the runtime commits the final response under the same   *)
(* lock.  send is one critical section, so it is one action.               *)
(***************************************************************************)
EXTENDS HeaderBlocks, FiniteSets

CONSTANTS InterimCalls,    \* the calls the clones make: [status, fields]
          MaxCount,        \* InterimLimits.max_count
          MaxBytes,        \* InterimLimits.max_total_bytes
          MaxAttempts      \* bound: calls of one run

ASSUME InterimAssumption ==
    /\ MaxCount \in Nat /\ MaxBytes \in Nat
    /\ InterimCalls \subseteq [status : Nat, fields : SUBSET STRING]
    /\ \A call \in InterimCalls : IsFiniteSet(call.fields)

VARIABLES interim,         \* InterimInner: committed, count, bytes, sent_continue, recorded
          http10,          \* the request is HTTP/1.0
          attempts         \* what every call so far asked for and got, in order

interimVars == <<interim, http10, attempts>>

Framing == {"content-length", "transfer-encoding"}

InterimInit ==
    /\ interim = [committed |-> FALSE, count |-> 0, bytes |-> 0, sent_continue |-> FALSE,
                  recorded |-> <<>>]
    /\ http10 \in BOOLEAN
    /\ attempts = <<>>

\* Status 101 belongs to the upgrade machinery, not to interim responses.
is_interim(status) == status \in 100 .. 199 /\ status # 101

normalize_interim_headers(fields) ==
    IF fields \cap Framing # {} THEN <<"ForbiddenHeader">> ELSE <<"Ok", fields \ HopByHop>>

\* Every field that is kept counts one byte.
msg_bytes(call) == Cardinality(call.fields \ HopByHop)

\* The checks of send, in the order the code makes them.
SendError(call) ==
    CASE ~ is_interim(call.status)                          -> "NotInterim"
      [] interim.committed                                  -> "AfterCommit"
      [] call.status = 100 /\ interim.sent_continue         -> "DuplicateContinue"
      [] normalize_interim_headers(call.fields)[1] # "Ok"   -> "ForbiddenHeader"
      [] interim.count + 1 > MaxCount                       -> "TooMany"
      [] interim.bytes + msg_bytes(call) > MaxBytes              -> "TooLarge"
      [] OTHER                                              -> "none"

\* Counts the message before the budget is checked, so a refused one uses it up.
SendCountFirst(call) ==
    LET error == SendError(call)
        answer == IF error # "none" THEN error
                  ELSE IF http10 THEN "SuppressedHttp10" ELSE "Sent"
    IN /\ Len(attempts) < MaxAttempts
       /\ interim' =
             [interim EXCEPT !.count = @ + 1, !.bytes = @ + msg_bytes(call),
                             !.sent_continue = @ \/ call.status = 100,
                             !.recorded = IF error # "none" THEN @
                                          ELSE Append(@, [status |-> call.status,
                                             fields |-> normalize_interim_headers(call.fields)[2]])]
       /\ attempts' = Append(attempts, [call |-> call, committed |-> interim.committed, answer |-> answer])
       /\ UNCHANGED http10

Send(call) ==
    LET error == SendError(call)
        answer == IF error # "none" THEN error
                  ELSE IF http10 THEN "SuppressedHttp10" ELSE "Sent"
    IN /\ Len(attempts) < MaxAttempts
       /\ interim' =
             IF error # "none" THEN interim
             ELSE [interim EXCEPT !.count = @ + 1, !.bytes = @ + msg_bytes(call),
                                  !.sent_continue = @ \/ call.status = 100,
                                  !.recorded = Append(@, [status |-> call.status,
                                     fields |-> normalize_interim_headers(call.fields)[2]])]
       /\ attempts' = Append(attempts, [call |-> call, committed |-> interim.committed, answer |-> answer])
       /\ UNCHANGED http10

\* invoke_service commits when the outcome of the service is known.
mark_committed ==
    /\ interim' = [interim EXCEPT !.committed = TRUE]
    /\ UNCHANGED <<http10, attempts>>

InterimNext ==
    \/ \E call \in InterimCalls : Send(call)
    \/ mark_committed

InterimSpec == InterimInit /\ [][InterimNext]_interimVars

(***************************************************************************)
(* Properties                                                              *)
(***************************************************************************)
\* No interim response is accepted once the final response is committed, whichever
\* clone sends it and however late (invoke_service marks the sender committed).
NoInterimAfterCommit ==
    \A i \in DOMAIN attempts : attempts[i].committed => attempts[i].answer \notin {"Sent", "SuppressedHttp10"}

\* The calls that were accepted, their bytes, and the place of one among them.
Accepted == {i \in DOMAIN attempts : attempts[i].answer \in {"Sent", "SuppressedHttp10"}}
Cost == [i \in DOMAIN attempts |-> IF i \in Accepted THEN msg_bytes(attempts[i].call) ELSE 0]
Spent(cost) ==
    LET spent[i \in 0 .. Len(cost)] == IF i = 0 THEN 0 ELSE spent[i - 1] + cost[i]
    IN spent
Place(i) == Cardinality(Accepted \cap 1 .. i)

\* The recorded messages are exactly the accepted calls in order, within the limits,
\* with at most one 100; a refused call leaves the budget as it was.
InterimBudgetExact ==
    /\ Cardinality(Accepted) = interim.count /\ interim.count <= MaxCount
    /\ Spent(Cost)[Len(attempts)] = interim.bytes /\ interim.bytes <= MaxBytes
    /\ Len(interim.recorded) = interim.count
    /\ \A i \in Accepted : interim.recorded[Place(i)] =
          [status |-> attempts[i].call.status, fields |-> attempts[i].call.fields \ HopByHop]
    /\ \A i, j \in Accepted : attempts[i].call.status = 100 /\ attempts[j].call.status = 100 => i = j

\* Nothing of an interim head can reframe the connection: no framing and no
\* hop-by-hop field survives, and 101 is never sent this way.
InterimHeadsClean ==
    \A i \in DOMAIN interim.recorded :
        /\ interim.recorded[i].fields \cap (Framing \cup HopByHop) = {}
        /\ interim.recorded[i].status # 101

\* Interim responses respect their rules whatever order threads send them in:
\* none after the final head, within the count and byte budget exactly, and with
\* heads free of framing and connection fields (interim.rs, send).
InterimRulesHold == NoInterimAfterCommit /\ InterimBudgetExact /\ InterimHeadsClean
=============================================================================
