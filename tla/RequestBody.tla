------------------------------ MODULE RequestBody ------------------------------
(***************************************************************************)
(* One RequestBody, from its construction to its drop: the service reads   *)
(* it with next_chunk / poll_next, with read_all or with                   *)
(* read_all_with_trailers, may drop a pending read, and may drop the body. *)
(* Meanwhile the runtime, which holds the same RequestShared, may mark the *)
(* body failed because its deadline passed.                                *)
(*                                                                         *)
(* A body is a record: the chunk lengths the transport will deliver, how   *)
(* the stream ends, the declared length, the effective limit and what the  *)
(* trailer slot holds at the end of the stream.  Byte values are left out; *)
(* the u64 overflow branches of the code need 2^64 received bytes and are  *)
(* left out too.                                                           *)
(***************************************************************************)
EXTENDS Integers, Sequences

CONSTANTS
    Bodies,       \* the bodies the transport may present
    NoLength      \* declared_length = None

VARIABLES
    body,         \* the body this RequestBody was built from
    pos,          \* chunks taken from the stream (Incoming) or data (Fixed)
    state,        \* RequestBody.state
    inner,        \* RequestBody.inner is Some
    received,     \* RequestBody.bytes_received
    shared,       \* body state of the shared RequestShared
    trailers,     \* completed_trailers / completed_trailer_error
    call,         \* the consuming call in progress, or "dropped"
    buffered      \* bytes in the buffer of a consuming call

bodyVars == <<body, pos, state, inner, received, shared, trailers, call, buffered>>

\* The bytes of the first chunks, and of all of them.
Taken(b) ==
    LET sum[n \in 0..Len(b.chunks)] == IF n = 0 THEN 0 ELSE sum[n - 1] + b.chunks[n] IN sum
Total(b) == Taken(b)[Len(b.chunks)]

\* In-memory bodies neither break off nor carry trailers; a Fixed one declares its
\* size and an Empty one nothing.
ASSUME BodiesAssumption ==
    /\ NoLength \notin Nat
    /\ Bodies \subseteq [kind : {"Incoming", "Fixed", "Empty"}, chunks : Seq(Nat), end : {"eof", "error"},
                         declared : Nat \cup {NoLength}, max : Nat, slot : {"none", "valid", "invalid"}]
    /\ \A b \in Bodies :
          /\ b.kind # "Incoming" => b.end = "eof" /\ b.slot = "none"
          /\ b.kind = "Fixed" => b.declared = Total(b)
          /\ b.kind = "Empty" => b.chunks = <<>> /\ b.declared = NoLength

\* empty() shares a complete lifecycle; from_bytes_with_shared completes an
\* empty buffer at once; with_shared* leave the lifecycle active.
InitiallyComplete(b) ==
    b.kind = "Empty" \/ (b.kind = "Fixed" /\ Len(b.chunks) = 0)

BodyInit ==
    /\ body \in Bodies
    /\ pos = 0
    /\ state = "Unread"
    /\ inner = TRUE
    /\ received = 0
    /\ shared = IF InitiallyComplete(body) THEN "Complete" ELSE "Active"
    /\ trailers = "none"
    /\ call = "none"
    /\ buffered = 0

--------------------------------------------------------------------------------
\* The shared lifecycle changes only from Active (compare_exchange).
Mark(s) == shared' = IF shared = "Active" THEN s ELSE shared

Short == body.declared # NoLength /\ received < body.declared

Oversized(n) ==
    \/ received + n > body.max
    \/ body.declared # NoLength /\ received + n > body.declared

\* What the next item of the stream does to the body: "more" is a chunk handed
\* out, "complete" and "failed" are terminal.  In-memory data completes with
\* its last chunk, a network stream with the None that follows it.
Verdict ==
    IF pos < Len(body.chunks)
    THEN IF Oversized(body.chunks[pos + 1]) THEN "failed"
         ELSE IF body.kind = "Fixed" /\ pos + 1 = Len(body.chunks)
              THEN "complete" ELSE "more"
    ELSE IF body.end = "error" \/ Short \/ body.slot = "invalid"
         THEN "failed" ELSE "complete"

\* The stream has ended: byte checks pass, so the trailer slot is drained.
Drained == pos = Len(body.chunks) /\ body.end = "eof" /\ ~Short

\* Mutant: the lifecycle completes with the last declared byte, before the end
\* of the stream and its trailers are seen.
SettleEager(more) ==
    CASE Verdict = "more"     -> /\ state' = more
                                 /\ IF received' = body.declared
                                    THEN Mark("Complete") ELSE UNCHANGED shared
      [] Verdict = "complete" -> state' = "Complete" /\ Mark("Complete")
      [] Verdict = "failed"   -> state' = "Error" /\ Mark("Failed")

\* The reader's and the runtime's view of the body after one item; `more` is
\* the reader state a delivered chunk leaves.
Settle(more) ==
    CASE Verdict = "more"     -> state' = more /\ UNCHANGED shared
      [] Verdict = "complete" -> state' = "Complete" /\ Mark("Complete")
      [] Verdict = "failed"   -> state' = "Error" /\ Mark("Failed")

Receive(more) ==
    /\ IF pos < Len(body.chunks) /\ Verdict # "failed"
       THEN /\ received' = received + body.chunks[pos + 1]
            /\ pos' = pos + 1
       ELSE UNCHANGED <<received, pos>>
    /\ trailers' = IF Drained THEN body.slot ELSE trailers
    /\ Settle(more)

\* Drop for RequestBody: only a network body that is still in place counts.
DropEffect ==
    IF inner /\ body.kind = "Incoming" THEN Mark("Abandoned") ELSE UNCHANGED shared

--------------------------------------------------------------------------------
Reading == call = "none" /\ state \in {"Unread", "Streaming"}

\* next_chunk is polled and waits: the body is Streaming from its first poll.
BeginChunk ==
    /\ call = "none" /\ state = "Unread"
    /\ state' = "Streaming"
    /\ UNCHANGED <<body, pos, inner, received, shared, trailers, call, buffered>>

\* next_chunk or poll_next yields an item.
NextChunk ==
    /\ Reading
    /\ Receive("Streaming")
    /\ UNCHANGED <<body, inner, call, buffered>>

\* read_all or read_all_with_trailers on a body already read: an error, and
\* the body, which the call consumes, is dropped.
ReadAllRefused ==
    /\ call = "none" /\ state # "Unread"
    /\ DropEffect
    /\ call' = "dropped"
    /\ UNCHANGED <<body, pos, state, inner, received, trailers, buffered>>

\* read_all takes `inner` out of the body before it waits for the stream.
\* In-memory data is checked and returned as a whole, without waiting.
ReadAll ==
    /\ call = "none" /\ state = "Unread"
    /\ inner' = FALSE
    /\ IF body.kind = "Incoming"
       THEN call' = "read_all" /\ UNCHANGED <<state, shared, received, pos, buffered>>
       ELSE /\ call' = "dropped"
            /\ IF Total(body) > body.max
               THEN state' = "Error" /\ Mark("Failed") /\ UNCHANGED <<received, pos, buffered>>
               ELSE /\ state' = "Complete" /\ Mark("Complete")
                    /\ received' = Total(body)
                    /\ pos' = Len(body.chunks)
                    /\ buffered' = Total(body)
    /\ UNCHANGED <<body, trailers>>

\* read_all_with_trailers puts `inner` back and loops over next_chunk.
ReadAllWithTrailers ==
    /\ call = "none" /\ state = "Unread"
    /\ call' = "read_all_with_trailers"
    /\ state' = "Streaming"
    /\ UNCHANGED <<body, pos, inner, received, shared, trailers, buffered>>

\* One item inside a consuming call; a terminal item returns and drops the body.
CollectItem ==
    /\ call \in {"read_all", "read_all_with_trailers"}
    /\ Receive(state)
    /\ buffered' = buffered + (received' - received)
    /\ call' = IF Verdict = "more" THEN call ELSE "dropped"
    /\ UNCHANGED <<body, inner>>

\* The future of a consuming call is dropped while it waits.
CancelCollect ==
    /\ call \in {"read_all", "read_all_with_trailers"}
    /\ DropEffect
    /\ call' = "dropped"
    /\ UNCHANGED <<body, pos, state, inner, received, trailers, buffered>>

DropBody ==
    /\ call = "none"
    /\ DropEffect
    /\ call' = "dropped"
    /\ UNCHANGED <<body, pos, state, inner, received, trailers, buffered>>

\* The runtime's handler timeout or body watchdog fails an active body.
RuntimeFails ==
    /\ shared = "Active"
    /\ shared' = "Failed"
    /\ UNCHANGED <<body, pos, state, inner, received, trailers, call, buffered>>

BodyNext ==
    \/ BeginChunk
    \/ NextChunk
    \/ ReadAllRefused
    \/ ReadAll
    \/ ReadAllWithTrailers
    \/ CollectItem
    \/ CancelCollect
    \/ DropBody
    \/ RuntimeFails

BodySpec == BodyInit /\ [][BodyNext]_bodyVars

--------------------------------------------------------------------------------
BodyTypeOK ==
    /\ body \in Bodies
    /\ state \in {"Unread", "Streaming", "Complete", "Error"}
    /\ inner \in BOOLEAN
    /\ shared \in {"Active", "Complete", "Abandoned", "Failed"}
    /\ trailers \in {"none", "valid", "invalid"}
    /\ call \in {"none", "read_all", "read_all_with_trailers", "dropped"}

\* What a correct body is, without reference to how it is read.
WellFormed(b) ==
    /\ b.end = "eof"
    /\ b.slot # "invalid"
    /\ Total(b) <= b.max
    /\ b.declared # NoLength => Total(b) = b.declared

\* Every way of reading a body (next_chunk, poll_next, read_all,
\* read_all_with_trailers) reaches the same verdict: Complete exactly on
\* well-formed bodies, Error exactly on the others.
VerdictFitsBody ==
    /\ state = "Complete" => WellFormed(body)
    /\ state = "Error" => ~WellFormed(body)

\* "EOF marks Complete only after declared-length/framing validation succeeds":
\* when the runtime sees a Complete lifecycle, and so keeps the connection, the
\* whole well-formed body has been taken from the stream.
CompleteMeansWhole ==
    shared = "Complete" =>
        /\ WellFormed(body)
        /\ pos = Len(body.chunks)
        /\ received = Total(body)

\* A body whose reader has finished is terminal for the runtime too, and a body
\* that failed in the reader is never Complete for the runtime.
LifecycleFollowsReader ==
    /\ state = "Complete" => shared \in {"Complete", "Failed"}
    /\ state = "Error" => shared = "Failed"

\* What read_all and read_all_with_trailers return is the whole body: they
\* refuse a body some of whose bytes were already handed out.
CollectedIsWhole ==
    call \in {"read_all", "read_all_with_trailers", "dropped"} /\ buffered > 0 =>
        buffered = received

\* Dropping an incomplete network body that still holds its stream tells the
\* runtime, whichever call was abandoned with it.
DropIsSeen ==
    call = "dropped" /\ inner /\ body.kind = "Incoming" => shared # "Active"

-------------------------------------------------------------------------------
(* Stronger statements, which the code does not keep: each has a            *)
(* counterexample.                                                         *)

\* "dropping an incomplete network body marks Abandoned unless ownership was
\* transferred": after the drop, the runtime is not left with an active body.
DroppedBodyIsTerminal ==
    call = "dropped" /\ body.kind = "Incoming" => shared # "Active"

\* What a reader is told of its body is true: the verdict fits the bytes and the
\* limits, complete means whole, collected means whole, the lifecycle follows the
\* reader, and a dropped body is seen (request_body.rs).
BodyVerdictIsTrue ==
    VerdictFitsBody /\ CompleteMeansWhole /\ CollectedIsWhole /\ LifecycleFollowsReader /\ DropIsSeen
==============================================================================
