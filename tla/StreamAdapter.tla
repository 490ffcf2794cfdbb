---------------------------- MODULE StreamAdapter ----------------------------
(***************************************************************************)
(* ResponseStreamAdapter of eggserve-server: an application byte stream,   *)
(* polled on demand by the HTTP/1 connection and turned into body frames,  *)
(* with an optional declared length and an optional terminal trailer block.*)
(*                                                                         *)
(* Bytes are counted.  The producer decides at every poll what it yields;  *)
(* the connection polls again, or drops the body, whenever it likes.       *)
(***************************************************************************)
EXTENDS Integers, Sequences, FiniteSets

CONSTANTS ChunkBytes,      \* stream_chunk_size
          ChunkSizes,      \* sizes of the chunks a producer yields
          DeclaredLengths, \* known lengths a service may declare
          TrailerNames,    \* the trailer fields of the model
          EmptyRunLimit,   \* empty chunks skipped in one poll (32)
          MaxProduced      \* bound: bytes one producer yields

ASSUME StreamAssumption ==
    /\ ChunkBytes \in Nat \ {0}
    /\ ChunkSizes \subseteq Nat /\ DeclaredLengths \subseteq Nat
    /\ EmptyRunLimit \in Nat

VARIABLES producer,        \* bytes yielded so far, and how it ended
          adapter,         \* the fields of ResponseStreamAdapter
          frames,          \* what the connection received
          streamCounters   \* the streaming_* and stream_* counters

streamVars == <<producer, adapter, frames, streamCounters>>

StreamCounters == {"streaming_started", "streaming_completed", "stream_length_mismatches",
                   "stream_producer_errors", "stream_producer_panics", "stream_cancelled"}

\* Lengths and declarations are optional: <<>> or <<value>>.
IsKnown(opt) == opt # <<>>

\* stream_body: counts the start and builds the adapter from into_parts_with_declaration.
adapter_new(length, hasTrailers, declaration) ==
    [inner |-> TRUE, trailers |-> hasTrailers, declared |-> length,
     trailer_declaration |-> declaration, emitted |-> 0, pending_split |-> 0,
     finished |-> FALSE, alive |-> TRUE]

StreamInit ==
    /\ producer = [yielded |-> 0, empties |-> 0, last |-> "none"]
    /\ \E length \in {<<>>} \cup {<<n>> : n \in DeclaredLengths},
          declaration \in {<<>>} \cup {<<names>> : names \in SUBSET TrailerNames \ {{}}},
          hasTrailers \in BOOLEAN :
          /\ IsKnown(declaration) => hasTrailers
          /\ adapter = adapter_new(length, hasTrailers, declaration)
    /\ frames = [bytes |-> 0, largest |-> 0, trailers |-> <<>>, afterTrailers |-> 0, error |-> FALSE]
    /\ streamCounters = [c \in StreamCounters |-> IF c = "streaming_started" THEN 1 ELSE 0]

StreamCount(c) == streamCounters' = [streamCounters EXCEPT ![c] = @ + 1]

StreamDeliver(n) ==
    frames' = [frames EXCEPT !.bytes = @ + n,
                             !.largest = IF n > @ THEN n ELSE @,
                             !.afterTrailers = IF IsKnown(frames.trailers) THEN @ + n ELSE @]

\* fail_length_mismatch, fail_producer and fail_panic: one counter each, and an error
\* frame, after which the connection closes and the body is dropped.
StreamFail(c, pending) ==
    /\ adapter' = [adapter EXCEPT !.finished = TRUE, !.pending_split = pending]
    /\ frames' = [frames EXCEPT !.error = TRUE]
    /\ StreamCount(c)

StreamOverruns(n) == IsKnown(adapter.declared) /\ adapter.emitted + n > adapter.declared[1]

\* The connection polls a body that is not at its end; it never polls after an error.
StreamPolled == adapter.alive /\ ~ frames.error /\ ~ adapter.finished

(***************************************************************************)
(* poll_next                                                               *)
(***************************************************************************)
next_split_piece == IF adapter.pending_split <= ChunkBytes THEN adapter.pending_split ELSE ChunkBytes

\* The remainder of a chunk that was split goes out before the producer is polled again.
PollSplit ==
    /\ StreamPolled /\ adapter.pending_split > 0
    /\ LET piece == next_split_piece
           rest  == adapter.pending_split - piece
       IN IF StreamOverruns(piece)
          THEN StreamFail("stream_length_mismatches", rest)
          ELSE /\ adapter' = [adapter EXCEPT !.emitted = @ + piece, !.pending_split = rest]
               /\ StreamDeliver(piece)
               /\ UNCHANGED streamCounters
    /\ UNCHANGED producer

PollsProducer == StreamPolled /\ adapter.pending_split = 0 /\ adapter.inner

PollChunkUnchecked(n) ==
    /\ PollsProducer /\ n > 0 /\ producer.yielded + n <= MaxProduced
    /\ producer' = [producer EXCEPT !.yielded = @ + n, !.empties = 0, !.last = "chunk"]
    /\ LET piece == IF n > ChunkBytes THEN ChunkBytes ELSE n
       IN /\ adapter' = [adapter EXCEPT !.emitted = @ + piece, !.pending_split = n - piece]
          /\ StreamDeliver(piece)
          /\ UNCHANGED streamCounters

\* A chunk, after at most EmptyRunLimit empty ones, is cut to the chunk size.
PollChunk(n) ==
    /\ PollsProducer /\ n > 0 /\ producer.yielded + n <= MaxProduced
    /\ producer' = [producer EXCEPT !.yielded = @ + n, !.empties = 0, !.last = "chunk"]
    /\ LET piece == IF n > ChunkBytes THEN ChunkBytes ELSE n
       IN IF StreamOverruns(piece)
          THEN StreamFail("stream_length_mismatches", 0)
          ELSE /\ adapter' = [adapter EXCEPT !.emitted = @ + piece, !.pending_split = n - piece]
               /\ StreamDeliver(piece)
               /\ UNCHANGED streamCounters

\* One empty chunk too many in one poll: wake the task and answer Pending.
PollEmpties ==
    /\ PollsProducer /\ producer.empties <= EmptyRunLimit
    /\ producer' = [producer EXCEPT !.empties = IF @ = EmptyRunLimit THEN 0 ELSE @ + 1]
    /\ UNCHANGED <<adapter, frames, streamCounters>>

PollError(c) ==
    /\ PollsProducer
    /\ producer' = [producer EXCEPT !.last = "error"]
    /\ StreamFail(c, adapter.pending_split)

complete_ok(a) ==
    /\ adapter' = [a EXCEPT !.finished = TRUE, !.trailers = FALSE]
    /\ StreamCount("streaming_completed")
    /\ UNCHANGED frames

\* The trailer future resolves to no block, to a block, or fails; a block outside
\* the declared names is a producer error.
TrailerPhase(a, names) ==
    IF ~ a.trailers \/ names = {}
    THEN complete_ok(a)
    ELSE IF IsKnown(a.trailer_declaration) /\ ~ (names \subseteq a.trailer_declaration[1])
         THEN /\ adapter' = [a EXCEPT !.finished = TRUE]
              /\ frames' = [frames EXCEPT !.error = TRUE]
              /\ StreamCount("stream_producer_errors")
         ELSE /\ adapter' = [a EXCEPT !.trailers = FALSE]
              /\ frames' = [frames EXCEPT !.trailers = <<names>>]
              /\ UNCHANGED streamCounters

\* The end of the producer: the length must be the declared one, then the trailer
\* phase follows in the same poll.  Trailers may also be pending.
PollEnd(names) ==
    /\ PollsProducer
    /\ producer' = [producer EXCEPT !.last = "end"]
    /\ IF IsKnown(adapter.declared) /\ adapter.emitted # adapter.declared[1]
       THEN StreamFail("stream_length_mismatches", adapter.pending_split)
       ELSE TrailerPhase([adapter EXCEPT !.inner = FALSE], names)

PollEndPending ==
    /\ PollsProducer /\ adapter.trailers
    /\ IsKnown(adapter.declared) => adapter.emitted = adapter.declared[1]
    /\ producer' = [producer EXCEPT !.last = "end"]
    /\ adapter' = [adapter EXCEPT !.inner = FALSE]
    /\ UNCHANGED <<frames, streamCounters>>

PollTrailers(names) ==
    /\ StreamPolled /\ adapter.pending_split = 0 /\ ~ adapter.inner
    /\ TrailerPhase(adapter, names)
    /\ UNCHANGED producer

PollTrailersFail(c) ==
    /\ StreamPolled /\ adapter.pending_split = 0 /\ ~ adapter.inner /\ adapter.trailers
    /\ StreamFail(c, 0)
    /\ UNCHANGED producer

\* Drop: the body ended, failed, or the connection lost interest in it.
DropAdapter ==
    /\ adapter.alive
    /\ adapter' = [adapter EXCEPT !.alive = FALSE]
    /\ IF adapter.finished THEN UNCHANGED streamCounters ELSE StreamCount("stream_cancelled")
    /\ UNCHANGED <<producer, frames>>

StreamNext ==
    \/ PollSplit
    \/ \E n \in ChunkSizes : PollChunk(n)
    \/ PollEmpties
    \/ \E c \in {"stream_producer_errors", "stream_producer_panics"} : PollError(c) \/ PollTrailersFail(c)
    \/ \E names \in SUBSET TrailerNames : PollEnd(names) \/ PollTrailers(names)
    \/ PollEndPending
    \/ DropAdapter

StreamSpec == StreamInit /\ [][StreamNext]_streamVars

(***************************************************************************)
(* Properties                                                              *)
(***************************************************************************)
StreamOutcomes == StreamCounters \ {"streaming_started"}
OutcomesCounted == {c \in StreamOutcomes : streamCounters[c] > 0}

\* Every stream that was counted as started is counted under exactly one outcome,
\* once, whatever the order of polls, failures and the drop (adapters.rs, the
\* fail_* helpers, complete_ok and Drop).
StreamCountedOnce ==
    /\ \A c \in StreamOutcomes : streamCounters[c] <= 1
    /\ \A c, d \in OutcomesCounted : c = d
    /\ ~ adapter.alive => OutcomesCounted # {}

\* Every byte the producer yielded is delivered once, in order: what was delivered
\* and what waits in pending_split is what was yielded, until the stream fails.
NoByteLost == ~ frames.error => frames.bytes + adapter.pending_split = producer.yielded

\* The connection never sees more bytes than the declared length, and a stream
\* counted as completed delivered exactly that many: HTTP/1 framing stays intact.
DeclaredLengthKept ==
    IsKnown(adapter.declared) =>
        /\ frames.bytes <= adapter.declared[1]
        /\ (streamCounters["streaming_completed"] = 1 \/ IsKnown(frames.trailers))
              => frames.bytes = adapter.declared[1]

\* At most one trailer block, only of declared names, and no data after it.
TrailersLast ==
    /\ frames.afterTrailers = 0
    /\ IsKnown(frames.trailers) /\ IsKnown(adapter.trailer_declaration)
          => frames.trailers[1] \subseteq adapter.trailer_declaration[1]

\* A frame never exceeds the chunk size, however large the producer's chunks are.
FramesBounded == frames.largest <= ChunkBytes

(***************************************************************************)
(* Stronger statements, which the code does not keep                       *)
(***************************************************************************)
\* A stream whose trailers went out is counted as completed: completion is counted
\* by the poll after the trailer frame, which a connection that has what it needs
\* never makes; the drop then counts the stream as cancelled.
TrailedStreamsComplete ==
    IsKnown(frames.trailers) /\ ~ adapter.alive => streamCounters["streaming_completed"] = 1

\* A response stream keeps its promises under every order of chunks, failures,
\* polls and drops: each byte once, the declared length or a failure, trailers
\* last and only the declared ones, frames of bounded size, and exactly one
\* outcome counted (adapters.rs).
StreamKeepsPromises ==
    NoByteLost /\ DeclaredLengthKept /\ TrailersLast /\ FramesBounded /\ StreamCountedOnce
=============================================================================
