---------------------------- MODULE PythonStreams ----------------------------
(***************************************************************************)
(* Streamed responses of Python handlers: the producer thread of           *)
(* body_bridge.rs, and the asyncio bridge of AsyncServer (lowlevel.py) in  *)
(* front of it.                                                            *)
(*                                                                         *)
(* A chunk travels from the application's iterable through the asyncio     *)
(* queue to the sync iterator, which the producer thread advances, and     *)
(* through the bounded channel to the transport.  A synchronous server has *)
(* only the second half.  Chunks are numbered from 1; End is the None of   *)
(* the queue, Failure the error item of the queue and of the channel.      *)
(***************************************************************************)
EXTENDS Integers, Sequences, FiniteSets

CONSTANTS
    StreamRequests,
    MaxAsyncTasks,     \* max_async_tasks
    BridgeBound,       \* _ASYNC_BRIDGE_BOUND
    ChannelBound,      \* PYTHON_STREAM_CHANNEL_BOUND
    Chunks             \* chunks in every iterable

ASSUME StreamBoundsAssumption ==
    /\ MaxAsyncTasks \in Nat \ {0} /\ BridgeBound \in Nat \ {0} /\ ChannelBound \in Nat \ {0} /\ Chunks \in Nat

VARIABLES
    async,       \* AsyncServer, or a synchronous handler
    suppressed,  \* the requests whose body is not sent (HEAD, 204, 304)
    dispatch,    \* request -> absent, handling, detached, streaming, answered
    sem,         \* free permits of AsyncServer._sem
    holding,     \* the requests that hold one
    producer,    \* request -> none, waiting, iterating, putting, finishing, done
    cancelling,  \* the requests whose producer task was cancelled
    iterable,    \* request -> [next: chunks taken, state: more, finished or failed]
    bridge,      \* request -> the asyncio queue
    pulled,      \* the requests whose first pull was signalled
    iterator,    \* request -> none, open or closed
    thread,      \* request -> none, next, getting, sending, failing, ended
    hand,        \* request -> the chunk the thread is sending
    conduit,     \* request -> the channel to the transport
    wire,        \* request -> none, open, complete, truncated, gone
    got,         \* request -> chunks written by the transport
    stopping     \* AsyncServer.shutdown() was called

streamVars == <<async, suppressed, dispatch, sem, holding, producer, cancelling, iterable, bridge, pulled,
                iterator, thread, hand, conduit, wire, got, stopping>>
loopVars == <<dispatch, sem, holding, producer, cancelling, iterable, bridge>>
threadVars == <<pulled, iterator, thread, hand, conduit>>

End == 0
Failure == -1

StreamInit ==
    /\ async \in BOOLEAN /\ suppressed \in SUBSET StreamRequests
    /\ dispatch = [r \in StreamRequests |-> "absent"] /\ sem = MaxAsyncTasks /\ holding = {}
    /\ producer = [r \in StreamRequests |-> "none"] /\ cancelling = {}
    /\ iterable = [r \in StreamRequests |-> [next |-> 0, state |-> "more"]]
    /\ bridge = [r \in StreamRequests |-> <<>>] /\ pulled = {} /\ iterator = [r \in StreamRequests |-> "none"]
    /\ thread = [r \in StreamRequests |-> "none"] /\ hand = [r \in StreamRequests |-> 0]
    /\ conduit = [r \in StreamRequests |-> <<>>] /\ wire = [r \in StreamRequests |-> "none"]
    /\ got = [r \in StreamRequests |-> <<>>] /\ stopping = FALSE

(***************************************************************************)
(* The handler                                                             *)
(***************************************************************************)

(* _dispatch_one: a permit is there or the answer is 503.                  *)
Dispatch(r) ==
    /\ dispatch[r] = "absent"
    /\ IF async /\ sem = 0
       THEN dispatch' = [dispatch EXCEPT ![r] = "answered"] /\ UNCHANGED <<sem, holding>>
       ELSE /\ dispatch' = [dispatch EXCEPT ![r] = "handling"]
            /\ IF async THEN sem' = sem - 1 /\ holding' = holding \cup {r} ELSE UNCHANGED <<sem, holding>>
    /\ UNCHANGED <<async, suppressed, producer, cancelling, iterable, bridge, threadVars, wire, got, stopping>>

Release(r) == IF r \in holding THEN sem' = sem + 1 /\ holding' = holding \ {r} ELSE UNCHANGED <<sem, holding>>

(* The shim stops waiting; the task goes on until it sees the cancellation. *)
ShimTimesOut(r) ==
    /\ async /\ dispatch[r] = "handling"
    /\ dispatch' = [dispatch EXCEPT ![r] = "detached"]
    /\ UNCHANGED <<async, suppressed, sem, holding, producer, cancelling, iterable, bridge, threadVars, wire, got, stopping>>

(* A buffered response, or an exception.                                   *)
HandlerAnswers(r) ==
    /\ dispatch[r] \in {"handling", "detached"}
    /\ dispatch' = [dispatch EXCEPT ![r] = "answered"]
    /\ Release(r)
    /\ UNCHANGED <<async, suppressed, producer, cancelling, iterable, bridge, threadVars, wire, got, stopping>>

(* A stream: the permit goes to the producer task.  The iterator is given  *)
(* to a thread only for a body that will be sent; otherwise it is dropped, *)
(* and its drop cancels the producer.                                      *)
HandlerStreams(r) ==
    LET sent == r \notin suppressed /\ dispatch[r] = "handling" IN
    /\ dispatch[r] \in {"handling", "detached"}
    /\ dispatch' = [dispatch EXCEPT ![r] = "streaming"]
    /\ producer' = IF async THEN [producer EXCEPT ![r] = "waiting"] ELSE producer
    /\ iterator' = [iterator EXCEPT ![r] = IF sent THEN "open" ELSE "closed"]
    /\ cancelling' = IF sent \/ ~ async THEN cancelling ELSE cancelling \cup {r}
    /\ thread' = IF sent THEN [thread EXCEPT ![r] = "next"] ELSE thread
    /\ wire' = IF sent THEN [wire EXCEPT ![r] = "open"] ELSE wire
    /\ UNCHANGED <<async, suppressed, sem, holding, iterable, bridge, pulled, hand, conduit, got, stopping>>

(***************************************************************************)
(* The producer task on the event loop                                     *)
(***************************************************************************)

Took(r, n, s) == [iterable EXCEPT ![r] = [next |-> n, state |-> s]]

(* What put_nowait finds room for.                                         *)
PutNowait(q, items) == SubSeq(q \o items, 1, IF Len(q) + Len(items) < BridgeBound THEN Len(q) + Len(items)
                                             ELSE IF Len(q) > BridgeBound THEN Len(q) ELSE BridgeBound)

(* Mutant: the permit is released by whoever cancels as well.              *)
(* The task ends; its done callback releases the permit.                   *)
ProducerDone(r, items) ==
    /\ producer' = [producer EXCEPT ![r] = "done"]
    /\ bridge' = [bridge EXCEPT ![r] = PutNowait(@, items)]
    /\ Release(r)

(* The first pull, or no pull within response_write_timeout.               *)
AwaitFirstPull(r) ==
    /\ producer[r] = "waiting"
    /\ \/ r \in pulled /\ producer' = [producer EXCEPT ![r] = "iterating"] /\ UNCHANGED <<bridge, sem, holding>>
       \/ r \notin pulled /\ ProducerDone(r, <<>>)
    /\ UNCHANGED <<async, suppressed, dispatch, cancelling, iterable, threadVars, wire, got, stopping>>

(* The iterable yields, ends or fails; a failure is queued if there is     *)
(* room for it.                                                            *)
Iterate(r) ==
    /\ producer[r] = "iterating"
    /\ \/ /\ iterable[r].next < Chunks
          /\ iterable' = Took(r, iterable[r].next + 1, "more")
          /\ producer' = [producer EXCEPT ![r] = "putting"]
          /\ UNCHANGED <<bridge, sem, holding>>
       \/ /\ iterable[r].next = Chunks
          /\ iterable' = Took(r, Chunks, "finished")
          /\ producer' = [producer EXCEPT ![r] = "finishing"]
          /\ UNCHANGED <<bridge, sem, holding>>
       \/ /\ iterable' = Took(r, iterable[r].next, "failed")
          /\ ProducerDone(r, <<Failure, End>>)
    /\ UNCHANGED <<async, suppressed, dispatch, cancelling, threadVars, wire, got, stopping>>

(* _put_chunk has a timeout, the put of the final None has none.           *)
Put(r) ==
    /\ \/ /\ producer[r] = "putting" /\ Len(bridge[r]) < BridgeBound
          /\ bridge' = [bridge EXCEPT ![r] = Append(@, iterable[r].next)]
          /\ producer' = [producer EXCEPT ![r] = "iterating"] /\ UNCHANGED <<sem, holding>>
       \/ producer[r] = "putting" /\ Len(bridge[r]) = BridgeBound /\ ProducerDone(r, <<Failure, End>>)
       \/ producer[r] = "finishing" /\ Len(bridge[r]) < BridgeBound /\ ProducerDone(r, <<End>>)
    /\ UNCHANGED <<async, suppressed, dispatch, cancelling, iterable, threadVars, wire, got, stopping>>

(* A task cancelled before it ran puts nothing.                            *)
ProducerCancelled(r) ==
    /\ r \in cancelling /\ producer[r] \notin {"none", "done"}
    /\ \/ ProducerDone(r, <<End>>)
       \/ producer[r] = "waiting" /\ ProducerDone(r, <<>>)
    /\ UNCHANGED <<async, suppressed, dispatch, cancelling, iterable, threadVars, wire, got, stopping>>

(* shutdown() cancels the tasks it tracks: the producers, not the handlers. *)
StreamShutdown ==
    /\ async /\ ~ stopping
    /\ stopping' = TRUE
    /\ cancelling' = cancelling \cup {r \in StreamRequests : producer[r] \notin {"none", "done"}}
    /\ UNCHANGED <<async, suppressed, dispatch, sem, holding, producer, iterable, bridge, threadVars, wire, got>>

(***************************************************************************)
(* The producer thread                                                     *)
(***************************************************************************)

(* close(): the producer is cancelled unless it is done.                   *)
CloseIterator(r) ==
    /\ iterator' = [iterator EXCEPT ![r] = "closed"]
    /\ cancelling' = IF producer[r] \in {"none", "done"} THEN cancelling ELSE cancelling \cup {r}

(* The thread drops its sender and its iterator.                           *)
ThreadEnds(r) == thread' = [thread EXCEPT ![r] = "ended"] /\ CloseIterator(r)

(* __next__ of a synchronous iterable.                                     *)
NextSync(r) ==
    /\ ~ async /\ thread[r] = "next"
    /\ \/ /\ iterable[r].next < Chunks
          /\ iterable' = Took(r, iterable[r].next + 1, "more")
          /\ hand' = [hand EXCEPT ![r] = iterable[r].next + 1]
          /\ thread' = [thread EXCEPT ![r] = "sending"] /\ UNCHANGED <<iterator, cancelling>>
       \/ iterable[r].next = Chunks /\ iterable' = Took(r, Chunks, "finished") /\ ThreadEnds(r) /\ UNCHANGED hand
       \/ /\ iterable' = Took(r, iterable[r].next, "failed")
          /\ thread' = [thread EXCEPT ![r] = "failing"] /\ UNCHANGED <<hand, iterator, cancelling>>
    /\ UNCHANGED <<async, suppressed, dispatch, sem, holding, producer, bridge, pulled, conduit, wire, got, stopping>>

(* __next__ of the bridge: the first one releases the producer.            *)
NextAsync(r) ==
    /\ async /\ thread[r] = "next"
    /\ pulled' = pulled \cup {r}
    /\ thread' = [thread EXCEPT ![r] = "getting"]
    /\ UNCHANGED <<async, suppressed, loopVars, iterator, hand, conduit, wire, got, stopping>>

(* Mutant: a producer that stalls ends the stream.                         *)
(* An item of the queue, or none within the timeout.                       *)
GetItem(r) ==
    LET item == IF bridge[r] = <<>> THEN Failure ELSE Head(bridge[r]) IN
    /\ thread[r] = "getting"
    /\ bridge' = [bridge EXCEPT ![r] = IF @ = <<>> THEN @ ELSE Tail(@)]
    /\ hand' = [hand EXCEPT ![r] = item]
    /\ IF item = End THEN ThreadEnds(r)
       ELSE IF item = Failure THEN thread' = [thread EXCEPT ![r] = "failing"] /\ CloseIterator(r)
       ELSE thread' = [thread EXCEPT ![r] = "sending"] /\ UNCHANGED <<iterator, cancelling>>
    /\ UNCHANGED <<async, suppressed, dispatch, sem, holding, producer, iterable, pulled, conduit, wire, got, stopping>>

(* blocking_send: room in the channel, or a receiver that is gone.         *)
Send(r) ==
    /\ thread[r] \in {"sending", "failing"}
    /\ IF wire[r] # "open" THEN ThreadEnds(r) /\ UNCHANGED conduit
       ELSE /\ Len(conduit[r]) < ChannelBound
            /\ conduit' = [conduit EXCEPT ![r] = Append(@, IF thread[r] = "sending" THEN hand[r] ELSE Failure)]
            /\ IF thread[r] = "failing" THEN ThreadEnds(r)
               ELSE thread' = [thread EXCEPT ![r] = "next"] /\ UNCHANGED <<iterator, cancelling>>
    /\ UNCHANGED <<async, suppressed, dispatch, sem, holding, producer, iterable, bridge, pulled, hand, wire, got, stopping>>

(***************************************************************************)
(* The transport                                                           *)
(***************************************************************************)

(* An item, or the end of a channel whose sender is gone.                  *)
PollStream(r) ==
    /\ wire[r] = "open"
    /\ \/ /\ conduit[r] # <<>>
          /\ conduit' = [conduit EXCEPT ![r] = Tail(@)]
          /\ IF Head(conduit[r]) = Failure THEN wire' = [wire EXCEPT ![r] = "truncated"] /\ UNCHANGED got
             ELSE got' = [got EXCEPT ![r] = Append(@, Head(conduit[r]))] /\ UNCHANGED wire
       \/ conduit[r] = <<>> /\ thread[r] = "ended" /\ wire' = [wire EXCEPT ![r] = "complete"] /\ UNCHANGED <<conduit, got>>
    /\ UNCHANGED <<async, suppressed, loopVars, pulled, iterator, thread, hand, stopping>>

(* A disconnect, a write timeout or the end of the connection.             *)
DropStream(r) ==
    /\ wire[r] = "open"
    /\ wire' = [wire EXCEPT ![r] = "gone"] /\ conduit' = [conduit EXCEPT ![r] = <<>>]
    /\ UNCHANGED <<async, suppressed, loopVars, pulled, iterator, thread, hand, got, stopping>>

StreamStep(r) ==
    \/ HandlerAnswers(r) \/ HandlerStreams(r) \/ AwaitFirstPull(r) \/ Iterate(r) \/ Put(r) \/ ProducerCancelled(r)
    \/ NextSync(r) \/ NextAsync(r) \/ GetItem(r) \/ Send(r) \/ PollStream(r)

StreamNext ==
    \/ \E r \in StreamRequests : Dispatch(r) \/ ShimTimesOut(r) \/ StreamStep(r) \/ DropStream(r)
    \/ StreamShutdown

(* Handlers and iterables return, the loop and the threads run, and the    *)
(* transport writes or gives up (response_write_timeout).                  *)
StreamFairness ==
    \A r \in StreamRequests :
        /\ WF_streamVars(HandlerAnswers(r) \/ HandlerStreams(r))
        /\ WF_streamVars(AwaitFirstPull(r) \/ Iterate(r) \/ Put(r) \/ ProducerCancelled(r))
        /\ WF_streamVars(NextSync(r) \/ NextAsync(r) \/ GetItem(r) \/ Send(r))
        /\ WF_streamVars(PollStream(r) \/ DropStream(r))

StreamSpec == StreamInit /\ [][StreamNext]_streamVars /\ StreamFairness

(***************************************************************************)
(* Properties                                                              *)
(***************************************************************************)

(* A permit of AsyncServer is returned exactly once, whichever of the      *)
(* handler, the producer, a cancellation or a shutdown ends the task.      *)
AsyncPermitsExact == sem + Cardinality(holding) = MaxAsyncTasks

(* The iterable of a body that is not sent is never advanced.              *)
SuppressedIsUntouched == \A r \in suppressed : iterable[r].next = 0 /\ iterable[r].state = "more"

(* Backpressure: the application is ahead of the client by no more than    *)
(* the two buffers and the chunk in the hands of each side.                *)
ReadAheadIsBounded ==
    \A r \in StreamRequests :
        wire[r] = "open" => iterable[r].next - Len(got[r]) <= ChannelBound + 1 + IF async THEN BridgeBound + 1 ELSE 0

(* What the client got is a prefix of what the iterable yields, and a body *)
(* that ends as a whole one is a whole one: every failure, stall or lost   *)
(* item on the way truncates it.  A shutdown that cancels the producer is  *)
(* the exception.                                                          *)
WholeMeansWhole ==
    \A r \in StreamRequests :
        /\ got[r] = [i \in 1..Len(got[r]) |-> i]
        /\ wire[r] = "complete" /\ ~ stopping => Len(got[r]) = Chunks /\ iterable[r].state = "finished"

(* Python streams are sound (lowlevel.py, AsyncServer; body_bridge.rs,     *)
(* spawn_python_stream_producer): the four above.                          *)
PythonStreamsSound == AsyncPermitsExact /\ SuppressedIsUntouched /\ ReadAheadIsBounded /\ WholeMeansWhole

(* Every permit comes back and every producer thread ends, without the     *)
(* client's help.                                                          *)
StreamsWindUp ==
    \A r \in StreamRequests : (r \in holding ~> r \notin holding) /\ (thread[r] = "next" ~> thread[r] = "ended")

(* What the comments of the producer say of a shutdown (lowlevel.py:       *)
(* "unblock consumer with EOF (truncation handled by Rust as               *)
(* suppressed/close)"): a body cut short does not end as a whole one.      *)
CutIsVisible ==
    \A r \in StreamRequests : wire[r] = "complete" => iterable[r].state = "finished"
=============================================================================
