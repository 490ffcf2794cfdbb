---------------------------- MODULE PythonHandler ----------------------------
(***************************************************************************)
(* Requests answered by Python code: the callback service and its          *)
(* conversion of what a handler returns (sync_handler.rs,                  *)
(* response_bridge.rs), and the http.server-shaped handler over it         *)
(* (server.py, BaseHTTPRequestHandler).                                    *)
(*                                                                         *)
(* A Response object is a member of Objects and may be returned by several *)
(* handlers; its body is taken by the first conversion.  A stdlib handler  *)
(* is the sequence of calls it makes.  Bodies are their lengths.           *)
(***************************************************************************)
EXTENDS Integers, Sequences, FiniteSets

CONSTANTS
    HandlerRequests,
    Objects,          \* Response objects a handler may return
    Shape,            \* object -> its status, declared lengths, body kind and lengths
    Plans,            \* request -> [kind, object, program]: returns an object or is a stdlib
                      \* handler, which is the sequence of calls it makes
    MaxCallbacks,     \* max_python_callbacks
    MaxResponseBytes  \* max_handler_response_bytes

ASSUME CallbacksAssumption == MaxCallbacks \in Nat \ {0}

VARIABLES
    phase,      \* request -> absent, queued, running, done
    head,       \* the requests whose method is HEAD
    waiting,    \* the queue of the callback semaphore
    callbacks,  \* its free permits
    left,       \* the requests whose client no longer waits for the service
    upgraded,   \* the requests whose handler accepted the tunnel it was offered
    fresh,      \* the objects whose body has not been taken
    reply,      \* request -> <<>>, or <<a>>: what the service returned
    source,     \* request -> <<object>> when its handler returned one of Objects, else <<>>
    plan        \* request -> what its handler does

handlerVars == <<phase, head, waiting, callbacks, left, upgraded, fresh, reply, source, plan>>

(***************************************************************************)
(* Conversion of a Response                                                *)
(***************************************************************************)

Unknown == -1
Absent == -2
InternalError == [kind |-> "error", status |-> 500, len |-> 0, iterates |-> FALSE, trailers |-> FALSE]

PermitsBody(status) == status >= 200 /\ status \notin {204, 205, 304}
Body(len, iterates, trailers) == <<[len |-> len, iterates |-> iterates, trailers |-> trailers]>>
First(a, b) == IF a # Absent THEN a ELSE b

(* A stream is started only for a body that will be sent; otherwise the    *)
(* iterable is dropped and only its length is kept.                        *)
StreamBody(o, is_head, declared) ==
    IF is_head \/ ~ PermitsBody(o.status)
    THEN IF o.status = 304 \/ is_head
         THEN LET n == First(o.length, declared) IN Body(IF n = Absent THEN Unknown ELSE n, FALSE, FALSE)
         ELSE Body(0, FALSE, FALSE)
    ELSE Body(IF o.length = Absent THEN Unknown ELSE o.length, TRUE, o.kind = "trailers")

(* Any other object with a body: a stdlib-shaped handler withholds the     *)
(* body of HEAD itself, so the declared length is taken as it is.          *)
StructuralBody(o, is_head, declared) ==
    Body(IF is_head /\ declared # Absent THEN declared ELSE o.size, FALSE, FALSE)

(* <<>> is a ServiceError.  HEAD discards buffered bytes in favour of the  *)
(* declared length, which must be theirs.                                  *)
extract_python_response_body(o, taken, is_head, declared) ==
    CASE taken -> <<>>
      [] o.kind = "empty" -> Body(IF is_head /\ declared # Absent THEN declared ELSE 0, FALSE, FALSE)
      [] o.kind = "bytes" -> IF is_head /\ declared # Absent /\ declared # o.size THEN <<>>
                             ELSE Body(o.size, FALSE, FALSE)
      [] o.kind = "structural" -> StructuralBody(o, is_head, declared)
      [] o.kind = "file" -> Body(o.size, FALSE, FALSE)
      [] o.kind \in {"stream", "trailers"} -> StreamBody(o, is_head, declared)

(* Checked before the body is taken.                                       *)
HeadIsValid(o) == o.status \in 100..599 /\ ~ o.hop /\ Len(o.declared) <= 1

convert_python_response_to_canonical(o, taken, is_head) ==
    LET declared == IF o.declared = <<>> THEN Absent ELSE o.declared[1]
        body == extract_python_response_body(o, taken, is_head, declared)
    IN  IF \/ ~ HeadIsValid(o)
           \/ body = <<>>
           \/ (declared # Absent /\ declared # body[1].len)
        THEN InternalError
        ELSE [kind |-> "response", status |-> o.status, len |-> body[1].len,
              iterates |-> body[1].iterates, trailers |-> body[1].trailers]

(***************************************************************************)
(* The stdlib-shaped handler                                               *)
(***************************************************************************)

(* status 0 is Absent; native is the response object of a static handler.  *)
NoResponse == [status |-> 0, headers |-> <<>>, hop |-> FALSE, ended |-> FALSE, written |-> 0, native |-> <<>>, failed |-> FALSE]
Failed(h) ==
    [h EXCEPT !.failed = TRUE, !.status = 500, !.headers = <<>>, !.hop = FALSE, !.ended = TRUE, !.written = 1]

Write(h, n) == IF h.written + n > MaxResponseBytes THEN Failed(h) ELSE [h EXCEPT !.written = @ + n]

(* The error page is one unit; HEAD withholds it and declares it.  Its     *)
(* headers come after those already sent, and cannot follow ended ones.    *)
(* send_hop stands for the hop-by-hop names send_header lets through.      *)
send_error(h, code, is_head) ==
    IF ~ PermitsBody(code) THEN [h EXCEPT !.status = code, !.ended = TRUE]
    ELSE IF h.ended THEN Failed(h)
    ELSE LET sent == [h EXCEPT !.status = code, !.headers = @ \o <<1>>, !.ended = TRUE]
         IN  IF is_head THEN sent ELSE Write(sent, 1)

Do(h, c, is_head) ==
    CASE h.failed -> h
      [] c.do = "send_response" -> IF c.n \in 100..599 THEN [h EXCEPT !.status = c.n] ELSE Failed(h)
      [] c.do = "send_length" -> IF h.ended THEN Failed(h) ELSE [h EXCEPT !.headers = @ \o <<c.n>>]
      [] c.do = "send_hop" -> IF h.ended THEN Failed(h) ELSE [h EXCEPT !.hop = TRUE]
      [] c.do = "end_headers" -> IF h.status = 0 THEN Failed(h) ELSE [h EXCEPT !.ended = TRUE]
      [] c.do = "write" -> Write(h, c.n)
      [] c.do = "send_error" -> send_error(h, c.n, is_head)
      [] c.do = "native" -> [h EXCEPT !.native = <<c.n>>]
      [] c.do = "raise" -> Failed(h)

(* Any exception replaces what was sent by a generic 500, and so does a    *)
(* handler that sent nothing.                                              *)
run_program(program, is_head) ==
    LET after[k \in 0..Len(program)] == IF k = 0 THEN NoResponse ELSE Do(after[k - 1], program[k], is_head)
        h == after[Len(program)]
    IN  IF h.status = 0 /\ h.native = <<>> THEN Failed(h) ELSE h

(* _result: the native response first; one whose headers were not ended is *)
(* an exception to the callback.                                           *)
handler_result(program, is_head) ==
    LET h == run_program(program, is_head)
    IN  IF h.native # <<>> THEN Shape[h.native[1]]
        ELSE [status |-> IF h.ended THEN h.status ELSE 600, declared |-> h.headers, hop |-> h.hop,
              kind |-> "structural", size |-> h.written, length |-> Absent]

(***************************************************************************)
(* The callback service                                                    *)
(***************************************************************************)

HandlerInit ==
    /\ phase = [r \in HandlerRequests |-> "absent"] /\ head \in SUBSET HandlerRequests /\ waiting = <<>>
    /\ callbacks = MaxCallbacks /\ left = {} /\ upgraded = {} /\ fresh = Objects
    /\ plan \in Plans
    /\ reply = [r \in HandlerRequests |-> <<>>] /\ source = [r \in HandlerRequests |-> <<>>]

(* The service is called; the permit is queued for.                        *)
CallWithTunnel(r) ==
    /\ phase[r] = "absent"
    /\ phase' = [phase EXCEPT ![r] = "queued"]
    /\ waiting' = Append(waiting, r)
    /\ UNCHANGED <<head, callbacks, left, upgraded, fresh, reply, source, plan>>

(* The permit goes with the closure to the blocking thread.                *)
RunCallback(r) ==
    /\ waiting # <<>> /\ Head(waiting) = r /\ callbacks > 0
    /\ callbacks' = callbacks - 1
    /\ waiting' = Tail(waiting)
    /\ phase' = [phase EXCEPT ![r] = "running"]
    /\ UNCHANGED <<head, left, upgraded, fresh, reply, source, plan>>

(* A timeout or a closed connection drops the service's future: a queued   *)
(* request leaves the queue, a running callback runs on.                   *)
(* Mutant: its permit comes back at once.                                  *)
AbandonLeaking(r) ==
    /\ phase[r] \in {"queued", "running"} /\ r \notin left
    /\ left' = left \cup {r}
    /\ IF phase[r] = "queued"
       THEN phase' = [phase EXCEPT ![r] = "done"] /\ waiting' = SelectSeq(waiting, LAMBDA x : x # r) /\ UNCHANGED callbacks
       ELSE callbacks' = callbacks + 1 /\ UNCHANGED <<phase, waiting>>
    /\ UNCHANGED <<head, upgraded, fresh, reply, source, plan>>

(* The permit of a running callback stays with its thread.                 *)
Abandon(r) ==
    /\ phase[r] \in {"queued", "running"} /\ r \notin left
    /\ left' = left \cup {r}
    /\ IF phase[r] = "queued"
       THEN phase' = [phase EXCEPT ![r] = "done"] /\ waiting' = SelectSeq(waiting, LAMBDA x : x # r)
       ELSE UNCHANGED <<phase, waiting>>
    /\ UNCHANGED <<head, callbacks, upgraded, fresh, reply, source, plan>>

AcceptTunnel(r) ==
    /\ phase[r] = "running" /\ r \notin upgraded
    /\ upgraded' = upgraded \cup {r}
    /\ UNCHANGED <<phase, head, waiting, callbacks, left, fresh, reply, source, plan>>

(* The callback returns, its permit with it.  A stored handshake wins over *)
(* whatever the handler made; nobody reads the reply of one who left.      *)
Finish(r, a, s) ==
    /\ phase[r] = "running"
    /\ phase' = [phase EXCEPT ![r] = "done"]
    /\ callbacks' = callbacks + 1
    /\ source' = [source EXCEPT ![r] = s]
    /\ reply' = IF r \in left THEN reply
                 ELSE [reply EXCEPT ![r] = <<IF r \in upgraded THEN [a EXCEPT !.kind = "handshake"] ELSE a>>]
    /\ UNCHANGED <<head, waiting, left, upgraded, plan>>

ReturnObject(r) ==
    LET o == plan[r].object IN
    /\ plan[r].kind = "object"
    /\ Finish(r, convert_python_response_to_canonical(Shape[o], o \notin fresh, r \in head), <<o>>)
    /\ fresh' = IF HeadIsValid(Shape[o]) THEN fresh \ {o} ELSE fresh

(* The facade builds a new response for every request, but for the native  *)
(* one of a static handler.                                                *)
ReturnFromFacade(r) ==
    LET native == run_program(plan[r].program, r \in head).native IN
    /\ plan[r].kind = "facade"
    /\ Finish(r, convert_python_response_to_canonical(handler_result(plan[r].program, r \in head),
                    native # <<>> /\ native[1] \notin fresh, r \in head), native)
    /\ fresh' = IF native = <<>> \/ ~ HeadIsValid(Shape[native[1]]) THEN fresh ELSE fresh \ {native[1]}

(* An exception, or a coroutine.                                           *)
RaiseError(r) == Finish(r, InternalError, <<>>) /\ UNCHANGED fresh

HandlerNext ==
    \E r \in HandlerRequests :
        \/ CallWithTunnel(r) \/ RunCallback(r) \/ Abandon(r) \/ AcceptTunnel(r)
        \/ ReturnObject(r) \/ ReturnFromFacade(r) \/ RaiseError(r)

HandlerSpec == HandlerInit /\ [][HandlerNext]_handlerVars

(***************************************************************************)
(* Properties                                                              *)
(***************************************************************************)

Running == {r \in HandlerRequests : phase[r] = "running"}

(* No more than max_python_callbacks handlers run, those of abandoned      *)
(* requests included, and every permit comes back with its handler.        *)
CallbacksBounded == callbacks + Cardinality(Running) = MaxCallbacks /\ callbacks >= 0

(* The body of a Response object is sent at most once: every other request *)
(* that returned the same object is answered with a failure.               *)
BodySentOnce ==
    \A o \in Objects :
        Cardinality({r \in HandlerRequests : source[r] = <<o>> /\ reply[r] # <<>> /\ reply[r][1].kind = "response"}) <= 1

(* An iterable is advanced only for a body that goes to the client, and    *)
(* trailers follow only such a body.                                       *)
IteratesOnlyToSend ==
    \A r \in HandlerRequests : reply[r] # <<>> =>
        LET a == reply[r][1] IN
        (a.iterates \/ a.trailers) /\ a.kind = "response" => r \notin head /\ PermitsBody(a.status)

(* The length in the reply is that of the body: of the bytes to be sent,   *)
(* or that the producer promised; and HEAD announces what GET would send   *)
(* wherever both are answered.                                             *)
LengthsAgree ==
    \A r \in HandlerRequests : source[r] # <<>> /\ reply[r] # <<>> /\ reply[r][1].kind = "response" =>
        LET a == reply[r][1]
            s == Shape[source[r][1]]
            b == convert_python_response_to_canonical(s, FALSE, r \notin head)
        IN  /\ r \notin head /\ s.kind \notin {"stream", "trailers"} => a.len = s.size
            /\ b.kind = "response" /\ PermitsBody(s.status) => a.len = b.len

(* Whatever a stdlib handler calls, in whatever order, the client gets one *)
(* complete reply: the status it sent last with the bytes it wrote, or a   *)
(* 500 that carries nothing of what it sent.                               *)
FacadeAnswersWhole ==
    \A r \in HandlerRequests :
        plan[r].kind = "facade" /\ source[r] = <<>> /\ reply[r] # <<>> /\ reply[r][1].kind # "handshake" =>
        LET a == reply[r][1]
            h == run_program(plan[r].program, r \in head)
        IN  \/ a.status = 500
            \/ a.status = h.status /\ (r \notin head => a.len = h.written) /\ ~ h.hop /\ Len(h.headers) <= 1

(* Python answers are sound (sync_handler.rs, server.py): the five above.  *)
PythonAnswersSound ==
    CallbacksBounded /\ BodySentOnce /\ IteratesOnlyToSend /\ LengthsAgree /\ FacadeAnswersWhole

------------------------------------------------------------------------------
(***************************************************************************)
(* The request body such a handler reads: PyRequestBody and its chunk      *)
(* iterator (body_bridge.rs), called by several threads.  A method runs    *)
(* with the interpreter lock until it detaches to wait for the network;    *)
(* the native body is taken out of its slot for that time.  Bytes are      *)
(* counted, chunks are their sizes.                                        *)
(***************************************************************************)
CONSTANTS
    BodyReaders,    \* threads
    NativeChunks,   \* the sizes of the chunks of the body
    ChunkSizes,     \* the chunk_size arguments offered; 0 is None
    FeedBound       \* the channel of iter_chunks

ASSUME FeedAssumption == FeedBound \in Nat \ {0}

VARIABLES
    inner,        \* PyRequestBody.inner: here, out (taken for one wait), gone
    body,         \* the native body: [at: chunks taken, state: open, eof or failed]
    incremental,  \* read_chunk() was called
    doing,        \* thread -> idle, read, read_chunk, trailers or next
    feeder,       \* the task behind iter_chunks: none, reading, flushing, done
    pending,      \* bytes it holds back for a whole chunk
    chunk_size,   \* its argument
    feed,         \* its channel: sizes, Failure at the end of a failed body
    live,         \* the iterator has not been dropped
    final,        \* final_bytes_received and final_complete
    handed        \* the sizes of what Python was given

pyBodyVars == <<inner, body, incremental, doing, feeder, pending, chunk_size, feed, live, final, handed>>

BrokenBody == -1
Bytes[n \in 0..Len(NativeChunks)] == IF n = 0 THEN 0 ELSE Bytes[n - 1] + NativeChunks[n]

PyBodyInit ==
    /\ inner = "here" /\ body = [at |-> 0, state |-> "open"] /\ incremental = FALSE
    /\ doing = [t \in BodyReaders |-> "idle"] /\ feeder = "none" /\ pending = 0 /\ chunk_size = 0
    /\ feed = <<>> /\ live = FALSE /\ final = [bytes |-> 0, complete |-> FALSE] /\ handed = <<>>

(* body.next_chunk(): a chunk, the end, or a failure, which stays.         *)
Chunk == body.state = "open" /\ body.at < Len(NativeChunks) /\ body' = [body EXCEPT !.at = @ + 1]
Eof == body.state \in {"open", "eof"} /\ body.at = Len(NativeChunks) /\ body' = [body EXCEPT !.state = "eof"]
Fails == body.state \in {"open", "failed"} /\ body' = [body EXCEPT !.state = "failed"]

Doing(t, what) == doing' = [doing EXCEPT ![t] = what]

(***************************************************************************)
(* read() and iter_chunks() consume the body                               *)
(***************************************************************************)

Consumable == ~ incremental /\ inner = "here"

Read(t) ==
    /\ doing[t] = "idle" /\ Consumable
    /\ inner' = "gone" /\ Doing(t, "read")
    /\ UNCHANGED <<body, incremental, feeder, pending, chunk_size, feed, live, final, handed>>

(* The loop of read(), to its end.                                         *)
ReadReturns(t) ==
    /\ doing[t] = "read"
    /\ \/ Chunk /\ UNCHANGED <<doing, final, handed>>
       \/ /\ Eof /\ Doing(t, "idle") /\ final' = [bytes |-> Bytes[body.at], complete |-> TRUE]
          /\ handed' = Append(handed, Bytes[body.at])
       \/ Fails /\ Doing(t, "idle") /\ final' = [final EXCEPT !.bytes = Bytes[body.at]] /\ UNCHANGED handed
    /\ UNCHANGED <<inner, incremental, feeder, pending, chunk_size, feed, live>>

IterChunks(t) ==
    /\ doing[t] = "idle" /\ Consumable
    /\ inner' = "gone" /\ feeder' = "reading" /\ live' = TRUE
    /\ chunk_size' \in ChunkSizes
    /\ UNCHANGED <<body, incremental, doing, pending, feed, final, handed>>

(* One turn of the task: a dropped iterator first, then the next chunk.    *)
(* Whole chunks are sent before more is read.                              *)
WholeChunk == IF chunk_size = 0 THEN pending ELSE chunk_size
HasWhole == pending > 0 /\ pending >= WholeChunk

FeederReads ==
    /\ feeder = "reading" /\ ~ HasWhole
    /\ IF ~ live THEN feeder' = "done" /\ UNCHANGED <<body, pending, final, feed>>
       ELSE \/ /\ Chunk /\ pending' = pending + NativeChunks[body.at + 1]
               /\ final' = [final EXCEPT !.bytes = Bytes[body.at + 1]] /\ UNCHANGED <<feeder, feed>>
            \/ (Eof \/ Fails) /\ feeder' = "flushing" /\ UNCHANGED <<pending, final, feed>>
    /\ UNCHANGED <<inner, incremental, doing, chunk_size, live, handed>>

(* A send waits for room and fails when the iterator is gone.              *)
FeederSends ==
    /\ feeder = "reading" /\ HasWhole
    /\ IF ~ live THEN feeder' = "done" /\ UNCHANGED <<pending, feed>>
       ELSE /\ Len(feed) < FeedBound
            /\ feed' = Append(feed, WholeChunk) /\ pending' = pending - WholeChunk /\ UNCHANGED feeder
    /\ UNCHANGED <<inner, body, incremental, doing, chunk_size, live, final, handed>>

(* The rest that is no whole chunk, then the end or the failure.           *)
FeederFlushes ==
    /\ feeder = "flushing"
    /\ IF pending > 0
       THEN IF ~ live THEN feeder' = "done" /\ UNCHANGED <<pending, feed, final>>
            ELSE /\ Len(feed) < FeedBound /\ feed' = Append(feed, pending) /\ pending' = 0
                 /\ UNCHANGED <<feeder, final>>
       ELSE /\ final' = [bytes |-> Bytes[body.at], complete |-> body.state = "eof"]
            /\ feeder' = "done" /\ UNCHANGED pending
            /\ IF body.state = "eof" \/ ~ live THEN UNCHANGED feed
               ELSE Len(feed) < FeedBound /\ feed' = Append(feed, BrokenBody)
    /\ UNCHANGED <<inner, body, incremental, doing, chunk_size, live, handed>>

(* __next__ waits for an item or the end of the channel.                   *)
IteratorNext(t) ==
    /\ doing[t] = "idle" /\ live /\ (feed # <<>> \/ feeder = "done")
    /\ IF feed = <<>> THEN UNCHANGED <<feed, handed>>
       ELSE feed' = Tail(feed) /\ handed' = IF Head(feed) = BrokenBody THEN handed ELSE Append(handed, Head(feed))
    /\ UNCHANGED <<inner, body, incremental, doing, feeder, pending, chunk_size, live, final>>

DropIterator ==
    /\ live
    /\ live' = FALSE /\ feed' = <<>>
    /\ UNCHANGED <<inner, body, incremental, doing, feeder, pending, chunk_size, final, handed>>

(***************************************************************************)
(* read_chunk() and trailers() take the body for one wait                  *)
(***************************************************************************)

(* The mode is set whether or not the body is there.                       *)
read_chunk(t) ==
    /\ doing[t] = "idle"
    /\ incremental' = TRUE
    /\ IF inner = "here" THEN inner' = "out" /\ Doing(t, "read_chunk") ELSE UNCHANGED <<inner, doing>>
    /\ UNCHANGED <<body, feeder, pending, chunk_size, feed, live, final, handed>>

(* Mutant: the counters are left to the native body.                       *)
ReadChunkReturns(t) ==
    /\ doing[t] = "read_chunk"
    /\ \/ /\ Chunk /\ handed' = Append(handed, NativeChunks[body.at + 1])
          /\ final' = [final EXCEPT !.bytes = Bytes[body.at + 1]]
       \/ Eof /\ final' = [bytes |-> Bytes[body.at], complete |-> TRUE] /\ UNCHANGED handed
       \/ Fails /\ final' = [final EXCEPT !.bytes = Bytes[body.at]] /\ UNCHANGED handed
    /\ inner' = "here" /\ Doing(t, "idle")
    /\ UNCHANGED <<incremental, feeder, pending, chunk_size, feed, live>>

BodyTrailers(t) ==
    /\ doing[t] = "idle" /\ inner = "here"
    /\ inner' = "out" /\ Doing(t, "trailers")
    /\ UNCHANGED <<body, incremental, feeder, pending, chunk_size, feed, live, final, handed>>

TrailersReturn(t) ==
    /\ doing[t] = "trailers"
    /\ inner' = "here" /\ Doing(t, "idle")
    /\ UNCHANGED <<body, incremental, feeder, pending, chunk_size, feed, live, final, handed>>

PyBodyNext ==
    \/ \E t \in BodyReaders :
        \/ Read(t) \/ ReadReturns(t) \/ IterChunks(t) \/ IteratorNext(t)
        \/ read_chunk(t) \/ ReadChunkReturns(t) \/ BodyTrailers(t) \/ TrailersReturn(t)
    \/ FeederReads \/ FeederSends \/ FeederFlushes \/ DropIterator

PyBodySpec == PyBodyInit /\ [][PyBodyNext]_pyBodyVars

(***************************************************************************)
(* Properties                                                              *)
(***************************************************************************)

(* The getters: those of the native body while it is in its slot.          *)
bytes_received == IF inner = "here" THEN Bytes[body.at] ELSE final.bytes
complete == IF inner = "here" THEN body.state = "eof" ELSE final.complete

HandedBytes[n \in 0..Len(handed)] == IF n = 0 THEN 0 ELSE HandedBytes[n - 1] + handed[n]

(* No byte is given to Python twice: what was handed out was received and  *)
(* is counted, whichever of the two records answers, and all of it was     *)
(* handed out once the body is complete and the iterator drained.          *)
HandedOnce ==
    /\ HandedBytes[Len(handed)] <= bytes_received /\ bytes_received <= Bytes[body.at]
    /\ complete /\ inner # "out" /\ feed = <<>> /\ (feeder = "none" \/ live)
        => HandedBytes[Len(handed)] = Bytes[Len(NativeChunks)]

(* complete is never said of a body that was cut.                          *)
CompleteIsTrue == complete => body = [at |-> Len(NativeChunks), state |-> "eof"]

(* iter_chunks(chunk_size) hands out chunks of that size, but for the last *)
(* one of the body.                                                        *)
ChunksAreWhole ==
    chunk_size # 0 =>
        \A i \in 1..Len(handed) : handed[i] = chunk_size \/ (i = Len(handed) /\ handed[i] < chunk_size /\ body.state # "open")

(* A body in Python is sound whoever calls it (body_bridge.rs).            *)
PythonBodySound == HandedOnce /\ CompleteIsTrue /\ ChunksAreWhole

(* What iter_chunks says of an abandoned iterator (body_bridge.rs:         *)
(* "Dropping the iterator before EOF leaves `complete` False"): complete   *)
(* means that the bytes were handed out.                                   *)
CompleteMeansConsumed == complete => HandedBytes[Len(handed)] = Bytes[Len(NativeChunks)]
==============================================================================
