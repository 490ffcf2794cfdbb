---------------------------- MODULE TowerAdapter ----------------------------
(***************************************************************************)
(* A native service behind Tower (eggserve-server/src/tower.rs and         *)
(* interop.rs): the runtime calls TowerToEggserve, which drives a clone of *)
(* a Tower stack; a layer of that stack may edit the head and read the     *)
(* body, and its core is EggserveToTower around a native service.          *)
(*                                                                         *)
(* The stack is external: its readiness is one of TowerSlots slots, held   *)
(* by a clone from the moment poll_ready grants it until the call ends or  *)
(* the clone is dropped.  So are the transport that polls the response,    *)
(* and the bodies, which produce any frames: "data" of one byte, "empty"   *)
(* data, "trailers", trailers that are "blank" or "forbidden", "error".    *)
(***************************************************************************)
EXTENDS Naturals, Sequences, FiniteSets

CONSTANTS
    TowerRequests,  \* requests in flight
    TowerSlots,     \* calls the stack is ready for at once
    MaxFrames,      \* frames a body produces, at most
    Heads,          \* heads the runtime makes
    Edits           \* what a layer does to the head

\* A layer sees and edits what http can say; the raw target and the authority are in extensions
\* that are there or not.
ASSUME TowerAssumption ==
    /\ TowerSlots \in Nat /\ MaxFrames \in Nat /\ IsFiniteSet(TowerRequests)
    /\ Heads \subseteq [raw : STRING, authority : STRING, hosts : Seq(STRING)]
    /\ \A edit \in Edits : /\ DOMAIN edit \subseteq {"uri", "absolute", "hosts", "ext"}
                           /\ "uri" \in DOMAIN edit => edit.uri \in STRING
                           /\ "absolute" \in DOMAIN edit => edit.absolute \in BOOLEAN
                           /\ "hosts" \in DOMAIN edit => edit.hosts \in Seq(STRING)
                           /\ "ext" \in DOMAIN edit => edit.ext \in BOOLEAN

VARIABLES
    phase,      \* where the adapter's future is
    readied,    \* the clones that hold a slot
    slots,      \* free slots
    head,       \* the head the runtime made
    http,       \* the head inside the stack
    served,     \* the head the native service was called with
    view,       \* the request body: its state, and the bytes and trailers it still holds
    frames,     \* what a reader of the HttpRequestBody has been given
    answer,     \* what the stack said of its response before streaming it
    produced,   \* the frames the response body has produced
    slot,       \* the terminal-trailer slot, and trailers_emitted
    passed,     \* bytes handed to the transport
    verdict     \* how the exchange ended for the transport

towerVars == <<phase, readied, slots, head, http, served, view, frames, answer, produced, slot,
               passed, verdict>>

NoHead == [raw |-> "none", authority |-> "none"]
NoAnswer == [ended |-> FALSE, exact |-> {}, declares |-> "nothing"]

\* The answers of a stack: is_end_stream, size_hint().exact() as a set, and its Trailer field, where
\* "nonsense" is also a status or a field with no canonical form.
Answers == {a \in [ended : BOOLEAN, exact : {{}, {0}, {1}}, declares : {"nothing", "names", "nonsense"}] :
                a.ended => a.exact = {0}}

TowerInit ==
    /\ phase = [r \in TowerRequests |-> "idle"]
    /\ readied = {}
    /\ slots = TowerSlots
    /\ head \in [TowerRequests -> Heads]
    /\ http = [r \in TowerRequests |-> NoHead]
    /\ served = [r \in TowerRequests |-> NoHead]
    /\ view = [r \in TowerRequests |-> [state |-> "open", failure |-> FALSE]]
    /\ frames = [r \in TowerRequests |-> <<>>]
    /\ answer = [r \in TowerRequests |-> NoAnswer]
    /\ produced = [r \in TowerRequests |-> <<>>]
    /\ slot = [r \in TowerRequests |-> [filled |-> "unset", emitted |-> FALSE]]
    /\ passed = [r \in TowerRequests |-> 0]
    /\ verdict = [r \in TowerRequests |-> "none"]

(***************************************************************************)
(* Heads.  request_head_to_http keeps what http cannot say in extensions;  *)
(* request_head_from_http prefers the raw target kept there, and takes an  *)
(* authority only where every Host agrees with it.                         *)
(***************************************************************************)
request_head_to_http(h) ==
    [uri |-> h.raw, absolute |-> FALSE, hosts |-> h.hosts, raw |-> h.raw, ext |-> TRUE,
     authority |-> h.authority]

request_head_from_http(q) ==
    LET host == Head(q.hosts)
        agreed == q.hosts # <<>> => \A i \in DOMAIN q.hosts : q.hosts[i] = host
        fits == q.hosts # <<>> =>
                    host # "malformed" /\ (q.ext /\ q.authority # "none" => host = q.authority)
    IN  IF agreed /\ fits /\ (q.ext \/ ~q.absolute)
        THEN [raw |-> IF q.ext THEN q.raw ELSE q.uri,
              authority |-> IF q.ext /\ q.authority # "none" THEN q.authority
                            ELSE IF q.hosts # <<>> THEN host ELSE "none"]
        ELSE NoHead

\* TowerToEggserve::call, up to the first await; a head http cannot say is refused.
Call(r) ==
    /\ phase[r] = "idle"
    /\ \/ /\ phase' = [phase EXCEPT ![r] = "readying"]
          /\ http' = [http EXCEPT ![r] = request_head_to_http(head[r])]
          /\ UNCHANGED verdict
       \/ /\ phase' = [phase EXCEPT ![r] = "over"]
          /\ verdict' = [verdict EXCEPT ![r] = "failed"]
          /\ UNCHANGED http
    /\ UNCHANGED <<readied, slots, head, served, view, frames, answer, produced, slot, passed>>

\* poll_ready on this request's clone: the slot is the clone's.
PollReady(r) ==
    /\ phase[r] = "readying"
    /\ slots > 0
    /\ slots' = slots - 1
    /\ readied' = readied \cup {r}
    /\ phase' = [phase EXCEPT ![r] = "ready"]
    /\ UNCHANGED <<head, http, served, view, frames, answer, produced, slot, passed, verdict>>

\* The clone is dropped with the future that owns it, and gives up its slot.
DropClone(r) ==
    /\ readied' = readied \ {r}
    /\ slots' = IF r \in readied THEN slots + 1 ELSE slots

Fail(r) ==
    /\ DropClone(r)
    /\ phase' = [phase EXCEPT ![r] = "over"]
    /\ verdict' = [verdict EXCEPT ![r] = "failed"]

\* Tower's call on the clone: a layer may edit the head, then EggserveToTower::call.
CallStack(r) ==
    /\ phase[r] = "ready"
    /\ \E edit \in Edits :
           http' = [http EXCEPT ![r] = [f \in DOMAIN @ |-> IF f \in DOMAIN edit THEN edit[f] ELSE @[f]]]
    /\ LET parts == request_head_from_http(http'[r])
       IN  IF parts = NoHead
           THEN Fail(r) /\ UNCHANGED served
           ELSE /\ served' = [served EXCEPT ![r] = parts]
                /\ phase' = [phase EXCEPT ![r] = "serving"]
                /\ UNCHANGED <<readied, slots, verdict>>
    /\ UNCHANGED <<head, view, frames, answer, produced, slot, passed>>

(***************************************************************************)
(* HttpRequestBody::poll_frame, by a layer or by the service.  What the    *)
(* canonical body gives is any outcome of RequestBody: a chunk, an error,  *)
(* or the end, with trailers or with trailers that failed validation.      *)
(***************************************************************************)
PollFrame(r) ==
    LET give(state, failure, frame) ==
            /\ view' = [view EXCEPT ![r] = [state |-> state, failure |-> failure]]
            /\ frames' = [frames EXCEPT ![r] = Append(@, frame)]
    IN  /\ phase[r] \in {"ready", "serving"}
        /\ Len(frames[r]) < MaxFrames
        /\ \/ /\ view[r].state = "open"
              /\ \/ give("open", FALSE, "data")
                 \/ \E bad \in BOOLEAN : give("error", bad, "error")
                 \/ \E last \in {"trailers", "end"} : give("complete", FALSE, last)
           \/ /\ view[r].state = "complete" \/ (view[r].state = "error" /\ ~view[r].failure)
              /\ give(view[r].state, view[r].failure, "end")
           \/ /\ view[r].state = "error" /\ view[r].failure
              /\ give("error", TRUE, "error")
        /\ UNCHANGED <<phase, readied, slots, head, http, served, answer, produced, slot, passed, verdict>>

\* HttpRequestBody::is_end_stream.
is_end_stream(r) == view[r].state = "complete"

(***************************************************************************)
(* The stack answers: an error of it or of the service, a contained panic  *)
(* included, fails the call.  A response becomes canonical: its Trailer    *)
(* field is a declaration, an ended body is Empty, any other is a stream,  *)
(* of known length where the size hint is exact.                           *)
(***************************************************************************)
Refuse(r) ==
    /\ phase[r] \in {"readying", "serving"}
    /\ Fail(r)
    /\ UNCHANGED <<head, http, served, view, frames, answer, produced, slot, passed>>

response_from_http_body(r, a) ==
    CASE a.declares = "nonsense" -> "failed"
      [] a.declares # "nonsense" /\ a.ended -> "empty"
      [] OTHER -> "none"

Answer(r) ==
    /\ phase[r] = "serving"
    /\ DropClone(r)
    /\ \E a \in Answers :
           /\ answer' = [answer EXCEPT ![r] = a]
           /\ verdict' = [verdict EXCEPT ![r] = response_from_http_body(r, a)]
           /\ phase' = [phase EXCEPT ![r] = IF response_from_http_body(r, a) = "none" THEN "streaming" ELSE "over"]
    /\ UNCHANGED <<head, http, served, view, frames, produced, slot, passed>>

(***************************************************************************)
(* HttpBodyDataStream::poll_next, one frame of the body: data is passed    *)
(* on, empty data is skipped, a trailers frame is validated into the slot  *)
(* and ends the data, an error is both stored and passed on.               *)
(***************************************************************************)
Store(s, stored) == [s EXCEPT !.filled = stored]

Frame(r, frame) ==
    /\ phase[r] = "streaming"
    /\ Len(produced[r]) < MaxFrames
    /\ produced' = [produced EXCEPT ![r] = Append(@, frame)]
    /\ passed' = [passed EXCEPT ![r] = IF frame = "data" THEN @ + 1 ELSE @]
    /\ slot' = [slot EXCEPT ![r] =
                   CASE frame = "trailers" -> [filled |-> "some", emitted |-> TRUE]
                     [] frame = "blank" -> [filled |-> "nothing", emitted |-> TRUE]
                     [] frame = "forbidden" -> [filled |-> "error", emitted |-> TRUE]
                     [] frame = "error" -> Store(@, "error")
                     [] frame = "end" /\ ~ @.emitted /\ @.filled = "unset" -> Store(@, "nothing")
                     [] OTHER -> @]
    /\ phase' = [phase EXCEPT ![r] = IF frame \in {"data", "empty"} THEN @
                                     ELSE IF frame = "error" THEN "over" ELSE "trailing"]
    /\ verdict' = [verdict EXCEPT ![r] = IF frame = "error" THEN "failed" ELSE @]
    /\ UNCHANGED <<readied, slots, head, http, served, view, frames, answer>>

(***************************************************************************)
(* The data has ended: the transport checks a known length, then awaits    *)
(* the trailer future once, which takes the slot.                          *)
(***************************************************************************)
trailer_futureLenient(s) == IF s.filled = "some" THEN "trailed" ELSE "complete"

trailer_future(s) ==
    CASE s.filled = "some" -> "trailed"
      [] s.filled = "error" -> "failed"
      [] OTHER -> "complete"

Trail(r) ==
    /\ phase[r] = "trailing"
    /\ phase' = [phase EXCEPT ![r] = "over"]
    /\ verdict' = [verdict EXCEPT ![r] =
                      IF ~(answer[r].exact \subseteq {passed[r]}) THEN "failed"
                      ELSE trailer_future(slot[r])]
    /\ slot' = [slot EXCEPT ![r].filled = "unset"]
    /\ UNCHANGED <<readied, slots, head, http, served, view, frames, answer, produced, passed>>

\* The runtime drops the future or the stream: a timeout, a reset, the end of the connection.
Abandon(r) ==
    /\ phase[r] \in {"readying", "ready", "serving", "streaming", "trailing"}
    /\ DropClone(r)
    /\ phase' = [phase EXCEPT ![r] = "over"]
    /\ verdict' = [verdict EXCEPT ![r] = "dropped"]
    /\ UNCHANGED <<head, http, served, view, frames, answer, produced, slot, passed>>

ResponseFrames == {"data", "empty", "trailers", "blank", "forbidden", "error", "end"}

TowerNext ==
    \E r \in TowerRequests :
        \/ Call(r) \/ PollReady(r) \/ CallStack(r) \/ PollFrame(r) \/ Refuse(r) \/ Answer(r)
        \/ Trail(r) \/ Abandon(r)
        \/ \E frame \in ResponseFrames : Frame(r, frame)

TowerSpec == TowerInit /\ [][TowerNext]_towerVars

-----------------------------------------------------------------------------
Given(s) == {s[i] : i \in DOMAIN s}

DataFrames(s) == Cardinality({i \in DOMAIN s : s[i] = "data"})

\* Readiness is the clone's that asked for it, and comes back with it.
SlotsBelongToClones ==
    /\ slots + Cardinality(readied) = TowerSlots
    /\ \A r \in TowerRequests : r \in readied <=> phase[r] \in {"ready", "serving"}

\* The service is called with the target and authority the runtime accepted, and with no Host
\* that contradicts them, whatever a layer did to the head it saw.
HeadsCross ==
    \A r \in TowerRequests : served[r] # NoHead =>
        /\ \A i \in DOMAIN http[r].hosts : http[r].hosts[i] = served[r].authority
        /\ http[r].ext => /\ served[r].raw = head[r].raw
                          /\ head[r].authority \in {"none", served[r].authority}

\* A reader meets trailers at most once, after the data, and nothing but the end after them.
RequestFramesInOrder ==
    \A r \in TowerRequests :
        /\ \A i, j \in DOMAIN frames[r] :
               i < j /\ frames[r][i] \in {"trailers", "end"} => frames[r][j] = "end"
        /\ is_end_stream(r) => "error" \notin Given(frames[r])

\* An exchange the transport calls complete is what the body said, all of it.
ResponsesCross ==
    \A r \in TowerRequests :
        /\ verdict[r] \in {"complete", "trailed"} =>
               /\ Given(produced[r]) \cap {"error", "forbidden"} = {}
               /\ passed[r] = DataFrames(produced[r])
               /\ answer[r].exact \subseteq {passed[r]}
               /\ verdict[r] = "trailed" <=> "trailers" \in Given(produced[r])
        /\ verdict[r] = "empty" => answer[r].ended /\ produced[r] = <<>>

(* Through both adapters nothing is added, lost or called complete that is *)
(* not: readiness, the head, the request's frames and the response's bytes *)
(* and trailers (tower.rs:140 and 232, interop.rs:566 and 758).            *)
AdapterKeepsExchanges ==
    SlotsBelongToClones /\ HeadsCross /\ RequestFramesInOrder /\ ResponsesCross
=============================================================================
