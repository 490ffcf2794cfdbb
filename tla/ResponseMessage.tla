--------------------------- MODULE ResponseMessage ---------------------------
(***************************************************************************)
(* A canonical Response from its construction by a service to the head and *)
(* body that HTTP/1 or HTTP/3 puts on the wire: eager normalisation and    *)
(* later edits by the service, normalize_response, the trailer policy, the *)
(* conversion with the file-stream permit, and the response policy of the  *)
(* runtime (denylist, Server, Date, Last-Modified, Alt-Svc).               *)
(*                                                                         *)
(* A body is its kind and its length, <<>> when unknown.                   *)
(***************************************************************************)
EXTENDS HeaderBlocks, FiniteSets

CONSTANTS Responses,        \* the responses services build
          MessageRequests,  \* the requests: [is_head, version, te]
          MessagePolicies,  \* the response policies in force
          EditFields,       \* fields a service adds after normalising
          Presentations,    \* what the rejection presenter answers
          Rejections,       \* statuses of runtime rejections
          MaxRejectionBody, \* MAX_RUNTIME_REJECTION_BODY_BYTES
          MaxRejectionFields,
          ErrorBytes        \* length of the fixed text of a runtime error

VARIABLES message,          \* the canonical Response
          context,          \* the request, the policy and whether a file permit is free
          edits,            \* what the service did to the response, in order
          built,            \* the response with the edits and without eager normalisation
          wire              \* <<>>, or what went out

messageVars == <<message, context, edits, built, wire>>

BodyEmpty == [kind |-> "Empty", len |-> <<0>>, trailers |-> FALSE, declaration |-> {}]
EmptyWithLength(n) == [BodyEmpty EXCEPT !.kind = "EmptyWithLength", !.len = <<n>>]

\* The length of the representation; a body that was taken counts as empty.
body_length(body) == IF body.kind = "Taken" THEN <<0>> ELSE body.len

\* A request that the runtime rejects has no response of a service.
NoResponse == [status |-> 0, headers |-> <<>>, body |-> BodyEmpty, normalized |-> FALSE]

MessageInit ==
    /\ message \in Responses \cup {NoResponse}
    /\ context \in [req : MessageRequests, policy : MessagePolicies, permit : BOOLEAN]
    /\ edits = <<>>
    /\ built = message
    /\ wire = <<>>

(***************************************************************************)
(* normalize_metadata and normalize_response.  An error is the status 0.   *)
(***************************************************************************)
\* A 304 keeps a Content-Length that is unique and is the length of the representation.
not_modified_length(headers, len) ==
    LET unique == get_unique(headers, "content-length").value
    IN IF len # <<>> /\ unique # <<>> /\ unique[1].num = len[1] THEN len ELSE <<>>

normalize_metadataError(status, headers, len) ==
    \/ status = 205 /\ contains(headers, "content-length")
    \/ status = 304 /\ len # <<>> /\ get_unique(headers, "content-length").error

normalize_metadataInventsZero(status, headers, len) ==
    LET kept == strip_hop_by_hop(headers)
        announced == IF permits_payload_body(status) THEN (IF len = <<>> THEN <<0>> ELSE len)
                     ELSE IF status = 304 THEN not_modified_length(kept, len) ELSE <<>>
        rest == remove_header(kept, "content-length")
    IN IF announced = <<>> THEN rest ELSE push_str(rest, "content-length", announced[1], {})

normalize_metadata(status, headers, len) ==
    LET kept == strip_hop_by_hop(headers)
        announced == IF permits_payload_body(status) THEN len
                     ELSE IF status = 304 THEN not_modified_length(kept, len) ELSE <<>>
        rest == remove_header(kept, "content-length")
    IN IF announced = <<>> THEN rest ELSE push_str(rest, "content-length", announced[1], {})

\* HEAD keeps only the length of what GET would send; a status without payload
\* drops the body, unpolled.
normalized_body(status, body, is_head) ==
    LET len == body_length(body)
    IN IF ~ permits_payload_body(status) \/ (is_head /\ len = <<>>) THEN BodyEmpty
       ELSE IF is_head THEN EmptyWithLength(len[1])
       ELSE body

normalize_response(resp, is_head) ==
    LET given == IF ~ is_head /\ resp.body.kind = "EmptyWithLength" THEN BodyEmpty ELSE resp.body
        len   == IF permits_payload_body(resp.status) \/ resp.status = 304
                 THEN body_length(given) ELSE <<0>>
        kept  == strip_hop_by_hop(resp.headers)
    IN IF resp.normalized THEN resp
       ELSE IF normalize_metadataError(resp.status, kept, len)
       THEN [resp EXCEPT !.status = 0]
       ELSE [resp EXCEPT !.body = normalized_body(resp.status, given, is_head),
                         !.headers = normalize_metadata(resp.status, resp.headers, len),
                         !.normalized = TRUE]

\* The fixed representation of a runtime error; HEAD announces no length but 0.
runtime_error(status, is_head, policy) ==
    LET content == IF policy.error_policy = "Minimal" THEN <<Field("content-type", 0, {})>> ELSE <<>>
        allow == IF status = 405 THEN <<Field("allow", 0, {"GET", "HEAD"})>> ELSE <<>>
        empty == policy.error_policy = "Empty" \/ is_head \/ ~ permits_payload_body(status)
    IN [status |-> status, headers |-> content \o allow, normalized |-> FALSE,
        body |-> IF empty THEN BodyEmpty
                 ELSE [BodyEmpty EXCEPT !.kind = "Bytes", !.len = <<ErrorBytes>>]]

runtime_error_with_policy(status, is_head, policy) ==
    normalize_response(runtime_error(status, is_head, policy), is_head)

(***************************************************************************)
(* Trailers on HTTP/1                                                      *)
(***************************************************************************)
h1_trailers_allowed(req) ==
    /\ req.version = "1.1"
    /\ LET te == get_first(req.te, "te") IN te # <<>> /\ "trailers" \in te[1].toks

\* Without a client that asked, a body and a declaration, the source is dropped unpolled.
KeepsTrailers(resp, req) ==
    /\ resp.body.trailers /\ ~ req.is_head /\ permits_payload_body(resp.status)
    /\ h1_trailers_allowed(req) /\ resp.body.declaration # {}

strip_response_trailers(resp) ==
    [resp EXCEPT !.body.trailers = FALSE, !.body.declaration = {}, !.normalized = FALSE]

\* The one Trailer field is the runtime's, and the length gives way to chunked framing.
synthesize_trailer_head(resp) ==
    [resp EXCEPT !.headers = push_str(remove_all(@, {"content-length", "trailer"}),
                                      "trailer", 0, resp.body.declaration)]

(***************************************************************************)
(* Conversion and the response policy on HTTP/1                            *)
(***************************************************************************)
Converted(resp, provenance) == [resp |-> resp, provenance |-> provenance]

\* Without a file permit the answer is 503; errors of the runtime are built as for GET.
to_hyper_response(resp, permit, policy) ==
    IF resp.body.kind = "File" /\ ~ permit
    THEN Converted(runtime_error_with_policy(503, FALSE, policy), "Runtime")
    ELSE Converted(resp, "Service")

normalize_then_convert(resp, ctx) ==
    LET keeps == KeepsTrailers(resp, ctx.req)
        given == IF resp.body.trailers /\ ~ keeps THEN strip_response_trailers(resp) ELSE resp
        normal == normalize_response(given, ctx.req.is_head)
    IN IF normal.status = 0
       THEN Converted(runtime_error_with_policy(500, FALSE, ctx.policy), "Runtime")
       ELSE to_hyper_response(IF keeps /\ normal.body.trailers THEN synthesize_trailer_head(normal) ELSE normal,
                              ctx.permit, ctx.policy)

\* No step of its own sees a Last-Modified after the Date that goes out with it.
drop_future_last_modified(headers) ==
    LET date == get_first(headers, "date")
        last == get_first(headers, "last-modified")
    IN IF date # <<>> /\ last # <<>> /\ date[1].num # NotANumber /\ last[1].num > date[1].num
       THEN remove_header(headers, "last-modified") ELSE headers

FinalHeaders(headers, policy, ownsServer, ownsDate) ==
    LET listed == remove_all(headers, policy.stripped)
        server == IF ~ ownsServer THEN listed
                  ELSE remove_header(listed, "server") \o
                       (IF policy.server = <<>> THEN <<>> ELSE <<Field("server", policy.server[1], {})>>)
        dated  == IF ~ ownsDate THEN server
                  ELSE remove_header(server, "date") \o
                       (IF policy.now = <<>> THEN <<>> ELSE <<Field("date", policy.now[1], {})>>)
    IN drop_future_last_modified(dated)

external_date_valid(headers) ==
    LET dates == get_all(headers, "date")
    IN Len(dates) <= 1 /\ \A i \in DOMAIN dates : dates[i].num # NotANumber

\* The embedding application may own Server or Date of a service response, and then
\* an invalid Date of its own costs it the response.
finalize_runtime_response(converted, policy) ==
    LET service == converted.provenance = "Service"
        owns(field) == ~ service \/ policy.owner[field] = "EggServe"
        invalid == ~ owns("date") /\ ~ external_date_valid(remove_all(converted.resp.headers, policy.stripped))
        final(resp, s, d) == [resp EXCEPT !.headers = FinalHeaders(@, policy, s, d)]
    IN IF invalid
       THEN Converted(final(runtime_error_with_policy(500, FALSE, policy), TRUE, TRUE), "Runtime")
       ELSE Converted(final(converted.resp, owns("server"), owns("date")), converted.provenance)

\* Only a body whose kind carries bytes is sent, and never in answer to HEAD.
WireBody(resp, is_head) ==
    IF is_head \/ resp.body.kind \in {"Empty", "EmptyWithLength", "Taken"} THEN <<0>> ELSE resp.body.len

apply_http1_disposition(headers, close) ==
    IF close THEN push_str(remove_header(headers, "connection"), "connection", 0, {"close"}) ELSE headers

Wire(protocol, converted, is_head, close) ==
    [protocol |-> protocol, status |-> converted.resp.status, provenance |-> converted.provenance,
     headers |-> apply_http1_disposition(converted.resp.headers, close),
     bytes |-> WireBody(converted.resp, is_head),
     stream |-> converted.resp.body.kind = "Stream",
     trailers |-> converted.resp.body.trailers, rejection |-> <<>>]

H1Wire(resp, ctx, close) ==
    Wire("h1", finalize_runtime_response(normalize_then_convert(resp, ctx), ctx.policy), ctx.req.is_head, close)

(***************************************************************************)
(* HTTP/3: finalize_canonical_response, apply_alt_svc, send_canonical_response *)
(***************************************************************************)
finalize_canonical_response(resp, policy) ==
    LET last == get_first(resp.headers, "last-modified")
        future == policy.now # <<>> /\ last # <<>> /\ last[1].num > policy.now[1]
        kept == remove_all(resp.headers, policy.stripped \cup {"server", "date"} \cup
                                         (IF future THEN {"last-modified"} ELSE {}))
        server == IF policy.server = <<>> THEN <<>> ELSE <<Field("server", policy.server[1], {})>>
        date == IF policy.now = <<>> THEN <<>> ELSE <<Field("date", policy.now[1], {})>>
    IN [resp EXCEPT !.headers = kept \o server \o date, !.normalized = FALSE]

alt_svc_advertisement_value(policy) ==
    IF policy.advertise /\ "alt-svc" \notin policy.stripped THEN <<Field("alt-svc", 1, {})>> ELSE <<>>

apply_alt_svc(resp, policy) ==
    [resp EXCEPT !.headers = remove_header(@, "alt-svc") \o alt_svc_advertisement_value(policy)]

H3Unsendable == {"connection", "keep-alive", "proxy-connection", "transfer-encoding", "upgrade"}

\* A file without a permit resets the stream: no response goes out.
send_canonical_response(resp, ctx) ==
    LET normal == normalize_response(resp, ctx.req.is_head)
        given  == IF normal.status = 0 THEN runtime_error(500, ctx.req.is_head, ctx.policy) ELSE normal
        final  == apply_alt_svc(finalize_canonical_response(given, ctx.policy), ctx.policy)
        sent   == [final EXCEPT !.headers = remove_all(@, H3Unsendable)]
        from   == IF normal.status = 0 THEN "Runtime" ELSE "Service"
    IN IF sent.body.kind = "File" /\ ~ ctx.permit
       THEN Wire("reset", Converted([sent EXCEPT !.body = BodyEmpty, !.headers = <<>>], from), TRUE, FALSE)
       ELSE Wire("h3", Converted(sent, from), FALSE, FALSE)

(***************************************************************************)
(* A rejection of the runtime, with a presenter                            *)
(***************************************************************************)
PresenterIgnored == {"content-length", "transfer-encoding", "connection", "keep-alive",
                     "upgrade", "trailer", "date", "server"}

\* None, a panic, a body or a head over the limit, or an invalid field: the fixed text.
PresenterRefused(p) ==
    \/ p.outcome # "presented"
    \/ p.len > MaxRejectionBody
    \/ Len(remove_all(p.headers, PresenterIgnored)) > MaxRejectionFields

present_runtime_rejection(status, is_head, policy, p) ==
    LET allowed == ~ is_head /\ permits_payload_body(status)
        own == remove_all(p.headers, PresenterIgnored)
        announced == IF is_head \/ allowed THEN p.len ELSE 0
        counted == status \notin {204, 205} /\ (status # 304 \/ p.len > 0)
    IN IF PresenterRefused(p) THEN runtime_error_with_policy(status, is_head, policy)
       ELSE [status |-> status, normalized |-> FALSE,
             headers |-> IF counted THEN push_str(own, "content-length", announced, {}) ELSE own,
             body |-> IF allowed THEN [BodyEmpty EXCEPT !.kind = "Bytes", !.len = <<p.len>>] ELSE BodyEmpty]

(***************************************************************************)
(* Actions                                                                 *)
(***************************************************************************)
Responding == wire = <<>> /\ message # NoResponse
ServiceEdits == Responding /\ Len(edits) < 2

\* The static service and the Tower and Python bridges normalise what they build.
EagerNormalize ==
    /\ ServiceEdits /\ ~ message.normalized
    /\ normalize_response(message, context.req.is_head).status # 0
    /\ message' = normalize_response(message, context.req.is_head)
    /\ edits' = Append(edits, "normalize")
    /\ UNCHANGED <<context, built, wire>>

\* head_mut: any edit of the head forgets that the response was normalised.
EditHead(f) ==
    /\ ServiceEdits
    /\ message' = [message EXCEPT !.headers = Append(@, f), !.normalized = FALSE]
    /\ built' = [built EXCEPT !.headers = Append(@, f)]
    /\ edits' = Append(edits, "head_mut")
    /\ UNCHANGED <<context, wire>>

take_body ==
    /\ ServiceEdits /\ message.body.kind # "Taken"
    /\ message' = [message EXCEPT !.body = [BodyEmpty EXCEPT !.kind = "Taken"], !.normalized = FALSE]
    /\ built' = [built EXCEPT !.body = [BodyEmpty EXCEPT !.kind = "Taken"]]
    /\ edits' = Append(edits, "take_body")
    /\ UNCHANGED <<context, wire>>

RespondH1(close) ==
    /\ Responding
    /\ wire' = <<H1Wire(message, context, close)>>
    /\ UNCHANGED <<message, context, edits, built>>

RespondH3 ==
    /\ Responding
    /\ wire' = <<send_canonical_response(message, context)>>
    /\ UNCHANGED <<message, context, edits, built>>

RejectH1(status, p) ==
    /\ wire = <<>> /\ message = NoResponse
    /\ LET rejection == present_runtime_rejection(status, context.req.is_head, context.policy, p)
           final == finalize_runtime_response(Converted(rejection, "Runtime"), context.policy)
       IN wire' = <<[Wire("h1", final, context.req.is_head, FALSE) EXCEPT !.rejection = <<status, p>>]>>
    /\ UNCHANGED <<message, context, edits, built>>

MessageNext ==
    \/ EagerNormalize
    \/ \E f \in EditFields : EditHead(f)
    \/ take_body
    \/ \E close \in BOOLEAN : RespondH1(close)
    \/ RespondH3
    \/ \E status \in Rejections, p \in Presentations : RejectH1(status, p)

(***************************************************************************)
(* Properties                                                              *)
(***************************************************************************)
Sent == wire # <<>> /\ wire[1].protocol # "reset"
W == wire[1]
WireFields(name) == get_all(W.headers, name)
IsHead == context.req.is_head

\* The length that goes out is the length of the body that goes out, announced at
\* most once; a status without payload sends none; an HTTP/1 body without a length
\* is a stream (normalize_response, synthesize_trailer_head, present_runtime_rejection).
FramingMatchesBody ==
    Sent =>
        LET cl == WireFields("content-length")
        IN /\ Len(cl) <= 1
           /\ ~ permits_payload_body(W.status) => W.bytes = <<0>>
           /\ W.status \in {204, 205} => cl = <<>>
           /\ ~ IsHead /\ permits_payload_body(W.status) =>
                 IF cl # <<>> THEN W.bytes = <<cl[1].num>>
                 ELSE W.stream \/ W.protocol = "h3"

\* Edits of the head after an eager normalisation start it over; without them the
\* normalisation made early changes nothing of what goes out, for HEAD as for GET.
EditedAfterNormalize == \E i, j \in DOMAIN edits : i < j /\ edits[i] = "normalize" /\ edits[j] # "normalize"
EagerNormalizeInvisible ==
    Sent /\ W.rejection = <<>> /\ ~ EditedAfterNormalize =>
        W = IF W.protocol = "h1" THEN H1Wire(built, context, contains(W.headers, "connection"))
            ELSE send_canonical_response(built, context)

\* HEAD announces the length GET announces, none for a stream of unknown length;
\* only trailers, which replace the length of a GET, make a difference.
HeadAnnouncesGet ==
    Sent /\ IsHead /\ W.rejection = <<>> /\ ~ EditedAfterNormalize /\ ~ built.body.trailers =>
        LET get == [context EXCEPT !.req.is_head = FALSE, !.permit = TRUE]
            asGet == IF W.protocol = "h1" THEN H1Wire(built, get, FALSE) ELSE send_canonical_response(built, get)
        IN asGet.provenance = "Service" /\ built.body.kind # "EmptyWithLength" =>
              asGet.status = W.status /\ get_all(asGet.headers, "content-length") = WireFields("content-length")

\* One service response has one head: HTTP/1 and HTTP/3 send the same fields of it,
\* but for the fields of the hop, the trailer announcement and Alt-Svc.
HeadsAgree ==
    LET own == {"connection", "trailer", "alt-svc"}
        ignored == IF message.body.trailers THEN own \cup {"content-length"} ELSE own
    IN Sent /\ W.protocol = "h3" /\ W.provenance = "Service" /\ context.permit
       /\ (\A f \in {"server", "date"} : context.policy.owner[f] = "EggServe") =>
          LET h1 == H1Wire(message, context, FALSE)
          IN h1.status = W.status /\ remove_all(h1.headers, ignored) = remove_all(W.headers, ignored)

\* The response policy has the last word on every path, errors and rejections
\* included: no denylisted field but the operator's Server, one Date when there is a
\* clock, and no Last-Modified after it.
PolicyHasLastWord ==
    Sent =>
        LET policy == context.policy
            owns(f) == W.protocol = "h3" \/ W.provenance = "Runtime" \/ policy.owner[f] = "EggServe"
            nums(f) == [i \in DOMAIN WireFields(f) |-> WireFields(f)[i].num]
        IN /\ \A n \in policy.stripped \ {"server"} : ~ contains(W.headers, n)
           /\ owns("server") => nums("server") = policy.server
           /\ owns("date") => nums("date") = policy.now
           /\ Len(nums("date")) <= 1
           /\ LET date == get_first(W.headers, "date")
                  last == get_first(W.headers, "last-modified")
              IN date # <<>> /\ last # <<>> => last[1].num <= date[1].num

\* Trailers go out on HTTP/1 only to a 1.1 client that asked for them, announced by
\* the one Trailer field and without a Content-Length.
TrailersNegotiated ==
    Sent /\ W.protocol = "h1" /\ W.rejection = <<>> =>
        /\ W.trailers <=> contains(W.headers, "trailer")
        /\ W.trailers =>
              /\ context.req.version = "1.1" /\ ~ IsHead
              /\ contains(context.req.te, "te") /\ "trailers" \in context.req.te[1].toks
              /\ [i \in DOMAIN WireFields("trailer") |-> WireFields("trailer")[i].toks]
                    = <<built.body.declaration>>
              /\ ~ contains(W.headers, "content-length")

\* No hop-by-hop field of a service reaches the wire, Connection-named ones included:
\* Connection and Trailer are the runtime's.
HopFieldsAreRuntimes ==
    Sent /\ W.rejection = <<>> =>
        LET named == UNION {f.toks : f \in {built.headers[i] : i \in {j \in DOMAIN built.headers :
                                                              built.headers[j].name = "connection"}}}
        IN \A i \in DOMAIN W.headers :
              LET f == W.headers[i]
              IN /\ is_hop_by_hop_header(f.name) =>
                       /\ W.protocol = "h1" /\ f.name \in {"connection", "trailer"}
                       /\ f.name = "connection" => f.toks = {"close"}
                 /\ W.provenance = "Service" /\ f.name \in named
                       => f.name \in {"server", "date", "content-length", "connection", "alt-svc", "trailer"}

\* A presenter changes the text of a rejection and nothing else: the status stays
\* the runtime's, the body stays within its limit, and HEAD announces its length.
RejectionsBounded ==
    Sent /\ W.rejection # <<>> =>
        LET p == W.rejection[2]
            limit == IF MaxRejectionBody < ErrorBytes THEN ErrorBytes ELSE MaxRejectionBody
        IN /\ W.status = W.rejection[1]
           /\ W.bytes[1] <= limit
           /\ Len(W.headers) <= MaxRejectionFields + 4
           /\ \A i \in DOMAIN WireFields("content-length") : WireFields("content-length")[i].num \in {0, p.len, ErrorBytes}

(***************************************************************************)
(* Stronger statements, which the code does not keep                       *)
(***************************************************************************)
\* "an unknown length omits Content-Length (never invents 0)": a HEAD response that
\* was normalised early and then edited is normalised again from its empty body.
UnknownNeverBecomesZero ==
    Sent /\ W.rejection = <<>> /\ W.provenance = "Service" /\ built.body.len = <<>>
    /\ permits_payload_body(W.status) => WireFields("content-length") = <<>>

\* "framing, hop-by-hop, Date, and Server fields are ignored" of a presentation: the
\* list of ignored fields has neither te nor the proxy fields.
PresentedFieldsAreEndToEnd ==
    Sent /\ W.rejection # <<>> => \A i \in DOMAIN W.headers : ~ is_hop_by_hop_header(W.headers[i].name)

\* The head on the wire and the body behind it say the same thing, whichever
\* service, policy and normalization order made them: framing matches the body,
\* HEAD announces GET, normalizing early is invisible, trailers are negotiated.
FramingIsRight ==
    FramingMatchesBody /\ HeadAnnouncesGet /\ EagerNormalizeInvisible /\ TrailersNegotiated /\ HeadsAgree

\* The runtime has the last word on the fields it owns: no hop-by-hop field of a
\* service leaves, the response policy is applied after every edit, and what a
\* rejection presenter supplies is bounded (response_policy.rs, rejection.rs).
RuntimeOwnsItsFields == HopFieldsAreRuntimes /\ PolicyHasLastWord /\ RejectionsBounded
=============================================================================
