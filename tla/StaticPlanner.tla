---------------------------- MODULE StaticPlanner ----------------------------
(***************************************************************************)
(* The response planner of eggserve-static (planner.rs): a pure function   *)
(* from file metadata and the conditional request headers to a plan.       *)
(*                                                                         *)
(* An optional value is a sequence of length at most one.  A time is a     *)
(* number of clock ticks since the epoch, negative before it; an HTTP date *)
(* counts whole seconds of TicksPerSecond ticks.  An entity tag is the     *)
(* opaque pair of size and modification time, weak or strong.              *)
(***************************************************************************)
EXTENDS Integers, Sequences

CONSTANTS TicksPerSecond,   \* resolution of the file system clock
          U64Max            \* the largest number a position may spell

ASSUME TicksAssumption == TicksPerSecond \in Nat \ {0}

BadDate == -1        \* a date header value that does not parse
NoDigits == -1       \* an empty position of a range
Junk == -2           \* a position that is not all digits

None == <<>>

Some(v) == <<v>>

\* FileRange of primitives/response.rs: both ends are inside.
FileRange_new(start, end_inclusive) == [start |-> start, end |-> end_inclusive]

FileRange_len(r) == IF r.end < r.start THEN 0 ELSE r.end - r.start + 1

\* A list header: the members of its comma-separated value.
Star == [weak |-> FALSE, op |-> <<>>]

Wildcard(h) == h = <<Star>>

(***************************************************************************)
(* Validators                                                              *)
(***************************************************************************)
\* meta = [len, mtime]; mtime is None where the platform has no time.
generate_etag(meta) ==
    IF meta.mtime = None THEN None
    ELSE Some([weak |-> TRUE, op |-> <<meta.len, meta.mtime[1]>>])

\* fmt_http_date has no pre-epoch dates and drops the sub-second part.
LastModified(meta) ==
    IF meta.mtime = None \/ (meta.mtime # None /\ meta.mtime[1] < 0) THEN None
    ELSE Some(meta.mtime[1] \div TicksPerSecond)

parse_http_date(s) == IF s = BadDate THEN None ELSE Some(s)

\* The optional date header h parses, a modification time is known, and the
\* two compare as Op says.
DatesCompare(lm, h, Op(_, _)) ==
    /\ h # None /\ lm # None
    /\ parse_http_date(h[1]) # None
    /\ Op(lm[1], parse_http_date(h[1])[1])

(***************************************************************************)
(* Preconditions                                                           *)
(***************************************************************************)
evaluate_if_match(members, etag) ==
    IF Wildcard(members) THEN etag # None
    ELSE /\ etag # None
         /\ ~ etag[1].weak
         /\ \E i \in DOMAIN members : members[i] = etag[1]

evaluate_if_none_match(members, tag) ==
    Wildcard(members) \/ \E i \in DOMAIN members : members[i].op = tag.op

\* Mutant: a stale If-None-Match falls through to the date.
evaluate_conditional_headersDates(tag, lm, inm, ims) ==
    \/ inm # None /\ evaluate_if_none_match(inm[1], tag)
    \/ DatesCompare(lm, ims, LAMBDA a, b : a <= b)

\* With a tag, If-None-Match decides alone; dates only speak in its absence.
evaluate_conditional_headers(tag, lm, inm, ims) ==
    IF inm # None THEN evaluate_if_none_match(inm[1], tag)
    ELSE DatesCompare(lm, ims, LAMBDA a, b : a <= b)

\* The header set of a 304, or None when the request is not answered by one.
evaluate_cache_validation(etag, lm, inm, ims) ==
    IF etag # None
    THEN IF evaluate_conditional_headers(etag[1], lm, inm, ims)
         THEN Some([etag |-> etag, lm |-> lm]) ELSE None
    ELSE IF inm # None
    THEN IF Wildcard(inm[1]) THEN Some([etag |-> None, lm |-> lm]) ELSE None
    ELSE IF DatesCompare(lm, ims, LAMBDA a, b : a <= b)
    THEN Some([etag |-> None, lm |-> lm]) ELSE None

(***************************************************************************)
(* Ranges.  A range header is [unit, specs]; a spec is [dash, first, last].*)
(***************************************************************************)
Satisfiable(r)  == [kind |-> "Satisfiable", range |-> Some(r)]
NotSatisfiable  == [kind |-> "NotSatisfiable", range |-> None]
Malformed       == [kind |-> "MalformedOrUnsupported", range |-> None]
MultipleRanges  == [kind |-> "MultipleRanges", range |-> None]

\* Digits only, and within 64 bits.
parse_u64_digits(s) == IF s \in 0 .. U64Max THEN Some(s) ELSE None

ParseSuffix(last, file_size) ==
    LET n     == parse_u64_digits(last)
        start == IF n[1] > file_size THEN 0 ELSE file_size - n[1]   \* saturating_sub
    IN  IF n = None THEN Malformed
        ELSE IF n[1] = 0 \/ start >= file_size THEN NotSatisfiable
        ELSE Satisfiable(FileRange_new(start, file_size - 1))

ParseFirstLast(first, last, file_size) ==
    LET a == parse_u64_digits(first)
        b == parse_u64_digits(last)
    IN  IF a = None THEN Malformed
        ELSE IF last = NoDigits
        THEN IF a[1] >= file_size THEN NotSatisfiable
             ELSE Satisfiable(FileRange_new(a[1], file_size - 1))
        ELSE IF b = None \/ (b # None /\ a[1] > b[1]) THEN Malformed
        ELSE IF a[1] >= file_size THEN NotSatisfiable
        ELSE Satisfiable(FileRange_new(a[1], IF b[1] < file_size - 1 THEN b[1] ELSE file_size - 1))

parse_single_range(spec, file_size) ==
    IF file_size = 0 THEN NotSatisfiable
    ELSE IF ~ spec.dash THEN Malformed
    ELSE IF spec.first = NoDigits THEN ParseSuffix(spec.last, file_size)
    ELSE ParseFirstLast(spec.first, spec.last, file_size)

evaluate_range_header(range, file_size) ==
    IF range.unit # "bytes" \/ range.specs = <<>> THEN Malformed
    ELSE IF Len(range.specs) > 1 THEN MultipleRanges
    ELSE parse_single_range(range.specs[1], file_size)

\* If-Range is [kind, tag, date]: a strong comparison, or a date not before
\* the modification time.
evaluate_if_range(ifr, etag, lm) ==
    CASE ifr.kind = "tag"  -> ~ ifr.tag.weak /\ etag # None /\ ~ etag[1].weak /\ etag[1] = ifr.tag
      [] ifr.kind = "date" -> DatesCompare(lm, Some(ifr.date), LAMBDA a, b : a <= b)
      [] ifr.kind = "empty" -> FALSE

if_range_allows_range(ifr, etag, lm) == ifr = None \/ evaluate_if_range(ifr[1], etag, lm)

(***************************************************************************)
(* Plans: the status, the framing headers and the body the plan names.     *)
(***************************************************************************)
Plan(status, clen, crange, etag, lm, body) ==
    [status |-> status, content_length |-> clen, content_range |-> crange,
     etag |-> etag, lm |-> lm, body |-> body]

NoBody == [kind |-> "Empty", range |-> None]

build_precondition_failed == Plan(412, Some(0), None, None, None, NoBody)

build_full_response(method, len, etag, lm) ==
    Plan(200, Some(len), None, etag, lm,
         IF method = "HEAD" THEN NoBody ELSE [kind |-> "FileFull", range |-> None])

build_range_response(method, range, file_size, etag, lm) ==
    Plan(206, Some(FileRange_len(range)), Some([range |-> Some(range), size |-> file_size]), etag, lm,
         IF method = "HEAD" THEN NoBody ELSE [kind |-> "FileRange", range |-> Some(range)])

build_not_range_satisfiable(file_size) ==
    Plan(416, Some(0), Some([range |-> None, size |-> file_size]), None, None, NoBody)

plan_directory_listing(len, is_head) ==
    Plan(200, IF is_head THEN Some(len) ELSE None, None, None, None,
         IF is_head THEN NoBody ELSE [kind |-> "FullBytes", range |-> None])

\* RFC 9110 13.2.2 steps 1 and 2: the lost-update preconditions.
PreconditionFails(etag, lm, im, ius) ==
    IF im # None
    THEN ~ Wildcard(im[1]) /\ ~ (etag # None /\ evaluate_if_match(im[1], etag))
    ELSE DatesCompare(lm, ius, LAMBDA a, b : a > b)

\* Step 4: what the Range header makes of a request that passed 1 to 3.
RangePlan(req, meta, etag, lm) ==
    LET outcome == evaluate_range_header(req.range[1], meta.len)
        allowed == if_range_allows_range(req.if_range, etag, lm)
    IN  IF outcome.kind = "Satisfiable" /\ allowed
        THEN build_range_response(req.method, outcome.range[1], meta.len, etag, lm)
        ELSE IF outcome.kind = "NotSatisfiable" /\ allowed
        THEN build_not_range_satisfiable(meta.len)
        ELSE build_full_response(req.method, meta.len, etag, lm)

\* plan_file_response_with_preconditions_and_metadata; policy =
\* [emit_etag, emit_last_modified].
PlanWithMetadata(req, meta, policy) ==
    LET etag == IF policy.emit_etag THEN generate_etag(meta) ELSE None
        lm   == IF policy.emit_last_modified THEN LastModified(meta) ELSE None
        not_modified == evaluate_cache_validation(etag, lm, req.if_none_match, req.if_modified_since)
    IN  IF PreconditionFails(etag, lm, req.if_match, req.if_unmodified_since)
        THEN build_precondition_failed
        ELSE IF not_modified # None
        THEN Plan(304, None, None, not_modified[1].etag, not_modified[1].lm, NoBody)
        ELSE IF req.range # None THEN RangePlan(req, meta, etag, lm)
        ELSE build_full_response(req.method, meta.len, etag, lm)

=============================================================================
