---------------------------- MODULE RequestIntake ----------------------------
(***************************************************************************)
(* What the HTTP/1 pipeline does with a request before the service sees    *)
(* it: the head conversion with its ceilings, the authority, TRACE, the    *)
(* body policy, the framing, Expect, and the tunnel classification.  Every *)
(* check is an early return, so a request is refused by the first that     *)
(* fails.                                                                  *)
(*                                                                         *)
(* A request is the record of what the checks read.  Lengths stand for     *)
(* bytes, authorities and methods are names, "bad" does not parse, and     *)
(* Options are sequences.  Framing that the HTTP parser in front would     *)
(* refuse is included: the checks are written for other parsers too.       *)
(***************************************************************************)
EXTENDS Integers, Sequences, FiniteSets

CONSTANTS IntakeRequests,   \* the requests of the model
          IntakePolicies,   \* [max_target, max_header, max_body : Option, absolute : BOOLEAN]
          ServicePolicies   \* RequestBodyPolicy: [kind, max]

ASSUME IntakeAssumption ==
    /\ \A r \in IntakeRequests :
          /\ r.uri \in Seq(STRING) /\ Len(r.uri) <= 1 /\ r.hosts \in Seq(STRING)
          /\ r.lengths \in Seq(Int)
          /\ r.expects \in Seq({"100-continue", "empty", "other", "opaque"})
    /\ \A l \in IntakePolicies : l.max_body \in Seq(Nat)
    /\ ServicePolicies \subseteq [kind : {"Reject", "Buffer", "Stream"}, max : Nat]

VARIABLES incoming,         \* the request
          limits,           \* the policy of the connection
          wanted,           \* request_body_policy of the service for this request
          intake            \* <<>>, or how the request was answered or dispatched

intakeVars == <<incoming, limits, wanted, intake>>

IntakeInit ==
    /\ incoming \in IntakeRequests
    /\ limits \in IntakePolicies
    /\ wanted \in ServicePolicies
    /\ intake = <<>>

Exceeds(n, limit) == limit # <<>> /\ n > limit[1]

KeepAlive == FALSE
CloseAndCancel == TRUE

\* The first check that fails answers; 0 is no failure.
Check(fails, status, close) == [status |-> IF fails THEN status ELSE 0, close |-> close]
FirstFailure(checks) ==
    LET failed == {i \in DOMAIN checks : checks[i].status # 0}
    IN IF failed = {} THEN <<>>
       ELSE <<checks[CHOOSE i \in failed : \A j \in failed : i <= j]>>

(***************************************************************************)
(* convert_request_head                                                    *)
(***************************************************************************)
is_connect_authority_form(r) == r.form = "authority" /\ r.method = "CONNECT"

Authority_parse(a) == a # "bad"

\* RequestTarget::parse and from_absolute_components; CONNECT has "/" for a target.
target_parses(r) ==
    \/ is_connect_authority_form(r)
    \/ r.form = "absolute" /\ Authority_parse(r.uri[1]) /\ r.target = "ok"
    \/ r.form \notin {"authority", "absolute"} /\ r.target = "ok"

\* Every Host line must parse, and all of them must name the same authority.
host_invalid(r) == \E i \in DOMAIN r.hosts : ~ Authority_parse(r.hosts[i])
host_conflictFirstOnly(r) == FALSE

host_conflict(r) == \E i \in DOMAIN r.hosts : r.hosts[i] # r.hosts[1]

authority_conflict(r) == r.uri # <<>> /\ r.hosts # <<>> /\ r.uri[1] # r.hosts[1]

authority_of(r) == IF r.uri # <<>> THEN r.uri ELSE IF r.hosts # <<>> THEN <<r.hosts[1]>> ELSE <<>>

convert_request_head(r, l) ==
    << Check(r.method = "bad", 400, KeepAlive),
       Check(r.version \notin {"1.0", "1.1"}, 505, KeepAlive),
       Check(Exceeds(r.target_len, l.max_target), 414, KeepAlive),
       Check(r.uri # <<>> /\ Exceeds(r.uri_len, l.max_target), 414, KeepAlive),
       Check(r.form = "absolute" /\ ~ l.absolute, 400, KeepAlive),
       Check(r.form = "asterisk", 405, KeepAlive),
       Check(r.form = "authority" /\ ~ is_connect_authority_form(r), 405, KeepAlive),
       Check(~ target_parses(r), 400, KeepAlive),
       Check(Exceeds(r.header_bytes, l.max_header), 431, KeepAlive),
       Check(~ r.fields_valid, 400, KeepAlive),
       Check(host_invalid(r), 400, KeepAlive),
       Check(r.uri # <<>> /\ ~ Authority_parse(r.uri[1]), 400, KeepAlive),
       Check(host_conflict(r), 400, KeepAlive),
       Check(authority_conflict(r), 400, KeepAlive) >>

(***************************************************************************)
(* Framing, body policy and Expect                                         *)
(***************************************************************************)
declared_length(r) == IF r.lengths = <<>> \/ r.lengths[1] < 0 THEN <<>> ELSE <<r.lengths[1]>>

has_body(r) == r.te \/ (declared_length(r) # <<>> /\ declared_length(r)[1] > 0)

trace_with_content(r) == r.method = "TRACE" /\ has_body(r)

validate_body_framing(r) ==
    /\ ~ (r.te /\ r.lengths # <<>>)
    /\ Len(r.lengths) <= 1
    /\ \A i \in DOMAIN r.lengths : r.lengths[i] >= 0

\* The service's wish, under the ceiling of the runtime; nothing left means Reject.
select_body_policy(policy, max_body_bytes) ==
    LET effective == IF policy.max < max_body_bytes THEN policy.max ELSE max_body_bytes
    IN IF policy.kind = "Reject" \/ effective = 0
       THEN [kind |-> "Reject", max |-> 0]
       ELSE [policy EXCEPT !.max = effective]

select_body_policy_with_ceiling(policy, ceiling) ==
    IF ceiling = <<>> THEN policy ELSE select_body_policy(policy, ceiling[1])

effective_policy == select_body_policy_with_ceiling(wanted, limits.max_body)

\* All lines are looked at; an empty one means nothing.
unknown_expect(r) == \E i \in DOMAIN r.expects : r.expects[i] \in {"other", "opaque"}
expects_continue(r) == \E i \in DOMAIN r.expects : r.expects[i] = "100-continue"

intake_checks(r, policy) ==
    << Check(trace_with_content(r), 400, CloseAndCancel),
       Check(~ validate_body_framing(r), 400, KeepAlive),
       Check(policy.kind # "Reject" /\ Exceeds(IF declared_length(r) = <<>> THEN 0 ELSE declared_length(r)[1],
                                               <<policy.max>>), 413, CloseAndCancel),
       Check(unknown_expect(r), 417, KeepAlive),
       Check(policy.kind = "Reject" /\ expects_continue(r), 413, CloseAndCancel),
       Check(policy.kind = "Reject" /\ has_body(r), 413, CloseAndCancel) >>

(***************************************************************************)
(* Tunnel classification and dispatch                                      *)
(***************************************************************************)
\* Exactly one upgrade token in Connection and exactly one protocol in Upgrade.
classify_h1_upgrade(r) == r.upgrade_tokens = 1 /\ r.protocols = 1

classify_tunnel(r) ==
    IF has_body(r) \/ r.version # "1.1" THEN "none"
    ELSE IF r.method = "CONNECT" THEN (IF authority_of(r) # <<>> THEN "Connect" ELSE "none")
    ELSE IF classify_h1_upgrade(r) THEN "Http1Upgrade" ELSE "none"

\* A body that is known to have ended is empty; any other is wrapped, unread.
request_body_of(r, policy) ==
    IF policy.kind = "Reject" \/ r.end_stream THEN "empty" ELSE "wrapped"

Refuse(check) ==
    intake' = <<[status |-> check.status, close |-> check.close, policy |-> "none", max |-> 0,
                 tunnel |-> "none", body |-> "unread", authority |-> <<>>]>>

Dispatch ==
    intake' = <<[status |-> 0, close |-> FALSE, policy |-> effective_policy.kind,
                 max |-> effective_policy.max, tunnel |-> classify_tunnel(incoming),
                 body |-> request_body_of(incoming, effective_policy),
                 authority |-> authority_of(incoming)]>>

IntakeStep ==
    /\ intake = <<>>
    /\ LET refused == FirstFailure(convert_request_head(incoming, limits)
                                   \o intake_checks(incoming, effective_policy))
       IN IF refused # <<>> THEN Refuse(refused[1]) ELSE Dispatch
    /\ UNCHANGED <<incoming, limits, wanted>>

IntakeNext == IntakeStep

IntakeSpec == IntakeInit /\ [][IntakeNext]_intakeVars

(***************************************************************************)
(* Properties                                                              *)
(***************************************************************************)
Dispatched == intake # <<>> /\ intake[1].status = 0

\* Every authority a request names, in its host lines or in its target.
Authorities(r) == {r.hosts[i] : i \in DOMAIN r.hosts} \cup {r.uri[i] : i \in DOMAIN r.uri}

\* Whatever reaches the service has one meaning: one authority whichever line or
\* target names it, one body length, and no expectation the runtime does not keep.
DispatchedIsUnambiguous ==
    Dispatched =>
        /\ \A a, b \in Authorities(incoming) : a = b
        /\ "bad" \notin {incoming.hosts[i] : i \in DOMAIN incoming.hosts}
        /\ Len(incoming.lengths) <= 1 /\ (incoming.te => incoming.lengths = <<>>)
        /\ \A i \in DOMAIN incoming.expects : incoming.expects[i] \in {"100-continue", "empty"}

\* No body larger than the service or the runtime allows is invited or handed over,
\* and a service that takes none never sees one.
DispatchedWithinLimits ==
    Dispatched =>
        /\ ~ Exceeds(incoming.target_len, limits.max_target)
        /\ ~ Exceeds(incoming.header_bytes, limits.max_header)
        /\ intake[1].policy = "Reject" => ~ has_body(incoming) /\ ~ expects_continue(incoming)
        /\ intake[1].policy # "Reject" =>
              /\ intake[1].max <= wanted.max /\ (limits.max_body # <<>> => intake[1].max > 0)
              /\ ~ Exceeds(intake[1].max, limits.max_body)
              /\ declared_length(incoming) # <<>> => declared_length(incoming)[1] <= intake[1].max

\* A transition to another protocol never starts with request bytes pending: no
\* capability while a body is declared or chunked, none on HTTP/1.0, and CONNECT
\* only with an authority.
TunnelHasNoBody ==
    Dispatched /\ intake[1].tunnel # "none" =>
        /\ ~ incoming.te /\ (declared_length(incoming) = <<>> \/ declared_length(incoming)[1] = 0)
        /\ incoming.version = "1.1"
        /\ intake[1].tunnel = "Connect" => intake[1].authority # <<>>

(***************************************************************************)
(* Stronger statements, which the code does not keep                       *)
(***************************************************************************)
\* A refused request with a declared body closes the connection by the runtime's own
\* decision: for the head conversion, the framing check and 417 the disposition is
\* KEEP_ALIVE, and closing is left to the HTTP library that finds the body unread.
EveryRefusalWithBodyCloses ==
    intake # <<>> /\ intake[1].status # 0 /\ has_body(incoming) => intake[1].close

\* A request reaches a service only when its meaning is unique and within every
\* limit: one host, one length, no body beyond the narrower policy, none on a
\* tunnel (pipeline.rs, make_canonical_hyper_service).
DispatchIsSound == DispatchedIsUnambiguous /\ DispatchedWithinLimits /\ TunnelHasNoBody
=============================================================================
