--------------------------- MODULE Configuration ---------------------------
(***************************************************************************)
(* From the limits an operator sets to the values a connection is driven   *)
(* by.  Three front ends set them: the direct RuntimeConfigBuilder, the    *)
(* compatibility builder around it, and the command line through Limits    *)
(* and ServeConfig.  All must agree with one validation kernel             *)
(* (runtime_limits.rs), and the projections between the five record types  *)
(* on the way copy their fields one by one.                                *)
(*                                                                         *)
(* A setting is a function from the fields it sets to values.  Durations   *)
(* are whole seconds; MaxPermits stands for Semaphore::MAX_PERMITS and     *)
(* MaxListed for the 10 MiB ceiling of both listing budgets.  The set of   *)
(* trusted proxies, which has a validator of its own, is left out.         *)
(***************************************************************************)
EXTENDS Integers, FiniteSets

CONSTANTS
    MaxPermits,
    MaxListed,
    Settings,        \* what a front end sets, over the fields below
    TransportSets,   \* the HTTP/2 and HTTP/3 settings offered
    PolicySets       \* the response policies and overrides offered

VARIABLES
    route,     \* the front end: "direct", "compat", "literal" or "limits"
    setting,   \* what it sets
    transport, \* its HTTP/2 and HTTP/3 settings
    policySet, \* its response policy and the overrides of single fields
    stage,     \* how far the configuration has come
    config     \* the record built so far; <<>> before and when refused

confVars == <<route, setting, transport, policySet, stage, config>>

Unlimited == -1

Permits == {"max_connections", "max_file_streams", "max_in_flight_requests", "max_active_tunnels"}
PositiveTimes ==
    {"header_read_timeout", "tls_handshake_timeout", "handler_timeout", "body_read_timeout",
     "graceful_shutdown_timeout", "keep_alive_idle_timeout", "response_write_timeout"}
WithinTotal == {"header_read_timeout", "handler_timeout", "body_read_timeout"}
Sizes ==
    {"stream_chunk_size", "max_request_body_bytes", "max_buf_size", "max_headers", "max_header_bytes",
     "max_request_target_bytes"}
SharedFields == Permits \cup PositiveTimes \cup Sizes \cup {"connection_total_timeout", "max_requests_per_connection"}

DEFAULTS ==
    [f \in SharedFields |->
        CASE f = "max_file_streams" -> 32
          [] f \in Permits \ {"max_file_streams"} -> 64
          [] f \in {"header_read_timeout", "tls_handshake_timeout", "graceful_shutdown_timeout"} -> 10
          [] f \in {"handler_timeout", "body_read_timeout", "response_write_timeout"} -> 30
          [] f \in {"connection_total_timeout", "keep_alive_idle_timeout"} -> 60
          [] f = "max_requests_per_connection" -> Unlimited
          [] f = "max_request_body_bytes" -> 0
          [] f = "stream_chunk_size" -> 128 * 1024
          [] f = "max_buf_size" -> 64 * 1024
          [] f = "max_headers" -> 100
          [] f = "max_header_bytes" -> 32 * 1024
          [] f = "max_request_target_bytes" -> 8192]

(* The least and the greatest accepted size; Unlimited where only the      *)
(* lower bound is enforced.                                                *)
Bounds ==
    [f \in Sizes |->
        CASE f = "stream_chunk_size" -> [min |-> 64, max |-> 1024 * 1024]
          [] f = "max_request_body_bytes" -> [min |-> 0, max |-> 1024 * 1024 * 1024]
          [] f = "max_buf_size" -> [min |-> 8192, max |-> Unlimited]
          [] f = "max_headers" -> [min |-> 1, max |-> Unlimited]
          [] f = "max_header_bytes" -> [min |-> 1024, max |-> 1024 * 1024]
          [] f = "max_request_target_bytes" -> [min |-> 128, max |-> 64 * 1024]]

(***************************************************************************)
(* The validation kernel                                                   *)
(***************************************************************************)

PermitViolations(v) == {f \in Permits : v[f] = 0 \/ v[f] > MaxPermits}

(* A total of zero disables only the ceiling on the connection's life.     *)
DeadlineViolations(v) ==
    {f \in PositiveTimes : v[f] = 0}
    \cup {f \in WithinTotal : v["connection_total_timeout"] # 0 /\ v[f] > v["connection_total_timeout"]}

SizeViolations(v) ==
    {f \in Sizes : v[f] < Bounds[f].min \/ (Bounds[f].max # Unlimited /\ v[f] > Bounds[f].max)}

RequestViolations(v) == {f \in {"max_requests_per_connection"} : v[f] = 0}

shared_validate(v) == PermitViolations(v) \cup DeadlineViolations(v) \cup SizeViolations(v) \cup RequestViolations(v)

(***************************************************************************)
(* Response policy: overrides of single fields are laid over the policy,   *)
(* and the result is validated.                                            *)
(***************************************************************************)

PolicyDefault == [server |-> "none", date |-> "clock", stripped |-> {}, error |-> "Minimal"]

ComposePolicy(p) ==
    [k \in DOMAIN PolicyDefault |-> IF k \in DOMAIN p.over THEN p.over[k]
                                    ELSE IF p.base = <<>> THEN PolicyDefault[k] ELSE p.base[1][k]]

(* Framing and hop-by-hop fields, Date and Content-Range cannot be         *)
(* stripped.                                                               *)
BLOCKED == {"date", "content-length", "transfer-encoding", "connection", "keep-alive", "proxy-authenticate",
            "proxy-authorization", "proxy-connection", "te", "trailer", "upgrade", "content-range"}
policy_valid(p) == p.server # "bad" /\ p.stripped \cap BLOCKED = {}

(***************************************************************************)
(* HTTP/2 and HTTP/3 settings, validated only when enabled; valid stands   *)
(* for what their own validators say of the rest of their fields.          *)
(***************************************************************************)

TransportDefault == [http2 |-> [enabled |-> TRUE, valid |-> TRUE], http3 |-> [enabled |-> FALSE, valid |-> TRUE]]
transport_valid(t) == (t.http2.enabled => t.http2.valid) /\ (t.http3.enabled => t.http3.valid)

(***************************************************************************)
(* The front ends                                                          *)
(***************************************************************************)

Over(defaults, set) == [f \in DOMAIN defaults |-> IF f \in DOMAIN set THEN set[f] ELSE defaults[f]]

Refused == <<>>
Runtime(shared, policy, t) == <<[shared |-> shared, policy |-> policy, transport |-> t]>>

(* RuntimeConfigBuilder::build of the direct runtime.                      *)
direct_build(set, p) ==
    LET shared == Over(DEFAULTS, set)
        policy == ComposePolicy(p)
    IN  IF shared_validate(shared) # {} \/ ~ policy_valid(policy) THEN Refused
        ELSE Runtime(shared, policy, TransportDefault)

(* Mutant: the HTTP/3 switch of a validated record is not looked at again. *)
(* from_direct_config: the direct fields with the transports beside them.  *)
from_direct_config(direct, t) == Runtime([f \in SharedFields |-> direct.shared[f]], direct.policy, t)

compat_build(set, p, t) ==
    LET direct == direct_build(set, p)
    IN  IF direct = Refused \/ ~ transport_valid(t) THEN Refused ELSE from_direct_config(direct[1], t)

(* RuntimeConfig::validate, for a record filled in by hand.                *)
runtime_valid(c) ==
    shared_validate([f \in SharedFields |-> c.shared[f]]) = {} /\ policy_valid(c.policy) /\ transport_valid(c.transport)

(* Limits has no tunnel budget and two budgets of its own.                 *)
LimitsFields == SharedFields \ {"max_active_tunnels"}
ListingFields == {"max_listing_entries", "max_listing_response_bytes"}
LimitsDefaults ==
    [f \in LimitsFields \cup ListingFields |-> IF f \in ListingFields THEN 1 ELSE DEFAULTS[f]]

shared_from_limits(limits) ==
    [f \in SharedFields |-> IF f \in LimitsFields THEN limits[f] ELSE DEFAULTS[f]]

limits_validate(limits) ==
    shared_validate(shared_from_limits(limits))
    \cup {f \in ListingFields : limits[f] = 0 \/ limits[f] > MaxListed}

(* The response policy of a ServeConfig is the default one, but for the    *)
(* representation of errors.                                               *)
from_shared_runtime(shared, error) ==
    Runtime(shared, [PolicyDefault EXCEPT !.error = error], TransportDefault)

(* Args::limits: what the command line gives, over the defaults.           *)
args_limits(set) == Over(LimitsDefaults, set)

try_from_serve_config(limits, error) ==
    IF limits_validate(limits) # {} THEN Refused ELSE from_shared_runtime(shared_from_limits(limits), error)

(***************************************************************************)
(* What drives a connection                                                *)
(***************************************************************************)

(* The semaphores, and the policy each connection is driven by.            *)
H1Fields == SharedFields \ (Permits \cup {"tls_handshake_timeout"})

(* Mutant: one field is copied from its neighbour.                         *)
direct_h1_config(c) == [shared |-> [f \in SharedFields |-> c.shared[f]], policy |-> c.policy]
h1_connection_policy(d) == [limits |-> [f \in H1Fields |-> d.shared[f]], policy |-> d.policy]
RuntimePermits(c) == [f \in Permits |-> c.shared[f]]

(***************************************************************************)
(* Behaviour                                                               *)
(***************************************************************************)

ErrorOf(p) == IF "error" \in DOMAIN p.over THEN p.over.error ELSE "Minimal"

ConfInit ==
    /\ route \in {"direct", "compat", "literal", "limits"}
    /\ setting \in Settings /\ transport \in TransportSets /\ policySet \in PolicySets
    /\ (route = "limits" => "max_active_tunnels" \notin DOMAIN setting)
    /\ (route # "limits" => DOMAIN setting \subseteq SharedFields)
    /\ stage = "set" /\ config = <<>>

Configure ==
    /\ stage = "set"
    /\ config' = CASE route = "direct" -> direct_build(setting, policySet)
                    [] route = "compat" -> compat_build(setting, policySet, transport)
                    [] route = "literal" -> Runtime(Over(DEFAULTS, setting), ComposePolicy(policySet), transport)
                    [] route = "limits" -> try_from_serve_config(args_limits(setting), ErrorOf(policySet))
    /\ stage' = IF config' = Refused THEN "refused" ELSE "built"
    /\ UNCHANGED <<route, setting, transport, policySet>>

(* The command line switches HTTP/3 on in the record it was given.         *)
EnableHttp3 ==
    /\ stage = "built" /\ route = "limits" /\ ~ config[1].transport.http3.enabled
    /\ config' = <<[config[1] EXCEPT !.transport.http3 = transport.http3]>>
    /\ transport.http3.enabled
    /\ UNCHANGED <<route, setting, transport, policySet, stage>>

(* ServerBuilder::build validates whatever record it was handed.           *)
ServerBuild ==
    /\ stage = "built"
    /\ stage' = IF runtime_valid(config[1]) THEN "ready" ELSE "refused"
    /\ config' = IF stage' = "ready" THEN config ELSE Refused
    /\ UNCHANGED <<route, setting, transport, policySet>>

Serve ==
    /\ stage = "ready"
    /\ stage' = "serving"
    /\ config' = <<[driver |-> h1_connection_policy(direct_h1_config(config[1])),
                    permits |-> RuntimePermits(config[1]), transport |-> config[1].transport]>>
    /\ UNCHANGED <<route, setting, transport, policySet>>

ConfNext == Configure \/ EnableHttp3 \/ ServerBuild \/ Serve

ConfSpec == ConfInit /\ [][ConfNext]_confVars

(***************************************************************************)
(* Properties                                                              *)
(***************************************************************************)

Asked(f) == IF f \in DOMAIN setting THEN setting[f] ELSE DEFAULTS[f]

(* A connection is driven by exactly the values that were asked for, and   *)
(* by the defaults where nothing was, whichever front end was used: no     *)
(* projection between the record types drops, crosses or resets a field.   *)
ServedAsAsked ==
    stage = "serving" =>
        /\ \A f \in H1Fields : config[1].driver.limits[f] = Asked(f)
        /\ \A f \in Permits : config[1].permits[f] = Asked(f)
        /\ config[1].driver.policy = IF route = "limits" THEN [PolicyDefault EXCEPT !.error = ErrorOf(policySet)]
                                     ELSE ComposePolicy(policySet)

(* What the connection models take for granted of a served configuration:  *)
(* every semaphore can be entered, every deadline is in the future, none   *)
(* outlives an enabled total, and an enabled transport is a valid one.     *)
ServedIsUsable ==
    stage = "serving" =>
        LET c == config[1] IN
        /\ \A f \in Permits : c.permits[f] \in 1..MaxPermits
        /\ \A f \in PositiveTimes \cap H1Fields : c.driver.limits[f] > 0
        /\ \/ c.driver.limits["connection_total_timeout"] = 0
           \/ \A f \in WithinTotal : c.driver.limits["connection_total_timeout"] >= c.driver.limits[f]
        /\ c.driver.limits["max_requests_per_connection"] # 0
        /\ c.driver.limits["max_buf_size"] >= 8192
        /\ transport_valid(c.transport)

(* The front ends refuse alike: what one of them refuses, the kernel finds *)
(* wrong in the values asked for, or the policy or a transport is invalid. *)
RefusedForAReason ==
    stage = "refused" =>
        \/ \E f \in ListingFields \cap DOMAIN setting : setting[f] = 0 \/ setting[f] > MaxListed
        \/ shared_validate([f \in SharedFields |-> Asked(f)]) # {}
        \/ ~ policy_valid(ComposePolicy(policySet)) \/ ~ transport_valid(transport)

(* Configuration is faithful from every front end to the connection        *)
(* (config.rs, config/runtime.rs, limits.rs, runtime_limits.rs).           *)
ConfigurationIsFaithful == ServedAsAsked /\ ServedIsUsable /\ RefusedForAReason
=============================================================================
