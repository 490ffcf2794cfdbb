----------------------------- MODULE MCMessages -----------------------------
(***************************************************************************)
(* The message components, one per behaviour: part says which one acts,    *)
(* and the others stay as they start.                                      *)
(***************************************************************************)
EXTENDS ResponseMessage, StreamAdapter, InterimSender, RequestIntake, RequestBody, ConnectionPrelude,
        TlsIdentity

CONSTANT none

VARIABLE part

(***************************************************************************)
(* Network bodies of up to two chunks of one or two bytes, with every      *)
(* declared length, limit, ending and trailer slot that can tell the       *)
(* checks apart, and in-memory bodies of up to two chunks, cut into full   *)
(* pieces (2 stands for 8192) and a rest.                                  *)
(***************************************************************************)
Chunks == UNION {[1..n -> 1..2] : n \in 0..2}
Incoming ==
    [kind : {"Incoming"}, chunks : Chunks, end : {"eof", "error"},
     declared : {none} \cup 0..4, max : 0..3, slot : {"none", "valid", "invalid"}]
InMemory(kind, chunks) ==
    {[kind |-> kind, chunks |-> c, end |-> "eof", slot |-> "none", max |-> m,
      declared |-> IF kind = "Empty" THEN none ELSE FoldLeft(LAMBDA x, y : x + y, 0, c)] :
        c \in chunks, m \in 2..3}
Pieces == {c \in Chunks : \A i \in 1..(Len(c) - 1) : c[i] = 2}
MCBodies == Incoming \cup InMemory("Fixed", Pieces) \cup InMemory("Empty", {<<>>})

(***************************************************************************)
(* Responses                                                               *)
(***************************************************************************)

F(name, num) == Field(name, num, {})
Body(kind, len) == [kind |-> kind, len |-> len, trailers |-> FALSE, declaration |-> {}]
Trailered(len, declaration) == [Body("Stream", len) EXCEPT !.trailers = TRUE, !.declaration = declaration]
Resp(status, headers, b) == [status |-> status, headers |-> headers, body |-> b, normalized |-> FALSE]

MCResponseBodies == {BodyEmpty, EmptyWithLength(3), Body("Bytes", <<2>>), Body("File", <<2>>), Body("Stream", <<2>>),
             Body("Stream", <<>>), Trailered(<<>>, {"t"}), Trailered(<<2>>, {"t"}), Trailered(<<>>, {})}
MCHeads == {<<>>, <<F("content-length", 2)>>, <<F("content-length", 3), F("content-length", 2)>>,
            <<Field("connection", 0, {"etag", "close"}), F("etag", 1), F("te", 0)>>,
            <<F("last-modified", 6), F("server", 9)>>, <<F("date", 4), F("last-modified", 5)>>,
            <<F("date", 4), F("date", 5)>>, <<F("trailer", 0), F("alt-svc", 9)>>, <<F("date", NotANumber)>>}
MCResponses == {Resp(200, h, b) : h \in MCHeads, b \in MCResponseBodies}
               \cup {Resp(s, h, b) : s \in {204, 205, 304},
                        h \in {<<>>, <<F("content-length", 2)>>, <<F("content-length", 3), F("content-length", 2)>>},
                        b \in {BodyEmpty, Body("Bytes", <<2>>), Trailered(<<>>, {"t"})}}
MCMessageRequests == [is_head : BOOLEAN, version : {"1.1"}, te : {<<>>, <<Field("te", 0, {"trailers"})>>}]
                     \cup {[is_head |-> FALSE, version |-> "1.0", te |-> <<Field("te", 0, {"trailers"})>>]}
MessagePolicy(stripped, server, now, own, error) ==
    [stripped |-> stripped, server |-> server, now |-> now, owner |-> [server |-> own, date |-> own],
     error_policy |-> error, advertise |-> TRUE]
MCMessagePolicies == {MessagePolicy({}, <<7>>, <<5>>, "EggServe", "Minimal"),
                      MessagePolicy({"server", "etag", "alt-svc"}, <<>>, <<5>>, "EggServe", "Empty"),
                      MessagePolicy({}, <<7>>, <<>>, "EggServe", "Minimal"),
                      MessagePolicy({"etag"}, <<>>, <<5>>, "Application", "Minimal")}
MCEditFields == {F("content-length", 2), F("last-modified", 6)}
Presented(len, headers) == [outcome |-> "presented", len |-> len, headers |-> headers]
MCPresentations == {[outcome |-> o, len |-> 0, headers |-> <<>>] : o \in {"none", "panicked"}}
                   \cup {Presented(n, h) : n \in {0, 4, 5}, h \in {<<>>, <<F("content-length", 9), F("date", 9)>>,
                           <<F("x", 1), F("y", 1)>>, <<F("x", 1), F("y", 1), F("te", 1)>>}}

MCInterimCalls == {[status |-> s, fields |-> f] : s \in {100, 103}, f \in {{}, {"link"}, {"link", "te"}}}
                  \cup {[status |-> 101, fields |-> {}], [status |-> 103, fields |-> {"content-length"}],
                        [status |-> 103, fields |-> {"link", "x"}]}

(***************************************************************************)
(* Requests around an ordinary one                                         *)
(***************************************************************************)
Plain == [method |-> "GET", version |-> "1.1", form |-> "origin", target |-> "ok", target_len |-> 1,
          uri |-> <<>>, uri_len |-> 0, header_bytes |-> 1, fields_valid |-> TRUE, hosts |-> <<"h">>,
          te |-> FALSE, lengths |-> <<>>, expects |-> <<>>, upgrade_tokens |-> 0, protocols |-> 0,
          end_stream |-> TRUE]
Targets == {[Plain EXCEPT !.method = m, !.form = f, !.target = t, !.hosts = h,
                          !.uri = IF f \in {"absolute", "authority"} THEN <<u>> ELSE <<>>,
                          !.uri_len = l, !.target_len = l] :
               m \in {"GET", "CONNECT", "bad"}, f \in {"origin", "absolute", "authority", "asterisk"},
               t \in {"ok", "bad"}, u \in {"h", "g", "bad"}, l \in {1, 3},
               h \in {<<>>, <<"h">>, <<"h", "h">>, <<"h", "g">>, <<"bad">>}}
Framed == {[Plain EXCEPT !.method = m, !.te = te, !.lengths = n, !.expects = e, !.upgrade_tokens = up,
                         !.protocols = up, !.end_stream = ~ te /\ n \in {<<>>, <<0>>}] :
              m \in {"POST", "TRACE", "CONNECT"}, te \in BOOLEAN,
              n \in {<<>>, <<0>>, <<1>>, <<3>>, <<-1>>, <<1, 1>>}, up \in {0, 1},
              e \in {<<>>, <<"100-continue">>, <<"100-continue", "other">>, <<"empty">>, <<"opaque">>}}
Odd == {[Plain EXCEPT !.version = v, !.header_bytes = b, !.fields_valid = ok,
                      !.upgrade_tokens = 1, !.protocols = p] :
              v \in {"1.0", "1.1", "other"}, b \in {1, 3}, ok \in BOOLEAN, p \in {1, 2}}
MCIntakeRequests == Targets \cup Framed \cup Odd
MCIntakePolicies == {[max_target |-> <<2>>, max_header |-> <<2>>, max_body |-> b, absolute |-> a] :
                        b \in {<<>>, <<0>>, <<1>>}, a \in BOOLEAN}
                    \cup {[max_target |-> <<>>, max_header |-> <<>>, max_body |-> <<2>>, absolute |-> TRUE]}
MCServicePolicies == {[kind |-> "Reject", max |-> 0], [kind |-> "Stream", max |-> 0],
                      [kind |-> "Stream", max |-> 2], [kind |-> "Buffer", max |-> 3]}

(***************************************************************************)
(* Streams of a proxy and of a direct client                               *)
(***************************************************************************)
MCSignature == <<"CR", "LF", "S">>
MCV1Prefix == <<"P", "X">>
MCPreface == <<"P", "R", "I">>
MCHello == <<"H", "I">>
V2(command, length, rest) == MCSignature \o <<command, length>> \o rest
V1(text) == MCV1Prefix \o text \o <<"CR", "LF">>
Preambles == {V2("l", "0", <<>>), V2("i", "2", <<"a", "b">>), V2("i", "1", <<"a">>), V2("i", "3", <<"a", "b", "v">>),
              V2("x", "2", <<"a", "b">>), V2("q", "0", <<>>), V2("i", "2", <<"a">>), <<"CR", "LF">>,
              V1(<<"T", "a", "b">>), V1(<<"U">>), V1(<<"U", "a", "b", "v">>), V1(<<"T", "a">>), V1(<<>>),
              <<"P", "X", "T", "a">>, <<"P">>}
Payloads == {<<>>, MCPreface, MCPreface \o <<"z">>, <<"P", "R", "z">>, MCHello, <<"CR", "LF", "z">>}
MCStreams == {p \o q : p \in Preambles \cup {<<>>}, q \in Payloads}
Forwarding(s, l) == [standard |-> s, legacy |-> l, max_elements |-> 2, max_bytes |-> 2]
Prelude(proxy, peer, tls, h2, f) ==
    [proxy |-> proxy, trusted |-> {"p"}, peer |-> peer, tls |-> tls, h2 |-> h2, forwarded |-> f]
MCPreludeConfigs == {Prelude(proxy, "p", tls, h2, Forwarding(FALSE, FALSE)) : proxy, tls, h2 \in BOOLEAN}
                    \cup {Prelude(TRUE, "u", FALSE, TRUE, Forwarding(TRUE, TRUE))}
ForwardingStreams == {<<>>, V1(<<"T", "a", "b">>), V1(<<"U">>)}
ForwardingConfigs == {Prelude(proxy, peer, FALSE, FALSE, Forwarding(s, l)) : proxy, s, l \in BOOLEAN, peer \in {"p", "u"}}
Hop(f, p, h) == [for |-> f, proto |-> p, host |-> h]
Chains == {<<>>, <<Hop("c", <<"https">>, <<>>)>>, <<Hop("c", <<"https">>, <<"h">>), Hop("d", <<>>, <<"g">>)>>,
           <<Hop("bad", <<>>, <<>>), Hop("d", <<>>, <<>>)>>, <<Hop("c", <<>>, <<>>), Hop("unknown", <<"http">>, <<>>)>>,
           <<Hop("c", <<>>, <<>>), Hop("c", <<>>, <<>>), Hop("d", <<>>, <<>>)>>}
MCForwardRequests == {[standard |-> s, xff |-> f, xfp |-> p, xfh |-> <<>>, size |-> n] :
                         s \in Chains, f \in {<<>>, <<"c", "d">>, <<"c", "bad">>},
                         p \in {<<>>, <<"https">>}, n \in {2}}
                     \cup {[standard |-> s, xff |-> f, xfp |-> <<>>, xfh |-> <<"h">>, size |-> n] :
                         s \in {<<>>, <<Hop("c", <<"https">>, <<>>)>>}, f \in {<<"c", "c", "d">>}, n \in {2, 3}}

(***************************************************************************)
(* An operator's calls on a TLS builder, and the hellos of clients.        *)
(***************************************************************************)
TlsCall(op, list) == [op |-> op, name |-> <<>>, id |-> Identity(0, 0), list |-> list]
TlsAdd(name, n) == [op |-> "add", name |-> name, id |-> Identity(n, n), list |-> <<>>]
TlsDefault == [TlsAdd(<<>>, 14) EXCEPT !.op = "default"]
MCTlsCalls ==
    {TlsAdd(<<"A", "b", "c">>, 10), TlsAdd(<<"*", "b", "c">>, 11), TlsAdd(<<"*", "c">>, 13), TlsDefault,
     [TlsDefault EXCEPT !.id.keys = 2], TlsCall("http2", <<>>), TlsCall("alpn", <<"h2">>), TlsCall("alpn", <<"">>),
     TlsCall("disabled", <<>>), TlsCall("required", <<"r">>), TlsCall("optional", <<"r", "q">>),
     TlsCall("required", <<Junk>>), TlsCall("required", <<>>), TlsCall("crls", <<"r">>)}
MCTlsFileCalls == {TlsAdd(<<"a", "b", "c">>, 12)}
MCTlsRuntimes == {[h2 |-> b, expose |-> b] : b \in BOOLEAN}
Hello(sni, alpn, peer) == [sni |-> sni, alpn |-> alpn, peer |-> peer]
Peer(root, revoked, n) == <<[root |-> root, revoked |-> revoked, chain |-> n]>>
MCTlsHellos ==
    {Hello(s, <<"http/1.1", "h2">>, <<>>) :
        s \in {<<>>, << <<"a", "b", "c">> >>, << <<"x", "b", "c">> >>, << <<"b", "c">> >>, << <<"y", "x", "b", "c">> >>}}
    \cup {Hello(<< <<"x", "b", "c">> >>, <<"http/1.1">>, p) :
              p \in {Peer("r", FALSE, 1), Peer("r", TRUE, 1), Peer("q", FALSE, 3)}}
    \cup {Hello(<<>>, <<>>, Peer("z", FALSE, 1))}

(***************************************************************************)
(* One part at a time                                                      *)
(***************************************************************************)
MessageIdle ==
    /\ message = Resp(200, <<>>, BodyEmpty) /\ built = message /\ edits = <<>> /\ wire = <<>>
    /\ context = [req |-> [is_head |-> FALSE, version |-> "1.1", te |-> <<>>], permit |-> TRUE,
                  policy |-> MessagePolicy({}, <<>>, <<5>>, "EggServe", "Minimal")]
StreamIdle ==
    /\ producer = [yielded |-> 0, empties |-> 0, last |-> "none"]
    /\ adapter = adapter_new(<<>>, FALSE, <<>>)
    /\ frames = [bytes |-> 0, largest |-> 0, trailers |-> <<>>, afterTrailers |-> 0, error |-> FALSE]
    /\ streamCounters = [c \in StreamCounters |-> IF c = "streaming_started" THEN 1 ELSE 0]
InterimIdle ==
    /\ interim = [committed |-> FALSE, count |-> 0, bytes |-> 0, sent_continue |-> FALSE, recorded |-> <<>>]
    /\ http10 = FALSE /\ attempts = <<>>
IntakeIdle ==
    /\ incoming = Plain /\ wanted = [kind |-> "Reject", max |-> 0] /\ intake = <<>>
    /\ limits = [max_target |-> <<>>, max_header |-> <<>>, max_body |-> <<2>>, absolute |-> TRUE]
PreludeAt(s, c) ==
    /\ stream = s /\ setup = c /\ transport = <<s>>
    /\ gate = IF c.proxy THEN "proxy" ELSE NextGate(c)
    /\ buffer = <<>> /\ delivered = <<>> /\ endpoints = <<>> /\ wire_protocol = "none" /\ infos = <<>>

NoPrelude == PreludeAt(<<>>, Prelude(TRUE, "u", FALSE, FALSE, Forwarding(FALSE, FALSE)))
BodyRests == body = [kind |-> "Empty", chunks |-> <<>>, end |-> "eof", slot |-> "none",
                     max |-> 2, declared |-> none] /\ BodyInit

TlsRests == runtime = [h2 |-> TRUE, expose |-> TRUE] /\ TlsInit

MCInit ==
    \/ part = "message" /\ MessageInit /\ StreamIdle /\ InterimIdle /\ IntakeIdle /\ BodyRests /\ NoPrelude /\ TlsRests
    \/ part = "stream" /\ MessageIdle /\ StreamInit /\ InterimIdle /\ IntakeIdle /\ BodyRests /\ NoPrelude /\ TlsRests
    \/ part = "interim" /\ MessageIdle /\ StreamIdle /\ InterimInit /\ IntakeIdle /\ BodyRests /\ NoPrelude /\ TlsRests
    \/ part = "intake" /\ MessageIdle /\ StreamIdle /\ InterimIdle /\ IntakeInit /\ BodyRests /\ NoPrelude /\ TlsRests
    \/ part = "body" /\ MessageIdle /\ StreamIdle /\ InterimIdle /\ IntakeIdle /\ BodyInit /\ NoPrelude /\ TlsRests
    \/ part = "prelude" /\ MessageIdle /\ StreamIdle /\ InterimIdle /\ IntakeIdle /\ BodyRests /\ PreludeInit /\ TlsRests
    \/ part = "forwarded" /\ MessageIdle /\ StreamIdle /\ InterimIdle /\ IntakeIdle /\ BodyRests
       /\ \E s \in ForwardingStreams, c \in ForwardingConfigs : PreludeAt(s, c)
       /\ TlsRests
    \/ part = "tls" /\ MessageIdle /\ StreamIdle /\ InterimIdle /\ IntakeIdle /\ BodyRests /\ NoPrelude /\ TlsInit

MCNext ==
    \/ part = "message" /\ MessageNext
       /\ UNCHANGED <<part, streamVars, interimVars, intakeVars, bodyVars, preludeVars, tlsVars>>
    \/ part = "stream" /\ StreamNext
       /\ UNCHANGED <<part, messageVars, interimVars, intakeVars, bodyVars, preludeVars, tlsVars>>
    \/ part = "interim" /\ InterimNext
       /\ UNCHANGED <<part, messageVars, streamVars, intakeVars, bodyVars, preludeVars, tlsVars>>
    \/ part = "intake" /\ IntakeNext
       /\ UNCHANGED <<part, messageVars, streamVars, interimVars, bodyVars, preludeVars, tlsVars>>
    \/ part = "body" /\ BodyNext
       /\ UNCHANGED <<part, messageVars, streamVars, interimVars, intakeVars, preludeVars, tlsVars>>
    \/ part \in {"prelude", "forwarded"} /\ PreludeNext
       /\ UNCHANGED <<part, messageVars, streamVars, interimVars, intakeVars, bodyVars, tlsVars>>
    \/ part = "tls" /\ TlsNext
       /\ UNCHANGED <<part, messageVars, streamVars, interimVars, intakeVars, bodyVars, preludeVars>>

MCSpec ==
    MCInit /\ [][MCNext]_<<part, messageVars, streamVars, interimVars, intakeVars, bodyVars, preludeVars, tlsVars>>

(* What was read ahead of a connection reaches it unchanged, the peer it   *)
(* names is the one a trusted proxy vouches for, and a TLS client meets    *)
(* the identity and the rules the operator asked for (server/proxy.rs,     *)
(* primitives/proxy.rs, eggnet-tls): see ConnectionPrelude, TlsIdentity.   *)
PreludeIsSound == ReadingAheadIsInvisible /\ ForwardingIsSound /\ TlsIsFaithful
=============================================================================
