-------------------------- MODULE ConnectionPrelude --------------------------
(***************************************************************************)
(* One accepted TCP connection before and up to its requests: the trust    *)
(* check and the PROXY preamble, the TLS handshake, the choice between     *)
(* HTTP/1 and HTTP/2, and the forwarded metadata of each request.          *)
(*                                                                         *)
(* Bytes are symbols.  Read sizes are arbitrary, so every fragmentation of *)
(* the stream is a behaviour.  A transport is a sequence of segments, the  *)
(* outermost replayed prefix first and the socket last.  Options are       *)
(* sequences of length at most one.  An address symbol stands for an       *)
(* address with its port.                                                  *)
(***************************************************************************)
EXTENDS Integers, Sequences, SequencesExt, FiniteSets

CONSTANTS Streams,          \* what a peer sends before it closes its side
          PreludeConfigs,   \* [proxy, trusted, peer, tls, h2, forwarded]
          ForwardRequests,  \* [standard, xff, xfp, xfh, size]
          Signature,        \* PROXY_V2_SIGNATURE, which begins with CR LF
          V1Prefix,         \* "PROXY "
          V1Max,            \* PROXY_V1_MAX_BYTES
          V2MaxLen,         \* PROXY_V2_MAX_LEN
          ReadSize,         \* the 256 bytes of one preamble read
          H2_PREFACE,
          TlsHello,         \* what a TLS client sends first
          MaxRequests       \* bound on the requests of a connection

VARIABLES stream,           \* everything the peer sends
          setup,            \* the configuration and the peer
          transport,        \* the segments still to be read
          gate,             \* "proxy", "tls", "classify", "http", "refused" or "closed"
          buffer,           \* bytes the current gate has read and holds
          delivered,        \* bytes read by TLS or by the HTTP parser
          endpoints,        \* <<>>, or what the preamble said
          wire_protocol,    \* "none", "Http1" or "Http2"
          infos             \* one entry per request: headers and the ConnectionInfo given

preludeVars == <<stream, setup, transport, gate, buffer, delivered, endpoints,
                 wire_protocol, infos>>

byte_value == [b \in {"0", "1", "2", "3", "9"} |->
                  CASE b = "0" -> 0 [] b = "1" -> 1 [] b = "2" -> 2 [] b = "3" -> 3 [] b = "9" -> 9]

(***************************************************************************)
(* Trust, and the pure parsers of the preamble                             *)
(***************************************************************************)
is_trusted_peer(c) == c.peer \in c.trusted

V2HeaderLen == Len(Signature) + 2
MaxPreambleBuffer == V2HeaderLen + V2MaxLen

Endpoints(source, destination, kind) ==
    [source |-> source, destination |-> destination, kind |-> kind]
Absent(kind) == Endpoints(<<>>, <<>>, kind)
Parsed(e, leftover) == [verdict |-> "ok", endpoints |-> e, leftover |-> leftover]
Failed(verdict) == [verdict |-> verdict, endpoints |-> Absent("none"), leftover |-> <<>>]
More == Failed("more")

\* "U" is UNKNOWN with anything after it, "T" a TCP4 or TCP6 line with two addresses.
parse_proxy_v1_line(line, leftover) ==
    LET text == SubSeq(line, Len(V1Prefix) + 1, Len(line) - 2)
    IN IF Len(line) > V1Max THEN Failed("TooLong")
       ELSE IF ~ IsPrefix(V1Prefix, line) \/ text = <<>> THEN Failed("Invalid")
       ELSE IF text[1] = "U" THEN Parsed(Absent("ProxyV1"), leftover)
       ELSE IF text[1] = "T" /\ Len(text) = 3
            THEN Parsed(Endpoints(<<text[2]>>, <<text[3]>>, "ProxyV1"), leftover)
       ELSE Failed("Invalid")

\* The command and family byte: "l" LOCAL, "n" UNSPEC, "i" INET, "x" UNIX.
parse_proxy_v2_header(header, leftover) ==
    LET command == header[Len(Signature) + 1]
        body == SubSeq(header, V2HeaderLen + 1, Len(header))
    IN CASE command \in {"l", "n"} -> Parsed(Absent("ProxyV2"), leftover)
         [] command = "i" /\ Len(body) >= 2 ->
                Parsed(Endpoints(<<body[1]>>, <<body[2]>>, "ProxyV2"), leftover)
         [] command = "x" /\ Len(body) >= V2MaxLen -> Parsed(Absent("ProxyV2"), leftover)
         [] OTHER -> Failed("Invalid")

(***************************************************************************)
(* read_proxy_preamble                                                     *)
(***************************************************************************)
Agree(s, b) == \A i \in 1 .. Len(b) : i <= Len(s) => b[i] = s[i]
could_be_v2_prefix(b) == Agree(Signature, b)

starts_with_v2_prefix(b) == b # <<>> /\ could_be_v2_prefix(b)

could_be_proxy_prefix(b) == Agree(V1Prefix, b) \/ could_be_v2_prefix(b)

crlfs(b) == {i \in 1 .. Len(b) - 1 : b[i] = "CR" /\ b[i + 1] = "LF"}
find_crlf(b) == CHOOSE i \in crlfs(b) : \A j \in crlfs(b) : i <= j

TakeLine(b) ==
    LET line_len == find_crlf(b) + 1
    IN IF line_len > V1Max THEN Failed("TooLong")
       ELSE parse_proxy_v1_line(SubSeq(b, 1, line_len), SubSeq(b, line_len + 1, Len(b)))

TakeV2(b) ==
    LET length == byte_value[b[V2HeaderLen]]
        total == V2HeaderLen + length
    IN IF length > V2MaxLen THEN Failed("TooLong")
       ELSE IF Len(b) < total THEN More
       ELSE parse_proxy_v2_header(SubSeq(b, 1, total), SubSeq(b, total + 1, Len(b)))

try_parse_buffer(b) ==
    IF b = <<>> THEN More
    ELSE IF starts_with_v2_prefix(b) /\ Len(b) >= V2HeaderLen THEN TakeV2(b)
    ELSE IF IsPrefix(V1Prefix, b)
         THEN IF crlfs(b) # {} THEN TakeLine(b)
              ELSE IF Len(b) > V1Max THEN Failed("TooLong") ELSE More
    ELSE IF Len(b) >= Len(V1Prefix) /\ ~ could_be_proxy_prefix(b) THEN Failed("Invalid")
    ELSE More

\* The checks that follow a read, and then the head of the loop.
after_read(b) ==
    IF Len(b) > MaxPreambleBuffer + ReadSize THEN Failed("TooLong")
    ELSE IF ~ could_be_proxy_prefix(b) THEN Failed("Invalid")
    ELSE IF ~ starts_with_v2_prefix(b) /\ crlfs(b) # {} THEN TakeLine(b)
    ELSE IF ~ starts_with_v2_prefix(b) /\ Len(b) > V1Max THEN Failed("TooLong")
    ELSE IF try_parse_buffer(b).verdict # "more" THEN try_parse_buffer(b)
    ELSE IF Len(b) > MaxPreambleBuffer THEN Failed("TooLong")
    ELSE More

(***************************************************************************)
(* PrefixedIo                                                              *)
(***************************************************************************)
Unread(t) == FlattenSeq(t)
Segment(t) == CHOOSE i \in 1 .. Len(t) : t[i] # <<>> /\ \A j \in 1 .. i - 1 : t[j] = <<>>

\* One read never goes past the end of the segment it starts in.
poll_read(t, n) ==
    LET i == Segment(t)
        count == IF Len(t[i]) < n THEN Len(t[i]) ELSE n
    IN [bytes |-> SubSeq(t[i], 1, count),
        rest |-> [t EXCEPT ![i] = SubSeq(@, count + 1, Len(@))]]

PrefixedIo_new(prefix, inner) == <<prefix>> \o inner

(***************************************************************************)
(* The connection task                                                     *)
(***************************************************************************)
NextGate(c) == IF c.tls THEN "tls" ELSE "classify"

PreludeInit ==
    /\ stream \in Streams
    /\ setup \in PreludeConfigs
    /\ transport = <<stream>>
    /\ gate = IF setup.proxy THEN "proxy" ELSE NextGate(setup)
    /\ buffer = <<>> /\ delivered = <<>> /\ endpoints = <<>>
    /\ wire_protocol = "none" /\ infos = <<>>

close == gate' = "closed"

\* An untrusted peer is closed without a read.
RejectUntrusted ==
    /\ gate = "proxy" /\ ~ is_trusted_peer(setup)
    /\ close
    /\ UNCHANGED <<stream, setup, transport, buffer, delivered, endpoints, wire_protocol, infos>>

Preamble(n) ==
    /\ gate = "proxy" /\ Unread(transport) # <<>>
    /\ LET read == poll_read(transport, n)
           result == after_read(buffer \o read.bytes)
       IN CASE result.verdict = "more" ->
                 /\ buffer' = buffer \o read.bytes /\ transport' = read.rest
                 /\ UNCHANGED <<gate, endpoints>>
            [] result.verdict = "ok" ->
                 /\ endpoints' = <<result.endpoints>> /\ buffer' = <<>>
                 /\ transport' = PrefixedIo_new(result.leftover, read.rest)
                 /\ gate' = NextGate(setup)
            [] OTHER ->
                 /\ gate' = "refused" /\ buffer' = buffer \o read.bytes /\ transport' = read.rest
                 /\ UNCHANGED endpoints
    /\ UNCHANGED <<stream, setup, delivered, wire_protocol, infos>>

ReadPreamble(n) == is_trusted_peer(setup) /\ Preamble(n)

\* The peer closes, the socket fails or the timeout of the whole read expires.
PreambleFails ==
    /\ gate = "proxy" /\ is_trusted_peer(setup)
    /\ close
    /\ UNCHANGED <<stream, setup, transport, buffer, delivered, endpoints, wire_protocol, infos>>

\* The TLS library reads what it likes.
TlsRead(n) ==
    /\ gate = "tls" /\ Len(delivered) < Len(TlsHello) /\ Unread(transport) # <<>>
    /\ delivered' = delivered \o poll_read(transport, n).bytes
    /\ transport' = poll_read(transport, n).rest
    /\ UNCHANGED <<stream, setup, gate, buffer, endpoints, wire_protocol, infos>>

\* accept_tls: the negotiated ALPN decides; h2 that is not enabled closes.
AcceptTls(alpn) ==
    /\ gate = "tls" /\ IsPrefix(TlsHello, delivered)
    /\ IF alpn = "h2"
       THEN IF setup.h2 THEN gate' = "http" /\ wire_protocol' = "Http2"
            ELSE close /\ UNCHANGED wire_protocol
       ELSE gate' = "http" /\ wire_protocol' = "Http1"
    /\ UNCHANGED <<stream, setup, transport, buffer, delivered, endpoints, infos>>

TlsFails ==
    /\ gate = "tls"
    /\ close
    /\ UNCHANGED <<stream, setup, transport, buffer, delivered, endpoints, wire_protocol, infos>>

(***************************************************************************)
(* classify_cleartext                                                      *)
(***************************************************************************)
\* Hand over with everything read so far in front.
Classified(protocol, prefix, t) ==
    /\ wire_protocol' = protocol /\ gate' = "http"
    /\ transport' = PrefixedIo_new(prefix, t) /\ buffer' = <<>>

Classify(n) ==
    LET read == poll_read(transport, n)
        prefix == buffer \o read.bytes
    IN IF ~ IsPrefix(prefix, H2_PREFACE) THEN Classified("Http1", prefix, read.rest)
       ELSE IF prefix = H2_PREFACE
            THEN Classified(IF setup.h2 THEN "Http2" ELSE "Http1", prefix, read.rest)
       ELSE /\ buffer' = prefix /\ transport' = read.rest
            /\ UNCHANGED <<gate, wire_protocol>>

ClassifyRead(n) ==
    /\ gate = "classify" /\ Unread(transport) # <<>>
    /\ n <= Len(H2_PREFACE) - Len(buffer)
    /\ Classify(n)
    /\ UNCHANGED <<stream, setup, delivered, endpoints, infos>>

ClassifyEof ==
    /\ gate = "classify" /\ Unread(transport) = <<>>
    /\ Classified("Http1", buffer, transport)
    /\ UNCHANGED <<stream, setup, delivered, endpoints, infos>>

\* The header timeout, a read error, or the shutdown token.
ClassifyFails ==
    /\ gate = "classify"
    /\ close
    /\ UNCHANGED <<stream, setup, transport, buffer, delivered, endpoints, wire_protocol, infos>>

HttpRead(n) ==
    /\ gate = "http" /\ Unread(transport) # <<>>
    /\ delivered' = delivered \o poll_read(transport, n).bytes
    /\ transport' = poll_read(transport, n).rest
    /\ UNCHANGED <<stream, setup, gate, buffer, endpoints, wire_protocol, infos>>

(***************************************************************************)
(* Forwarded metadata, per request                                         *)
(***************************************************************************)
\* ConnectionInfo: the raw peer and the effective layer, PROXY first.
with_proxy_endpoints(c, e) ==
    [remote_addr |-> <<c.peer>>,
     client |-> IF e = <<>> THEN <<>> ELSE e[1].source,
     scheme |-> <<>>, authority |-> <<>>,
     provenance |-> IF e = <<>> THEN "none" ELSE e[1].kind]

\* Only what is not set yet is taken.
with_forwarded_effective(info, f) ==
    [info EXCEPT !.client = IF @ = <<>> THEN f.client ELSE @,
                 !.scheme = IF @ = <<>> THEN f.scheme ELSE @,
                 !.authority = IF @ = <<>> THEN f.authority ELSE @]

Rightmost(options) ==
    LET set == {i \in DOMAIN options : options[i] # <<>>}
    IN IF set = {} THEN <<>> ELSE options[CHOOSE i \in set : \A j \in set : j <= i]

Effective(client, scheme, authority) ==
    [verdict |-> "ok", client |-> client, scheme |-> scheme, authority |-> authority]
Refused(verdict) == [Effective(<<>>, <<>>, <<>>) EXCEPT !.verdict = verdict]

\* The client is the last element's; the scheme and the host are those of the
\* last element that has one.
parse_forwarded_chain(elements, f) ==
    IF elements = <<>> THEN Refused("Invalid")
    ELSE IF Len(elements) > f.max_elements THEN Refused("TooMany")
    ELSE IF \E i \in DOMAIN elements : elements[i].for = "bad" THEN Refused("Invalid")
    ELSE Effective(IF Last(elements).for = "unknown" THEN <<>> ELSE <<Last(elements).for>>,
                   Rightmost([i \in DOMAIN elements |-> elements[i].proto]),
                   Rightmost([i \in DOMAIN elements |-> elements[i].host]))

\* Each list is read for itself: no longer than allowed, every entry valid.
ListRefusal(list, f) ==
    IF Len(list) > f.max_elements THEN <<"TooMany">>
    ELSE IF \E i \in DOMAIN list : list[i] = "bad" THEN <<"Invalid">> ELSE <<>>
LastOf(list) == IF list = <<>> THEN <<>> ELSE <<Last(list)>>

parse_legacy_forwarded(h, f) ==
    LET refusals == ListRefusal(h.xff, f) \o ListRefusal(h.xfp, f) \o ListRefusal(h.xfh, f)
    IN IF refusals # <<>> THEN Refused(refusals[1])
       ELSE Effective(LastOf(h.xff), LastOf(h.xfp), LastOf(h.xfh))

derive_forwarded_effective(h, f, trusted_peer) ==
    LET standard == h.standard # <<>> /\ f.standard
        legacy == (h.xff # <<>> \/ h.xfp # <<>> \/ h.xfh # <<>>) /\ f.legacy
    IN IF ~ standard /\ ~ legacy THEN Refused("none")
       ELSE IF ~ trusted_peer THEN Refused("UntrustedPeer")
       ELSE IF standard /\ legacy THEN Refused("Conflict")
       ELSE IF h.size > f.max_bytes THEN Refused("TooLarge")
       ELSE IF standard THEN parse_forwarded_chain(h.standard, f)
       ELSE parse_legacy_forwarded(h, f)

apply_forwarded_policy(base, h, c) ==
    LET f == derive_forwarded_effective(h, c.forwarded, is_trusted_peer(c))
    IN IF ~ (c.forwarded.standard \/ c.forwarded.legacy) \/ f.verdict # "ok"
       THEN base ELSE with_forwarded_effective(base, f)

\* Every request starts from the connection's own information.
ServeRequest(h) ==
    /\ gate = "http" /\ Len(infos) < MaxRequests
    /\ infos' = Append(infos, [headers |-> h,
                  info |-> apply_forwarded_policy(with_proxy_endpoints(setup, endpoints), h, setup)])
    /\ UNCHANGED <<stream, setup, transport, gate, buffer, delivered, endpoints, wire_protocol>>

ReadSizes == 1 .. ReadSize

PreludeNext ==
    \/ RejectUntrusted
    \/ \E n \in ReadSizes : ReadPreamble(n)
    \/ PreambleFails
    \/ \E n \in ReadSizes : TlsRead(n)
    \/ \E alpn \in {"h2", "http/1.1", "none"} : AcceptTls(alpn)
    \/ TlsFails
    \/ \E n \in ReadSizes : ClassifyRead(n)
    \/ ClassifyEof
    \/ ClassifyFails
    \/ \E n \in ReadSizes : HttpRead(n)
    \/ \E h \in ForwardRequests : ServeRequest(h)

PreludeSpec == PreludeInit /\ [][PreludeNext]_preludeVars

(***************************************************************************)
(* Properties                                                              *)
(***************************************************************************)
\* What the PROXY specification calls a preamble at the head of s, in one look:
\* the bytes it takes, none when there is none.
V1Heads(s) == {k \in 1 .. Len(s) : k <= V1Max /\ IsPrefix(V1Prefix, s) /\ k - 1 = Min(crlfs(s) \cup {Len(s)})}
PreambleLength(s) ==
    IF IsPrefix(Signature, s)
    THEN IF Len(s) >= V2HeaderLen THEN V2HeaderLen + byte_value[s[V2HeaderLen]] ELSE 0
    ELSE IF V1Heads(s) = {} THEN 0 ELSE CHOOSE k \in V1Heads(s) : TRUE

AfterPreamble ==
    IF endpoints = <<>> THEN stream
    ELSE SubSeq(stream, PreambleLength(stream) + 1, Len(stream))

\* Nothing between the socket and the HTTP parser or the TLS library loses,
\* repeats or reorders a byte, however the stream is cut: what was delivered and
\* what is still to be read is exactly what followed the preamble.
NoByteMoved ==
    gate \in {"tls", "classify", "http"} =>
        delivered \o buffer \o Unread(transport) = AfterPreamble

\* A preamble is accepted only as the whole stream would be parsed and within
\* the ceilings, so the cuts of the network never change the endpoints that
\* read_proxy_preamble reports.
CutsDoNotDecide ==
    endpoints # <<>> =>
        LET k == PreambleLength(stream)
            head == SubSeq(stream, 1, k)
        IN /\ k \in 1 .. MaxPreambleBuffer
           /\ endpoints[1] = (IF IsPrefix(Signature, stream) THEN parse_proxy_v2_header(head, <<>>)
                              ELSE parse_proxy_v1_line(head, <<>>)).endpoints

\* The other half: a stream that opens with a well-formed preamble is never
\* refused, however it is cut and whatever follows the preamble in the same read.
\* Only a timeout or the peer's own close ends it.
ValidIsNeverRefused ==
    gate = "refused" =>
        LET k == PreambleLength(stream)
            head == SubSeq(stream, 1, k)
        IN \/ k \notin 1 .. MaxPreambleBuffer \/ k > Len(stream)
           \/ (IF IsPrefix(Signature, stream) THEN parse_proxy_v2_header(head, <<>>)
               ELSE parse_proxy_v1_line(head, <<>>)).verdict # "ok"

\* With the preamble required, nothing is read from a peer outside the trusted
\* set, and no request of it is served.
UntrustedNeverServed ==
    setup.proxy /\ ~ is_trusted_peer(setup) => transport = <<stream>> /\ infos = <<>>

\* Cleartext HTTP/2 is chosen exactly when it is enabled and the whole preface
\* came first, however it was cut; the parser then still reads the preface.
PrefaceDecides ==
    (gate = "http" /\ ~ setup.tls) =>
        (wire_protocol = "Http2" <=> setup.h2 /\ IsPrefix(H2_PREFACE, AfterPreamble))

\* The effective client of a request is the one the PROXY preamble named; without
\* one it is the hop nearest to a trusted peer, and never one that a peer outside
\* the trusted set wrote.
ClientIsNearest ==
    \A i \in DOMAIN infos :
        LET h == infos[i].headers
            client == infos[i].info.client
        IN IF endpoints # <<>> /\ endpoints[1].source # <<>> THEN client = endpoints[1].source
           ELSE client # <<>> =>
                  /\ is_trusted_peer(setup)
                  /\ \/ h.standard # <<>> /\ client = <<Last(h.standard).for>>
                     \/ h.xff # <<>> /\ client = <<Last(h.xff)>>

\* Metadata that is too long, malformed or given in both enabled families changes
\* nothing: such a request gets the information of the connection alone.
MalformedChangesNothing ==
    \A i \in DOMAIN infos :
        LET h == infos[i].headers
            f == setup.forwarded
            both == f.standard /\ f.legacy /\ h.standard # <<>> /\ (h.xff \o h.xfp \o h.xfh) # <<>>
            bad == \/ f.standard /\ \E j \in DOMAIN h.standard : h.standard[j].for = "bad"
                   \/ f.legacy /\ \E list \in {h.xff, h.xfp, h.xfh} : Contains(list, "bad")
        IN both \/ bad => infos[i].info = with_proxy_endpoints(setup, endpoints)

(***************************************************************************)
(* Stronger statements, which the code does not keep                       *)
(***************************************************************************)
\* The module comment of proxy.rs lets the rightmost element give the effective
\* values; the scheme and the host may come from an earlier element.
EffectiveFromLastElement ==
    \A i \in DOMAIN infos :
        LET h == infos[i].headers IN
        h.standard # <<>> /\ infos[i].info.scheme # <<>> =>
            infos[i].info.scheme = Last(h.standard).proto

\* Reading ahead changes nothing: every byte not part of the preamble reaches the
\* protocol behind it once and in order, the verdict does not depend on how the
\* stream was cut into reads, a valid preamble is never refused and an untrusted
\* one never served, and the preface alone decides the protocol.
ReadingAheadIsInvisible ==
    NoByteMoved /\ CutsDoNotDecide /\ ValidIsNeverRefused /\ UntrustedNeverServed /\ PrefaceDecides

\* The effective client is the nearest hop that no trusted proxy stands for, and
\* a malformed forwarding field changes nothing (proxy.rs).
ForwardingIsSound == ClientIsNearest /\ MalformedChangesNothing
=============================================================================
