---------------------------- MODULE TlsIdentity ----------------------------
(***************************************************************************)
(* The TLS identities of a server (eggnet-tls) and the handshakes of its   *)
(* accept loop (eggserve-core, server/accept.rs): an operator prepares a   *)
(* configuration call by call, reading the certificate and the key file in *)
(* two steps while another process may be replacing them, builds it and    *)
(* puts it in the reload handle, while connections are accepted.           *)
(*                                                                         *)
(* A DNS name is a sequence of labels; "*" is a label of its own.  An      *)
(* identity is [cert, key, chain, keys]: which certificate and which key,  *)
(* the length of the chain and the number of keys in the PEM text.  The    *)
(* cryptography is rustls' (external): a key fits a certificate when they  *)
(* are of the same number.                                                 *)
(***************************************************************************)
EXTENDS Integers, Sequences, FiniteSets, SequencesExt

CONSTANTS TlsCalls,        \* the calls an operator makes: [op, name, id, list]
          TlsFileCalls,    \* those whose identity comes from the two files
          TlsHellos,       \* the hellos of clients: [sni, alpn, peer]
          TlsConnections,
          TlsRuntimes,     \* the runtime's settings: [h2, expose]
          MaxIdentities, MaxSni, MaxRoots, MaxCrls, MaxAlpn, MaxChain, MaxPeerChain,
          Junk,            \* a certificate or CRL that does not parse
          MaxTlsCalls,     \* bound: calls on one builder
          MaxGeneration    \* bound: renewals of the files

VARIABLES pem,             \* [cert, key]: what the two files hold
          runtime,         \* [h2, expose]: http2.enabled and tls_expose_peer_chain
          draft,           \* the builder in the operator's hands, if any
          half,            \* load_identity between its two files: [call, cert]
          live,            \* the snapshot in the reload handle
          sessions

tlsVars == <<pem, runtime, draft, half, live, sessions>>

Ok(x) == <<x>>
Err == <<>>

Identity(cert, key) == [cert |-> cert, key |-> key, chain |-> 1, keys |-> 1]

(***************************************************************************)
(* Names                                                                   *)
(***************************************************************************)
lower(name) == [i \in DOMAIN name |-> IF name[i] = "A" THEN "a" ELSE name[i]]

\* The labels a DNS name may have; of the others the model has one with a
\* leading hyphen, the empty one and "*".
validate_dns_labels(name) == Len(name) \in 1..MaxSni /\ \A i \in DOMAIN name : name[i] \notin {"", "-a", "*"}

normalize_sni_name(name) ==
    LET n == lower(name)
    IN  IF Len(n) > 1 /\ Head(n) = "*"
        THEN IF validate_dns_labels(Tail(n)) /\ Len(Tail(n)) > 1 THEN Ok(n) ELSE Err
        ELSE IF validate_dns_labels(n) THEN Ok(n) ELSE Err

(***************************************************************************)
(* Material                                                                *)
(***************************************************************************)
validate_key_pair(id) == id.cert = id.key

ChainFits(n) == n \in 1..MaxChain

parse_identity_pem(id) == ChainFits(id.chain) /\ id.keys = 1 /\ validate_key_pair(id)

parse_trust_roots_pem(roots) == Len(roots) \in 1..MaxRoots /\ Junk \notin Range(roots)

parse_crls_pem(crls) == Len(crls) <= MaxCrls

\* The empty protocol stands for one whose length is out of range.
validate_alpn(protocols) == Len(protocols) <= MaxAlpn /\ "" \notin Range(protocols)

http_alpn_protocols(http2) == IF http2 THEN <<"h2", "http/1.1">> ELSE <<"http/1.1">>

(***************************************************************************)
(* TlsServerConfigBuilder.  asked keeps the calls that were accepted.      *)
(***************************************************************************)
NewBuilder == [identities |-> <<>>, default |-> <<>>, client_auth |-> "Disabled", roots |-> <<>>,
               crls |-> <<>>, http2 |-> TRUE, alpn |-> <<>>, asked |-> <<>>]

http2(b, on) == Ok([b EXCEPT !.http2 = on, !.alpn = <<>>])

alpn_protocols(b, protocols) == IF validate_alpn(protocols) THEN Ok([b EXCEPT !.alpn = <<protocols>>]) ELSE Err

\* The default counts against the limit only when it was set before.
add_identity(b, name, id) ==
    LET n == normalize_sni_name(name)
    IN  IF \/ Len(b.identities) + Len(b.default) >= MaxIdentities
           \/ n = Err
           \/ n # Err /\ \E i \in DOMAIN b.identities : b.identities[i].name = n[1]
           \/ ~ ChainFits(id.chain)
           \/ ~ validate_key_pair(id)
        THEN Err
        ELSE Ok([b EXCEPT !.identities = Append(@, [name |-> n[1], id |-> id])])

default_identity(b, id) ==
    IF ChainFits(id.chain) /\ validate_key_pair(id) THEN Ok([b EXCEPT !.default = <<id>>]) ELSE Err

client_auth_disabled(b) == Ok([b EXCEPT !.client_auth = "Disabled", !.roots = <<>>, !.crls = <<>>])

ClientAuth(b, mode, roots) ==
    IF Len(roots) \in 1..MaxRoots THEN Ok([b EXCEPT !.client_auth = mode, !.roots = roots]) ELSE Err

client_auth_required(b, roots) == ClientAuth(b, "Required", roots)

client_auth_optional(b, roots) == ClientAuth(b, "Optional", roots)

with_crls(b, crls) == IF Len(crls) <= MaxCrls THEN Ok([b EXCEPT !.crls = crls]) ELSE Err

\* One call.  Required roots come as the caller has them, the rest from PEM
\* text.  An error takes the builder with it.
Called(b, c) ==
    LET out == CASE c.op = "http2" -> http2(b, c.list # <<>>)
                 [] c.op = "alpn" -> alpn_protocols(b, c.list)
                 [] c.op = "add" -> IF parse_identity_pem(c.id) THEN add_identity(b, c.name, c.id) ELSE Err
                 [] c.op = "default" -> IF parse_identity_pem(c.id) THEN default_identity(b, c.id) ELSE Err
                 [] c.op = "disabled" -> client_auth_disabled(b)
                 [] c.op = "required" -> client_auth_required(b, c.list)
                 [] c.op = "optional" -> IF parse_trust_roots_pem(c.list) THEN client_auth_optional(b, c.list) ELSE Err
                 [] c.op = "crls" -> IF parse_crls_pem(c.list) THEN with_crls(b, c.list) ELSE Err
    IN  IF out = Err THEN Err ELSE Ok([out[1] EXCEPT !.asked = Append(@, c)])

\* Whether the trust store and the revocation lists can be made.
build_client_verifier(mode, roots, crls) ==
    mode # "Disabled" => roots # <<>> /\ Junk \notin Range(roots) \cup Range(crls)

IsWildcard(name) == Head(name) = "*"

build(b) ==
    LET ids      == Range(b.identities)
        exact    == {i \in ids : ~ IsWildcard(i.name)}
        wildcard == SelectSeq(b.identities, LAMBDA i : IsWildcard(i.name))
    IN  IF \/ ids = {} /\ b.default = <<>>
           \/ b.client_auth # "Disabled" /\ b.roots = <<>>
           \/ \E id \in {i.id : i \in ids} \cup Range(b.default) : ~ validate_key_pair(id)
           \/ ~ build_client_verifier(b.client_auth, b.roots, b.crls)
        THEN Err
        ELSE Ok([exact |-> [n \in {i.name : i \in exact} |-> (CHOOSE i \in exact : i.name = n).id],
                 wildcards |-> [k \in DOMAIN wildcard |-> [suffix |-> Tail(wildcard[k].name), id |-> wildcard[k].id]],
                 default |-> b.default, client_auth |-> b.client_auth,
                 roots |-> Range(b.roots), crls |-> Range(b.crls),
                 alpn |-> IF b.alpn = <<>> THEN http_alpn_protocols(b.http2) ELSE b.alpn[1],
                 asked |-> b.asked])

(***************************************************************************)
(* A handshake                                                             *)
(***************************************************************************)
\* Mutant: wildcards are looked at before the exact names.
resolveWildcardFirst(s, sni) ==
    LET name == lower(sni[1])
        fits == SelectSeq(s.wildcards, LAMBDA w : w.suffix = Tail(name))
    IN  IF sni = <<>> \/ Len(sni[1]) > MaxSni THEN s.default
        ELSE IF Len(name) > 1 /\ fits # <<>> THEN <<Head(fits).id>>
        ELSE IF name \in DOMAIN s.exact THEN <<s.exact[name]>>
        ELSE s.default

\* SniResolver: an exact name, then the first wildcard for what follows the
\* first label, then the default.
resolve(s, sni) ==
    LET name == lower(sni[1])
        fits == SelectSeq(s.wildcards, LAMBDA w : w.suffix = Tail(name))
    IN  IF sni = <<>> \/ Len(sni[1]) > MaxSni THEN s.default
        ELSE IF name \in DOMAIN s.exact THEN <<s.exact[name]>>
        ELSE IF Len(name) > 1 /\ fits # <<>> THEN <<Head(fits).id>>
        ELSE s.default

\* rustls: the server's first protocol the client offers; an offer without
\* one in common fails.  "none" is a handshake without ALPN.
SelectAlpn(s, offered) ==
    LET common == SelectSeq(s.alpn, LAMBDA p : p \in Range(offered))
    IN  IF offered = <<>> \/ s.alpn = <<>> THEN "none"
        ELSE IF common = <<>> THEN "refused" ELSE Head(common)

\* rustls: what the client verifier makes of the client's certificate.  With
\* revocation lists, a certificate whose issuer has none is refused.
ClientAccepted(s, peer) ==
    \/ s.client_auth = "Disabled"
    \/ peer = <<>> /\ s.client_auth = "Optional"
    \/ peer # <<>> /\ peer[1].root \in s.roots
       /\ (s.crls # {} => peer[1].root \in s.crls /\ ~ peer[1].revoked)

extract_tls_info(s, hello, alpn, expose) ==
    LET present == s.client_auth # "Disabled" /\ hello.peer # <<>>
    IN  [server_name |-> IF hello.sni # <<>> /\ Len(hello.sni[1]) <= MaxSni THEN hello.sni ELSE <<>>,
         alpn |-> alpn, client_authenticated |-> present,
         chain |-> IF expose /\ present /\ hello.peer[1].chain <= MaxPeerChain
                   THEN hello.peer[1].chain ELSE 0]

NoSession == [state |-> "none", snap |-> <<>>, hello |-> <<>>, id |-> <<>>, info |-> <<>>, protocol |-> "none"]

(***************************************************************************)
(* Actions                                                                 *)
(***************************************************************************)
FirstSnapshot ==
    build(Called(NewBuilder, [op |-> "default", name |-> <<>>, id |-> Identity(1, 1), list |-> <<>>])[1])[1]

TlsInit ==
    /\ pem = [cert |-> 1, key |-> 1]
    /\ runtime \in TlsRuntimes
    /\ draft = <<>> /\ half = <<>> /\ live = FirstSnapshot
    /\ sessions = [c \in TlsConnections |-> NoSession]

\* The bound on reloads: an operator tries until one has succeeded.
BuilderNew ==
    /\ draft = <<>> /\ live = FirstSnapshot
    /\ draft' = <<NewBuilder>>
    /\ UNCHANGED <<pem, runtime, half, live, sessions>>

\* The bounds on calls: their number, and that a connection whose handshake is
\* over, which no later call can reach, does not go on being carried along.
MayCall ==
    /\ draft # <<>> /\ half = <<>> /\ Len(draft[1].asked) < MaxTlsCalls
    /\ \A c \in TlsConnections : sessions[c].state \in {"none", "handshake"}

BuilderCall(c) ==
    /\ MayCall
    /\ draft' = Called(draft[1], c)
    /\ UNCHANGED <<pem, runtime, half, live, sessions>>

\* load_identity opens and reads the certificates ...
LoadCertificates(c) ==
    /\ MayCall
    /\ half' = <<[call |-> c, cert |-> pem.cert]>>
    /\ UNCHANGED <<pem, runtime, draft, live, sessions>>

\* ... and then the key; only a pair that fits goes on to the builder.
LoadKey ==
    /\ half # <<>>
    /\ draft' = Called(draft[1], [half[1].call EXCEPT !.id = Identity(half[1].cert, pem.key)])
    /\ half' = <<>>
    /\ UNCHANGED <<pem, runtime, live, sessions>>

\* build, and replace if it succeeds.
Reload ==
    /\ draft # <<>> /\ half = <<>>
    /\ live' = IF build(draft[1]) = Err THEN live ELSE build(draft[1])[1]
    /\ draft' = <<>>
    /\ UNCHANGED <<pem, runtime, half, sessions>>

\* Another process renews the files, one after the other; what it does between
\* two loads is what it may do during one.
Renew(file) ==
    /\ half # <<>> /\ pem[file] < MaxGeneration
    /\ pem' = [pem EXCEPT ![file] = @ + 1]
    /\ UNCHANGED <<runtime, draft, half, live, sessions>>

\* The acceptor is made from the snapshot of the moment.
current_tls_config(c) ==
    /\ sessions[c].state = "none"
    /\ sessions' = [sessions EXCEPT ![c].state = "handshake", ![c].snap = <<live>>]
    /\ UNCHANGED <<pem, runtime, draft, half, live>>

CloseSession(c) == sessions' = [sessions EXCEPT ![c] = [NoSession EXCEPT !.state = "closed"]]

accept_tls(c, hello) ==
    LET s    == sessions[c].snap[1]
        id   == resolve(s, hello.sni)
        alpn == SelectAlpn(s, hello.alpn)
    IN  /\ sessions[c].state = "handshake"
        /\ IF \/ id = <<>> \/ alpn = "refused" \/ ~ ClientAccepted(s, hello.peer)
              \/ alpn = "h2" /\ ~ runtime.h2
           THEN CloseSession(c)
           ELSE sessions' = [sessions EXCEPT ![c] =
                    [state |-> "open", snap |-> <<s>>, hello |-> <<hello>>, id |-> id,
                     info |-> <<extract_tls_info(s, hello, alpn, runtime.expose)>>,
                     protocol |-> IF alpn = "h2" THEN "Http2" ELSE "Http1"]]
        /\ UNCHANGED <<pem, runtime, draft, half, live>>

HandshakeTimeout(c) ==
    /\ sessions[c].state = "handshake"
    /\ CloseSession(c)
    /\ UNCHANGED <<pem, runtime, draft, half, live>>

TlsNext ==
    \/ BuilderNew \/ LoadKey \/ Reload
    \/ \E c \in TlsCalls : BuilderCall(c)
    \/ \E c \in TlsFileCalls : LoadCertificates(c)
    \/ \E f \in {"cert", "key"} : Renew(f)
    \/ \E c \in TlsConnections :
          current_tls_config(c) \/ HandshakeTimeout(c) \/ \E h \in TlsHellos : accept_tls(c, h)

TlsSpec == TlsInit /\ [][TlsNext]_tlsVars

(***************************************************************************)
(* Properties                                                              *)
(***************************************************************************)
OpenSessions == {c \in TlsConnections : sessions[c].state = "open"}

Snapshots == {live} \cup {sessions[c].snap[1] : c \in OpenSessions}

\* A configured name covers a requested one label by label, "*" covering any.
Covers(pattern, name) ==
    Len(pattern) = Len(name) /\ \A i \in DOMAIN name : pattern[i] \in {name[i], "*"}

\* What the operator asked for a requested name, from the calls alone: the name
\* itself, else a wildcard for its siblings, else the last default.
AskedIdentity(asked, sni) ==
    LET adds    == {i \in DOMAIN asked : asked[i].op = "add"}
        fitting == {i \in adds : sni # <<>> /\ Len(sni[1]) <= MaxSni /\ Covers(lower(asked[i].name), lower(sni[1]))}
        exact   == {i \in fitting : "*" \notin Range(asked[i].name)}
        last    == {i \in DOMAIN asked : asked[i].op = "default"}
        among   == IF exact # {} THEN exact ELSE IF fitting # {} THEN fitting ELSE last
    IN  {asked[i].id : i \in {i \in among : \A j \in among : j <= i}}

\* A client is shown the identity the operator asked for its name, in whatever
\* order the names were added (SniResolver::resolve, build).
ClientSeesAskedIdentity ==
    \A c \in OpenSessions :
        AskedIdentity(sessions[c].snap[1].asked, sessions[c].hello[1].sni) = {sessions[c].id[1]}

\* No connection is ever offered a certificate with another one's key, though
\* the two files are renewed one after the other while they are being read
\* (load_identity, validate_key_pair).
PairsFit ==
    \A s \in Snapshots :
        \A id \in Range(s.exact) \cup {s.wildcards[i].id : i \in DOMAIN s.wildcards} \cup Range(s.default) :
            id.cert = id.key

\* The calls on client authentication since it was last disabled decide: with
\* "required" last, an open connection has a certificate of a root named in
\* that call, and not one revoked by the last lists given; no connection is
\* reported as authenticated otherwise (client_auth_*, with_crls,
\* extract_tls_info).
ClientsAreWhoWasAsked ==
    \A c \in OpenSessions :
        LET asked == sessions[c].snap[1].asked
            peer  == sessions[c].hello[1].peer
            modes == {i \in DOMAIN asked : asked[i].op \in {"required", "optional", "disabled"}}
            mode  == {i \in modes : \A j \in modes : j <= i}
            offs  == {i \in modes : asked[i].op = "disabled"}
            lists == {i \in DOMAIN asked : asked[i].op = "crls" /\ \A j \in offs : j < i}
            crls  == {i \in lists : \A j \in lists : j <= i}
            good  == /\ peer # <<>>
                     /\ \A i \in mode : peer[1].root \in Range(asked[i].list)
                     /\ \A i \in crls : asked[i].list # <<>> => ~ peer[1].revoked
        IN  /\ (\E i \in mode : asked[i].op = "required") => good
            /\ sessions[c].info[1].client_authenticated =>
                   good /\ \E i \in mode : asked[i].op # "disabled"
            /\ sessions[c].info[1].chain > 0 => runtime.expose /\ good

\* The last of http2() and alpn_protocols() decides what is negotiated, and a
\* connection is never HTTP/2 while the runtime has it disabled.
LastAlpnCallWins ==
    \A c \in OpenSessions :
        LET asked == sessions[c].snap[1].asked
            calls == {i \in DOMAIN asked : asked[i].op \in {"http2", "alpn"}}
            last  == {i \in calls : \A j \in calls : j <= i}
        IN  /\ sessions[c].protocol = "Http2" =>
                  runtime.h2 /\ \A i \in last : asked[i].op = "alpn" => "h2" \in Range(asked[i].list)
            /\ \A i \in last : asked[i].op = "http2" /\ asked[i].list = <<>> => sessions[c].protocol = "Http1"

\* At most MAX_TLS_IDENTITIES names are served, whatever the order of calls.
IdentitiesBounded ==
    \A s \in Snapshots : Cardinality(DOMAIN s.exact) + Len(s.wildcards) <= MaxIdentities

\* What a snapshot serves is what the calls that made it asked for.
TlsIsFaithful ==
    /\ ClientSeesAskedIdentity /\ PairsFit /\ ClientsAreWhoWasAsked
    /\ LastAlpnCallWins /\ IdentitiesBounded
=============================================================================
