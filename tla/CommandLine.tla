---------------------------- MODULE CommandLine ----------------------------
(***************************************************************************)
(* The eggserve command line: the argument grammar of args.rs, and the     *)
(* translation of a Python ServeConfig into such a line (subprocess.py).   *)
(*                                                                         *)
(* A token is an option (--name), an option with an attached value         *)
(* (--name=value, the value cut at its first '=' for --header), the end of *)
(* options (--) or a word.  A word carries the class the parser can tell   *)
(* apart and the host and number it spells; texts are otherwise opaque.    *)
(***************************************************************************)
EXTENDS Integers, Sequences, SequencesExt, FiniteSets

CONSTANTS
    Lines,          \* the command lines offered to parse_from, as groups of tokens
    PyConfigs,      \* the ServeConfigs offered to _config_to_argv
    Resolve,        \* host name -> the addresses it resolves to
    Addresses,      \* every address, in the order of their texts
    Loopback,       \* the loopback addresses
    V4,             \* the IPv4 addresses
    Unspecified,    \* the wildcard addresses
    MaxExtraHeaders,
    MaxExtraHeaderBytes

VARIABLES
    line,           \* the command line: one group of tokens per argument with its values
    origin,         \* <<>>, or <<c>>: the ServeConfig the line was made from
    parsed          \* <<>>, or <<r>>: what parse_from returned

cliVars == <<line, origin, parsed>>

(***************************************************************************)
(* Tokens and words                                                        *)
(***************************************************************************)

Word(k, host, n) == [k |-> k, host |-> host, n |-> n]
Text(t) == Word("text", t, 1)
Num(n) == Word("num", "", n)
Tok(t, name, w) == [t |-> t, name |-> name, w |-> w]
Opt(name) == Tok("opt", name, <<>>)
Att(name, w) == Tok("att", name, w)
W(w) == Tok("word", "", <<w>>)
EndOfOptions == Tok("end", "", <<>>)

NoPort == -1
MaxPort == 65535

(* The classes of words: "num" decimal digits, "plus" and "minus" digits   *)
(* after a sign, "padded" digits between blanks, "dash" a lone -, "flag"   *)
(* any other text that starts with -, "ip" an address, "sock" an address   *)
(* with its port, "hostport" a name with its port, "badaddr" more colons   *)
(* than an address has, "text" the rest, with its number of bytes.         *)
StartsWithDash(tok) == tok.t \in {"opt", "att", "end"} \/ tok.w[1].k \in {"flag", "minus"}

(* The word a token is when it is taken verbatim.                          *)
Verbatim(tok) == IF tok.t = "word" THEN tok.w[1] ELSE Word("flag", tok.name, 0)

ParsesAsNumber(w) == w.k \in {"num", "plus"}
ParsesAsPort(w) == ParsesAsNumber(w) /\ w.n <= MaxPort

VALUE_FLAGS ==
    {"directory", "bind", "port", "addr", "log-format", "max-connections", "max-file-streams",
     "max-in-flight-requests", "header-timeout", "connection-total-timeout", "handler-timeout",
     "body-read-timeout", "keep-alive-idle-timeout", "max-requests-per-connection",
     "response-write-timeout", "max-buf-size", "max-headers", "max-header-bytes",
     "max-request-target-bytes", "content-type", "header", "tls-cert", "tls-key"}
BOOLEAN_FLAGS ==
    {"public", "directory-listing", "follow-symlinks", "allow-dotfiles", "quiet", "help", "version", "http3"}

(* Attached values become words of their own; a switch takes none.         *)
ExpandOne(tok) ==
    IF tok.t = "att" /\ tok.name \in VALUE_FLAGS
    THEN <<Opt(tok.name)>> \o [i \in DOMAIN tok.w |-> W(tok.w[i])]
    ELSE <<tok>>

FirstEnd(tokens) ==
    IF \E i \in DOMAIN tokens : tokens[i].t = "end"
    THEN CHOOSE i \in DOMAIN tokens : tokens[i].t = "end" /\ \A j \in 1..(i - 1) : tokens[j].t # "end"
    ELSE Len(tokens) + 1

SwitchWithValue(tokens) ==
    \E i \in 1..(FirstEnd(tokens) - 1) : tokens[i].t = "att" /\ tokens[i].name \in BOOLEAN_FLAGS

expand_attached_long_values(tokens) ==
    FlattenSeq([i \in DOMAIN tokens |-> IF i < FirstEnd(tokens) THEN ExpandOne(tokens[i]) ELSE <<tokens[i]>>])

(***************************************************************************)
(* Addresses                                                               *)
(***************************************************************************)

(* HOST, HOST:PORT or :PORT; NoPort leaves the port slot free.             *)
split_bind_host_port(w) ==
    CASE w.k = "badaddr" -> <<>>
      [] w.k = "hostport" -> <<[host |-> IF w.host = "" THEN "0.0.0.0" ELSE w.host, port |-> w.n]>>
      [] OTHER -> <<[host |-> w.host, port |-> NoPort]>>

parse_bind(w) ==
    CASE w.k = "sock" -> <<[host |-> w.host, port |-> w.n]>>
      [] w.k = "ip" -> <<[host |-> w.host, port |-> NoPort]>>
      [] OTHER -> split_bind_host_port(w)

(* Loopback before the rest, IPv4 before IPv6, then by text.               *)
Before(a, b) ==
    LET rank(x) == (IF x \in Loopback THEN 0 ELSE 2) + (IF x \in V4 THEN 0 ELSE 1)
        place(x) == CHOOSE i \in DOMAIN Addresses : Addresses[i] = x
    IN  rank(a) < rank(b) \/ (rank(a) = rank(b) /\ place(a) < place(b))
select_bind_ip(found) == CHOOSE a \in found : \A b \in found \ {a} : Before(a, b)

(* <<>> when the host does not resolve.                                    *)
resolve_bind_ip(host) ==
    LET found == IF host \in Range(Addresses) THEN {host}
                 ELSE IF host \in DOMAIN Resolve THEN Resolve[host] ELSE {}
    IN  IF found = {} THEN <<>> ELSE <<select_bind_ip(found)>>

(***************************************************************************)
(* The options                                                             *)
(***************************************************************************)

Switches == {"public", "directory-listing", "follow-symlinks", "allow-dotfiles", "quiet", "http3"}
Positive == {"max-connections", "max-file-streams", "max-in-flight-requests"}
Numbers ==
    {"header-timeout", "connection-total-timeout", "handler-timeout", "body-read-timeout",
     "keep-alive-idle-timeout", "max-requests-per-connection", "response-write-timeout",
     "max-buf-size", "max-headers", "max-header-bytes", "max-request-target-bytes"}

(* i is the next token; vals holds the values of the options that only     *)
(* store theirs.                                                           *)
Blank ==
    [i |-> 1, err |-> "", rest |-> FALSE, seen |-> {}, host |-> "127.0.0.1", port |-> 8000,
     port_from_flag |-> FALSE, root |-> <<>>, vals |-> <<>>, headers |-> <<>>, positional |-> <<>>]

Refuse(o) == [o EXCEPT !.err = "error"]

(* <<>> when the next token is missing or looks like a flag.               *)
require_value(a, i) == IF i <= Len(a) /\ ~ StartsWithDash(a[i]) THEN <<a[i].w[1]>> ELSE <<>>

ValidValue(name, w) ==
    CASE name = "log-format" -> w.k = "text" /\ w.host \in {"text", "json", "none"}
      [] name = "bind" -> parse_bind(w) # <<>>
      [] name = "port" -> ParsesAsPort(w)
      [] name = "addr" -> w.k = "sock"
      [] name \in Positive -> ParsesAsNumber(w) /\ w.n > 0
      [] name \in Numbers -> ParsesAsNumber(w)
      [] OTHER -> TRUE

(* Mutant: the last of several addresses wins.                             *)
OverwritesNever(o, name, w) == FALSE

(* An option that would overwrite an earlier one is refused.               *)
Overwrites(o, name, w) ==
    CASE name = "bind" -> "addr" \in o.seen \/ (o.port_from_flag /\ parse_bind(w)[1].port # NoPort)
      [] name = "port" -> "addr" \in o.seen \/ o.port_from_flag
      [] name = "addr" -> "bind" \in o.seen \/ o.port_from_flag
      [] OTHER -> FALSE

SetAddress(o, host, port) ==
    [o EXCEPT !.host = host, !.port = IF port = NoPort THEN @ ELSE port,
              !.port_from_flag = @ \/ port # NoPort]

Store(o, name, w) ==
    LET n == [o EXCEPT !.seen = @ \cup {name}, !.i = @ + 2] IN
    CASE name = "directory" -> [n EXCEPT !.root = <<w>>]
      [] name = "bind" -> SetAddress(n, parse_bind(w)[1].host, parse_bind(w)[1].port)
      [] name = "port" -> SetAddress(n, n.host, w.n)
      [] name = "addr" -> SetAddress(n, w.host, w.n)
      [] OTHER -> [n EXCEPT !.vals = @ \o <<[name |-> name, w |-> w]>>]

TakeSwitch(o, name) ==
    IF name \in o.seen THEN Refuse(o) ELSE [o EXCEPT !.seen = @ \cup {name}, !.i = @ + 1]

TakeHeader(a, o) ==
    LET name == require_value(a, o.i + 1)
        value == require_value(a, o.i + 2)
    IN  IF name = <<>> \/ value = <<>> THEN Refuse(o)
        ELSE [o EXCEPT !.headers = @ \o <<[name |-> name[1], value |-> value[1]]>>, !.i = @ + 3]

TakeValue(a, o, name) ==
    LET w == require_value(a, o.i + 1)
    IN  IF \/ name \in o.seen \/ w = <<>>
           \/ ~ ValidValue(name, w[1])
           \/ Overwrites(o, name, w[1])
        THEN Refuse(o)
        ELSE Store(o, name, w[1])

PushPositional(o, tok) == [o EXCEPT !.positional = @ \o <<Verbatim(tok)>>, !.i = @ + 1]

(* One turn of the loop over the expanded vector.                          *)
ParseStep(a, o) ==
    LET tok == a[o.i] IN
    CASE o.rest -> PushPositional(o, tok)
      [] tok.t = "end" -> [o EXCEPT !.rest = TRUE, !.i = @ + 1]
      [] tok.t = "opt" /\ tok.name \in {"help", "version"} -> [o EXCEPT !.err = tok.name]
      [] tok.t = "opt" /\ tok.name \in Switches -> TakeSwitch(o, tok.name)
      [] tok.t = "opt" /\ tok.name = "header" -> TakeHeader(a, o)
      [] tok.t = "opt" /\ tok.name \in VALUE_FLAGS -> TakeValue(a, o, tok.name)
      [] tok.t = "word" /\ ~ StartsWithDash(tok) -> PushPositional(o, tok)
      [] OTHER -> Refuse(o)

ParseOptions(a) ==
    LET after[k \in 0..Len(a)] ==
            IF k = 0 THEN Blank
            ELSE LET o == after[k - 1] IN IF o.i > Len(a) \/ o.err # "" THEN o ELSE ParseStep(a, o)
    IN  after[Len(a)]

(* The port slot is filled before the directory slot; a mistyped port is   *)
(* refused rather than taken for a directory.                              *)
TakePositional(o, w) ==
    CASE o.err # "" -> o
      [] ~ o.port_from_flag /\ w.k \in {"padded", "plus", "minus"} -> Refuse(o)
      [] ~ o.port_from_flag /\ w.k = "num" -> IF ParsesAsPort(w) THEN SetAddress(o, o.host, w.n) ELSE Refuse(o)
      [] OTHER -> IF o.root = <<>> THEN [o EXCEPT !.root = <<w>>] ELSE Refuse(o)

TakePositionals(o) ==
    LET after[k \in 0..Len(o.positional)] ==
            IF k = 0 THEN o ELSE TakePositional(after[k - 1], o.positional[k])
    IN  after[Len(o.positional)]

(***************************************************************************)
(* What the line as a whole must satisfy                                   *)
(***************************************************************************)

RuntimeOwned ==
    {"content-length", "date", "server", "content-type", "content-range", "accept-ranges", "etag",
     "last-modified", "x-content-type-options", "connection", "keep-alive", "transfer-encoding",
     "upgrade", "te", "trailer", "proxy-connection", "proxy-authenticate", "proxy-authorization"}

validate_static_metadata_with_limits(content_type, headers) ==
    LET size[k \in 0..Len(headers)] ==
            IF k = 0 THEN 0 ELSE size[k - 1] + headers[k].name.n + headers[k].value.n
    IN  /\ \A w \in Range(content_type) : w.host # ""
        /\ Len(headers) <= MaxExtraHeaders
        /\ size[Len(headers)] <= MaxExtraHeaderBytes
        /\ \A h \in Range(headers) : h.value.host # "" /\ h.name.host \notin RuntimeOwned

Val(o, name) == LET at == {i \in DOMAIN o.vals : o.vals[i].name = name}
                IN  IF at = {} THEN <<>> ELSE <<o.vals[CHOOSE i \in at : TRUE].w>>

FinishParse(o) ==
    LET ip == resolve_bind_ip(o.host)
        cert == Val(o, "tls-cert")
        key == Val(o, "tls-key")
        refused == \/ ip = <<>>
                   \/ ("public" \notin o.seen /\ ip[1] \in Unspecified)
                   \/ ~ validate_static_metadata_with_limits(Val(o, "content-type"), o.headers)
                   \/ (cert = <<>> /\ key # <<>>)
    IN  IF o.err # "" \/ refused
        THEN [ok |-> FALSE, why |-> IF o.err = "" THEN "error" ELSE o.err]
        ELSE [ok |-> TRUE, ip |-> ip[1], port |-> o.port,
              root |-> IF o.root = <<>> THEN Text(".") ELSE o.root[1],
              switches |-> o.seen \cap (Switches \ {"public"}), headers |-> o.headers,
              log_format |-> Val(o, "log-format"), content_type |-> Val(o, "content-type"),
              limits |-> {[name |-> n, n |-> Val(o, n)[1].n] : n \in {x \in Positive \cup Numbers : Val(o, x) # <<>>}},
              tls_cert |-> cert, tls_key |-> IF key = <<>> THEN cert ELSE key]

parse_from(argv) ==
    IF SwitchWithValue(argv) THEN [ok |-> FALSE, why |-> "error"]
    ELSE FinishParse(TakePositionals(ParseOptions(expand_attached_long_values(argv))))

(***************************************************************************)
(* A Python ServeConfig as a command line                                  *)
(***************************************************************************)

(* Python takes address literals only; <<>> is a ValueError.               *)
py_parse_bind(w) == IF w.k \in {"ip", "sock"} THEN parse_bind(w) ELSE <<>>

post_init(c) ==
    /\ c.port \in 1..MaxPort
    /\ py_parse_bind(c.bind) # <<>>
    /\ py_parse_bind(c.bind)[1].port \in {NoPort, c.port}
    /\ c.log_format \in {"text", "json", "none"}
    /\ c.public \/ py_parse_bind(c.bind)[1].host \notin Unspecified

Given(condition, group) == IF condition THEN <<group>> ELSE <<>>

config_to_argv(c) ==
    <<<<Opt("directory"), W(c.directory)>>,
      <<Opt("bind"), W(Word("ip", py_parse_bind(c.bind)[1].host, 0))>>,
      <<Opt("port"), W(Num(c.port))>>>>
    \o Given(c.public, <<Opt("public")>>)
    \o Given(c.directory_listing, <<Opt("directory-listing")>>)
    \o Given(c.follow_symlinks, <<Opt("follow-symlinks")>>)
    \o Given(c.allow_dotfiles, <<Opt("allow-dotfiles")>>)
    \o Given(c.log_format # "text", <<Opt("log-format"), W(Text(c.log_format))>>)

(***************************************************************************)
(* Behaviour: a line comes from a shell or from a ServeConfig, and is      *)
(* parsed once.                                                            *)
(***************************************************************************)

CliInit ==
    /\ \/ line \in Lines /\ origin = <<>>
       \/ \E c \in PyConfigs : post_init(c) /\ origin = <<c>> /\ line = config_to_argv(c)
    /\ parsed = <<>>

ParseFrom ==
    /\ parsed = <<>>
    /\ parsed' = <<parse_from(FlattenSeq(line))>>
    /\ UNCHANGED <<line, origin>>

CliNext == ParseFrom

CliSpec == CliInit /\ [][CliNext]_cliVars

(***************************************************************************)
(* Properties                                                              *)
(***************************************************************************)

Accepted == parsed # <<>> /\ parsed[1].ok

(* What a ServeConfig asks for is what the executable serves:              *)
(* _config_to_argv (subprocess.py) followed by Args::parse_from gives back *)
(* the directory, the address, the port and the policy, for every          *)
(* directory that does not look like a flag.  One that does is refused by  *)
(* require_value, after ServeConfig has accepted it.                       *)
ServeConfigSurvives ==
    origin # <<>> /\ parsed # <<>> =>
        LET c == origin[1]
            r == parsed[1]
        IN  IF StartsWithDash(W(c.directory)) THEN ~ r.ok
            ELSE /\ r.ok /\ r.root = c.directory /\ r.port = c.port
                 /\ r.ip = py_parse_bind(c.bind)[1].host
                 /\ "directory-listing" \in r.switches <=> c.directory_listing
                 /\ "follow-symlinks" \in r.switches <=> c.follow_symlinks
                 /\ "allow-dotfiles" \in r.switches <=> c.allow_dotfiles
                 /\ (r.log_format # <<>> => r.log_format[1].host = c.log_format)
                 /\ (r.log_format = <<>> => c.log_format = "text")

(* The groups whose order among themselves means something: the words that *)
(* fill the two positional slots and the repeatable headers.               *)
Ordered(g) == g[1].t = "word" \/ g[1].name = "header"

(* Each group holds an argument with all of its values, and no --.         *)
Whole(l) ==
    \A i \in DOMAIN l :
        /\ l[i][1].t # "end"
        /\ l[i][1].t = "opt" /\ l[i][1].name \in VALUE_FLAGS => Len(l[i]) = IF l[i][1].name = "header" THEN 3 ELSE 2

Reorderings(l) ==
    {p \in [DOMAIN l -> DOMAIN l] :
        /\ \A i, j \in DOMAIN l : i # j => p[i] # p[j]
        /\ \A i, j \in DOMAIN l : i < j /\ Ordered(l[p[i]]) /\ Ordered(l[p[j]]) => p[i] < p[j]}

(* The order of the options of an accepted line is immaterial: parse_from  *)
(* reads them in one pass with many mutable locals, and no option may      *)
(* quietly win over another because it came later.                         *)
OrderIsImmaterial ==
    Accepted /\ origin = <<>> /\ Whole(line) =>
        \A p \in Reorderings(line) : parse_from(FlattenSeq([i \in DOMAIN line |-> line[p[i]]])) = parsed[1]

(* Nothing on an accepted line is ignored: without any one of its          *)
(* arguments it would be refused or mean something else (--public only     *)
(* lifts a refusal).                                                       *)
EveryArgumentCounts ==
    Accepted /\ origin = <<>> /\ Whole(line) =>
        \A i \in DOMAIN line :
            line[i] # <<Opt("public")>>
            => parse_from(FlattenSeq(RemoveAt(line, i))) # parsed[1]

(* A wildcard address is served only when --public was among the options:  *)
(* given before --, and not taken as a value or a directory.               *)
PublicOnPurpose ==
    Accepted /\ parsed[1].ip \in Unspecified =>
        \E i \in DOMAIN line :
            line[i] = <<Opt("public")>> /\ \A j \in 1..(i - 1) : line[j] # <<EndOfOptions>>

(* The command line means one thing (args.rs, subprocess.py).              *)
CommandLineIsSound == ServeConfigSurvives /\ OrderIsImmaterial /\ EveryArgumentCounts /\ PublicOnPurpose
=============================================================================
