----------------------------- MODULE MCComponents -----------------------------
(***************************************************************************)
(* Components that meet only through values, one per behaviour: part says  *)
(* which one acts, and the others stay as they start.  File serving        *)
(* (StaticService and, on Windows, WindowsFiles), the command line, the    *)
(* configurations, setting up a server, and handlers, bodies and streams   *)
(* written in Python.                                                      *)
(***************************************************************************)
EXTENDS StaticService, WindowsFiles, CommandLine, Configuration, ServerSetup,
        PythonHandler, PythonStreams

CONSTANTS b1, b2, r1, r2, s1, s2

VARIABLE part

(***************************************************************************)
(* A small tree for StaticService: /root is served, /out is not.           *)
(***************************************************************************)
A == Str(<<"a">>)
B == Str(<<"b">>)
DotA == Str(<<".", "a">>)
Pct == <<[c |-> "a", enc |-> 1]>>    \* the three characters "%61" as a file name
Alias == Str(<<"a", "~1">>)
R == Str(<<"con", "a">>)      \* "root", a name no request spells
O == Str(<<"con", "b">>)      \* "out"

MCNodes == {"top", "root", "root2", "sub", "hid", "out", "fa", "fb", "fx", "secret", "lnk", "lnkdir", "lnkhid", "fifo"}
MCKind == [n \in MCNodes |->
    IF n \in {"top", "root", "root2", "sub", "hid", "out"} THEN "dir"
    ELSE IF n \in {"lnk", "lnkdir", "lnkhid"} THEN "link"
    ELSE IF n = "fifo" THEN "fifo" ELSE "file"]
MCTarget == [lnk |-> <<O, A>>, lnkdir |-> <<O>>, lnkhid |-> <<R, DotA>>]
MCTree == [d \in {"top", "root", "root2", "sub", "hid", "out"} |->
    CASE d = "top"   -> [n \in {R, O} |-> IF n = R THEN "root" ELSE "out"]
      [] d = "root"  -> [n \in {A, B, DotA, Alias} |->
                            CASE n = A -> "fa" [] n = B -> "sub" [] n = DotA -> "hid" [] n = Alias -> "lnkhid"]
      [] d = "root2" -> [n \in {A} |-> "fx"]
      [] d = "sub"   -> [n \in {A, Pct, IndexName(1)} |-> IF n = IndexName(1) THEN Gone ELSE "fb"]
      [] d = "hid"   -> [n \in {A} |-> "fb"]
      [] d = "out"   -> [n \in {A, IndexName(1)} |-> "secret"]]
MCDisk == [n \in {m \in MCNodes : MCKind[m] = "file"} |->
    [len |-> IF n = "fa" THEN 3 ELSE 2, mtime |-> Some(0), ver |-> 1]]

MCRootPath == <<R>>

MCInside == {"root", "sub", "hid", "fa", "fb", "fifo"}

Standard == [emit_etag |-> TRUE, emit_last_modified |-> TRUE]
Policy(s, d) == [symlinks |-> s, dotfiles |-> d, listing |-> TRUE, errors |-> "Minimal", metadata |-> Standard]
Bare(e) == [symlinks |-> "Denied", dotfiles |-> "Denied", listing |-> FALSE, errors |-> "Empty",
            metadata |-> [emit_etag |-> e, emit_last_modified |-> ~ e]]
MCPolicies == [s \in {"paths", "races", "plan", "resume", "repin"} |->
    CASE s = "paths" -> {Policy("Denied", "Denied"), Policy("Follow", "Denied"), Policy("Denied", "Serve"), Bare(TRUE)}
      [] s = "plan"  -> {Policy("Denied", "Denied"), Bare(TRUE), Bare(FALSE)}
      [] s \in {"races", "repin"} -> {Policy("Denied", "Denied"), Policy("Follow", "Denied")}
      [] s = "resume" -> {Policy("Denied", "Denied")}]

Get(t) == [NoReq EXCEPT !.target = t]

\* Short targets over the characters the path layer tells apart.
Chars == {[c |-> c, enc |-> e] : c \in {".", "/"}, e \in 0 .. 2}
         \cup {[c |-> c, enc |-> e] : c \in {"bs", "nul", "ctl"}, e \in 0 .. 1}
         \cup {Lit("a"), Lit(":"), Lit("con"), Lit("%"), Lit("?"), Lit("~1"), [c |-> "bad", enc |-> 1], [c |-> "sp", enc |-> 1]}
PathTargets == {<<Lit("/")>> \o s : s \in [1 .. 1 -> Chars] \cup [1 .. 2 -> Chars]}
          \cup {<<Lit("/"), Lit("a")>> \o s : s \in [1 .. 2 -> {Lit("/"), Lit("."), [c |-> ".", enc |-> 1], Lit("sp")}]}
          \cup {Str(<<"a">>), Str(<<"/", "a", "/", "a", "/">>)}
RaceTargets == {Str(<<"/", "a">>), Str(<<"/", "b", "/", "a">>), Str(<<"/", "b", "/">>), Str(<<"/", "b">>), Str(<<"/">>)}

Tag(weak, n) == [weak |-> weak, op |-> <<3, n>>]
Dates == {None, Some(BadDate), Some(0), Some(1)}
TagLists == {None, Some(<<Star>>), Some(<<Star, Star>>), Some(<<Tag(FALSE, 9), Tag(TRUE, 0)>>), Some(<<Tag(FALSE, 0)>>)}
Spec1(a, b) == [unit |-> "bytes", specs |-> <<[dash |-> TRUE, first |-> a, last |-> b]>>]
Ranges == {Spec1(a, b) : a \in {NoDigits, Junk, 0, 2, 3}, b \in {NoDigits, Junk, 0, 2, 4, 5}}
          \cup {[unit |-> "items", specs |-> <<>>], [unit |-> "bytes", specs |-> <<>>],
                [unit |-> "bytes", specs |-> <<[dash |-> FALSE, first |-> 1, last |-> NoDigits]>>],
                [unit |-> "bytes", specs |-> [i \in 1 .. 2 |-> [dash |-> TRUE, first |-> 0, last |-> 0]]]}
IfRanges == {None, Some([kind |-> "empty", tag |-> Star, date |-> 0])}
            \cup {Some([kind |-> "tag", tag |-> Tag(w, 0), date |-> 0]) : w \in BOOLEAN}
            \cup {Some([kind |-> "date", tag |-> Star, date |-> d]) : d \in {BadDate, 0, 1}}
Conditional(im, ius, inm, ims, r, ifr) ==
    [NoReq EXCEPT !.target = Str(<<"/", "a">>), !.if_match = im, !.if_unmodified_since = ius,
                  !.if_none_match = inm, !.if_modified_since = ims, !.range = r, !.if_range = ifr]
PlanRequests ==
    {Conditional(im, ius, inm, ims, r, None) :
        im \in TagLists, ius \in Dates, inm \in TagLists, ims \in Dates, r \in {None, Some(Spec1(0, 1))}}
    \cup {[Conditional(None, None, None, None, Some(r), ifr) EXCEPT !.method = m] :
              r \in Ranges, ifr \in IfRanges, m \in {"GET", "HEAD"}}

MCRequests == [s \in {"paths", "races", "plan", "resume", "repin"} |->
    CASE s = "paths" -> {Get(t) : t \in PathTargets}
                        \cup {[Get(A) EXCEPT !.absolute = TRUE], [Get(A) EXCEPT !.method = "POST"]}
      [] s \in {"races", "repin"} ->
            {Get(t) : t \in RaceTargets} \cup {[Get(Str(<<"/", "b", "/">>)) EXCEPT !.method = "HEAD"]}
      [] s = "plan" -> PlanRequests
      [] s = "resume" -> {Get(Str(<<"/", "a">>))}]

At(d, n, nodes) == {[dir |-> d, name |-> n, node |-> x] : x \in nodes}
MCSwaps == [s \in {"paths", "races", "plan", "resume", "repin"} |->
    CASE s = "races" -> At("root", A, {Gone, "fa", "lnk", "fifo"})
                        \cup At("root", B, {"sub", "lnkdir"})
                        \cup At("sub", IndexName(1), {Gone, "fb", "lnk"})
      [] s = "repin" -> At("top", R, {"root", "root2"})
      [] OTHER -> {}]

(***************************************************************************)
(* Command lines of up to three groups of arguments, and the settings of   *)
(* the Python launcher.                                                    *)
(***************************************************************************)
MCAddresses == <<"0.0.0.0", "10.0.0.1", "127.0.0.1", "::", "::1">>

MCResolve == [host |-> {"10.0.0.1", "::1", "127.0.0.1"}, wild |-> {"0.0.0.0"}, nohost |-> {}]

ArgumentGroups ==
    {<<Opt("bind"), W(Word("ip", "10.0.0.1", 0))>>, <<Opt("bind"), W(Word("sock", "0.0.0.0", 81))>>,
     <<Opt("bind"), W(Text("wild"))>>, <<Att("bind", <<Word("hostport", "host", 82)>>)>>,
     <<Opt("bind"), W(Word("hostport", "", 83))>>,
     <<Opt("addr"), W(Word("sock", "::1", 84))>>, <<Opt("port"), W(Num(85))>>,
     <<Opt("port"), W(Word("plus", "", 86))>>, <<Opt("public")>>, <<Opt("quiet")>>,
     <<Att("quiet", <<Num(1)>>)>>, <<Opt("help")>>, <<EndOfOptions>>,
     <<W(Num(87))>>, <<W(Num(70000))>>, <<W(Word("plus", "", 88))>>, <<W(Word("minus", "", 88))>>,
     <<W(Text("dir"))>>, <<Opt("directory"), W(Num(89))>>, <<Opt("directory")>>,
     <<Att("directory", <<Word("flag", "-www", 0)>>)>>,
     <<Opt("max-connections"), W(Num(0))>>, <<Opt("max-connections"), W(Num(5))>>,
     <<Opt("header-timeout"), W(Num(7))>>, <<Opt("header"), W(Text("x")), W(Text("y"))>>,
     <<Att("header", <<Text("x"), Text("z")>>)>>, <<Opt("header"), W(Text("date")), W(Text("y"))>>,
     <<Opt("content-type"), W(Text("t"))>>, <<Opt("tls-cert"), W(Text("c"))>>,
     <<Opt("tls-key"), W(Text("k"))>>, <<Opt("log-format"), W(Text("json"))>>}

\* The groups that share a setting, or end the options: these also in threes.
Competing ==
    {g \in ArgumentGroups :
        \/ g[1] \in {Opt("bind"), Opt("addr"), Opt("port"), Opt("public"), Opt("directory")}
        \/ Len(g) = 1 /\ g[1] \notin {Opt("quiet"), Opt("help")}}

MCLines == UNION {[1..n -> ArgumentGroups] : n \in 0..2} \cup [1..3 -> Competing]

MCPyConfigs ==
    [directory : {Text("dir"), Num(9), Word("flag", "-www", 0), Word("dash", "-", 0)},
     bind : {Word("ip", "127.0.0.1", 0), Word("ip", "::", 0), Word("sock", "0.0.0.0", 9000),
             Word("sock", "10.0.0.1", 9001), Text("host")},
     port : {0, 8000, 9000}, public : BOOLEAN, directory_listing : BOOLEAN, follow_symlinks : BOOLEAN,
     allow_dotfiles : BOOLEAN, log_format : {"text", "json"}]

(***************************************************************************)
(* Configurations: each setting alone at and beyond its bounds, every      *)
(* deadline against the connection's total lifetime, and the policies.     *)
(***************************************************************************)
ValuesOf(f) ==
    CASE f \in Permits -> {0, 1, MaxPermits + 1}
      [] f = "connection_total_timeout" -> {0, 20, 90}
      [] f \in PositiveTimes -> {0, 7, 75}
      [] f \in Sizes -> {Bounds[f].min - 1, Bounds[f].min, DEFAULTS[f] + 1}
                        \cup IF Bounds[f].max = Unlimited THEN {} ELSE {Bounds[f].max + 1}
      [] f = "max_requests_per_connection" -> {0, 3}
      [] OTHER -> {0, 2, 4}

MCSettings ==
    {[x \in {} |-> 0]}
    \cup UNION {{[x \in {f} |-> v] : v \in ValuesOf(f)} : f \in SharedFields \cup ListingFields}
    \cup {[x \in {"connection_total_timeout", f} |-> IF x = f THEN v ELSE t] :
              f \in WithinTotal, v \in {7, 20, 21, 75}, t \in {0, 20, 90}}

Transport(e, v) == [enabled |-> e, valid |-> v]
MCTransportSets == {[http2 |-> x, http3 |-> y] :
    x, y \in {Transport(FALSE, TRUE), Transport(TRUE, TRUE), Transport(TRUE, FALSE)}}

NoOverride == [x \in {} |-> "none"]
Custom == [PolicyDefault EXCEPT !.server = "custom"]
MCPolicySets ==
    {[base |-> <<>>, over |-> o] : o \in {NoOverride, [server |-> "bad"], [error |-> "Detailed"]}}
    \cup {[base |-> <<>>, over |-> [stripped |-> {"date"}]],
          [base |-> <<[Custom EXCEPT !.stripped = {"etag"}]>>, over |-> NoOverride],
          [base |-> <<Custom>>, over |-> [date |-> "suppress"]],
          [base |-> <<[Custom EXCEPT !.server = "bad"]>>, over |-> [server |-> "custom"]]}

(***************************************************************************)
(* Two builders in a process that inherited a TCP, a Unix and another      *)
(* listening socket.                                                       *)
(***************************************************************************)
Socket(k, p) == [kind |-> k, port |-> p]
MCInherited == <<Socket("tcp", 1), Socket("unix", 0), Socket("vsock", 0)>>
MCActivations == {[pid |-> "mine", names |-> <<"web", "admin">>]}
                 \cup {[pid |-> p, names |-> <<>>] : p \in {"malformed", "other"}}
Stored(runtime, tls, http3, root) ==
    [runtime |-> runtime, tls |-> tls, http3 |-> http3, identity |-> http3, root |-> root]
PlainSetup == Stored("valid", FALSE, FALSE, "none")
MCSetups == {[b \in Builders |-> IF b = b1 THEN x ELSE PlainSetup] :
    x \in {PlainSetup, Stored("valid", TRUE, TRUE, "none"), Stored("valid", TRUE, FALSE, "none"),
           Stored("none", FALSE, FALSE, "good"), Stored("none", FALSE, FALSE, "bad"),
           Stored("invalid", FALSE, FALSE, "good")}}

(***************************************************************************)
(* Response objects and handler programs of two Python requests.           *)
(***************************************************************************)
Object(status, declared, hop, kind, size, length) ==
    [status |-> status, declared |-> declared, hop |-> hop, kind |-> kind, size |-> size, length |-> length]
MCShape == <<
    Object(200, <<>>, FALSE, "bytes", 2, Absent), Object(200, <<2>>, FALSE, "bytes", 2, Absent),
    Object(200, <<3>>, FALSE, "bytes", 2, Absent), Object(200, <<2, 2>>, FALSE, "bytes", 2, Absent),
    Object(200, <<>>, TRUE, "bytes", 2, Absent), Object(204, <<>>, FALSE, "bytes", 2, Absent),
    Object(200, <<>>, FALSE, "stream", 0, Absent), Object(200, <<>>, FALSE, "stream", 0, 3),
    Object(200, <<3>>, FALSE, "stream", 0, Absent), Object(200, <<>>, FALSE, "trailers", 0, Absent),
    Object(304, <<>>, FALSE, "stream", 0, 3), Object(200, <<>>, FALSE, "file", 5, Absent),
    Object(200, <<0>>, FALSE, "empty", 0, Absent), Object(700, <<>>, FALSE, "empty", 0, Absent)>>
MCObjects == DOMAIN MCShape

Step1(do, n) == [do |-> do, n |-> n]
MCCalls == {Step1("send_response", 200), Step1("send_response", 99), Step1("send_length", 2),
            Step1("send_hop", 0), Step1("end_headers", 0), Step1("write", 2), Step1("send_error", 404),
            Step1("send_error", 304), Step1("native", 1), Step1("raise", 0)}
Typical == <<Step1("send_response", 200), Step1("send_length", 2), Step1("end_headers", 0), Step1("write", 2)>>
MCPrograms == UNION {[1..n -> MCCalls] : n \in 0..2}
              \cup {Typical, Typical \o <<Step1("send_error", 404)>>, Typical \o <<Step1("write", 2)>>,
                    <<Step1("send_response", 200), Step1("send_length", 2), Step1("write", 2)>>}

Returns(o) == [kind |-> "object", object |-> o, program |-> <<>>]
Calls(p) == [kind |-> "facade", object |-> 0, program |-> p]
Answering(x, y) == [r \in HandlerRequests |-> IF r = r1 THEN x ELSE y]
MCPlans == {Answering(Returns(o), Returns(o)) : o \in MCObjects}
           \cup {Answering(Calls(p), Calls(Typical)) : p \in MCPrograms}
           \cup {Answering(Calls(<<Step1("native", 1)>>), Returns(1))}

MCNativeChunks == <<1, 3>>

(***************************************************************************)
(* A Windows tree with a file whose name is dotted and has a short alias,  *)
(* a junction and a link, which other processes put under other names; and *)
(* directories that take up to three buffers to list.                      *)
(***************************************************************************)
MCWinTree ==
    [root |-> [d |-> "dir", f |-> "file", dot |-> "env", alias |-> "env", j |-> "junction"],
     dir |-> [index |-> "page", sub |-> "subdir", alias |-> "env"],
     subdir |-> [f |-> "file"], junction |-> [f |-> "outside"]]
MCWinNames == [root |-> "r", dir |-> "d", subdir |-> "sub", file |-> "f", page |-> "index", env |-> "dot",
               junction |-> "j", link |-> "f", outside |-> "f"]
MCWinRequests ==
    [comps : {<<"f">>, <<"dot">>, <<"alias">>, <<"j", "f">>, <<"d", "sub", "f">>, <<"d", "alias">>},
     child : {<<>>}, dotfiles_denied : BOOLEAN]
    \cup [comps : {<<>>, <<"d">>, <<"d", "sub">>}, child : {<<>>, <<"index">>, <<"alias">>}, dotfiles_denied : BOOLEAN]
MCWinRebinds ==
    {[dir |-> "root", name |-> n, node |-> x] : n \in {"d", "f"}, x \in {"link", "junction", "dir", "file"}}
    \cup {[dir |-> "dir", name |-> n, node |-> x] : n \in {"index", "sub"}, x \in {"link", "junction", "subdir"}}
MCWinRenames == {[node |-> "env", name |-> "e"]}

DirEntry(n, k, l) == [name |-> n, kind |-> k, len |-> l]
RealEntries == {DirEntry("f", "File", 1), DirEntry("g", "Directory", 2), DirEntry(".h", "File", 1),
                DirEntry("l", "ReparsePoint", 1), DirEntry("invalid", "File", 1)}
MCDirectories == {<<DirEntry(".", "Directory", 1), DirEntry("..", "Directory", 2)>> \o r :
                      r \in UNION {[1..n -> RealEntries] : n \in 0..3}} \cup {<<>>}
MCStray == [next : {0, 1, 2, 3, 6}, len : {0, 1, 3}, odd : {FALSE}, name : {".", "f"}, kind : {"File"}]
           \cup {[next |-> 0, len |-> 1, odd |-> o, name |-> n, kind |-> "File"] :
                    o \in BOOLEAN, n \in {"f", "invalid"}}

(***************************************************************************)
(* One part at a time                                                      *)
(***************************************************************************)
PlainPolicies == [base |-> <<>>, over |-> NoOverride]
PlainConfiguration ==
    /\ route = "direct" /\ setting = [x \in {} |-> 0]
    /\ transport = [http2 |-> Transport(FALSE, TRUE), http3 |-> Transport(FALSE, TRUE)]
    /\ policySet = PlainPolicies
    /\ stage = "set" /\ config = <<>>

\* The transports and the policies do not meet, so they are not varied together.
ChosenConfiguration ==
    \/ transport = [http2 |-> Transport(FALSE, TRUE), http3 |-> Transport(FALSE, TRUE)] /\ ConfInit
    \/ policySet = PlainPolicies /\ ConfInit

PlainSetups ==
    /\ activation = [pid |-> "mine", names |-> <<"web", "admin">>]
    /\ settings = [b \in Builders |-> PlainSetup]
    /\ SetupInit

NoStatic ==
    /\ scenario = "resume" /\ policy = (CHOOSE p \in Policies["resume"] : TRUE)
    /\ req = (CHOOSE r \in Requests["resume"] : TRUE)
    /\ StaticInit

MCInit ==
    /\ part \in {"files", "windows", "buffers", "arguments", "configuration", "setup", "handlers", "bodies", "streams"}
    /\ IF part = "files" THEN StaticInit ELSE NoStatic
    /\ IF part = "windows" THEN WinInit
       ELSE winReq = [comps |-> <<>>, child |-> <<>>, dotfiles_denied |-> TRUE] /\ WinInit
    /\ IF part = "buffers" THEN DirInit
       ELSE entriesOf = <<>> /\ faithful = TRUE /\ max_entries = 0 /\ dotfiles_denied = TRUE /\ DirInit
    /\ IF part = "configuration" THEN ChosenConfiguration ELSE PlainConfiguration
    /\ IF part = "setup" THEN SetupInit ELSE PlainSetups
    /\ IF part = "handlers" THEN HandlerInit ELSE head = {} /\ plan = Answering(Returns(1), Returns(1)) /\ HandlerInit
    /\ PyBodyInit
    /\ IF part = "streams" THEN StreamInit ELSE async = FALSE /\ suppressed = {} /\ StreamInit
    /\ IF part = "arguments" THEN CliInit ELSE line = <<>> /\ origin = <<>> /\ parsed = <<>>

(* Only file serving is never stuck; every other part may have finished.   *)
Rest == part # "files" /\ UNCHANGED <<part, staticVars, winVars, dirVars, cliVars, confVars, setupVars, handlerVars, pyBodyVars, streamVars>>

MCNext ==
    \/ part = "files" /\ StaticNext
       /\ UNCHANGED <<part, winVars, dirVars, cliVars, confVars, setupVars, handlerVars, pyBodyVars, streamVars>>
    \/ part = "windows" /\ WinNext
       /\ UNCHANGED <<part, staticVars, dirVars, cliVars, confVars, setupVars, handlerVars, pyBodyVars, streamVars>>
    \/ part = "buffers" /\ DirNext
       /\ UNCHANGED <<part, staticVars, winVars, cliVars, confVars, setupVars, handlerVars, pyBodyVars, streamVars>>
    \/ part = "arguments" /\ CliNext
       /\ UNCHANGED <<part, staticVars, winVars, dirVars, confVars, setupVars, handlerVars, pyBodyVars, streamVars>>
    \/ part = "configuration" /\ ConfNext
       /\ UNCHANGED <<part, staticVars, winVars, dirVars, cliVars, setupVars, handlerVars, pyBodyVars, streamVars>>
    \/ part = "setup" /\ SetupNext
       /\ UNCHANGED <<part, staticVars, winVars, dirVars, cliVars, confVars, handlerVars, pyBodyVars, streamVars>>
    \/ part = "handlers" /\ HandlerNext
       /\ UNCHANGED <<part, staticVars, winVars, dirVars, cliVars, confVars, setupVars, pyBodyVars, streamVars>>
    \/ part = "bodies" /\ PyBodyNext
       /\ UNCHANGED <<part, staticVars, winVars, dirVars, cliVars, confVars, setupVars, handlerVars, streamVars>>
    \/ part = "streams" /\ StreamNext
       /\ UNCHANGED <<part, staticVars, winVars, dirVars, cliVars, confVars, setupVars, handlerVars, pyBodyVars>>
    \/ Rest

MCSpec ==
    MCInit /\ [][MCNext]_<<part, staticVars, winVars, dirVars, cliVars, confVars, setupVars, handlerVars, pyBodyVars, streamVars>>

(* No open leaves the served tree, by descriptors (fs/unix.rs) or by       *)
(* handles (fs/windows.rs): see StaticService and WindowsFiles.            *)
OpensStayInside == OpensAreSafe /\ WindowsOpensAreSafe

(* Names mean the same to the parser, the resolver and the listing, and a  *)
(* listing is whole (path/mod.rs, fs/mod.rs, fs/dirbuf.rs): see            *)
(* StaticService and WindowsFiles.                                         *)
ListingsAgree == NamesAgree /\ WindowsListingIsWhole

(* What is asked for is what is served: by the command line and the Python *)
(* launcher (args.rs), and by the configuration each transport runs with   *)
(* (config.rs, limits.rs): see CommandLine and Configuration.              *)
SettingsAreFaithful == CommandLineIsSound /\ ConfigurationIsFaithful

(* Answers and bodies that cross into and out of Python (sync_handler.rs,  *)
(* server.py, body_bridge.rs, lowlevel.py): see PythonHandler and          *)
(* PythonStreams.                                                          *)
PythonExchangesSound == PythonAnswersSound /\ PythonBodySound /\ PythonStreamsSound
=============================================================================
