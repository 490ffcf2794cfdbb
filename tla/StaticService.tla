---------------------------- MODULE StaticService ----------------------------
(***************************************************************************)
(* The static service of eggserve-static serving one request at a time     *)
(* over a directory tree that other processes change under it.             *)
(*                                                                         *)
(* A node is a file system object (an inode).  tree gives the entries of   *)
(* every directory node; disk gives the length, modification time and      *)
(* content version of every file node.  A handle is a node: it stays valid *)
(* whatever happens to the names that led to it.                           *)
(***************************************************************************)
EXTENDS PathConfinement, StaticPlanner

CONSTANTS Nodes, Kind,        \* Kind[n] is "dir", "file", "link" or "fifo"
          Target,             \* the absolute path a link node holds
          Root, Top,          \* the pinned root directory and "/"
          RootPath,           \* canonical_root: the path of Root at startup
          InitialTree, InitialDisk,
          Inside,             \* the nodes that belong to the served tree
          Policies,           \* Policies[scenario]: the service configurations
          Requests,           \* Requests[scenario]: the requests a client sends
          SwapChoices,        \* SwapChoices[scenario]: entries others may rewrite
          Lengths,            \* lengths a writer gives a file
          MaxSwaps, MaxClock, MaxVersion,   \* bounds on the writers
          ChunkSize,          \* stream_chunk_size
          MaxListing, MaxListingBytes

Gone == "gone"                \* no such entry

VARIABLES scenario, policy,
          tree, disk, clock,  \* the file system and its clock
          swaps,              \* entries rewritten since the request arrived
          req, pc, walk,      \* the request and how far respond has come
          resp,               \* the response
          client              \* what the client keeps of an interrupted transfer

fsvars == <<tree, disk, clock, swaps>>
staticVars == <<scenario, policy, tree, disk, clock, swaps, req, pc, walk, resp, client>>

NoReq  == [target |-> Str(<<"/">>), method |-> "GET", absolute |-> FALSE, if_match |-> None,
           if_unmodified_since |-> None, if_none_match |-> None, if_modified_since |-> None,
           range |-> None, if_range |-> None]
NoWalk == [base |-> <<>>, comps |-> <<>>, i |-> 1, at |-> Root, child |-> 0, dir |-> Root,
           dirpath |-> RootPath, path |-> <<>>, kind |-> "none", meta |-> None, handle |-> None]
NoResp == [status |-> 0, plan |-> None, length |-> None, handle |-> None, off |-> 0, left |-> 0,
           sent |-> 0, vers |-> {}, date |-> 0, listed |-> {}, outcome |-> "none"]

StaticInit ==
    /\ scenario \in DOMAIN Requests
    /\ policy \in Policies[scenario]
    /\ tree = InitialTree /\ disk = InitialDisk /\ clock = 0 /\ swaps = 0
    /\ req \in Requests[scenario] /\ pc = "idle" /\ walk = NoWalk /\ resp = NoResp
    /\ client = None

Meta(n) == [len |-> disk[n].len, mtime |-> disk[n].mtime]

PathPolicyOf(p) == [dotfiles |-> IF p.dotfiles = "Denied" THEN "Denied" ELSE "Allow",
                    reject_backslash |-> TRUE]

(***************************************************************************)
(* Responses                                                               *)
(***************************************************************************)
permits_payload_body(status) == status \notin {204, 205, 304}

\* The text of an error counts 1 byte; HEAD advertises what GET would send.
error_response(status) ==
    [NoResp EXCEPT !.status = status, !.outcome = "complete",
                   !.length = IF policy.errors = "Minimal" THEN Some(1) ELSE Some(0)]

redirect == [NoResp EXCEPT !.status = 301, !.length = Some(0), !.outcome = "complete"]

path_rejection_response(rejection) ==
    error_response(IF rejection \in {"MalformedPercentEncoding", "InvalidUtf8", "NulByte",
                                     "ControlCharacter", "Empty", "UnsupportedUriForm", "TooLong"}
                   THEN 400 ELSE 403)

\* ServiceError::internal becomes a 500.
internal_error == error_response(500)

\* The body source of a plan: where to read and how much.  A range is checked
\* once more against the metadata.
into_body(plan, meta) ==
    LET r == plan.body.range
    IN  CASE plan.body.kind = "FileRange" ->
                IF r[1].end < r[1].start \/ r[1].end >= meta.len THEN None
                ELSE Some([off |-> r[1].start, left |-> FileRange_len(r[1])])
          [] plan.body.kind = "FileFull" -> Some([off |-> 0, left |-> meta.len])
          [] OTHER -> Some([off |-> 0, left |-> 0])

\* For HEAD the planned length is kept.
response_from_plan(plan, source, node) ==
    LET streams == plan.body.kind \in {"FileFull", "FileRange"}
    IN  [NoResp EXCEPT
            !.status = plan.status, !.plan = Some(plan),
            !.length = IF permits_payload_body(plan.status) THEN plan.content_length ELSE None,
            !.handle = IF streams THEN Some(node) ELSE None,
            !.off = source.off, !.left = source.left,
            !.date = clock \div TicksPerSecond,
            !.outcome = IF streams THEN "streaming" ELSE "complete"]

\* conditional_headers read from the request are the fields of req.
file_response(node, meta) ==
    LET plan   == PlanWithMetadata(req, meta, policy.metadata)
        source == into_body(plan, meta)
    IN  IF source = None THEN internal_error ELSE response_from_plan(plan, source[1], node)

Answer(r) ==
    /\ resp' = r
    /\ pc' = IF r.outcome = "streaming" THEN "stream" ELSE "done"

(***************************************************************************)
(* respond: from the request to the first step of the walk.                *)
(***************************************************************************)
\* resolve_root duplicates the pinned descriptor, which the system may refuse.
StartWalk(comps) ==
    IF comps = <<>> /\ policy.symlinks = "Denied"
    THEN pc' \in {"root", "clone_failed"}
    ELSE pc' = IF policy.symlinks = "Denied" THEN "stat" ELSE "canonicalize"

Accept ==
    LET parsed == ConfinedPath_parse(req.target, PathPolicyOf(policy))
    IN  /\ pc = "idle"
        /\ IF req.absolute
           THEN pc' = "done" /\ resp' = error_response(400) /\ UNCHANGED walk
           ELSE IF req.method \notin {"GET", "HEAD"}
           THEN pc' = "done" /\ resp' = error_response(405) /\ UNCHANGED walk
           ELSE IF ~ parsed.ok
           THEN pc' = "done" /\ resp' = path_rejection_response(parsed.err) /\ UNCHANGED walk
           ELSE /\ walk' = [NoWalk EXCEPT !.base = parsed.val, !.comps = parsed.val]
                /\ resp' = NoResp
                /\ StartWalk(parsed.val)
        /\ UNCHANGED <<scenario, policy, fsvars, req, client>>

TrailingSlash == req.target[Len(req.target)] = Lit("/")

IndexName(k) == Str(<< <<"index.html">>, <<"index.htm">> >>[k])

\* resolve_child from the directory handle, or by path in follow mode.
StartChild(k, dir) ==
    /\ walk' = [NoWalk EXCEPT
                  !.base = walk.base, !.child = k, !.dir = dir, !.at = dir,
                  !.dirpath = IF walk.child = 0 THEN walk.path ELSE walk.dirpath,
                  !.comps = IF policy.symlinks = "Denied" THEN <<IndexName(k)>>
                            ELSE Append(walk.base, IndexName(k))]
    /\ pc' = IF policy.symlinks = "Denied" THEN "stat" ELSE "canonicalize"
    /\ UNCHANGED resp

\* What respond does with the resource a resolution ends in.
Resolved(kind, node, meta) ==
    CASE kind = "File" ->
            Answer(file_response(node, meta)) /\ UNCHANGED walk
      [] kind = "Directory" /\ walk.child = 0 ->
            IF TrailingSlash THEN StartChild(1, node)
            ELSE Answer(redirect) /\ UNCHANGED walk
      [] kind = "NotFound" /\ walk.child = 1 -> StartChild(2, walk.dir)
      [] kind = "NotFound" /\ walk.child = 2 ->
            IF policy.listing THEN pc' = "listing" /\ UNCHANGED <<resp, walk>>
            ELSE Answer(error_response(403)) /\ UNCHANGED walk
      [] kind = "NotFound" /\ walk.child = 0 -> Answer(error_response(404)) /\ UNCHANGED walk
      [] kind = "Denied" \/ (kind = "Directory" /\ walk.child > 0) ->
            Answer(error_response(403)) /\ UNCHANGED walk
      [] kind = "IoError" -> Answer(internal_error) /\ UNCHANGED walk

NoMeta == [len |-> 0, mtime |-> None]

ResolveRoot ==
    /\ pc \in {"root", "clone_failed"}
    /\ Resolved(IF pc = "root" THEN "Directory" ELSE "IoError", Root, NoMeta)
    /\ UNCHANGED <<scenario, policy, fsvars, req, client>>

(***************************************************************************)
(* What the kernel makes of a path (external).                             *)
(***************************************************************************)
Entry(dir, name) == IF name \in DOMAIN tree[dir] THEN tree[dir][name] ELSE Gone

Missing == [path |-> <<>>, node |-> Gone]

RECURSIVE Canonical(_, _, _, _)
\* The node and the link-free path that `rest` leads to from directory `at`.
Canonical(done, at, rest, fuel) ==
    IF rest = <<>> THEN [path |-> done, node |-> at]
    ELSE LET node == IF Kind[at] = "dir" THEN Entry(at, Head(rest)) ELSE Gone
         IN  IF node = Gone \/ fuel = 0 THEN Missing
             ELSE IF Kind[node] = "link" THEN Canonical(<<>>, Top, Target[node] \o Tail(rest), fuel - 1)
             ELSE Canonical(Append(done, Head(rest)), node, Tail(rest), fuel)

canonicalize(path) == Canonical(<<>>, Top, path, 2)

starts_with(path, prefix) == Len(prefix) <= Len(path) /\ SubSeq(path, 1, Len(prefix)) = prefix

(***************************************************************************)
(* unix.rs: statat then openat, one component after the other.             *)
(***************************************************************************)
IsFinal == walk.i = Len(walk.comps)

Statat ==
    LET name == walk.comps[walk.i]
        node == Entry(walk.at, name)
    IN  /\ pc = "stat"
        /\ IF check_dotfile(PathPolicyOf(policy), name) \/ check_component(name) # "none"
           THEN Resolved("Denied", Root, NoMeta)
           ELSE IF node = Gone THEN Resolved("NotFound", Root, NoMeta)
           ELSE IF Kind[node] = "link" THEN Resolved("Denied", Root, NoMeta)
           ELSE IF IsFinal /\ Kind[node] \notin {"file", "dir"} THEN Resolved("NotFound", Root, NoMeta)
           ELSE pc' = "openat" /\ UNCHANGED <<walk, resp>>
        /\ UNCHANGED <<scenario, policy, fsvars, req, client>>

\* The flags of an open: the last component must not block, the others must
\* be directories, and no component may be a link.
OpenFlags(is_final) ==
    IF is_final THEN {"NOFOLLOW", "NONBLOCK"} ELSE {"NOFOLLOW", "DIRECTORY"}

\* What openat does with the flags.  A refused link is reported as ELOOP, or,
\* by some systems, as another error.
OpenOutcomes(node, flags) ==
    IF node = Gone THEN {"NotFound"}
    ELSE IF Kind[node] = "link" /\ "NOFOLLOW" \in flags THEN {"Denied", "NotFound"}
    ELSE IF Kind[node] # "dir" /\ "DIRECTORY" \in flags THEN {"NotFound"}
    ELSE IF Kind[node] = "fifo" /\ "NONBLOCK" \notin flags THEN {"blocks"}
    ELSE {"opened"}

Openat ==
    LET flags == OpenFlags(IsFinal)
        entry == Entry(walk.at, walk.comps[walk.i])
        node  == IF entry # Gone /\ Kind[entry] = "link" /\ "NOFOLLOW" \notin flags
                 THEN canonicalize(Target[entry]).node ELSE entry
    IN  /\ pc = "openat"
        /\ \E out \in OpenOutcomes(node, flags) :
              IF out \in {"NotFound", "Denied"} THEN Resolved(out, Root, NoMeta)
              ELSE IF out = "blocks" THEN pc' = "blocked" /\ UNCHANGED <<walk, resp>>
              ELSE IF ~ IsFinal
              THEN /\ walk' = [walk EXCEPT !.i = @ + 1, !.at = node]
                   /\ pc' = "stat" /\ UNCHANGED resp
              ELSE IF Kind[node] = "dir" THEN Resolved("Directory", node, NoMeta)
              ELSE IF Kind[node] = "file" THEN Resolved("File", node, Meta(node))
              ELSE Resolved("NotFound", Root, NoMeta)
        /\ UNCHANGED <<scenario, policy, fsvars, req, client>>

(***************************************************************************)
(* fs/mod.rs resolve_fallback: by path, in follow mode.                    *)
(***************************************************************************)
Candidate == RootPath \o walk.comps

\* Every component that looks like an 8.3 alias is checked under its long name.
AliasVerdict ==
    LET long(i) == canonicalize(RootPath \o SubSeq(walk.comps, 1, i))
        verdict(i) ==
            IF long(i).node = Gone THEN "NotFound"
            ELSE IF \/ ~ starts_with(long(i).path, RootPath)
                    \/ long(i).path # <<>> /\ Last(long(i).path)[1] = Lit(".") THEN "Denied"
            ELSE "none"
        bad == {i \in DOMAIN walk.comps : may_be_short_name_alias(walk.comps[i]) /\ verdict(i) # "none"}
    IN  IF policy.dotfiles # "Denied" \/ bad = {} THEN "none" ELSE verdict(Min(bad))

ChildRefused(c) ==
    validate_child_component_with_policy(c, policy.dotfiles = "Denied", TRUE) # "none"

Canonicalize ==
    LET c == canonicalize(Candidate)
    IN  /\ pc = "canonicalize"
        /\ IF \E i \in DOMAIN walk.comps : ChildRefused(walk.comps[i])
           THEN Resolved("Denied", Root, NoMeta)
           ELSE IF c.node = Gone THEN Resolved("NotFound", Root, NoMeta)
           ELSE IF ~ starts_with(c.path, RootPath) THEN Resolved("Denied", Root, NoMeta)
           ELSE IF AliasVerdict # "none" THEN Resolved(AliasVerdict, Root, NoMeta)
           ELSE walk' = [walk EXCEPT !.path = c.path] /\ pc' = "metadata" /\ UNCHANGED resp
        /\ UNCHANGED <<scenario, policy, fsvars, req, client>>

\* fs::metadata of the canonical path, whatever stands there now.
Metadata ==
    LET node == canonicalize(walk.path).node
    IN  /\ pc = "metadata"
        /\ IF node = Gone \/ (node # Gone /\ Kind[node] = "fifo")
           THEN Resolved("NotFound", Root, NoMeta)
           ELSE /\ walk' = [walk EXCEPT !.kind = Kind[node],
                                        !.meta = Some(IF Kind[node] = "file" THEN Meta(node) ELSE NoMeta)]
                /\ pc' = "open" /\ UNCHANGED resp
        /\ UNCHANGED <<scenario, policy, fsvars, req, client>>

\* File::open of the canonical path; a FIFO there blocks the caller.
Open ==
    LET node == canonicalize(walk.path).node
    IN  /\ pc = "open"
        /\ IF node = Gone THEN Resolved("NotFound", Root, NoMeta)
           ELSE /\ walk' = [walk EXCEPT !.handle = Some(node)]
                /\ pc' = IF Kind[node] = "fifo" THEN "blocked" ELSE "reverify"
                /\ UNCHANGED resp
        /\ UNCHANGED <<scenario, policy, fsvars, req, client>>

fallback_reverify ==
    LET c == canonicalize(Candidate)
    IN  c.node # Gone /\ starts_with(c.path, RootPath)

Reverify ==
    /\ pc = "reverify"
    /\ IF ~ fallback_reverify THEN Resolved("NotFound", Root, NoMeta)
       ELSE Resolved(IF walk.kind = "dir" THEN "Directory" ELSE "File",
                     walk.handle[1], walk.meta[1])
    /\ UNCHANGED <<scenario, policy, fsvars, req, client>>

(***************************************************************************)
(* Directory listings: list_directory, then render_directory_listing.      *)
(***************************************************************************)
ListedDir == IF policy.symlinks = "Denied" THEN walk.dir ELSE canonicalize(walk.dirpath).node

Visible(dir, name) ==
    /\ Entry(dir, name) # Gone
    /\ ~ check_dotfile(PathPolicyOf(policy), name)
    /\ policy.symlinks = "Denied" => Kind[Entry(dir, name)] # "link"

\* The prefix, the suffix and one unit per link must fit.
render_directory_listing(names) == Cardinality(names) + 2 <= MaxListingBytes

\* The plan of a GET carries no length: the bytes put in its place do.
listing_response(names) ==
    LET len  == Cardinality(names) + 2
        plan == plan_directory_listing(len, req.method = "HEAD")
    IN  [NoResp EXCEPT !.status = plan.status, !.listed = names, !.outcome = "complete",
                       !.length = IF plan.body.kind = "FullBytes" THEN Some(len) ELSE plan.content_length]

\* readdir yields the entries in any order and stops at max_entries.
ListDirectory ==
    LET dir     == ListedDir
        visible == {n \in DOMAIN tree[dir] : Visible(dir, n)}
        size    == IF Cardinality(visible) < MaxListing THEN Cardinality(visible) ELSE MaxListing
    IN  /\ pc = "listing"
        /\ IF dir = Gone \/ (dir # Gone /\ Kind[dir] # "dir")
           THEN Answer(internal_error)
           ELSE \E names \in SUBSET visible :
                   /\ Cardinality(names) = size
                   /\ Answer(IF render_directory_listing(names) THEN listing_response(names)
                             ELSE internal_error)
        /\ UNCHANGED <<scenario, policy, fsvars, req, walk, client>>

\* Mutant: what was read is sent, however little.
ReadChunkShort ==
    LET node  == resp.handle[1]
        chunk == IF resp.left < ChunkSize THEN resp.left ELSE ChunkSize
        there == IF Kind[node] = "file" THEN disk[node].len - resp.off ELSE 0
        got   == IF there < chunk THEN IF there > 0 THEN there ELSE 0 ELSE chunk
    IN  /\ pc = "stream" /\ resp.left > 0
        /\ resp' = [resp EXCEPT !.left = IF got = 0 THEN 0 ELSE @ - got, !.off = @ + got, !.sent = @ + got,
                                !.vers = @ \cup (IF got = 0 THEN {} ELSE {disk[node].ver})]
        /\ UNCHANGED <<scenario, policy, fsvars, req, walk, client, pc>>

(***************************************************************************)
(* file_body: the advertised bytes are read chunk by chunk from the handle.*)
(***************************************************************************)
\* A read of fewer bytes than the chunk is an error, never a short success.
ReadChunk ==
    LET node  == resp.handle[1]
        chunk == IF resp.left < ChunkSize THEN resp.left ELSE ChunkSize
        there == IF Kind[node] = "file" THEN disk[node].len - resp.off ELSE 0
    IN  /\ pc = "stream" /\ resp.left > 0
        /\ IF there < chunk
           THEN resp' = [resp EXCEPT !.left = 0, !.outcome = "error"] /\ pc' = "done"
           ELSE resp' = [resp EXCEPT !.left = @ - chunk, !.off = @ + chunk, !.sent = @ + chunk,
                                     !.vers = @ \cup {disk[node].ver}] /\ UNCHANGED pc
        /\ UNCHANGED <<scenario, policy, fsvars, req, walk, client>>

EndOfBody ==
    /\ pc = "stream" /\ resp.left = 0
    /\ resp' = [resp EXCEPT !.outcome = "complete"] /\ pc' = "done"
    /\ UNCHANGED <<scenario, policy, fsvars, req, walk, client>>

(***************************************************************************)
(* The client: it may lose the connection and come back for the rest.      *)
(***************************************************************************)
\* The bytes received so far, their version and the validators they came with.
Disconnect ==
    /\ scenario = "resume" /\ pc = "stream" /\ resp.sent > 0 /\ resp.left > 0
    /\ client' = Some([bytes |-> resp.off, ver |-> disk[resp.handle[1]].ver, lm |-> resp.plan[1].lm,
                       etag |-> resp.plan[1].etag, date |-> resp.date])
    /\ resp' = [resp EXCEPT !.outcome = "lost", !.left = 0] /\ pc' = "done"
    /\ UNCHANGED <<scenario, policy, fsvars, req, walk>>

\* A date is a strong validator once the clock has left its second.
StrongDate(c) == c.lm # None /\ c.date > c.lm[1]

ResumeRequests ==
    IF client = None THEN {}
    ELSE LET c    == client[1]
             rest == [NoReq EXCEPT !.target = Str(<<"/", "a">>),
                        !.range = Some([unit |-> "bytes",
                                        specs |-> <<[dash |-> TRUE, first |-> c.bytes, last |-> NoDigits]>>])]
         IN  {[rest EXCEPT !.if_range = Some([kind |-> "date", tag |-> Star, date |-> c.lm[1]])] :
                  x \in {y \in {1} : StrongDate(c)}}
             \cup {[rest EXCEPT !.if_range = Some([kind |-> "tag", tag |-> t, date |-> 0])] :
                  t \in {c.etag[i] : i \in DOMAIN c.etag}}

NextRequest ==
    /\ scenario = "resume" /\ pc = "done"
    /\ req' \in Requests[scenario] \cup ResumeRequests
    /\ pc' = "idle" /\ walk' = NoWalk /\ resp' = NoResp
    /\ UNCHANGED <<scenario, policy, fsvars, client>>

\* The client is content with one answer.
Leave == scenario # "resume" /\ pc = "done" /\ UNCHANGED staticVars

(***************************************************************************)
(* The other processes.                                                    *)
(***************************************************************************)
\* An entry is removed, or renamed over by another object.
Swap ==
    /\ pc \notin {"idle", "done"} /\ swaps < MaxSwaps
    /\ \E s \in SwapChoices[scenario] :
          /\ tree[s.dir][s.name] # s.node
          /\ tree' = [tree EXCEPT ![s.dir][s.name] = s.node]
    /\ swaps' = swaps + 1
    /\ UNCHANGED <<scenario, policy, disk, clock, req, pc, walk, resp, client>>

\* A file is rewritten in place: every open handle sees it.
Overwrite ==
    /\ scenario = "races" /\ pc = "stream" /\ Kind[resp.handle[1]] = "file"
    /\ disk[resp.handle[1]].ver < MaxVersion
    /\ \E l \in Lengths :
          disk' = [disk EXCEPT ![resp.handle[1]] = [len |-> l, mtime |-> Some(clock), ver |-> @.ver + 1]]
    /\ UNCHANGED <<scenario, policy, tree, clock, swaps, req, pc, walk, resp, client>>

\* A new version is written to a file of its own and renamed over the name,
\* so a handle keeps the version it was opened with.
Publish ==
    /\ scenario = "resume" /\ pc \notin {"stream", "reverify"}
    /\ \E l \in Lengths, n \in {n \in Nodes : Kind[n] = "file" /\ n \in Inside} :
          /\ n = tree[Root][Str(<<"a">>)] /\ disk[n].ver < MaxVersion
          /\ disk' = [disk EXCEPT ![n] = [len |-> l, mtime |-> Some(clock), ver |-> @.ver + 1]]
    /\ UNCHANGED <<scenario, policy, tree, clock, swaps, req, pc, walk, resp, client>>

\* A process opens the FIFO for writing, which ends the open that waits for it.
FifoWriter ==
    /\ pc = "blocked"
    /\ pc' = IF policy.symlinks = "Denied" THEN "openat" ELSE "reverify"
    /\ UNCHANGED <<scenario, policy, fsvars, req, walk, resp, client>>

Tick ==
    /\ scenario = "resume" /\ clock < MaxClock
    /\ clock' = clock + 1
    /\ UNCHANGED <<scenario, policy, tree, disk, swaps, req, pc, walk, resp, client>>

Respond == \/ Accept \/ ResolveRoot \/ Statat \/ Openat
           \/ Canonicalize \/ Metadata \/ Open \/ Reverify
           \/ ListDirectory \/ ReadChunk \/ EndOfBody

StaticNext ==
    \/ Respond
    \/ Disconnect \/ NextRequest \/ Leave
    \/ Swap \/ Overwrite \/ Publish \/ FifoWriter \/ Tick

StaticSpec == StaticInit /\ [][StaticNext]_staticVars

(***************************************************************************)
(* Properties                                                              *)
(***************************************************************************)
\* With links denied, a response only ever streams from a node of the served
\* tree, whatever other processes put under the names while the walk is on;
\* with links followed, nothing less than two rewrites within one request
\* gets past the second look at the path (unix.rs, fallback_reverify).
HandleInsideRoot ==
    resp.handle # None /\ resp.handle[1] \notin Inside =>
        policy.symlinks = "Follow" /\ (scenario = "repin" \/ swaps >= 2)

\* A file response that completes has sent as many bytes as its head
\* advertised, also when the file shrinks or grows under it (file_body).
CompleteMeansAdvertised ==
    resp.handle # None /\ resp.outcome = "complete" => Some(resp.sent) = resp.length

\* A client that comes back for the rest of a file with If-Range never gets a
\* partial response from a version other than the one it has the start of:
\* a tag never authorises one, and a date only while the file is unchanged.
ResumeNeverMixes ==
    scenario = "resume" /\ policy.symlinks = "Denied" /\ pc = "stream" /\ resp.status = 206 =>
        disk[resp.handle[1]].ver = client[1].ver

\* HEAD is answered with the status and the length GET would have.
HeadMatchesGet ==
    resp.plan # None /\ scenario = "plan" =>
        LET plan(m) == PlanWithMetadata([req EXCEPT !.method = m], Meta("fa"), policy.metadata)
        IN  [plan("GET") EXCEPT !.body = NoBody] = plan("HEAD")

\* The status RFC 9110 13.2.2 asks for, with the generated tag always weak.
RfcStatus(r, meta, p) ==
    LET tag == IF p.emit_etag THEN generate_etag(meta) ELSE None
        lm  == IF p.emit_last_modified THEN LastModified(meta) ELSE None
        listed(h) == \E i \in DOMAIN h[1] : tag # None /\ h[1][i].op = tag[1].op
        dated(h)  == h # None /\ h[1] # BadDate /\ lm # None
        unmodified == r.if_range = None
                      \/ (r.if_range[1].kind = "date" /\ dated(Some(r.if_range[1].date))
                             /\ lm[1] <= r.if_range[1].date)
        out == IF r.range = None THEN Malformed ELSE evaluate_range_header(r.range[1], meta.len)
    IN  IF \/ r.if_match # None /\ r.if_match[1] # <<Star>>
           \/ r.if_match = None /\ dated(r.if_unmodified_since) /\ lm[1] > r.if_unmodified_since[1]
        THEN 412
        ELSE IF \/ r.if_none_match # None /\ (r.if_none_match[1] = <<Star>> \/ listed(r.if_none_match))
                \/ r.if_none_match = None /\ dated(r.if_modified_since) /\ lm[1] <= r.if_modified_since[1]
        THEN 304
        ELSE IF unmodified /\ out.kind = "Satisfiable" THEN 206
        ELSE IF unmodified /\ out.kind = "NotSatisfiable" THEN 416
        ELSE 200

\* The plan's status is the one RFC 9110 asks for, whatever combination of
\* preconditions the request carries.
PlanFollowsRfc ==
    resp.plan # None /\ scenario = "plan" =>
        resp.status = RfcStatus(req, Meta("fa"), policy.metadata)

\* A range response lies inside the file, and its length is that of the range.
RangeInsideFile ==
    resp.status = 206 =>
        LET r == resp.plan[1].content_range[1]
        IN  /\ 0 <= r.range[1].start /\ r.range[1].start <= r.range[1].end /\ r.range[1].end < r.size
            /\ resp.length = Some(FileRange_len(r.range[1]))

\* An admitted target has one safe component per segment, and the fast path of
\* from_path_component decides like the slow one.
TargetIsConfined ==
    pc = "done" => /\ ConfinedIsSafe(req.target, PathPolicyOf(policy))
                   /\ FastPathAgrees(req.target, PathPolicyOf(policy))

\* The resolver's component check and the parser's refuse the same names.
ResolverAgrees ==
    pc = "done" =>
        \A i \in DOMAIN split_components(req.target) :
            ChildParity(split_components(req.target)[i], PathPolicyOf(policy))

\* A link of a listing leads to the entry it was made for, or nowhere.
ListingLinks ==
    \A n \in resp.listed : LinkNamesEntry(n, PathPolicyOf(policy))

\* With links denied no open waits for another process, also when a FIFO is
\* put under the name between the statat and the openat (OFlags::NONBLOCK).
HardenedOpenNeverBlocks == pc = "blocked" => policy.symlinks = "Follow"

\* Every open is a safe one: it lands inside the root, and with links denied it
\* cannot block on what another process put under the name (fs/unix.rs).
OpensAreSafe == HandleInsideRoot /\ HardenedOpenNeverBlocks

\* The plan is the one RFC 9110 gives, for HEAD as for GET, its range lies in
\* the file it was planned for, and a resumed download never joins the bytes of
\* two versions (planner.rs, evaluate_conditional_headers, evaluate_range).
PlansAreRight == PlanFollowsRfc /\ HeadMatchesGet /\ RangeInsideFile /\ ResumeNeverMixes

\* The parser, the resolver and the listing agree on names: what the parser
\* accepts stays under the root, the resolver's own check accepts exactly those
\* components, and a listed link leads back to the entry (path/mod.rs, fs/mod.rs,
\* listing.rs).
NamesAgree == TargetIsConfined /\ ResolverAgrees /\ ListingLinks
=============================================================================
