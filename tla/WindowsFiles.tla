---------------------------- MODULE WindowsFiles -----------------------------
(***************************************************************************)
(* Files on Windows (eggserve-static, fs/windows.rs and fs/dirbuf.rs): the *)
(* resolution of a path with links denied, and the listing of a directory. *)
(*                                                                         *)
(* Resolution: every component is opened relative to the handle of the one *)
(* before it, while other processes rebind and rename entries.  A node is a *)
(* file system object; an open handle keeps its node whatever becomes of   *)
(* its names.  A node that is a reparse point is opened itself, never what *)
(* it points to (FILE_OPEN_REPARSE_POINT).  closers counts, for every      *)
(* handle, the owners that are going to close it.                          *)
(*                                                                         *)
(* Listing: enumerate_directory asks the kernel for one buffer of records  *)
(* after another, parse_directory_buffer walks the records of each by their *)
(* offsets, and list_directory_handle filters what they name.  A record is *)
(* [next, len, name, kind]: NextEntryOffset, FileNameLength, and what the  *)
(* name and the attributes say.  Lengths are in UTF-16 units, so an odd    *)
(* number of bytes is the record's `odd`.  A faithful kernel writes the    *)
(* entries of the directory one after the other, as many as fit; the parser *)
(* may trust no kernel, so any other may write any record.                 *)
(***************************************************************************)
EXTENDS Integers, Sequences, FiniteSets

CONSTANTS WinDirectories, WinReparse,   \* the nodes that are these
          WinRoot,                      \* the pinned root
          WinTree,                      \* WinTree[d]: the entries of directory d
          WinNames,                     \* the long name of every node
          WinDotted,                    \* the names that begin with a dot
          WinAliases,                   \* the names may_be_short_name_alias accepts
          WinRequests,                  \* the requests: [comps, child, dotfiles_denied]
          WinRebinds,                   \* what others may do: [dir, name, node]
          WinRenames,                   \* ... and [node, name]
          MaxRebinds                    \* bound: changes while a request runs

VARIABLES winTree, winNames, winChanges,   \* the file system
          winReq, winPc, winAt,            \* the request and the component it is at
          handles,                         \* the node of every handle opened so far
          closers,
          current, opened, held,           \* handles: `current`, `child`, and the result's
          passed,                          \* the nodes walked through
          answer

winFs == <<winTree, winNames, winChanges>>
winVars == <<winTree, winNames, winChanges, winReq, winPc, winAt, handles, closers, current, opened, held,
             passed, answer>>

None1 == 0
RootHandle == 1

WinInit ==
    /\ winTree = WinTree /\ winNames = WinNames /\ winChanges = 0
    /\ winReq \in WinRequests /\ winPc = "component" /\ winAt = 1
    /\ handles = <<WinRoot>> /\ closers = <<1>>
    /\ current = None1 /\ opened = None1 /\ held = None1 /\ passed = <<>> /\ answer = "none"

(***************************************************************************)
(* Handles                                                                 *)
(***************************************************************************)
\* Drop for OwnedHandle, over the handles that go out of scope.
DropHandles(c, hs) == [h \in DOMAIN c |-> IF h \in hs THEN c[h] - 1 ELSE c[h]]

\* A handle the system has just made, or a duplicate of one, has one owner.
NewHandle(node) == handles' = Append(handles, node)
from_raw(c) == Append(c, 1)
duplicate_raw_handle(c) == Append(c, 1)
try_clone(c) == Append(c, 1)

Fresh == Len(handles) + 1

\* Every return but a success drops what the function owns.
Return(verdict, pc) ==
    /\ answer' = verdict /\ winPc' = pc
    /\ closers' = DropHandles(closers, {current, opened})
    /\ current' = None1 /\ opened' = None1
    /\ UNCHANGED <<winFs, winReq, winAt, handles, held, passed>>

(***************************************************************************)
(* One component                                                           *)
(***************************************************************************)
IsChild == winAt > Len(winReq.comps)
Component == IF IsChild THEN winReq.child[1] ELSE winReq.comps[winAt]
IsLast == winAt >= Len(winReq.comps)

\* The child is looked up from the directory the walk ended in.
Parent == IF IsChild THEN held ELSE IF current = None1 THEN RootHandle ELSE current

Node(name) == IF name \in DOMAIN winTree[handles[Parent]] THEN <<winTree[handles[Parent]][name]>> ELSE <<>>

\* Where a resolution goes on after an answer: resolve_child follows a directory.
After(verdict) == IF verdict = "Directory" /\ held = None1 /\ winReq.child # <<>> THEN "component" ELSE "answered"

Opens(node) ==
    /\ NewHandle(node) /\ closers' = from_raw(closers) /\ opened' = Fresh
    /\ passed' = Append(passed, node)
    /\ UNCHANGED <<winFs, winReq, winAt, current, held, answer>>

\* resolve_to_resource without components: the root's handle is duplicated.
DuplicateRoot ==
    /\ winPc = "component" /\ winReq.comps = <<>> /\ held = None1
    /\ \/ Return("IoError", "answered")
       \/ /\ NewHandle(WinRoot) /\ closers' = duplicate_raw_handle(closers) /\ held' = Fresh
          /\ answer' = "Directory" /\ winPc' = After("Directory")
          /\ UNCHANGED <<winFs, winReq, winAt, current, opened, passed>>

Walking == winPc = "component" /\ (winReq.comps # <<>> \/ held # None1)

DotfileDenied ==
    /\ Walking /\ winReq.dotfiles_denied /\ Component \in WinDotted
    /\ Return("Denied", "answered")

\* NtOpenFile finds nothing, or fails for a reason of its own.
OpenFails ==
    /\ Walking \/ winPc = "as_directory"
    /\ ~ (winReq.dotfiles_denied /\ Component \in WinDotted)
    /\ Return("NotFound", "answered")

\* open_file_relative: a directory is refused, which open_any_relative takes
\* as a reason to ask again for a directory.
open_file_relative ==
    /\ Walking /\ IsLast
    /\ ~ (winReq.dotfiles_denied /\ Component \in WinDotted)
    /\ Node(Component) # <<>>
    /\ IF Node(Component)[1] \in WinDirectories
       THEN winPc' = "as_directory"
            /\ UNCHANGED <<winFs, winReq, winAt, handles, closers, current, opened, held, passed, answer>>
       ELSE Opens(Node(Component)[1]) /\ winPc' = "check"

\* open_directory_relative: for the components before the last, and second.
open_directory_relative ==
    /\ winPc = "as_directory" \/ (Walking /\ ~ IsLast)
    /\ ~ (winReq.dotfiles_denied /\ Component \in WinDotted)
    /\ Node(Component) # <<>> /\ Node(Component)[1] \in WinDirectories
    /\ Opens(Node(Component)[1]) /\ winPc' = "check"

\* Mutant: only links to files are refused.
deny_all_reparse_checkFiles(node) == node \notin WinReparse \ WinDirectories

deny_all_reparse_check(node) == node \notin WinReparse

Checks ==
    /\ winPc = "check"
    /\ IF ~ deny_all_reparse_check(handles[opened]) THEN Return("Denied", "answered")
       ELSE /\ winPc' = IF winReq.dotfiles_denied /\ Component \in WinAliases THEN "alias" ELSE "opened"
            /\ UNCHANGED <<winFs, winReq, winAt, handles, closers, current, opened, held, passed, answer>>

\* A query of the handle fails: standard information, the tag or the path.
QueryFails ==
    /\ winPc \in {"check", "alias"} \/ (winPc = "opened" /\ IsLast)
    /\ Return("NotFound", "answered")

\* The long name the handle has now.
AliasCheck ==
    /\ winPc = "alias"
    /\ IF winNames[handles[opened]] \in WinDotted THEN Return("Denied", "answered")
       ELSE /\ winPc' = "opened"
            /\ UNCHANGED <<winFs, winReq, winAt, handles, closers, current, opened, held, passed, answer>>

\* The handle before it is closed once the next one is open.
Descend ==
    /\ winPc = "opened" /\ ~ IsLast
    /\ closers' = DropHandles(closers, {current})
    /\ current' = opened /\ opened' = None1 /\ winAt' = winAt + 1 /\ winPc' = "component"
    /\ UNCHANGED <<winFs, winReq, handles, held, passed, answer>>

\* The directory keeps the handle it was opened with; a directory found for the
\* child is let go with the answer, and the one it was found in with it.
FinishDirectory ==
    /\ winPc = "opened" /\ IsLast /\ handles[opened] \in WinDirectories
    /\ closers' = DropHandles(closers, {current})
    /\ held' = IF IsChild THEN held ELSE opened
    /\ opened' = IF IsChild THEN opened ELSE None1
    /\ current' = None1 /\ answer' = "Directory" /\ winAt' = winAt + 1
    /\ winPc' = After("Directory")
    /\ UNCHANGED <<winFs, winReq, handles, passed>>

\* The file takes the handle over: the wrapper is forgotten.
handle_to_std_file(c, h) == c

\* resolve_child_relative hands the handle itself over.
FinishChildFile ==
    /\ winPc = "opened" /\ IsChild /\ handles[opened] \notin WinDirectories
    /\ closers' = handle_to_std_file(closers, opened)
    /\ answer' = "File" /\ winPc' = "answered"
    /\ UNCHANGED <<winFs, winReq, winAt, handles, current, opened, held, passed>>

\* resolve_to_resource gives the file a duplicate, which the system may refuse.
FinishFile ==
    /\ winPc = "opened" /\ IsLast /\ ~ IsChild /\ handles[opened] \notin WinDirectories
    /\ \/ Return("IoError", "answered")
       \/ /\ NewHandle(handles[opened])
          /\ closers' = handle_to_std_file(try_clone(DropHandles(closers, {current, opened})), Fresh)
          /\ held' = Fresh /\ current' = None1 /\ opened' = None1
          /\ answer' = "File" /\ winPc' = "answered"
          /\ UNCHANGED <<winFs, winReq, winAt, passed>>

\* The response is over: its handles are closed.
WinEnd ==
    /\ winPc = "answered"
    /\ closers' = DropHandles(closers, {held, opened})
    /\ held' = None1 /\ opened' = None1 /\ winPc' = "over"
    /\ UNCHANGED <<winFs, winReq, winAt, handles, current, passed, answer>>

(***************************************************************************)
(* Other processes                                                         *)
(***************************************************************************)
Rebind ==
    /\ winPc \notin {"answered", "over"} /\ winChanges < MaxRebinds
    /\ \/ \E r \in WinRebinds : winTree' = [winTree EXCEPT ![r.dir][r.name] = r.node] /\ UNCHANGED winNames
       \/ \E r \in WinRenames : winNames' = [winNames EXCEPT ![r.node] = r.name] /\ UNCHANGED winTree
    /\ winChanges' = winChanges + 1
    /\ UNCHANGED <<winReq, winPc, winAt, handles, closers, current, opened, held, passed, answer>>

WinNext ==
    \/ DuplicateRoot \/ DotfileDenied \/ OpenFails \/ open_file_relative \/ open_directory_relative
    \/ Checks \/ QueryFails \/ AliasCheck \/ Descend
    \/ FinishDirectory \/ FinishChildFile \/ FinishFile \/ WinEnd \/ Rebind

WinSpec == WinInit /\ [][WinNext]_winVars

(***************************************************************************)
(* Properties                                                              *)
(***************************************************************************)
Succeeded == winPc = "answered" /\ answer \in {"File", "Directory"}

\* No answer is reached through a reparse point, at any component, whatever is
\* put under the names while the walk is on (resolve_to_resource,
\* resolve_child_relative).
NoReparsePassed == Succeeded => \A i \in DOMAIN passed : passed[i] \notin WinReparse

\* With dotfiles denied, no answer is reached through an object with a dotted
\* name, by its short name no more than by its long one, unless it has been
\* renamed meanwhile (the re-check of the long name after the open).
NoDotfilePassed ==
    Succeeded /\ winReq.dotfiles_denied =>
        \A i \in DOMAIN passed : WinNames[passed[i]] \in WinDotted => winNames[passed[i]] # WinNames[passed[i]]

\* Every handle has at most one owner to close it; during a resolution those
\* with one are the root's and the ones in hand, and at the end the root's
\* alone (OwnedHandle, handle_to_std_file, duplicate_raw_handle).
HandlesClosedOnce ==
    {h \in DOMAIN closers : closers[h] # 0} = {RootHandle, current, opened, held} \ {None1}
    /\ \A h \in DOMAIN closers : closers[h] \in 0..1

\* A walk of handles opens nothing it should not, and closes each once.
WindowsOpensAreSafe == NoReparsePassed /\ NoDotfilePassed /\ HandlesClosedOnce

------------------------------------------------------------------------------
CONSTANTS Directories,   \* the directories: sequences of [name, kind, len]
          StrayRecords,  \* what an unfaithful kernel may write
          StrayTotals,   \* ... and the byte counts it may report
          HeaderSize,    \* FILE_ID_BOTH_DIR_INFO_HEADER_SIZE
          BufferSize,    \* DIR_ENUM_BUFFER_SIZE
          EntryLimits,   \* max_entries
          DirDotted      \* the names that begin with a dot, other than "." and ".."

ASSUME BufferAssumption ==
    /\ HeaderSize \in Nat \ {0}
    /\ BufferSize \in Nat
    /\ EntryLimits \subseteq Nat
    /\ \A r \in StrayRecords : r \in [next : Nat, len : Nat, odd : BOOLEAN, name : STRING, kind : STRING]
    /\ \A d \in Directories : d \in Seq([name : STRING, kind : STRING, len : Nat])

VARIABLES entriesOf,     \* the directory
          faithful,      \* whether the kernel is
          max_entries, dotfiles_denied,
          scanned,       \* entries the kernel has returned
          total_len, offset, visited,   \* the buffer, the parser's place, records read
          entries, all_entries,
          listed, dirPc

dirVars == <<entriesOf, faithful, max_entries, dotfiles_denied, scanned, total_len, offset, visited,
             entries, all_entries, listed, dirPc>>

DirInit ==
    /\ entriesOf \in Directories /\ faithful \in BOOLEAN
    /\ ~ faithful => entriesOf = <<>>
    /\ max_entries \in EntryLimits /\ dotfiles_denied \in BOOLEAN
    /\ scanned = 0 /\ total_len = 0 /\ offset = 0 /\ visited = 0
    /\ entries = <<>> /\ all_entries = <<>> /\ listed = {} /\ dirPc = "query"

(***************************************************************************)
(* The kernel (external)                                                   *)
(***************************************************************************)
RecordSize(e) == HeaderSize + e.len

BytesOf[k \in Nat] == IF k = 0 THEN 0 ELSE BytesOf[k - 1] + RecordSize(entriesOf[k])

\* As many of the entries that are left as fit.
Batch ==
    {n \in 1..(Len(entriesOf) - scanned) :
        /\ BytesOf[scanned + n] - BytesOf[scanned] <= BufferSize
        /\ scanned + n < Len(entriesOf) => BytesOf[scanned + n + 1] - BytesOf[scanned] > BufferSize}

RecordOf(k) ==
    [next |-> IF k = scanned THEN 0 ELSE RecordSize(entriesOf[k]), len |-> entriesOf[k].len, odd |-> FALSE,
     name |-> entriesOf[k].name, kind |-> entriesOf[k].kind]

\* The record at the parser's place: the entry that begins there, or anything.
RecordsHere ==
    IF faithful
    THEN {RecordOf(k) : k \in {k \in 1..Len(entriesOf) : BytesOf[k - 1] = BytesOf[scanned] - total_len + offset}}
    ELSE StrayRecords

(***************************************************************************)
(* enumerate_directory                                                     *)
(***************************************************************************)
StopQuery(pc) ==
    /\ dirPc' = pc
    /\ UNCHANGED <<entriesOf, faithful, max_entries, dotfiles_denied, scanned, total_len, offset, visited,
                   entries, all_entries, listed>>

BudgetSpent == dirPc = "query" /\ Len(all_entries) >= max_entries /\ StopQuery("filter")

Asking == dirPc = "query" /\ Len(all_entries) < max_entries

NoMoreFiles == Asking /\ (faithful => scanned = Len(entriesOf)) /\ StopQuery("filter")

QueryStatusFails == Asking /\ StopQuery("failed")

Filled(n, bytes) ==
    /\ scanned' = scanned + n /\ total_len' = bytes /\ offset' = 0 /\ visited' = 0 /\ entries' = <<>>
    /\ dirPc' = "parse"
    /\ UNCHANGED <<entriesOf, faithful, max_entries, dotfiles_denied, all_entries, listed>>

\* A count of zero or beyond the buffer ends the enumeration.
NtQueryDirectoryFile ==
    /\ Asking
    /\ \E n \in IF faithful THEN Batch ELSE {0} :
          \E bytes \in IF faithful THEN {BytesOf[scanned + n] - BytesOf[scanned]} ELSE StrayTotals :
             IF bytes \in 1..BufferSize THEN Filled(n, bytes) ELSE StopQuery("filter")

(***************************************************************************)
(* parse_directory_buffer                                                  *)
(***************************************************************************)
\* Mutant: the place of the next record is not held against the header.
advance_offsetUnchecked(at, next, total) ==
    IF at + next >= total THEN "OffsetOverflow" ELSE "none"

advance_offset(at, next, total) ==
    IF at + next >= total THEN "OffsetOverflow"
    ELSE IF next < HeaderSize THEN "OffsetUnderflow"
    ELSE "none"

\* What stops the parser at a record, if anything.
RecordError(r) ==
    IF offset + HeaderSize > total_len THEN "TruncatedHeader"
    ELSE IF r.odd THEN "OddFileNameLength"
    ELSE IF offset + HeaderSize + r.len > total_len THEN "FileNameOutOfRange"
    ELSE IF r.name = "invalid" THEN "InvalidUtf16"
    ELSE "none"

Pseudo(name) == name \in {".", ".."}

\* What is left of the budget when the batch is read.
Remaining == max_entries - Len(all_entries)

\* The batch is read: an empty one ends the enumeration.
BatchParsed(parsed) ==
    /\ all_entries' = all_entries \o parsed
    /\ dirPc' = IF parsed = <<>> THEN "filter" ELSE "query"

ParseRecord(r) ==
    LET record == [name |-> r.name, kind |-> r.kind]
        parsed == IF Pseudo(r.name) THEN entries ELSE Append(entries, record)
        full   == ~ Pseudo(r.name) /\ Len(parsed) >= Remaining
    IN  /\ visited' = visited + 1
        /\ IF RecordError(r) # "none"
           THEN dirPc' = "failed" /\ UNCHANGED <<offset, entries, all_entries>>
           ELSE /\ entries' = parsed
                /\ IF full \/ r.next = 0
                   THEN BatchParsed(parsed) /\ UNCHANGED offset
                   ELSE IF advance_offset(offset, r.next, total_len) # "none"
                   THEN dirPc' = "failed" /\ UNCHANGED <<offset, all_entries>>
                   ELSE offset' = offset + r.next /\ UNCHANGED <<dirPc, all_entries>>
        /\ UNCHANGED <<entriesOf, faithful, max_entries, dotfiles_denied, scanned, total_len, listed>>

(***************************************************************************)
(* list_directory_handle, with links denied                                *)
(***************************************************************************)
Shown(e) ==
    /\ dotfiles_denied => e.name \notin DirDotted
    /\ e.kind # "ReparsePoint"

list_directory_handle ==
    /\ dirPc = "filter"
    /\ listed' = {all_entries[i] : i \in {i \in DOMAIN all_entries : Shown(all_entries[i])}}
    /\ dirPc' = "done"
    /\ UNCHANGED <<entriesOf, faithful, max_entries, dotfiles_denied, scanned, total_len, offset, visited,
                   entries, all_entries>>

DirNext ==
    \/ BudgetSpent \/ NoMoreFiles \/ QueryStatusFails \/ NtQueryDirectoryFile \/ list_directory_handle
    \/ dirPc = "parse" /\ \E r \in RecordsHere : ParseRecord(r)

DirSpec == DirInit /\ [][DirNext]_dirVars

(***************************************************************************)
(* Properties                                                              *)
(***************************************************************************)
\* Whatever the kernel wrote, the parser's place stays inside the buffer and
\* moves on by a header at least with every record it goes past, so that it
\* ends after total_len / HeaderSize records, and it returns no more entries
\* than it was asked for (advance_offset, parse_directory_buffer).
ParserStaysInside ==
    /\ dirPc = "parse" => offset < total_len /\ visited * HeaderSize <= offset
    /\ Len(all_entries) <= max_entries

\* With a faithful kernel the listing is that of the first max_entries entries,
\* whatever the buffers were cut into, and an entry that does not decode fails
\* the listing instead of shortening it (enumerate_directory).
CutsAreInvisible ==
    faithful /\ dirPc = "done" =>
        LET real  == SelectSeq(entriesOf, LAMBDA e : ~ Pseudo(e.name))
            n     == IF Len(real) < max_entries THEN Len(real) ELSE max_entries
            first == {real[i] : i \in 1..n}
        IN  /\ listed = {[name |-> e.name, kind |-> e.kind] : e \in {e \in first : Shown(e)}}
            /\ \A e \in first : e.name # "invalid"

\* A Windows listing is whole, and the parser survives any buffer.
WindowsListingIsWhole == ParserStaysInside /\ CutsAreInvisible
=============================================================================
