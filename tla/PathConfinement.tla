--------------------------- MODULE PathConfinement ---------------------------
(***************************************************************************)
(* The path layer of eggserve-static: how a request target becomes a list  *)
(* of component names, and which names are refused on the way.             *)
(*                                                                         *)
(* A character is a record [c, enc]: the character c, written under enc    *)
(* layers of percent-encoding.  [c |-> ".", enc |-> 0] is a literal dot,   *)
(* enc = 1 is "%2e" and enc = 2 is "%252e".  Decoding removes one layer.   *)
(* Some letters stand for a class: "ctl" is any ASCII control character,   *)
(* "bad" an octet that is not valid UTF-8 (it can only be written encoded),*)
(* "%" a percent sign that starts no escape, "con" a reserved device name, *)
(* "~1" the tail of an 8.3 alias.                                          *)
(***************************************************************************)
EXTENDS Integers, Sequences, FiniteSets, SequencesExt

CONSTANT MaxTarget   \* the 8192-byte limit of ConfinedPath::parse

\* Characters percent_encode_bytes leaves alone; two of them spell the index names.
Unreserved == {"a", "b", "con", ".", "index.html", "index.htm"}

Lit(c) == [c |-> c, enc |-> 0]

Str(chars) == [i \in DOMAIN chars |-> Lit(chars[i])]

Has(s, c) == \E i \in DOMAIN s : s[i] = Lit(c)

\* The string holds a '%': an escape, or a stray percent sign.
HasPercent(s) == \E i \in DOMAIN s : s[i].enc > 0 \/ s[i].c = "%"

Ok(v) == [ok |-> TRUE, err |-> "none", val |-> v]

Err(e) == [ok |-> FALSE, err |-> e, val |-> <<>>]

\* The name of the first check that applies, "none" when none does.
FirstOf(checks) ==
    LET hit == {i \in DOMAIN checks : checks[i][1]}
    IN  IF hit = {} THEN "none" ELSE checks[Min(hit)][2]

(***************************************************************************)
(* Target classification (primitives/request_target.rs).                   *)
(***************************************************************************)
RequestTarget_parse(raw) ==
    FirstOf(<< <<raw = <<>>, "Empty">>,
               <<Has(raw, "nul") \/ Has(raw, "ctl") \/ Has(raw, "sp"), "ContainsWhitespace">>,
               <<raw # <<>> /\ raw[1] = Lit("/") /\ Len(raw) > 1 /\ raw[2] = Lit("/"), "AuthorityForm">>,
               <<raw # <<>> /\ raw[1] # Lit("/"), "NotOriginForm">> >>)

\* The path ends at the first '?'.
parse_origin_form(raw) ==
    LET q == {i \in DOMAIN raw : raw[i] = Lit("?")}
    IN  IF q = {} THEN raw ELSE SubSeq(raw, 1, Min(q) - 1)

(***************************************************************************)
(* path/decode.rs                                                          *)
(***************************************************************************)
DecodeError(t) ==
    FirstOf(<< <<t.enc = 0 /\ t.c = "%", "MalformedPercentEncoding">>,
               <<t.enc <= 1 /\ t.c = "nul", "NulByte">>,
               <<t.enc <= 1 /\ t.c = "ctl", "ControlCharacter">>,
               <<t.enc = 1 /\ t.c \in {"/", "bs"}, "SeparatorAmbiguity">> >>)

percent_decode(s) ==
    LET bad     == {i \in DOMAIN s : DecodeError(s[i]) # "none"}
        decoded == [i \in DOMAIN s |-> [s[i] EXCEPT !.enc = IF @ = 0 THEN 0 ELSE @ - 1]]
    IN  IF bad # {} THEN Err(DecodeError(s[Min(bad)]))
        ELSE IF Has(decoded, "bad") THEN Err("InvalidUtf8")
        ELSE Ok(decoded)

(***************************************************************************)
(* path/platform.rs                                                        *)
(***************************************************************************)
has_windows_drive_prefix(c) == Len(c) >= 2 /\ c[1] = Lit("a") /\ c[2] = Lit(":")

\* The base name before the first '.', compared with the device names.
is_windows_reserved_name(c) ==
    LET dots == {i \in DOMAIN c : c[i] = Lit(".")}
        base == IF dots = {} THEN c ELSE SubSeq(c, 1, Min(dots) - 1)
    IN  base = Str(<<"con">>)

check_component(c) ==
    FirstOf(<< <<has_windows_drive_prefix(c), "WindowsPrefixDenied">>,
               <<Has(c, ":"), "WindowsAlternateStreamDenied">>,
               <<is_windows_reserved_name(c), "WindowsReservedNameDenied">>,
               <<c # <<>> /\ c[Len(c)] \in {Lit("."), Lit("sp")}, "WindowsReservedNameDenied">> >>)

(***************************************************************************)
(* path/policy.rs: what the operator admits.                               *)
(***************************************************************************)
PathPolicy == [dotfiles : {"Denied", "Allow"}, reject_backslash : BOOLEAN]

check_dotfile(policy, c) ==
    policy.dotfiles = "Denied" /\ c # <<>> /\ c[1] = Lit(".")

check_backslash(policy, c) == policy.reject_backslash /\ Has(c, "bs")

(***************************************************************************)
(* path/components.rs                                                      *)
(***************************************************************************)
split_components(path) ==
    LET step(acc, t) == IF t = Lit("/") THEN Append(acc, <<>>)
                        ELSE [acc EXCEPT ![Len(acc)] = Append(@, t)]
        upto[i \in 0 .. Len(path)] == IF i = 0 THEN << <<>> >> ELSE step(upto[i - 1], path[i])
    IN  SelectSeq(upto[Len(path)], LAMBDA c : c # <<>>)

\* Leading slashes are stripped and runs of slashes collapse; dot segments stay.
normalize_path(path) ==
    LET keep(acc, t) == IF t = Lit("/") /\ (acc = <<>> \/ acc[Len(acc)] = Lit("/"))
                        THEN acc ELSE Append(acc, t)
        upto[i \in 0 .. Len(path)] == IF i = 0 THEN <<>> ELSE keep(upto[i - 1], path[i])
    IN  upto[Len(path)]

Dot    == Str(<<".">>)
DotDot == Str(<<".", ".">>)

\* A second decode that yields a dot segment; a failed decode is no rejection.
DecodesTo(c, seg) == HasPercent(c) /\ percent_decode(c).ok /\ percent_decode(c).val = seg

ValidateComponent(c, policy) ==
    FirstOf(<< <<c = <<>>, "Empty">>,
               <<Has(c, "nul"), "NulByte">>,
               <<Has(c, "ctl"), "ControlCharacter">>,
               <<Has(c, "/"), "SeparatorAmbiguity">>,
               <<c = Dot, "CurrentComponent">>,
               <<c = DotDot, "ParentComponent">>,
               <<check_backslash(policy, c), "SeparatorAmbiguity">>,
               <<check_dotfile(policy, c), "DotfileDenied">>,
               <<DecodesTo(c, Dot), "CurrentComponent">>,
               <<DecodesTo(c, DotDot), "ParentComponent">>,
               <<check_component(c) # "none", check_component(c)>> >>)

validate_components(cs, policy) ==
    LET bad == {i \in DOMAIN cs : ValidateComponent(cs[i], policy) # "none"}
    IN  IF bad = {} THEN "none" ELSE ValidateComponent(cs[Min(bad)], policy)

(***************************************************************************)
(* path/mod.rs                                                             *)
(***************************************************************************)
\* The path needs no decoding and no normalisation.
IsNormal(path) ==
    /\ path # <<>> /\ path[1] = Lit("/")
    /\ ~ HasPercent(path)
    /\ \A i \in 1 .. Len(path) - 1 : ~ (path[i] = Lit("/") /\ path[i + 1] = Lit("/"))

AdmitPath(components, policy) ==
    LET verdict == validate_components(components, policy)
    IN  IF verdict = "none" THEN Ok(components) ELSE Err(verdict)

\* Decode, normalise, split, validate.
FromDecoded(path, policy) ==
    LET decoded == percent_decode(path)
    IN  IF ~ decoded.ok THEN decoded
        ELSE AdmitPath(split_components(normalize_path(decoded.val)), policy)

from_path_component(path, policy) ==
    IF IsNormal(path) THEN AdmitPath(split_components(path), policy)
    ELSE FromDecoded(path, policy)

ConfinedPath_parse(raw, policy) ==
    LET form == RequestTarget_parse(raw)
    IN  IF Len(raw) > MaxTarget THEN Err("TooLong")
        ELSE IF Has(raw, "nul") THEN Err("NulByte")
        ELSE IF form = "Empty" THEN Err("Empty")
        ELSE IF form # "none" THEN Err("UnsupportedUriForm")
        ELSE from_path_component(parse_origin_form(raw), policy)

(***************************************************************************)
(* fs/mod.rs: the same rules, applied to a child name by the resolver.     *)
(***************************************************************************)
validate_child_component_with_policy(c, dotfiles_denied, reject_backslash) ==
    FirstOf(<< <<c = <<>>, "Empty">>,
               <<c = Dot, "CurrentComponent">>,
               <<c = DotDot, "ParentComponent">>,
               <<Has(c, "/"), "SeparatorAmbiguity">>,
               <<Has(c, "nul"), "NulByte">>,
               <<Has(c, "ctl"), "ControlCharacter">>,
               <<reject_backslash /\ Has(c, "bs"), "SeparatorAmbiguity">>,
               <<dotfiles_denied /\ c # <<>> /\ c[1] = Lit("."), "DotfileDenied">>,
               <<DecodesTo(c, Dot), "CurrentComponent">>,
               <<DecodesTo(c, DotDot), "ParentComponent">>,
               <<check_component(c) # "none", check_component(c)>> >>)

\* fs/mod.rs: a tilde followed by a digit.
may_be_short_name_alias(c) == Has(c, "~1")

\* fs/mod.rs: every octet but the unreserved ones is escaped once more.
percent_encode_bytes(name) ==
    [i \in DOMAIN name |->
        IF name[i].c \in Unreserved /\ name[i].enc = 0 THEN name[i]
        ELSE [name[i] EXCEPT !.enc = @ + 1]]

(***************************************************************************)
(* What the layer promises.  Each holds of one admitted or offered path.   *)
(***************************************************************************)
\* A name nobody may interpret as anything but a child of the directory it
\* is looked up in, also after one more decode.
SafeName(c, policy) ==
    /\ c # <<>>
    /\ ~ \E t \in {"/", "nul", "ctl", ":"} : Has(c, t)
    /\ c \notin {Dot, DotDot} /\ ~ DecodesTo(c, Dot) /\ ~ DecodesTo(c, DotDot)
    /\ policy.dotfiles = "Denied" => c[1] # Lit(".")
    /\ policy.reject_backslash => ~ Has(c, "bs")

\* Every component of an admitted target is a safe name, and an encoded
\* separator never survives as a separator.
ConfinedIsSafe(raw, policy) ==
    LET r == ConfinedPath_parse(raw, policy)
    IN  r.ok => /\ \A i \in DOMAIN r.val : SafeName(r.val[i], policy)
                /\ Len(r.val) = Len(split_components(parse_origin_form(raw)))

\* The allocation-free path of from_path_component and the decoding one
\* admit the same paths and yield the same components.
FastPathAgrees(path, policy) ==
    IsNormal(path) =>
        LET fast == from_path_component(path, policy)
            slow == FromDecoded(path, policy)
        IN  fast.ok = slow.ok /\ fast.val = slow.val

\* Child resolution refuses exactly the names the request target could not
\* have carried ("Parity with parse-level component validation").
ChildParity(c, policy) ==
    (ValidateComponent(c, policy) = "none")
        <=> (validate_child_component_with_policy(
                 c, policy.dotfiles = "Denied", policy.reject_backslash) = "none")

\* Following the link of a listed entry asks for that very name, or is refused.
LinkNamesEntry(name, policy) ==
    LET r == ConfinedPath_parse(Str(<<"/">>) \o percent_encode_bytes(name), policy)
    IN  r.ok => r.val = <<name>>

=============================================================================
