----------------------------- MODULE HeaderBlocks -----------------------------
(***************************************************************************)
(* HeaderBlock of eggserve-primitives: a sequence of fields that keeps     *)
(* duplicates and order.  Names are compared without regard to case, so a  *)
(* name is its lower-case spelling.  A value is what the code reads in it: *)
(* a number (a length or a time; -1 when it does not parse) and a set of   *)
(* comma-separated tokens.                                                 *)
(***************************************************************************)
EXTENDS Integers, Sequences

NotANumber == -1

Field(name, num, toks) == [name |-> name, num |-> num, toks |-> toks]

HopByHop == {"connection", "keep-alive", "proxy-authenticate", "proxy-authorization",
             "proxy-connection", "te", "trailer", "transfer-encoding", "upgrade"}

is_hop_by_hop_header(name) == name \in HopByHop

contains(headers, name) == \E i \in DOMAIN headers : headers[i].name = name

get_all(headers, name) == SelectSeq(headers, LAMBDA f : f.name = name)

\* Options are sequences: <<>> or <<value>>.
get_first(headers, name) ==
    LET all == get_all(headers, name) IN IF all = <<>> THEN <<>> ELSE <<all[1]>>

\* get_unique is an error when the field occurs more than once.
get_unique(headers, name) ==
    LET all == get_all(headers, name)
    IN [error |-> Len(all) > 1, value |-> IF Len(all) = 1 THEN <<all[1]>> ELSE <<>>]

push_str(headers, name, num, toks) == Append(headers, Field(name, num, toks))

remove_header(headers, name) == SelectSeq(headers, LAMBDA f : f.name # name)

remove_all(headers, names) == SelectSeq(headers, LAMBDA f : f.name \notin names)

strip_hop_by_hopFixed(headers) == SelectSeq(headers, LAMBDA f : ~ is_hop_by_hop_header(f.name))

\* A field that Connection names is hop-by-hop as well.
strip_hop_by_hop(headers) ==
    LET tokens == UNION {headers[i].toks : i \in {j \in DOMAIN headers : headers[j].name = "connection"}}
    IN SelectSeq(headers, LAMBDA f : ~ is_hop_by_hop_header(f.name) /\ f.name \notin tokens)

permits_payload_body(status) == status \notin (100 .. 199) \cup {204, 205, 304}

=============================================================================
