-------------------------- MODULE AdmissionContract --------------------------
(***************************************************************************)
(* What an accept loop promises about the connections it admits, however   *)
(* they end: never more than the limit at a time, no stream refused while  *)
(* there is room, each stream admitted at most once and released once, and *)
(* none admitted after the loop has stopped accepting.                     *)
(***************************************************************************)
EXTENDS Naturals, FiniteSets

CONSTANTS Streams, Limit

VARIABLES fate,     \* what became of each stream
          closed    \* the accept loop has ended

Held == {c \in Streams : fate[c] = "held"}

\* A server that is stopped before its loop runs starts closed.
Init == fate = [c \in Streams |-> "none"] /\ closed \in BOOLEAN

Admit(c) ==
    /\ ~closed /\ fate[c] = "none" /\ Cardinality(Held) < Limit
    /\ fate' = [fate EXCEPT ![c] = "held"]
    /\ UNCHANGED closed

Refuse(c) ==
    /\ ~closed /\ fate[c] = "none" /\ Cardinality(Held) = Limit
    /\ fate' = [fate EXCEPT ![c] = "refused"]
    /\ UNCHANGED closed

Release(c) ==
    /\ fate[c] = "held"
    /\ fate' = [fate EXCEPT ![c] = "released"]
    /\ UNCHANGED closed

Close ==
    /\ ~closed /\ closed' = TRUE
    /\ UNCHANGED fate

Next == Close \/ \E c \in Streams : Admit(c) \/ Refuse(c) \/ Release(c)

Spec == Init /\ [][Next]_<<fate, closed>>
==============================================================================
