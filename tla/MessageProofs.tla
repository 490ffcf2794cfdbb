---------------------------- MODULE MessageProofs ----------------------------
(***************************************************************************)
(* Proofs about the messages of an exchange: the request body, for any     *)
(* bodies and limits, the interim responses, for any calls and any budget, *)
(* and the adapter that turns a response stream into frames, for any chunk *)
(* size and any producer.                                                  *)
(***************************************************************************)
EXTENDS RequestBody, InterimSender, StreamAdapter, FiniteSetTheorems, WellFoundedInduction, TLAPS

\* An assumption is visible to the section that needs it.
HIDE BodiesAssumption
HIDE InterimAssumption

-----------------------------------------------------------------------------
(* Sums of chunks.  A statement about every prefix of a body is proved by  *)
(* looking at the least prefix that would refute it.                       *)

\* A nonempty set of naturals has a least element.
LEMMA LeastNatural ==
    ASSUME NEW T \in SUBSET Nat, T # {}
    PROVE  \E x \in T : \A y \in T : x <= y
<1>1. \E x \in T : \A y \in T : ~ (<<y, x>> \in OpToRel(<, Nat))
  BY WFMin, NatLessThanWellFounded, Zenon
<1>2. PICK x \in T : \A y \in T : ~ (<<y, x>> \in OpToRel(<, Nat))
  BY <1>1, Zenon
<1>3. ASSUME NEW y \in T, y < x PROVE FALSE
  <2>1. <<y, x>> \in Nat \X Nat /\ <<y, x>>[1] < <<y, x>>[2]
    BY <1>3, Zenon
  <2>2. <<y, x>> \in OpToRel(<, Nat)
    BY <2>1, Zenon DEF OpToRel
  <2> QED BY <1>2, <2>2, Zenon
<1> QED BY <1>3

IsSum(s, f) == f = [n \in 0..Len(s) |-> IF n = 0 THEN 0 ELSE f[n - 1] + s[n]]

SumsTo(s, k, f) == f \in [0..k -> Nat] /\ f[0] = 0 /\ \A n \in 1..k : f[n] = f[n - 1] + s[n]

\* The sums of the prefixes of a sequence of chunks exist.
LEMMA SumExists ==
    ASSUME NEW s \in Seq(Nat)
    PROVE  \E f : IsSum(s, f)
<1> DEFINE Bad == {k \in 0..Len(s) : \A f : ~ SumsTo(s, k, f)}
<1>1. Bad = {}
  <2> SUFFICES ASSUME Bad # {} PROVE FALSE
    BY Zenon
  <2>1. PICK k \in Bad : \A j \in Bad : k <= j
    <3>1. Bad \in SUBSET Nat
      OBVIOUS
    <3> HIDE DEF Bad
    <3> QED BY <3>1, LeastNatural, Zenon
  <2>2. k # 0
    <3>1. SumsTo(s, 0, [n \in 0..0 |-> 0])
      BY DEF SumsTo
    <3> QED BY <3>1, Zenon
  <2>3. PICK f : SumsTo(s, k - 1, f)
    BY <2>1, <2>2
  <2>4. SumsTo(s, k, [n \in 0..k |-> IF n = k THEN f[k - 1] + s[k] ELSE f[n]])
    <3> DEFINE g == [n \in 0..k |-> IF n = k THEN f[k - 1] + s[k] ELSE f[n]]
    <3>1. k \in 1..Len(s) /\ s[k] \in Nat /\ k - 1 \in Nat
      BY <2>2
    <3>2. f[k - 1] \in Nat /\ f[0] = 0 /\ \A n \in 0..(k - 1) : f[n] \in Nat
      BY <2>3, <3>1 DEF SumsTo
    <3>3. g \in [0..k -> Nat]
      BY <3>1, <3>2
    <3>4. \A n \in 1..k : g[n] = g[n - 1] + s[n]
      <4> TAKE n \in 1..k
      <4>1. CASE n = k
        BY <3>1, <4>1
      <4>2. CASE n # k
        BY <2>3, <3>1, <4>2 DEF SumsTo
      <4> QED BY <4>1, <4>2, Zenon
    <3>5. g[0] = 0
      BY <3>1, <3>2
    <3> HIDE DEF g
    <3>6. SumsTo(s, k, g)
      BY <3>3, <3>4, <3>5, Zenon DEF SumsTo
    <3> QED BY <3>6, Zenon DEF g
  <2> QED BY <2>4, Zenon
<1>2. PICK f : SumsTo(s, Len(s), f)
  <2>1. Len(s) \in 0..Len(s)
    OBVIOUS
  <2>2. Len(s) \notin Bad
    BY <1>1, Zenon
  <2> QED BY <2>1, <2>2, Zenon
<1>3. \A n \in 0..Len(s) : f[n] = IF n = 0 THEN 0 ELSE f[n - 1] + s[n]
  BY <1>2 DEF SumsTo
<1>4. IsSum(s, f)
  <2>1. f = [n \in 0..Len(s) |-> f[n]]
    BY <1>2, Zenon DEF SumsTo
  <2> QED BY <1>3, <2>1, Zenon DEF IsSum
<1> QED BY <1>4, Zenon

\* A function that satisfies the recursion of a sum is one.
LEMMA SumIsNatural ==
    ASSUME NEW s \in Seq(Nat), NEW f, IsSum(s, f)
    PROVE  SumsTo(s, Len(s), f)
<1>1. f[0] = 0 /\ \A n \in 1..Len(s) : f[n] = f[n - 1] + s[n]
  <2> DEFINE g == [n \in 0..Len(s) |-> IF n = 0 THEN 0 ELSE f[n - 1] + s[n]]
  <2>1. f = g
    BY Zenon DEF IsSum
  <2>2. g[0] = 0 /\ \A n \in 1..Len(s) : g[n] = f[n - 1] + s[n]
    OBVIOUS
  <2> HIDE DEF g
  <2> QED BY <2>1, <2>2, Zenon
<1> DEFINE Bad == {n \in 0..Len(s) : f[n] \notin Nat}
<1>2. Bad = {}
  <2> SUFFICES ASSUME Bad # {} PROVE FALSE
    BY Zenon
  <2>1. PICK k \in Bad : \A j \in Bad : k <= j
    <3>1. Bad \in SUBSET Nat
      OBVIOUS
    <3> HIDE DEF Bad
    <3> QED BY <3>1, LeastNatural, Zenon
  <2>2. k \in 1..Len(s) /\ s[k] \in Nat
    BY <1>1
  <2>3. f[k - 1] \in Nat
    BY <2>1, <2>2
  <2> QED BY <1>1, <2>2, <2>3
<1>3. \A n \in 0..Len(s) : f[n] \in Nat
  BY <1>2, Zenon
<1>4. f \in [0..Len(s) -> Nat]
  BY <1>3, Zenon DEF IsSum
<1> QED BY <1>1, <1>4, Zenon DEF SumsTo

\* What Taken computes.
LEMMA TakenSums ==
    ASSUME NEW b, b.chunks \in Seq(Nat)
    PROVE  SumsTo(b.chunks, Len(b.chunks), Taken(b))
<1>1. PICK f : IsSum(b.chunks, f)
  BY SumExists, Zenon
<1>2. Taken(b) = CHOOSE g : IsSum(b.chunks, g)
  BY Zenon DEF Taken, IsSum
<1>3. IsSum(b.chunks, Taken(b))
  BY <1>1, <1>2, Zenon
<1> QED BY <1>3, SumIsNatural, Zenon

\* No prefix of a body is longer than the body.
LEMMA PrefixFits ==
    ASSUME NEW b, b.chunks \in Seq(Nat)
    PROVE  \A n \in 0..Len(b.chunks) : Taken(b)[n] <= Total(b)
<1> DEFINE L == Len(b.chunks)
           f == Taken(b)
           Bad == {d \in 0..L : ~ (f[L - d] <= f[L])}
<1>1. f \in [0..L -> Nat] /\ L \in Nat
  BY TakenSums DEF SumsTo
<1>2. \A n \in 1..L : f[n - 1] <= f[n]
  <2> TAKE n \in 1..L
  <2>1. SumsTo(b.chunks, L, f) /\ b.chunks[n] \in Nat
    BY TakenSums
  <2>2. f[n] = f[n - 1] + b.chunks[n]
    BY <2>1, Zenon DEF SumsTo
  <2> HIDE DEF f, L
  <2>3. f[n - 1] \in Nat
    BY <1>1
  <2> QED BY <2>1, <2>2, <2>3
<1> HIDE DEF f, L
<1>3. Bad = {}
  <2> SUFFICES ASSUME Bad # {} PROVE FALSE
    BY Zenon
  <2>1. PICK d \in Bad : \A j \in Bad : d <= j
    <3>1. Bad \in SUBSET Nat
      BY <1>1
    <3> HIDE DEF Bad
    <3> QED BY <3>1, LeastNatural, Zenon
  <2>2. d \in 1..L
    <3>1. d \in 0..L /\ ~ (f[L - d] <= f[L])
      BY Zenon
    <3>2. f[L] \in Nat /\ L - 0 = L
      BY <1>1
    <3> HIDE DEF Bad
    <3> QED BY <1>1, <3>1, <3>2
  <2> DEFINE m == L - (d - 1)
  <2>3. d - 1 \in 0..L /\ d - 1 \notin Bad /\ m \in 1..L /\ L - d = m - 1
    <3>1. ~ (d <= d - 1) /\ d - 1 \in 0..L
      BY <2>2, <1>1
    <3>2. d - 1 \notin Bad
      BY <2>1, <3>1, Zenon
    <3> QED BY <1>1, <2>2, <3>1, <3>2
  <2>4. f[m] <= f[L]
    BY <2>3, Zenon
  <2>5. ~ (f[L - d] <= f[L])
    BY Zenon
  <2> HIDE DEF m, Bad
  <2>6. f[m - 1] \in Nat /\ f[m] \in Nat /\ f[L] \in Nat /\ f[m - 1] <= f[m]
    BY <1>1, <1>2, <2>3
  <2> QED BY <2>3, <2>4, <2>5, <2>6
<1>4. ASSUME NEW n \in 0..L PROVE f[n] <= f[L]
  <2>1. L - n \in 0..L /\ L - (L - n) = n
    BY <1>1
  <2>2. L - n \notin Bad
    BY <1>3, Zenon
  <2>3. f[L - (L - n)] <= f[L]
    BY <2>1, <2>2, Zenon
  <2> QED BY <2>1, <2>3, Zenon
<1> QED BY <1>4, Zenon DEF Total, f, L

-----------------------------------------------------------------------------
(* Request bodies                                                          *)

BodyTypes ==
    /\ body \in Bodies
    /\ pos \in 0..Len(body.chunks)
    /\ received = Taken(body)[pos]
    /\ buffered \in Nat
    /\ inner \in BOOLEAN
    /\ state \in {"Unread", "Streaming", "Complete", "Error"}
    /\ shared \in {"Active", "Complete", "Abandoned", "Failed"}
    /\ call \in {"none", "read_all", "read_all_with_trailers", "dropped"}

\* What was let through respects the limits, and what was collected is what was
\* received: a collecting call starts on an untouched body.
ReadInv ==
    /\ received <= body.max
    /\ body.declared # NoLength => received <= body.declared
    /\ call = "none" => buffered = 0
    /\ call = "none" /\ state = "Unread" => received = 0
    /\ call \in {"read_all", "read_all_with_trailers"} =>
          buffered = received /\ state \in {"Unread", "Streaming"}
    /\ buffered > 0 => buffered = received
    /\ shared = "Abandoned" => call = "dropped"

BodyInv ==
    /\ BodyTypes /\ ReadInv
    /\ VerdictFitsBody /\ CompleteMeansWhole /\ LifecycleFollowsReader /\ DropIsSeen

\* The facts about the body at hand that the cases below need.
LEMMA BodyFacts ==
    ASSUME BodyTypes
    PROVE  /\ body.chunks \in Seq(Nat) /\ body.max \in Nat /\ body.declared \in Nat \cup {NoLength}
           /\ Len(body.chunks) \in Nat /\ Total(body) \in Nat /\ received \in Nat /\ received <= Total(body)
           /\ pos = Len(body.chunks) => received = Total(body)
           /\ pos < Len(body.chunks) =>
                 /\ pos + 1 \in 0..Len(body.chunks) /\ body.chunks[pos + 1] \in Nat
                 /\ Taken(body)[pos + 1] = received + body.chunks[pos + 1]
                 /\ received + body.chunks[pos + 1] <= Total(body)
<1>1. /\ body.chunks \in Seq(Nat) /\ body.max \in Nat /\ body.declared \in Nat \cup {NoLength}
      /\ Len(body.chunks) \in Nat
  BY BodiesAssumption DEF BodyTypes
<1> DEFINE L == Len(body.chunks)
           f == Taken(body)
<1>2. SumsTo(body.chunks, L, f) /\ \A n \in 0..L : f[n] <= Total(body)
  BY <1>1, TakenSums, PrefixFits, Zenon
<1>3. f \in [0..L -> Nat] /\ \A n \in 1..L : f[n] = f[n - 1] + body.chunks[n]
  BY <1>2, Zenon DEF SumsTo
<1>4. Total(body) = f[L]
  BY Zenon DEF Total
<1>5. pos \in 0..L /\ received = f[pos]
  BY Zenon DEF BodyTypes
<1> HIDE DEF f
<1>6. Total(body) \in Nat /\ received \in Nat /\ received <= Total(body) /\ (pos = L => received = Total(body))
  <2>1. L \in 0..L
    BY <1>1
  <2>2. f[L] \in Nat /\ f[pos] \in Nat
    BY <1>3, <1>5, <2>1, Zenon
  <2>3. f[pos] <= Total(body)
    BY <1>2, <1>5, Zenon
  <2> QED BY <1>4, <1>5, <2>2, <2>3, Zenon
<1>7. ASSUME pos < L
      PROVE  /\ pos + 1 \in 0..L /\ body.chunks[pos + 1] \in Nat
             /\ f[pos + 1] = received + body.chunks[pos + 1]
             /\ received + body.chunks[pos + 1] <= Total(body)
  <2>1. pos + 1 \in 1..L /\ pos + 1 \in 0..L /\ (pos + 1) - 1 = pos
    BY <1>1, <1>5, <1>7
  <2>2. body.chunks[pos + 1] \in Nat
    BY <1>1, <2>1
  <2>3. f[pos + 1] = f[pos] + body.chunks[pos + 1]
    BY <1>3, <2>1, Zenon
  <2>4. f[pos + 1] <= Total(body)
    BY <1>2, <2>1, Zenon
  <2> QED BY <1>5, <2>1, <2>2, <2>3, <2>4, Zenon
<1> QED BY <1>1, <1>6, <1>7, Zenon DEF f

LEMMA BodyInitHolds == BodyInit => BodyInv
<1> SUFFICES ASSUME BodyInit PROVE BodyInv
  BY Zenon
<1>1. /\ body \in Bodies /\ body.chunks \in Seq(Nat) /\ body.max \in Nat /\ Len(body.chunks) \in Nat
      /\ body.declared \in Nat \cup {NoLength}
  BY BodiesAssumption DEF BodyInit
<1>2. Taken(body)[0] = 0
  BY <1>1, TakenSums, Zenon DEF SumsTo
<1>3. BodyTypes
  BY <1>1, <1>2 DEF BodyInit, BodyTypes
<1>4. ReadInv
  BY <1>1 DEF BodyInit, ReadInv
<1>5. ASSUME InitiallyComplete(body) PROVE WellFormed(body) /\ Len(body.chunks) = 0 /\ Total(body) = 0
  <2>1. Len(body.chunks) = 0
    BY <1>5, BodiesAssumption, <1>1 DEF InitiallyComplete
  <2>2. Total(body) = 0
    BY <1>2, <2>1, Zenon DEF Total
  <2>3. body.end = "eof" /\ body.slot # "invalid" /\ (body.declared # NoLength => body.declared = Total(body))
    BY <1>1, <1>5, BodiesAssumption, Zenon DEF InitiallyComplete
  <2> QED BY <1>1, <2>1, <2>2, <2>3 DEF WellFormed
<1>6. VerdictFitsBody /\ CompleteMeansWhole /\ LifecycleFollowsReader /\ DropIsSeen
  BY <1>5, Zenon DEF BodyInit, VerdictFitsBody, CompleteMeansWhole, LifecycleFollowsReader, DropIsSeen
<1> QED BY <1>3, <1>4, <1>6, Zenon DEF BodyInv

\* The verdict on the next item is the verdict on the body.
LEMMA VerdictIsRight ==
    ASSUME BodyTypes, ReadInv
    PROVE  /\ Verdict \in {"more", "complete", "failed"}
           /\ Verdict = "failed" => ~ WellFormed(body)
           /\ Verdict = "complete" =>
                 /\ WellFormed(body)
                 /\ pos < Len(body.chunks) =>
                       pos + 1 = Len(body.chunks) /\ received + body.chunks[pos + 1] = Total(body)
           /\ Verdict = "more" => pos < Len(body.chunks)
           /\ pos < Len(body.chunks) /\ Verdict # "failed" => ~ Oversized(body.chunks[pos + 1])
<1> USE BodyFacts
<1>1. CASE pos < Len(body.chunks)
  <2> DEFINE n == body.chunks[pos + 1]
  <2>1. n \in Nat /\ received \in Nat /\ received + n <= Total(body) /\ Total(body) \in Nat
        /\ body.max \in Nat /\ body.declared \in Nat \cup {NoLength}
    BY <1>1, Zenon
  <2>2. Oversized(n) => ~ WellFormed(body)
    BY <2>1 DEF Oversized, WellFormed
  <2>3. ASSUME ~ Oversized(n), body.kind = "Fixed", pos + 1 = Len(body.chunks)
        PROVE  WellFormed(body) /\ received + n = Total(body)
    <3>1. received + n = Total(body)
      BY <1>1, <2>3, Zenon DEF Total
    <3>2. body.end = "eof" /\ body.slot # "invalid" /\ body.declared = Total(body)
      BY <2>3, BodiesAssumption, Zenon DEF BodyTypes
    <3> QED BY <2>1, <2>3, <3>1, <3>2 DEF Oversized, WellFormed
  <2> HIDE DEF n
  <2>4. Verdict = IF Oversized(n) THEN "failed"
                  ELSE IF body.kind = "Fixed" /\ pos + 1 = Len(body.chunks) THEN "complete" ELSE "more"
    BY <1>1, Zenon DEF Verdict, n
  <2> QED BY <1>1, <2>2, <2>3, <2>4, Zenon DEF n
<1>2. CASE ~ (pos < Len(body.chunks))
  <2>1. pos = Len(body.chunks) /\ received = Total(body)
    BY <1>2 DEF BodyTypes
  <2>2. Verdict = IF body.end = "error" \/ Short \/ body.slot = "invalid" THEN "failed" ELSE "complete"
    BY <1>2, Zenon DEF Verdict
  <2>3. body.end = "error" \/ Short \/ body.slot = "invalid" => ~ WellFormed(body)
    BY <2>1 DEF Short, WellFormed
  <2>4. ~ (body.end = "error" \/ Short \/ body.slot = "invalid") => WellFormed(body)
    <3>1. body.end \in {"eof", "error"}
      BY BodiesAssumption, Zenon DEF BodyTypes
    <3> QED BY <2>1, <3>1 DEF Short, WellFormed, ReadInv
  <2> QED BY <1>2, <2>2, <2>3, <2>4, Zenon
<1> QED BY <1>1, <1>2, Zenon

\* One item leaves the reader and the runtime with the right view of the body.
LEMMA ReceiveKeeps ==
    ASSUME BodyInv, call # "dropped", state \in {"Unread", "Streaming"},
           NEW more \in {"Unread", "Streaming"}, Receive(more), UNCHANGED body
    PROVE  /\ pos' \in 0..Len(body.chunks) /\ received' = Taken(body)[pos'] /\ received' \in Nat
           /\ received' <= body.max /\ (body.declared # NoLength => received' <= body.declared)
           /\ state' \in {more, "Complete", "Error"}
           /\ shared' \in {"Active", "Complete", "Failed"}
           /\ VerdictFitsBody' /\ CompleteMeansWhole' /\ LifecycleFollowsReader'
           /\ Verdict = "more" <=> state' = more
           /\ Verdict # "more" => shared' # "Active"
<1> USE BodyFacts, VerdictIsRight DEF BodyInv
<1>1. shared \in {"Active", "Complete", "Failed"}
  BY Zenon DEF BodyTypes, ReadInv
<1>2. shared = "Complete" => WellFormed(body) /\ pos = Len(body.chunks) /\ received = Total(body)
  BY Zenon DEF CompleteMeansWhole
<1>3. /\ pos' \in 0..Len(body.chunks) /\ received' = Taken(body)[pos'] /\ received' \in Nat
      /\ received' <= body.max /\ (body.declared # NoLength => received' <= body.declared)
  <2>1. CASE pos < Len(body.chunks) /\ Verdict # "failed"
    <3>1. received' = received + body.chunks[pos + 1] /\ pos' = pos + 1 /\ ~ Oversized(body.chunks[pos + 1])
      BY <2>1, Zenon DEF Receive
    <3>2. /\ pos + 1 \in 0..Len(body.chunks) /\ body.chunks[pos + 1] \in Nat /\ received \in Nat
          /\ Taken(body)[pos + 1] = received + body.chunks[pos + 1]
          /\ body.max \in Nat /\ body.declared \in Nat \cup {NoLength}
      BY <2>1, Zenon
    <3> HIDE BodyFacts, VerdictIsRight
    <3>3. /\ received + body.chunks[pos + 1] <= body.max
          /\ body.declared # NoLength => received + body.chunks[pos + 1] <= body.declared
      BY <3>1, <3>2, BodiesAssumption DEF Oversized
    <3> QED BY <3>1, <3>2, <3>3
  <2>2. CASE ~ (pos < Len(body.chunks) /\ Verdict # "failed")
    BY <2>2, Zenon DEF Receive, BodyTypes, ReadInv
  <2> QED BY <2>1, <2>2, Zenon
<1>4. CASE Verdict = "more"
  <2>1. state' = more /\ shared' = shared /\ pos < Len(body.chunks)
    BY <1>4, Zenon DEF Receive, Settle
  <2>2. state' \in {"Unread", "Streaming"} /\ shared' \in {"Active", "Failed"}
    BY <1>1, <1>2, <2>1
  <2>3. VerdictFitsBody' /\ CompleteMeansWhole' /\ LifecycleFollowsReader'
    BY <2>2, Zenon DEF VerdictFitsBody, CompleteMeansWhole, LifecycleFollowsReader
  <2> QED BY <1>1, <1>3, <1>4, <2>1, <2>3, Zenon
<1>5. CASE Verdict = "failed"
  <2>1. state' = "Error" /\ Mark("Failed") /\ ~ WellFormed(body)
    BY <1>5, Zenon DEF Receive, Settle
  <2>2. shared' = "Failed"
    BY <1>1, <1>2, <2>1, Zenon DEF Mark
  <2> QED BY <1>3, <1>5, <2>1, <2>2, Zenon
          DEF VerdictFitsBody, CompleteMeansWhole, LifecycleFollowsReader, WellFormed
<1>6. CASE Verdict = "complete"
  <2>1. state' = "Complete" /\ Mark("Complete") /\ WellFormed(body)
    BY <1>6, Zenon DEF Receive, Settle
  <2>2. shared' \in {"Complete", "Failed"}
    BY <1>1, <2>1, Zenon DEF Mark
  <2>3. pos' = Len(body.chunks) /\ received' = Total(body)
    BY <1>6, <1>3 DEF Receive, BodyTypes
  <2>4. WellFormed(body)' /\ Total(body)' = Total(body)
    BY <2>1, Zenon DEF WellFormed, Total, Taken
  <2> QED BY <1>3, <1>6, <2>1, <2>2, <2>3, <2>4, Zenon
          DEF VerdictFitsBody, CompleteMeansWhole, LifecycleFollowsReader
<1> QED BY <1>4, <1>5, <1>6, Zenon

LEMMA DropKeeps ==
    ASSUME BodyInv, DropEffect, call' = "dropped",
           UNCHANGED <<body, pos, state, inner, received, trailers, buffered>>
    PROVE  BodyInv'
<1> USE DEF BodyInv
<1>1. shared' \in {"Active", "Complete", "Abandoned", "Failed"} /\ (shared # "Active" => shared' = shared)
      /\ shared' \in {shared, "Abandoned"}
  BY Zenon DEF DropEffect, Mark, BodyTypes
<1>2. BodyTypes'
  BY <1>1, Zenon DEF BodyTypes, Taken
<1>3. ReadInv'
  BY <1>1, Zenon DEF ReadInv
<1>4. VerdictFitsBody' /\ CompleteMeansWhole' /\ LifecycleFollowsReader'
  BY <1>1, Zenon DEF VerdictFitsBody, CompleteMeansWhole, LifecycleFollowsReader, WellFormed, Total, Taken
<1>5. DropIsSeen'
  BY Zenon DEF DropEffect, Mark, DropIsSeen
<1> QED BY <1>2, <1>3, <1>4, <1>5, Zenon

LEMMA BodyStepKeeps == BodyInv /\ [BodyNext]_bodyVars => BodyInv'
<1> SUFFICES ASSUME BodyInv, [BodyNext]_bodyVars PROVE BodyInv'
  BY Zenon
<1>1. ASSUME state' \in {"Unread", "Streaming"}, state \in {"Unread", "Streaming"}, call \in {"none"},
             call' \in {"none", "read_all", "read_all_with_trailers"},
             state' = "Unread" => state = "Unread", call' # "none" => state = "Unread", inner' \in BOOLEAN,
             UNCHANGED <<body, pos, received, shared, trailers, buffered>>
      PROVE  BodyInv'
  <2>1. BodyTypes'
    BY <1>1, Zenon DEF BodyInv, BodyTypes, Taken
  <2>2. ReadInv'
    BY <1>1, Zenon DEF BodyInv, ReadInv
  <2>3. VerdictFitsBody' /\ CompleteMeansWhole' /\ LifecycleFollowsReader' /\ DropIsSeen'
    BY <1>1 DEF BodyInv, VerdictFitsBody, CompleteMeansWhole, LifecycleFollowsReader, DropIsSeen,
                WellFormed, Total, Taken
  <2> QED BY <2>1, <2>2, <2>3, Zenon DEF BodyInv
<1>2. ASSUME BeginChunk PROVE BodyInv'
  BY <1>1, <1>2 DEF BeginChunk, BodyInv, BodyTypes
<1>3. ASSUME NextChunk PROVE BodyInv'
  <2>1. /\ pos' \in 0..Len(body.chunks) /\ received' = Taken(body)[pos'] /\ received' \in Nat
        /\ received' <= body.max /\ (body.declared # NoLength => received' <= body.declared)
        /\ state' \in {"Streaming", "Complete", "Error"}
        /\ shared' \in {"Active", "Complete", "Failed"}
        /\ VerdictFitsBody' /\ CompleteMeansWhole' /\ LifecycleFollowsReader'
    BY <1>3, ReceiveKeeps, Zenon DEF NextChunk, Reading
  <2>2. UNCHANGED <<body, inner, call, buffered>> /\ call = "none" /\ buffered = 0
    BY <1>3, Zenon DEF NextChunk, Reading, BodyInv, ReadInv
  <2>3. BodyTypes'
    BY <2>1, <2>2, Zenon DEF BodyInv, BodyTypes, Taken
  <2>4. ReadInv'
    BY <2>1, <2>2 DEF ReadInv
  <2> QED BY <2>1, <2>2, <2>3, <2>4 DEF BodyInv, DropIsSeen
<1>4. ASSUME ReadAllRefused \/ CancelCollect \/ DropBody PROVE BodyInv'
  BY <1>4, DropKeeps, Zenon DEF ReadAllRefused, CancelCollect, DropBody
<1>5. ASSUME ReadAll PROVE BodyInv'
  <2>1. CASE body.kind = "Incoming"
    BY <1>1, <1>5, <2>1, Zenon DEF ReadAll
  <2>2. CASE body.kind # "Incoming"
    <3>1. /\ Total(body) \in Nat /\ body.max \in Nat /\ body.end = "eof" /\ body.slot = "none"
          /\ body.declared # NoLength => body.declared = Total(body)
          /\ Len(body.chunks) \in Nat
      BY <2>2, BodyFacts, BodiesAssumption, Zenon DEF BodyInv, BodyTypes
    <3>2. shared # "Abandoned" /\ shared \in {"Active", "Complete", "Failed"}
      BY <1>5, Zenon DEF ReadAll, BodyInv, ReadInv, BodyTypes
    <3>3. call' = "dropped" /\ inner' = FALSE /\ UNCHANGED body
      BY <1>5, <2>2, Zenon DEF ReadAll
    <3>4. CASE Total(body) > body.max
      <4>1. state' = "Error" /\ Mark("Failed") /\ UNCHANGED <<received, pos, buffered>>
        BY <1>5, <2>2, <3>4, Zenon DEF ReadAll
      <4>2. ~ WellFormed(body) /\ shared # "Complete"
        BY <3>1, <3>4 DEF WellFormed, BodyInv, CompleteMeansWhole
      <4>3. shared' = "Failed"
        BY <3>2, <4>1, <4>2, Zenon DEF Mark
      <4>4. BodyTypes'
        BY <3>3, <4>1, <4>3, Zenon DEF BodyInv, BodyTypes, Taken
      <4>5. ReadInv'
        BY <3>3, <4>1, <4>3, Zenon DEF BodyInv, ReadInv
      <4>6. ~ WellFormed(body)'
        BY <3>3, <4>2, Zenon DEF WellFormed, Total, Taken
      <4> QED BY <3>3, <4>1, <4>3, <4>4, <4>5, <4>6, Zenon
              DEF BodyInv, VerdictFitsBody, CompleteMeansWhole, LifecycleFollowsReader, DropIsSeen
    <3>5. CASE ~ (Total(body) > body.max)
      <4>1. /\ state' = "Complete" /\ Mark("Complete") /\ received' = Total(body)
            /\ pos' = Len(body.chunks) /\ buffered' = Total(body)
        BY <1>5, <2>2, <3>5, Zenon DEF ReadAll
      <4>2. WellFormed(body)
        BY <3>1, <3>5 DEF WellFormed
      <4>3. shared' \in {"Complete", "Failed"}
        BY <3>2, <4>1, Zenon DEF Mark
      <4>4. WellFormed(body)' /\ Total(body)' = Total(body) /\ Taken(body)' = Taken(body)
        BY <3>3, <4>2, Zenon DEF WellFormed, Total, Taken
      <4>5. BodyTypes'
        <5>1. received' = Taken(body)'[pos'] /\ body' \in Bodies
          BY <3>3, <4>1, <4>4, Zenon DEF Total, BodyInv, BodyTypes
        <5>2. pos' \in 0..Len(body.chunks)' /\ buffered' \in Nat
          BY <3>1, <3>3, <4>1
        <5> QED BY <3>3, <4>1, <4>3, <5>1, <5>2, Zenon DEF BodyTypes
      <4>6. ReadInv'
        BY <3>1, <3>3, <3>5, <4>1, <4>3 DEF ReadInv
      <4> QED BY <3>3, <4>1, <4>3, <4>4, <4>5, <4>6, Zenon
              DEF BodyInv, VerdictFitsBody, CompleteMeansWhole, LifecycleFollowsReader, DropIsSeen
    <3> QED BY <3>4, <3>5, Zenon
  <2> QED BY <2>1, <2>2, Zenon
<1>6. ASSUME ReadAllWithTrailers PROVE BodyInv'
  BY <1>1, <1>6, Zenon DEF ReadAllWithTrailers, BodyInv, BodyTypes
<1>7. ASSUME CollectItem PROVE BodyInv'
  <2>1. /\ call # "dropped" /\ state \in {"Unread", "Streaming"} /\ buffered = received
        /\ call \in {"read_all", "read_all_with_trailers"}
        /\ UNCHANGED <<body, inner>> /\ Receive(state)
    BY <1>7, Zenon DEF CollectItem, BodyInv, ReadInv
  <2>2. /\ pos' \in 0..Len(body.chunks) /\ received' = Taken(body)[pos'] /\ received' \in Nat
        /\ received' <= body.max /\ (body.declared # NoLength => received' <= body.declared)
        /\ state' \in {state, "Complete", "Error"}
        /\ shared' \in {"Active", "Complete", "Failed"}
        /\ VerdictFitsBody' /\ CompleteMeansWhole' /\ LifecycleFollowsReader'
        /\ Verdict = "more" <=> state' = state
        /\ Verdict # "more" => shared' # "Active"
    BY <2>1, ReceiveKeeps, Zenon
  <2>3. received \in Nat
    BY BodyFacts, Zenon DEF BodyInv
  <2>4. buffered' = received'
    BY <1>7, <2>1, <2>2, <2>3 DEF CollectItem
  <2>5. call' = IF Verdict = "more" THEN call ELSE "dropped"
    BY <1>7, Zenon DEF CollectItem
  <2>6. BodyTypes'
    BY <2>1, <2>2, <2>4, <2>5, Zenon DEF BodyInv, BodyTypes, Taken
  <2>7. ReadInv'
    BY <2>1, <2>2, <2>4, <2>5, Zenon DEF ReadInv
  <2>8. DropIsSeen'
    BY <2>1, <2>2, <2>5, Zenon DEF DropIsSeen
  <2> QED BY <2>2, <2>6, <2>7, <2>8, Zenon DEF BodyInv
<1>8. ASSUME RuntimeFails PROVE BodyInv'
  <2>1. shared = "Active" /\ shared' = "Failed" /\ UNCHANGED <<body, pos, state, inner, received, trailers, call, buffered>>
    BY <1>8, Zenon DEF RuntimeFails
  <2> QED BY <2>1 DEF BodyInv, BodyTypes, ReadInv, VerdictFitsBody, CompleteMeansWhole, LifecycleFollowsReader,
             DropIsSeen, WellFormed, Total, Taken
<1>9. ASSUME UNCHANGED bodyVars PROVE BodyInv'
  BY <1>9 DEF bodyVars, BodyInv, BodyTypes, ReadInv, VerdictFitsBody, CompleteMeansWhole, LifecycleFollowsReader,
              DropIsSeen, WellFormed, Total, Taken
<1> QED BY <1>2, <1>3, <1>4, <1>5, <1>6, <1>7, <1>8, <1>9, Zenon DEF BodyNext

\* For every body a transport may present, every limit and every order of reads,
\* cancellations, drops and runtime failures: a reader's verdict is the body's, a
\* Complete lifecycle means the whole body was taken, what a collecting call
\* returns is the whole body, and a dropped stream is seen (request_body.rs).
THEOREM BodyVerdictsAreTrue == BodySpec => []BodyVerdictIsTrue
<1>1. BodyInv => BodyVerdictIsTrue
  BY Zenon DEF BodyInv, ReadInv, BodyVerdictIsTrue, CollectedIsWhole
<1> QED BY <1>1, BodyInitHolds, BodyStepKeeps, PTL DEF BodySpec
-----------------------------------------------------------------------------
(* Interim responses.  The budget is the sum of what the accepted calls    *)
(* cost, so a step extends the sum by one term.                            *)

Answers == {"Sent", "SuppressedHttp10", "NotInterim", "AfterCommit", "DuplicateContinue",
            "ForbiddenHeader", "TooMany", "TooLarge"}

Attempts == [call : InterimCalls, committed : BOOLEAN, answer : Answers]

InterimTypes ==
    /\ interim \in [committed : BOOLEAN, count : Nat, bytes : Nat, sent_continue : BOOLEAN,
                    recorded : Seq([status : Nat, fields : SUBSET STRING])]
    /\ attempts \in Seq(Attempts)

\* Besides the rules, sent_continue remembers every accepted 100.
InterimInv ==
    /\ InterimTypes /\ NoInterimAfterCommit /\ InterimBudgetExact /\ InterimHeadsClean
    /\ \A i \in Accepted : attempts[i].call.status = 100 => interim.sent_continue

\* One more term: the sum of a longer sequence is the old sum and the term.
LEMMA SumAppend ==
    ASSUME NEW s \in Seq(Nat), NEW x \in Nat, NEW f, IsSum(s, f), NEW g, IsSum(Append(s, x), g)
    PROVE  g[Len(s) + 1] = f[Len(s)] + x
<1> DEFINE t == Append(s, x)
           m == Len(s)
<1>1. t \in Seq(Nat) /\ Len(t) = m + 1 /\ m \in Nat /\ t[m + 1] = x /\ \A n \in 1..m : t[n] = s[n]
  OBVIOUS
<1>2. SumsTo(s, m, f) /\ SumsTo(t, m + 1, g)
  BY <1>1, SumIsNatural, Zenon
<1> HIDE DEF t, m
<1> DEFINE Bad == {n \in 0..m : f[n] # g[n]}
<1>3. Bad = {}
  <2> SUFFICES ASSUME Bad # {} PROVE FALSE
    BY Zenon
  <2>1. PICK k \in Bad : \A j \in Bad : k <= j
    <3>1. Bad \in SUBSET Nat
      BY <1>1
    <3> HIDE DEF Bad
    <3> QED BY <3>1, LeastNatural, Zenon
  <2>2. k # 0
    BY <1>2, Zenon DEF SumsTo
  <2>3. k \in 1..m /\ k - 1 \in 0..m
    BY <1>1, <2>2
  <2>4. f[k - 1] = g[k - 1]
    BY <2>1, <2>3
  <2>5. k \in 1..(m + 1)
    BY <1>1, <2>3
  <2>6. f[k] = f[k - 1] + s[k] /\ g[k] = g[k - 1] + t[k]
    BY <1>2, <2>3, <2>5, Zenon DEF SumsTo
  <2>7. t[k] = s[k]
    BY <1>1, <2>3, Zenon
  <2> QED BY <2>1, <2>4, <2>6, <2>7, Zenon
<1>4. f[m] = g[m]
  BY <1>1, <1>3
<1>5. g[m + 1] = g[m + 1 - 1] + t[m + 1] /\ m + 1 - 1 = m
  BY <1>1, <1>2 DEF SumsTo
<1> QED BY <1>1, <1>4, <1>5, Zenon DEF m

\* What Spent computes.
LEMMA SpentSums ==
    ASSUME NEW s \in Seq(Nat)
    PROVE  IsSum(s, Spent(s))
<1>1. PICK f : IsSum(s, f)
  BY SumExists, Zenon
<1>2. Spent(s) = CHOOSE g : IsSum(s, g)
  BY Zenon DEF Spent, IsSum
<1> QED BY <1>1, <1>2, Zenon

LEMMA BytesAreNatural ==
    ASSUME NEW msg \in InterimCalls
    PROVE  msg_bytes(msg) \in Nat
<1>1. IsFiniteSet(msg.fields \ HopByHop)
  BY InterimAssumption, FS_Difference
<1> QED BY <1>1, FS_CardinalityType DEF msg_bytes

\* The accepted calls are finitely many, and each costs its bytes.
LEMMA AcceptedFinite ==
    ASSUME InterimTypes
    PROVE  /\ IsFiniteSet(Accepted) /\ Accepted \subseteq 1..Len(attempts)
           /\ Cost \in Seq(Nat) /\ Len(Cost) = Len(attempts)
<1>1. DOMAIN attempts = 1..Len(attempts) /\ Len(attempts) \in Nat
  BY DEF InterimTypes
<1>2. Accepted \subseteq 1..Len(attempts)
  BY <1>1, Zenon DEF Accepted
<1>3. IsFiniteSet(Accepted)
  <2>1. IsFiniteSet(1..Len(attempts))
    BY <1>1, FS_Interval
  <2> QED BY <1>2, <2>1, FS_Subset
<1>4. \A i \in 1..Len(attempts) : attempts[i].call \in InterimCalls
  <2>1. \A i \in 1..Len(attempts) : attempts[i] \in Attempts
    BY DEF InterimTypes
  <2> QED BY <2>1, Zenon DEF Attempts
<1>5. \A i \in 1..Len(attempts) : (IF i \in Accepted THEN msg_bytes(attempts[i].call) ELSE 0) \in Nat
  BY <1>4, BytesAreNatural, Zenon
<1>6. Cost = [i \in 1..Len(attempts) |-> IF i \in Accepted THEN msg_bytes(attempts[i].call) ELSE 0]
  BY <1>1, Zenon DEF Cost
<1>7. Cost \in Seq(Nat) /\ Len(Cost) = Len(attempts)
  BY <1>1, <1>5, <1>6
<1> QED BY <1>2, <1>3, <1>7, Zenon

\* A further call leaves the earlier ones where they are.
LEMMA AttemptMade ==
    ASSUME InterimTypes, NEW a \in Attempts, attempts' = Append(attempts, a),
           NEW cost, cost = IF a.answer \in {"Sent", "SuppressedHttp10"} THEN msg_bytes(a.call) ELSE 0
    PROVE  LET n == Len(attempts) + 1
           IN /\ attempts' \in Seq(Attempts) /\ Len(attempts') = n /\ attempts'[n] = a
              /\ Accepted' = IF a.answer \in {"Sent", "SuppressedHttp10"} THEN Accepted \cup {n} ELSE Accepted
              /\ n \notin Accepted
              /\ \A i \in 1..Len(attempts) : attempts'[i] = attempts[i]
              /\ \A i \in Accepted : Place(i)' = Place(i)
              /\ \A k \in Accepted' : k = n => Place(k)' = Cardinality(Accepted')
              /\ Spent(Cost)'[n] = Spent(Cost)[Len(attempts)] + cost
<1> DEFINE n == Len(attempts) + 1
           good == {"Sent", "SuppressedHttp10"}
<1>1. /\ attempts' \in Seq(Attempts) /\ Len(attempts') = n /\ attempts'[n] = a
      /\ \A i \in 1..Len(attempts) : attempts'[i] = attempts[i]
      /\ DOMAIN attempts' = 1..n /\ DOMAIN attempts = 1..Len(attempts) /\ Len(attempts) \in Nat
  BY DEF InterimTypes
<1>2. Accepted \subseteq 1..Len(attempts) /\ Cost \in Seq(Nat) /\ Len(Cost) = Len(attempts)
  BY AcceptedFinite, Zenon
<1>3. n \notin Accepted
  BY <1>1, <1>2
<1>4. Accepted' = {i \in 1..n : attempts'[i].answer \in good}
  BY <1>1, Zenon DEF Accepted
<1>5. Accepted = {i \in 1..Len(attempts) : attempts[i].answer \in good}
  BY <1>1, Zenon DEF Accepted
<1>6. \A i \in 1..Len(attempts) : i \in Accepted' <=> i \in Accepted
  BY <1>1, <1>4, <1>5
<1>7. n \in Accepted' <=> a.answer \in good
  BY <1>1, <1>4
<1>8. Accepted' \subseteq 1..n
  BY <1>4, Zenon
<1>9. Accepted' = IF a.answer \in good THEN Accepted \cup {n} ELSE Accepted
  <2>1. 1..n = (1..Len(attempts)) \cup {n}
    BY <1>1
  <2>2. \A i : i \in Accepted' <=> i \in Accepted \/ (i = n /\ n \in Accepted')
    BY <1>2, <1>3, <1>6, <1>8, <2>1, Zenon
  <2> HIDE DEF n, good
  <2>3. CASE a.answer \in good
    <3>1. Accepted' = Accepted \cup {n}
      BY <1>7, <2>2, <2>3, Zenon
    <3> QED BY <2>3, <3>1, Zenon
  <2>4. CASE a.answer \notin good
    <3>1. Accepted' = Accepted
      BY <1>7, <2>2, <2>4, Zenon
    <3> QED BY <2>4, <3>1, Zenon
  <2> QED BY <2>3, <2>4, Zenon
<1>10. ASSUME NEW i \in Accepted PROVE Place(i)' = Place(i)
  <2>1. Accepted' \cap 1..i = Accepted \cap 1..i
    BY <1>1, <1>2, <1>6, <1>8
  <2> QED BY <2>1, Zenon DEF Place
<1>11. ASSUME NEW k \in Accepted', k = n PROVE Place(k)' = Cardinality(Accepted')
  <2>1. Accepted' \cap 1..k = Accepted'
    BY <1>8, <1>11, Zenon
  <2> QED BY <2>1, Zenon DEF Place
<1>12. Cost' = Append(Cost, cost)
  <2>1. Cost' = [i \in 1..n |-> IF i \in Accepted' THEN msg_bytes(attempts'[i].call) ELSE 0]
    BY <1>1, Zenon DEF Cost
  <2>2. Cost = [i \in 1..Len(attempts) |-> IF i \in Accepted THEN msg_bytes(attempts[i].call) ELSE 0]
    BY <1>1, Zenon DEF Cost
  <2>3. \A i \in 1..Len(attempts) : Cost'[i] = Cost[i]
    BY <1>1, <1>6, <2>1, <2>2
  <2>4. Cost'[n] = cost
    BY <1>1, <1>7, <2>1
  <2>5. Append(Cost, cost) = [i \in 1..n |-> IF i = n THEN cost ELSE Cost[i]]
    BY <1>1, <1>2
  <2>6. Cost' = [i \in 1..n |-> Cost'[i]]
    BY <2>1, Zenon
  <2>7. \A i \in 1..n : Cost'[i] = IF i = n THEN cost ELSE Cost[i]
    BY <1>1, <2>3, <2>4
  <2> QED BY <2>5, <2>6, <2>7, Zenon
<1>13. cost \in Nat
  BY BytesAreNatural, Zenon DEF Attempts
<1>14. Append(Cost, cost) \in Seq(Nat)
  BY <1>2, <1>13
<1>15. IsSum(Cost, Spent(Cost)) /\ IsSum(Append(Cost, cost), Spent(Append(Cost, cost)))
  BY <1>2, <1>14, SpentSums, Zenon
<1>16. Spent(Append(Cost, cost))[Len(Cost) + 1] = Spent(Cost)[Len(Cost)] + cost
  BY <1>2, <1>13, <1>15, SumAppend, Zenon
<1>17. Spent(Cost)' = Spent(Append(Cost, cost))
  BY <1>12 DEF Spent
<1> QED BY <1>1, <1>2, <1>3, <1>9, <1>10, <1>11, <1>16, <1>17, Zenon

LEMMA InterimInitHolds == InterimInit => InterimInv
<1> SUFFICES ASSUME InterimInit PROVE InterimInv
  BY Zenon
<1>1. InterimTypes /\ attempts = <<>>
  BY DEF InterimInit, InterimTypes
<1>2. Accepted = {} /\ Cardinality(Accepted) = 0
  BY <1>1, FS_EmptySet DEF Accepted
<1>3. Cost \in Seq(Nat) /\ Len(Cost) = 0
  BY <1>1, AcceptedFinite, Zenon
<1>4. Spent(Cost)[0] = 0
  BY <1>3, SpentSums, SumIsNatural, Zenon DEF SumsTo
<1>5. InterimBudgetExact
  BY <1>1, <1>2, <1>4, InterimAssumption DEF InterimInit, InterimBudgetExact
<1> QED BY <1>1, <1>2, <1>5 DEF InterimInit, InterimInv, NoInterimAfterCommit, InterimHeadsClean

\* A refused call is remembered and nothing else.
LEMMA RefusalKeeps ==
    ASSUME InterimInv, NEW msg \in InterimCalls, Send(msg), SendError(msg) # "none"
    PROVE  InterimInv'
<1> DEFINE a == [call |-> msg, committed |-> interim.committed, answer |-> SendError(msg)]
           n == Len(attempts) + 1
<1>1. InterimTypes
  BY Zenon DEF InterimInv
<1>2. SendError(msg) \in Answers \ {"Sent", "SuppressedHttp10"}
  BY Zenon DEF SendError, Answers
<1>3. a \in Attempts /\ a.answer \notin {"Sent", "SuppressedHttp10"}
  BY <1>1, <1>2, Zenon DEF InterimTypes, Attempts
<1>4. attempts' = Append(attempts, a) /\ interim' = interim
  BY Zenon DEF Send
<1> HIDE DEF a
<1>5. /\ attempts' \in Seq(Attempts) /\ Len(attempts') = n /\ attempts'[n] = a
      /\ Accepted' = Accepted
      /\ \A i \in 1..Len(attempts) : attempts'[i] = attempts[i]
      /\ \A i \in Accepted : Place(i)' = Place(i)
      /\ Spent(Cost)'[n] = Spent(Cost)[Len(attempts)] + 0
  BY <1>1, <1>3, <1>4, AttemptMade, Zenon
<1>6. Accepted \subseteq 1..Len(attempts) /\ Len(attempts) \in Nat
  BY <1>1, AcceptedFinite DEF InterimTypes
<1>7. \A i \in Accepted : attempts'[i] = attempts[i]
  BY <1>5, <1>6, Zenon
<1>8. InterimBudgetExact'
  <2>1. Spent(Cost)[Len(attempts)] \in Nat
    BY <1>1, Zenon DEF InterimInv, InterimBudgetExact, InterimTypes
  <2>2. Spent(Cost)'[Len(attempts')] = interim'.bytes
    BY <1>4, <1>5, <2>1 DEF InterimInv, InterimBudgetExact
  <2>3. Cardinality(Accepted)' = Cardinality(Accepted)
    BY <1>5, Zenon
  <2>4. \A i \in Accepted' : interim'.recorded[Place(i)'] =
           [status |-> attempts'[i].call.status, fields |-> attempts'[i].call.fields \ HopByHop]
    <3> TAKE i \in Accepted'
    <3>1. i \in Accepted /\ Place(i)' = Place(i) /\ attempts'[i] = attempts[i]
      BY <1>5, <1>7, Zenon
    <3>2. interim.recorded[Place(i)] =
             [status |-> attempts[i].call.status, fields |-> attempts[i].call.fields \ HopByHop]
      BY <3>1, Zenon DEF InterimInv, InterimBudgetExact
    <3> QED BY <1>4, <3>1, <3>2, Zenon
  <2>5. \A i, j \in Accepted' : attempts'[i].call.status = 100 /\ attempts'[j].call.status = 100 => i = j
    BY <1>5, <1>7 DEF InterimInv, InterimBudgetExact
  <2> QED BY <1>4, <2>2, <2>3, <2>4, <2>5, Zenon DEF InterimInv, InterimBudgetExact
<1>9. NoInterimAfterCommit'
  <2>1. \A i \in 1..n : attempts'[i].committed => attempts'[i].answer \notin {"Sent", "SuppressedHttp10"}
    BY <1>1, <1>3, <1>5, <1>6 DEF InterimInv, NoInterimAfterCommit, InterimTypes
  <2> QED BY <1>5, <2>1 DEF NoInterimAfterCommit
<1>10. InterimTypes' /\ InterimHeadsClean'
  BY <1>1, <1>4, <1>5, Zenon DEF InterimInv, InterimTypes, InterimHeadsClean
<1> QED BY <1>4, <1>5, <1>7, <1>8, <1>9, <1>10, Zenon DEF InterimInv

\* An accepted call is recorded, counted and paid for.
LEMMA AcceptanceKeeps ==
    ASSUME InterimInv, NEW msg \in InterimCalls, Send(msg), SendError(msg) = "none"
    PROVE  InterimInv'
<1> DEFINE answer == IF http10 THEN "SuppressedHttp10" ELSE "Sent"
           a == [call |-> msg, committed |-> interim.committed, answer |-> answer]
           n == Len(attempts) + 1
           kept == [status |-> msg.status, fields |-> msg.fields \ HopByHop]
<1>1. InterimTypes
  BY Zenon DEF InterimInv
<1>2. /\ is_interim(msg.status) /\ ~ interim.committed
      /\ ~ (msg.status = 100 /\ interim.sent_continue)
      /\ normalize_interim_headers(msg.fields)[1] = "Ok"
      /\ interim.count + 1 <= MaxCount /\ interim.bytes + msg_bytes(msg) <= MaxBytes
  <2>1. interim.count + 1 \in Nat /\ interim.bytes + msg_bytes(msg) \in Nat
    BY <1>1, BytesAreNatural DEF InterimTypes
  <2> QED BY <2>1, InterimAssumption DEF SendError
<1>3. msg.status \in Nat /\ msg.fields \in SUBSET STRING /\ msg.status # 101
  BY <1>2, InterimAssumption DEF is_interim
<1>4. msg.fields \cap Framing = {} /\ normalize_interim_headers(msg.fields)[2] = msg.fields \ HopByHop
  BY <1>2, Zenon DEF normalize_interim_headers
<1>5. kept \in [status : Nat, fields : SUBSET STRING]
  BY <1>3, Zenon
<1>6. a \in Attempts /\ a.answer \in {"Sent", "SuppressedHttp10"} /\ a.call = msg /\ ~ a.committed
  BY <1>1, <1>2, Zenon DEF InterimTypes, Attempts, Answers
<1>7. attempts' = Append(attempts, a)
  BY Zenon DEF Send
<1>8. /\ interim'.count = interim.count + 1 /\ interim'.bytes = interim.bytes + msg_bytes(msg)
      /\ interim'.recorded = Append(interim.recorded, kept)
      /\ interim'.committed = interim.committed
      /\ interim'.sent_continue = (interim.sent_continue \/ msg.status = 100)
      /\ interim' \in [committed : BOOLEAN, count : Nat, bytes : Nat, sent_continue : BOOLEAN,
                       recorded : Seq([status : Nat, fields : SUBSET STRING])]
  <2>1. interim' = [interim EXCEPT !.count = @ + 1, !.bytes = @ + msg_bytes(msg),
                                   !.sent_continue = @ \/ msg.status = 100,
                                   !.recorded = Append(@, kept)]
    BY <1>4, Zenon DEF Send
  <2>2. interim.count + 1 \in Nat /\ interim.bytes + msg_bytes(msg) \in Nat
        /\ Append(interim.recorded, kept) \in Seq([status : Nat, fields : SUBSET STRING])
        /\ (interim.sent_continue \/ msg.status = 100) \in BOOLEAN
    BY <1>1, <1>5, BytesAreNatural DEF InterimTypes
  <2> HIDE DEF kept
  <2> QED BY <1>1, <2>1, <2>2, Zenon DEF InterimTypes
<1> HIDE DEF a, kept
<1>9. /\ attempts' \in Seq(Attempts) /\ Len(attempts') = n /\ attempts'[n] = a
      /\ Accepted' = Accepted \cup {n} /\ n \notin Accepted
      /\ \A i \in 1..Len(attempts) : attempts'[i] = attempts[i]
      /\ \A i \in Accepted : Place(i)' = Place(i)
      /\ \A k \in Accepted' : k = n => Place(k)' = Cardinality(Accepted')
      /\ Spent(Cost)'[n] = Spent(Cost)[Len(attempts)] + msg_bytes(msg)
  BY <1>1, <1>6, <1>7, AttemptMade
<1>10. /\ Accepted \subseteq 1..Len(attempts) /\ Len(attempts) \in Nat /\ IsFiniteSet(Accepted)
       /\ \A i \in Accepted : attempts'[i] = attempts[i]
  BY <1>1, <1>9, AcceptedFinite DEF InterimTypes
<1>11. Cardinality(Accepted') = interim'.count /\ Len(interim'.recorded) = interim'.count
       /\ Len(interim.recorded) = interim.count /\ interim.count \in Nat
  <2>1. Cardinality(Accepted') = Cardinality(Accepted) + 1
    BY <1>9, <1>10, FS_AddElement
  <2>2. Len(interim'.recorded) = Len(interim.recorded) + 1 /\ interim.count \in Nat
    BY <1>1, <1>5, <1>8 DEF InterimTypes
  <2> QED BY <1>8, <2>1, <2>2, Zenon DEF InterimInv, InterimBudgetExact
<1>12. \A i \in Accepted : Place(i) \in 1..interim.count
  <2> TAKE i \in Accepted
  <2>1. IsFiniteSet(Accepted \cap 1..i) /\ Accepted \cap 1..i \subseteq Accepted /\ i \in Accepted \cap 1..i
    BY <1>10, FS_Subset
  <2>2. Cardinality(Accepted \cap 1..i) <= Cardinality(Accepted) /\ Cardinality(Accepted \cap 1..i) \in Nat
    BY <1>10, <2>1, FS_Subset, FS_CardinalityType
  <2>3. Cardinality(Accepted \cap 1..i) # 0
    BY <2>1, FS_EmptySet
  <2> QED BY <1>11, <2>2, <2>3 DEF Place, InterimInv, InterimBudgetExact
<1>13. ASSUME NEW i \in Accepted'
       PROVE  interim'.recorded[Place(i)'] =
                  [status |-> attempts'[i].call.status, fields |-> attempts'[i].call.fields \ HopByHop]
  <2>1. CASE i = n
    <3>1. Place(i)' = Len(interim.recorded) + 1
      BY <1>8, <1>9, <1>11, <2>1
    <3>2. interim'.recorded[Len(interim.recorded) + 1] = kept
      BY <1>1, <1>8 DEF InterimTypes
    <3> QED BY <1>6, <1>9, <2>1, <3>1, <3>2, Zenon DEF kept
  <2>2. CASE i \in Accepted
    <3>1. Place(i)' = Place(i) /\ Place(i) \in 1..Len(interim.recorded)
      BY <1>9, <1>11, <1>12, <2>2, Zenon
    <3>2. interim'.recorded[Place(i)] = interim.recorded[Place(i)]
      BY <1>1, <1>8, <3>1 DEF InterimTypes
    <3> QED BY <1>10, <2>2, <3>1, <3>2, Zenon DEF InterimInv, InterimBudgetExact
  <2> QED BY <1>9, <2>1, <2>2, Zenon
<1>14. ASSUME NEW i \in Accepted', NEW j \in Accepted',
              attempts'[i].call.status = 100, attempts'[j].call.status = 100
       PROVE  i = j
  <2>1. msg.status = 100 => \A k \in Accepted : attempts'[k].call.status # 100
    BY <1>2, <1>10 DEF InterimInv
  <2>2. attempts'[n].call = msg
    BY <1>6, <1>9, Zenon
  <2>3. i \in Accepted /\ j \in Accepted => i = j
    BY <1>10, <1>14 DEF InterimInv, InterimBudgetExact
  <2>4. (i = n \/ i \in Accepted) /\ (j = n \/ j \in Accepted)
    BY <1>9, Zenon
  <2> HIDE DEF n
  <2> QED BY <1>14, <2>1, <2>2, <2>3, <2>4, Zenon
<1>15. Spent(Cost)'[Len(attempts')] = interim'.bytes /\ interim'.count <= MaxCount /\ interim'.bytes <= MaxBytes
  BY <1>2, <1>8, <1>9, Zenon DEF InterimInv, InterimBudgetExact
<1>16. InterimBudgetExact'
  BY <1>11, <1>13, <1>14, <1>15, Zenon DEF InterimBudgetExact
<1>17. NoInterimAfterCommit'
  <2>1. \A i \in 1..n : attempts'[i].committed => attempts'[i].answer \notin {"Sent", "SuppressedHttp10"}
    <3>1. 1..n = (1..Len(attempts)) \cup {n} /\ DOMAIN attempts = 1..Len(attempts)
      BY <1>1, <1>10 DEF InterimTypes
    <3>2. ~ attempts'[n].committed
      BY <1>6, <1>9, Zenon
    <3> QED BY <1>9, <3>1, <3>2, Zenon DEF InterimInv, NoInterimAfterCommit
  <2> QED BY <1>9, <2>1 DEF NoInterimAfterCommit
<1>18. InterimHeadsClean'
  <2>1. kept.fields \cap (Framing \cup HopByHop) = {} /\ kept.status # 101
    BY <1>3, <1>4, Zenon DEF kept
  <2>2. \A i \in 1..Len(interim.recorded) : interim'.recorded[i] = interim.recorded[i]
    BY <1>1, <1>8 DEF InterimTypes
  <2>3. interim'.recorded[Len(interim.recorded) + 1] = kept
        /\ DOMAIN interim'.recorded = 1..(Len(interim.recorded) + 1) /\ Len(interim.recorded) \in Nat
    BY <1>1, <1>8 DEF InterimTypes
  <2>4. \A i \in 1..Len(interim.recorded) : interim.recorded[i].fields \cap (Framing \cup HopByHop) = {}
                                            /\ interim.recorded[i].status # 101
    BY <1>1 DEF InterimInv, InterimHeadsClean, InterimTypes
  <2>5. \A i \in DOMAIN interim'.recorded : i \in 1..Len(interim.recorded) \/ i = Len(interim.recorded) + 1
    BY <2>3
  <2>6. \A i \in DOMAIN interim'.recorded : /\ interim'.recorded[i].fields \cap (Framing \cup HopByHop) = {}
                                            /\ interim'.recorded[i].status # 101
    BY <2>1, <2>2, <2>3, <2>4, <2>5, Zenon
  <2> QED BY <2>6, Zenon DEF InterimHeadsClean
<1>19. \A i \in Accepted' : attempts'[i].call.status = 100 => interim'.sent_continue
  <2>1. \A i \in Accepted : attempts'[i].call.status = 100 => interim.sent_continue
    BY <1>10, Zenon DEF InterimInv
  <2>2. attempts'[n].call.status = 100 => msg.status = 100
    BY <1>6, <1>9, Zenon
  <2>3. interim.sent_continue \/ msg.status = 100 => interim'.sent_continue
    BY <1>8, Zenon
  <2>4. \A i \in Accepted' : i = n \/ i \in Accepted
    BY <1>9, Zenon
  <2> HIDE DEF n
  <2> QED BY <2>1, <2>2, <2>3, <2>4, Zenon
<1>20. InterimTypes'
  BY <1>8, <1>9, Zenon DEF InterimTypes
<1> QED BY <1>16, <1>17, <1>18, <1>19, <1>20, Zenon DEF InterimInv

\* Interim responses keep their rules (interim.rs): for any calls and limits, in
\* whatever order the clones of a sender make them, none is accepted after the
\* final response is committed, the recorded messages are the accepted ones in
\* order and within both budgets, at most one is a 100, and no head carries a
\* framing or hop-by-hop field.
THEOREM InterimResponsesKeepTheirRules == InterimSpec => []InterimRulesHold
<1>1. InterimInv /\ [InterimNext]_interimVars => InterimInv'
  <2> SUFFICES ASSUME InterimInv, [InterimNext]_interimVars PROVE InterimInv'
    BY Zenon
  <2>1. ASSUME NEW msg \in InterimCalls, Send(msg) PROVE InterimInv'
    BY <2>1, RefusalKeeps, AcceptanceKeeps, Zenon
  <2>2. CASE mark_committed \/ UNCHANGED interimVars
    <3>1. /\ interim'.count = interim.count /\ interim'.bytes = interim.bytes
          /\ interim'.recorded = interim.recorded /\ interim'.sent_continue = interim.sent_continue
          /\ interim' \in [committed : BOOLEAN, count : Nat, bytes : Nat, sent_continue : BOOLEAN,
                           recorded : Seq([status : Nat, fields : SUBSET STRING])]
          /\ attempts' = attempts
      BY <2>2, Zenon DEF mark_committed, interimVars, InterimInv, InterimTypes
    <3>2. Accepted' = Accepted /\ Cost' = Cost
      BY <3>1, Zenon DEF Accepted, Cost
    <3>3. Spent(Cost)' = Spent(Cost) /\ \A i \in Accepted : Place(i)' = Place(i)
      BY <3>2 DEF Spent, Place
    <3>4. InterimTypes' /\ NoInterimAfterCommit' /\ InterimHeadsClean'
      BY <3>1 DEF InterimInv, InterimTypes, NoInterimAfterCommit, InterimHeadsClean
    <3>5. InterimBudgetExact'
      BY <3>1, <3>2, <3>3 DEF InterimInv, InterimBudgetExact
    <3> QED BY <3>1, <3>2, <3>4, <3>5, Zenon DEF InterimInv
  <2> QED BY <2>1, <2>2, Zenon DEF InterimNext
<1>2. InterimInv => InterimRulesHold
  BY Zenon DEF InterimInv, InterimRulesHold
<1> QED BY <1>1, <1>2, InterimInitHolds, PTL DEF InterimSpec

-----------------------------------------------------------------------------
(* Response streams                                                        *)

LengthOptions == {<<>>} \cup {<<n>> : n \in Nat}

NameOptions == {<<>>} \cup {<<names>> : names \in SUBSET TrailerNames}

StreamTypes ==
    /\ producer \in [yielded : Nat, empties : Nat, last : {"none", "chunk", "error", "end"}]
    /\ adapter \in [inner : BOOLEAN, trailers : BOOLEAN, declared : LengthOptions,
                    trailer_declaration : NameOptions, emitted : Nat, pending_split : Nat,
                    finished : BOOLEAN, alive : BOOLEAN]
    /\ frames \in [bytes : Nat, largest : Nat, trailers : NameOptions, afterTrailers : Nat,
                   error : BOOLEAN]
    /\ streamCounters \in [StreamCounters -> Nat]

\* The length is checked when the producer ends, so from then on it is kept.
LengthInv ==
    /\ frames.bytes = adapter.emitted
    /\ IsKnown(adapter.declared) => adapter.emitted <= adapter.declared[1]
    /\ ~ adapter.inner => /\ adapter.pending_split = 0
                          /\ IsKnown(adapter.declared) => adapter.emitted = adapter.declared[1]
    /\ IsKnown(frames.trailers) => ~ adapter.inner
    /\ frames.error => adapter.finished

\* A stream has an outcome from the moment it finished or was dropped.
Undecided == \A c \in StreamOutcomes : streamCounters[c] = 0

Decided(o) ==
    /\ streamCounters[o] = 1
    /\ \A c \in StreamOutcomes \ {o} : streamCounters[c] = 0

OutcomeInv ==
    /\ ~ adapter.finished /\ adapter.alive => Undecided
    /\ adapter.finished \/ ~ adapter.alive => \E o \in StreamOutcomes : Decided(o)
    /\ streamCounters["streaming_completed"] # 0 => ~ adapter.inner

StreamInv ==
    /\ StreamTypes /\ LengthInv /\ OutcomeInv
    /\ NoByteLost /\ TrailersLast /\ FramesBounded

\* A stream starts with no outcome and nothing delivered.
LEMMA StreamInitHolds == StreamInit => StreamInv
<1> SUFFICES ASSUME StreamInit PROVE StreamInv
  BY Zenon
<1> USE StreamAssumption DEF StreamInit, adapter_new, StreamCounters
<1>1. PICK length \in {<<>>} \cup {<<n>> : n \in DeclaredLengths},
           declaration \in {<<>>} \cup {<<names>> : names \in SUBSET TrailerNames \ {{}}},
           hasTrailers \in BOOLEAN : adapter = adapter_new(length, hasTrailers, declaration)
  BY Zenon DEF StreamInit
<1>2. length \in LengthOptions /\ declaration \in NameOptions
  BY Zenon DEF LengthOptions, NameOptions
<1>3. StreamTypes
  BY <1>1, <1>2, Zenon DEF StreamTypes, NameOptions
<1>4. LengthInv
  BY <1>1, <1>2 DEF LengthInv, IsKnown, LengthOptions
<1>5. OutcomeInv
  BY <1>1, Zenon DEF OutcomeInv, Undecided, StreamOutcomes
<1>6. NoByteLost /\ TrailersLast /\ FramesBounded
  BY <1>1 DEF NoByteLost, TrailersLast, FramesBounded, IsKnown
<1> QED BY <1>3, <1>4, <1>5, <1>6, Zenon DEF StreamInv

\* Counting one outcome of a stream that had none decides it.
LEMMA CountDecides ==
    ASSUME StreamTypes, Undecided, NEW c \in StreamOutcomes, StreamCount(c)
    PROVE  /\ Decided(c)'
           /\ streamCounters' \in [StreamCounters -> Nat]
BY DEF StreamTypes, Undecided, Decided, StreamCount, StreamOutcomes

\* A failure keeps what was delivered and ends the stream.
LEMMA StreamFailKeeps ==
    ASSUME StreamInv, StreamPolled, NEW c \in StreamOutcomes \ {"streaming_completed"},
           NEW pending \in Nat, ~ adapter.inner => pending = 0, StreamFail(c, pending),
           producer' \in [yielded : Nat, empties : Nat, last : {"none", "chunk", "error", "end"}]
    PROVE  StreamInv'
<1> USE DEF StreamInv, StreamTypes, StreamFail, StreamPolled
<1>1. Decided(c)' /\ streamCounters' \in [StreamCounters -> Nat]
  BY CountDecides, Zenon DEF OutcomeInv
<1>2. StreamTypes'
  BY <1>1, Zenon
<1>3. LengthInv'
  BY Zenon DEF LengthInv
<1>4. OutcomeInv'
  BY <1>1, <1>2 DEF OutcomeInv, Decided, StreamOutcomes, StreamCounters
<1>5. NoByteLost' /\ TrailersLast' /\ FramesBounded'
  BY Zenon DEF NoByteLost, TrailersLast, FramesBounded
<1> QED BY <1>2, <1>3, <1>4, <1>5, Zenon

\* A piece of at most the chunk size that fits the declared length is delivered.
LEMMA StreamDeliverKeeps ==
    ASSUME StreamInv, StreamPolled, adapter.inner, NEW piece \in Nat, piece <= ChunkBytes,
           NEW rest \in Nat, ~ StreamOverruns(piece),
           adapter' = [adapter EXCEPT !.emitted = @ + piece, !.pending_split = rest],
           StreamDeliver(piece), UNCHANGED streamCounters,
           producer' \in [yielded : Nat, empties : Nat, last : {"none", "chunk", "error", "end"}],
           producer'.yielded = frames.bytes + piece + rest
    PROVE  StreamInv'
<1> USE StreamAssumption DEF StreamInv, StreamTypes, StreamDeliver, StreamPolled
<1>1. ~ IsKnown(frames.trailers)
  BY Zenon DEF LengthInv
<1>2. StreamTypes'
  <2>0. adapter.emitted + piece \in Nat
    OBVIOUS
  <2>1. adapter' \in [inner : BOOLEAN, trailers : BOOLEAN, declared : LengthOptions,
                      trailer_declaration : NameOptions, emitted : Nat, pending_split : Nat,
                      finished : BOOLEAN, alive : BOOLEAN]
    BY <2>0, Zenon
  <2>2. frames.bytes + piece \in Nat /\ (IF piece > frames.largest THEN piece ELSE frames.largest) \in Nat
    OBVIOUS
  <2>3. frames' = [frames EXCEPT !.bytes = frames.bytes + piece,
                     !.largest = IF piece > frames.largest THEN piece ELSE frames.largest]
    BY <1>1, Zenon
  <2>4. frames' \in [bytes : Nat, largest : Nat, trailers : NameOptions, afterTrailers : Nat,
                     error : BOOLEAN]
    BY <2>2, <2>3, Zenon
  <2> QED BY <2>1, <2>4, Zenon
<1>3. LengthInv'
  BY <1>1 DEF LengthInv, StreamOverruns, IsKnown, LengthOptions
<1>4. OutcomeInv'
  BY DEF OutcomeInv, Undecided, Decided
<1>5. NoByteLost' /\ TrailersLast' /\ FramesBounded'
  BY <1>1, Zenon DEF NoByteLost, TrailersLast, FramesBounded, IsKnown
<1> QED BY <1>2, <1>3, <1>4, <1>5, Zenon

\* Once the producer has ended at its declared length, the trailer future either
\* completes the stream, hands out one declared block, or fails it.
LEMMA TrailerPhaseKeeps ==
    ASSUME StreamInv, StreamPolled, adapter.pending_split = 0,
           IsKnown(adapter.declared) => adapter.emitted = adapter.declared[1],
           NEW names \in SUBSET TrailerNames,
           TrailerPhase([adapter EXCEPT !.inner = FALSE], names),
           producer' \in [yielded : Nat, empties : Nat, last : {"none", "chunk", "error", "end"}],
           producer'.yielded = producer.yielded
    PROVE  StreamInv'
<1> DEFINE a == [adapter EXCEPT !.inner = FALSE]
<1> USE DEF StreamInv, StreamTypes, StreamPolled
<1>1. Undecided
  BY Zenon DEF OutcomeInv
<1>2. a \in [inner : BOOLEAN, trailers : BOOLEAN, declared : LengthOptions,
             trailer_declaration : NameOptions, emitted : Nat, pending_split : Nat,
             finished : BOOLEAN, alive : BOOLEAN]
      /\ ~ a.inner /\ a.trailers = adapter.trailers /\ a.declared = adapter.declared
      /\ a.trailer_declaration = adapter.trailer_declaration /\ a.emitted = adapter.emitted
      /\ a.pending_split = 0 /\ ~ a.finished /\ a.alive
  BY Zenon
<1> HIDE DEF a
<1>3. CASE complete_ok(a)
  <2>1. Decided("streaming_completed")' /\ streamCounters' \in [StreamCounters -> Nat]
    BY <1>1, <1>3, CountDecides, Zenon DEF complete_ok, StreamOutcomes, StreamCounters
  <2>2. StreamTypes'
    BY <1>2, <1>3, <2>1, Zenon DEF complete_ok
  <2>3. LengthInv'
    BY <1>2, <1>3 DEF complete_ok, LengthInv
  <2>4. OutcomeInv'
    BY <1>2, <1>3, <2>1, Zenon DEF complete_ok, OutcomeInv, StreamOutcomes, StreamCounters
  <2>5. NoByteLost' /\ TrailersLast' /\ FramesBounded'
    BY <1>2, <1>3 DEF complete_ok, NoByteLost, TrailersLast, FramesBounded
  <2> QED BY <2>2, <2>3, <2>4, <2>5, Zenon
<1>4. CASE /\ adapter' = [a EXCEPT !.finished = TRUE]
           /\ frames' = [frames EXCEPT !.error = TRUE]
           /\ StreamCount("stream_producer_errors")
  <2>1. Decided("stream_producer_errors")' /\ streamCounters' \in [StreamCounters -> Nat]
    BY <1>1, <1>4, CountDecides, Zenon DEF StreamOutcomes, StreamCounters
  <2>2. StreamTypes'
    BY <1>2, <1>4, <2>1, Zenon
  <2>3. LengthInv'
    BY <1>2, <1>4, Zenon DEF LengthInv
  <2>4. OutcomeInv'
    BY <1>2, <1>4, <2>1, Zenon DEF OutcomeInv, Decided, StreamOutcomes, StreamCounters
  <2>5. NoByteLost' /\ TrailersLast' /\ FramesBounded'
    BY <1>2, <1>4, Zenon DEF NoByteLost, TrailersLast, FramesBounded
  <2> QED BY <2>2, <2>3, <2>4, <2>5, Zenon
<1>5. CASE /\ IsKnown(a.trailer_declaration) => names \subseteq a.trailer_declaration[1]
           /\ adapter' = [a EXCEPT !.trailers = FALSE]
           /\ frames' = [frames EXCEPT !.trailers = <<names>>]
           /\ UNCHANGED streamCounters
  <2>1. <<names>> \in NameOptions
    BY DEF NameOptions
  <2>2. StreamTypes'
    BY <1>2, <1>5, <2>1, Zenon
  <2>3. LengthInv'
    BY <1>2, <1>5, Zenon DEF LengthInv
  <2>4. OutcomeInv'
    BY <1>2, <1>5, Zenon DEF OutcomeInv, Decided, Undecided
  <2>5. NoByteLost' /\ TrailersLast' /\ FramesBounded'
    BY <1>2, <1>5, Zenon DEF NoByteLost, TrailersLast, FramesBounded
  <2> QED BY <2>2, <2>3, <2>4, <2>5, Zenon
<1> QED BY <1>3, <1>4, <1>5, Zenon DEF TrailerPhase, a

\* Every poll of the adapter and its drop keep the invariant.
LEMMA StreamStepKeeps == StreamInv /\ [StreamNext]_streamVars => StreamInv'
<1> SUFFICES ASSUME StreamInv, [StreamNext]_streamVars PROVE StreamInv'
  BY Zenon
<1> USE StreamAssumption DEF StreamInv, StreamTypes
<1>1. CASE PollSplit
  <2> DEFINE piece == next_split_piece
             rest == adapter.pending_split - piece
  <2>1. piece \in Nat /\ piece <= ChunkBytes /\ rest \in Nat /\ adapter.inner
        /\ piece + rest = adapter.pending_split
    BY <1>1 DEF PollSplit, next_split_piece, LengthInv
  <2>2. StreamPolled /\ UNCHANGED producer
    BY <1>1, Zenon DEF PollSplit
  <2>3. CASE StreamOverruns(piece)
    <3>1. StreamFail("stream_length_mismatches", rest)
      BY <1>1, <2>3, Zenon DEF PollSplit
    <3> HIDE DEF rest
    <3> QED BY <2>1, <2>2, <3>1, StreamFailKeeps, Zenon DEF StreamOutcomes, StreamCounters
  <2>4. CASE ~ StreamOverruns(piece)
    <3>1. /\ adapter' = [adapter EXCEPT !.emitted = @ + piece, !.pending_split = rest]
          /\ StreamDeliver(piece) /\ UNCHANGED streamCounters
      BY <1>1, <2>4, Zenon DEF PollSplit
    <3>2. producer'.yielded = frames.bytes + piece + rest
      BY <2>1, <2>2 DEF StreamPolled, NoByteLost, LengthInv
    <3> HIDE DEF rest, piece
    <3> QED BY <2>1, <2>2, <2>4, <3>1, <3>2, StreamDeliverKeeps, Zenon
  <2> QED BY <2>3, <2>4, Zenon
<1>2. ASSUME NEW n \in ChunkSizes, PollChunk(n) PROVE StreamInv'
  <2> DEFINE piece == IF n > ChunkBytes THEN ChunkBytes ELSE n
             rest == n - piece
  <2>1. piece \in Nat /\ piece <= ChunkBytes /\ rest \in Nat /\ adapter.inner /\ n \in Nat
        /\ piece + rest = n
    BY <1>2 DEF PollChunk, PollsProducer
  <2>2. StreamPolled /\ producer' \in [yielded : Nat, empties : Nat, last : {"none", "chunk", "error", "end"}]
        /\ producer'.yielded = producer.yielded + n /\ adapter.pending_split = 0
    <3>1. producer.yielded + n \in Nat
      BY <2>1
    <3>2. producer' = [producer EXCEPT !.yielded = producer.yielded + n, !.empties = 0, !.last = "chunk"]
      BY <1>2, Zenon DEF PollChunk
    <3> QED BY <1>2, <3>1, <3>2, Zenon DEF PollChunk, PollsProducer
  <2>3. CASE StreamOverruns(piece)
    <3>1. StreamFail("stream_length_mismatches", 0)
      BY <1>2, <2>3, Zenon DEF PollChunk
    <3> QED BY <2>2, <3>1, StreamFailKeeps, Zenon DEF StreamOutcomes, StreamCounters
  <2>4. CASE ~ StreamOverruns(piece)
    <3>1. /\ adapter' = [adapter EXCEPT !.emitted = @ + piece, !.pending_split = rest]
          /\ StreamDeliver(piece) /\ UNCHANGED streamCounters
      BY <1>2, <2>4, Zenon DEF PollChunk
    <3>2. producer'.yielded = frames.bytes + piece + rest
      BY <2>1, <2>2 DEF StreamPolled, NoByteLost, LengthInv
    <3> HIDE DEF rest, piece
    <3> QED BY <2>1, <2>2, <2>4, <3>1, <3>2, StreamDeliverKeeps, Zenon
  <2> QED BY <2>3, <2>4, Zenon
<1>3. CASE PollEmpties \/ UNCHANGED streamVars
  BY <1>3 DEF PollEmpties, streamVars, LengthInv, OutcomeInv, Undecided, Decided, NoByteLost, TrailersLast,
              FramesBounded
<1>4. ASSUME NEW c \in {"stream_producer_errors", "stream_producer_panics"}, PollError(c)
      PROVE  StreamInv'
  BY <1>4, StreamFailKeeps, Zenon DEF PollError, PollsProducer, StreamOutcomes, StreamCounters
<1>5. ASSUME NEW c \in {"stream_producer_errors", "stream_producer_panics"}, PollTrailersFail(c)
      PROVE  StreamInv'
  BY <1>5, StreamFailKeeps DEF PollTrailersFail, StreamOutcomes, StreamCounters
<1>6. ASSUME NEW names \in SUBSET TrailerNames, PollEnd(names) PROVE StreamInv'
  <2>1. StreamPolled /\ adapter.pending_split = 0 /\ producer'.yielded = producer.yielded
        /\ producer' \in [yielded : Nat, empties : Nat, last : {"none", "chunk", "error", "end"}]
    BY <1>6, Zenon DEF PollEnd, PollsProducer
  <2>2. CASE IsKnown(adapter.declared) /\ adapter.emitted # adapter.declared[1]
    BY <1>6, <2>1, <2>2, StreamFailKeeps, Zenon DEF PollEnd, StreamOutcomes, StreamCounters
  <2>3. CASE ~ (IsKnown(adapter.declared) /\ adapter.emitted # adapter.declared[1])
    <3>1. TrailerPhase([adapter EXCEPT !.inner = FALSE], names)
      BY <1>6, <2>3, Zenon DEF PollEnd
    <3> QED BY <2>1, <2>3, <3>1, TrailerPhaseKeeps, Zenon
  <2> QED BY <2>2, <2>3, Zenon
<1>7. ASSUME NEW names \in SUBSET TrailerNames, PollTrailers(names) PROVE StreamInv'
  <2>1. adapter = [adapter EXCEPT !.inner = FALSE]
    BY <1>7, Zenon DEF PollTrailers
  <2>2. TrailerPhase([adapter EXCEPT !.inner = FALSE], names)
    BY <1>7, <2>1, Zenon DEF PollTrailers
  <2>3. StreamPolled /\ adapter.pending_split = 0 /\ UNCHANGED producer
        /\ (IsKnown(adapter.declared) => adapter.emitted = adapter.declared[1])
    BY <1>7, Zenon DEF PollTrailers, LengthInv
  <2> QED BY <2>2, <2>3, TrailerPhaseKeeps, Zenon
<1>8. CASE PollEndPending
  <2>1. StreamTypes' /\ LengthInv'
    BY <1>8, Zenon DEF PollEndPending, PollsProducer, LengthInv
  <2>2. OutcomeInv'
    BY <1>8 DEF PollEndPending, PollsProducer, OutcomeInv, Undecided, Decided
  <2>3. NoByteLost' /\ TrailersLast' /\ FramesBounded'
    BY <1>8, Zenon DEF PollEndPending, NoByteLost, TrailersLast, FramesBounded
  <2> QED BY <2>1, <2>2, <2>3, Zenon
<1>9. CASE DropAdapter
  <2>1. LengthInv' /\ NoByteLost' /\ TrailersLast' /\ FramesBounded'
    BY <1>9 DEF DropAdapter, LengthInv, NoByteLost, TrailersLast, FramesBounded
  <2>2. CASE adapter.finished
    <3>1. StreamTypes'
      BY <1>9, <2>2, Zenon DEF DropAdapter
    <3>2. OutcomeInv'
      BY <1>9, <2>2, Zenon DEF DropAdapter, OutcomeInv, Undecided, Decided
    <3> QED BY <2>1, <3>1, <3>2, Zenon
  <2>3. CASE ~ adapter.finished
    <3>1. Undecided /\ StreamCount("stream_cancelled")
      BY <1>9, <2>3, Zenon DEF DropAdapter, OutcomeInv
    <3>2. Decided("stream_cancelled")' /\ streamCounters' \in [StreamCounters -> Nat]
      BY <3>1, CountDecides, Zenon DEF StreamOutcomes, StreamCounters
    <3>3. StreamTypes'
      BY <1>9, <3>2, Zenon DEF DropAdapter
    <3>4. OutcomeInv'
      BY <1>9, <3>2, Zenon DEF DropAdapter, OutcomeInv, Decided, StreamOutcomes, StreamCounters
    <3> QED BY <2>1, <3>3, <3>4, Zenon
  <2> QED BY <2>2, <2>3, Zenon
<1> QED BY <1>1, <1>2, <1>3, <1>4, <1>5, <1>6, <1>7, <1>8, <1>9 DEF StreamNext

LEMMA DecidedCounts ==
    ASSUME StreamTypes
    PROVE  /\ Undecided => OutcomesCounted = {}
           /\ \A o \in StreamOutcomes : Decided(o) => OutcomesCounted = {o}
<1>1. ASSUME Undecided PROVE OutcomesCounted = {}
  BY <1>1 DEF Undecided, OutcomesCounted
<1>2. ASSUME NEW o \in StreamOutcomes, Decided(o) PROVE OutcomesCounted = {o}
  BY <1>2 DEF Decided, OutcomesCounted
<1> QED BY <1>1, <1>2

\* A response stream keeps its promises, for every chunk size, every limit and
\* every producer: each byte is delivered once, the declared length is kept or the
\* stream fails, trailers come last and only the declared ones, frames are
\* bounded, and exactly one outcome is counted (adapters.rs).
THEOREM StreamPromisesAreKept == StreamSpec => []StreamKeepsPromises
<1>1. StreamInv => StreamKeepsPromises
  <2> SUFFICES ASSUME StreamInv PROVE StreamKeepsPromises
    BY Zenon
  <2>1. DeclaredLengthKept
    BY DEF StreamInv, LengthInv, OutcomeInv, DeclaredLengthKept
  <2>2. StreamCountedOnce
    <3>1. StreamTypes
      BY Zenon DEF StreamInv
    <3>2. CASE ~ adapter.finished /\ adapter.alive
      <4>1. Undecided
        BY <3>2, Zenon DEF StreamInv, OutcomeInv
      <4> QED BY <3>1, <3>2, <4>1, DecidedCounts DEF StreamCountedOnce, Undecided
    <3>3. CASE adapter.finished \/ ~ adapter.alive
      <4>1. PICK o \in StreamOutcomes : Decided(o)
        BY <3>3, Zenon DEF StreamInv, OutcomeInv
      <4>2. \A c \in StreamOutcomes : streamCounters[c] <= 1
        BY <4>1 DEF Decided
      <4> QED BY <3>1, <4>1, <4>2, DecidedCounts DEF StreamCountedOnce
    <3> QED BY <3>2, <3>3, Zenon
  <2> QED BY <2>1, <2>2, Zenon DEF StreamInv, StreamKeepsPromises
<1> QED BY <1>1, StreamInitHolds, StreamStepKeeps, PTL DEF StreamSpec
=============================================================================
