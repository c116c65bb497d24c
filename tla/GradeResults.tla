----------------------------- MODULE GradeResults -----------------------------
(***************************************************************************)
(* What becomes of the sizes and numbers of a grade: the output an isolate *)
(* process prints (limitedBuffer of domain/services/isolate.go), the       *)
(* memory sums of Grade and Result (domain/services/executor.go), and the  *)
(* size of the result (marshalBoundedGradeResult of cmd/worker/worker.go). *)
(* Texts are their lengths.                                                *)
(***************************************************************************)
EXTENDS Integers, Sequences

CONSTANTS
    MaxOutput,  \* maxIsolateOutputBytes
    MaxResult,  \* maxGradeResultBytes
    Int32       \* 2^31: int32 holds -Int32 .. Int32 - 1

ASSUME GradeResultsAssumption ==
    MaxOutput \in Nat /\ MaxResult \in Nat /\ Int32 \in Nat \ {0}

--------------------------------------------------------------------------------
(* The output of a process, written in chunks.                             *)

\* Mutant: a chunk that fills the buffer exactly counts as cut.
WriteFull(b, n) ==
    IF b.len + n < MaxOutput
    THEN [b EXCEPT !.len = @ + n]
    ELSE [len |-> MaxOutput, truncated |-> b.truncated \/ n > 0]

\* limitedBuffer.Write of n bytes.
Write(b, n) ==
    IF b.len + n <= MaxOutput
    THEN [b EXCEPT !.len = @ + n]
    ELSE [len |-> MaxOutput, truncated |-> TRUE]

Captured(chunks) ==
    LET buffer[i \in 0 .. Len(chunks)] ==
            IF i = 0 THEN [len |-> 0, truncated |-> FALSE] ELSE Write(buffer[i - 1], chunks[i])
    IN buffer[Len(chunks)]

--------------------------------------------------------------------------------
(* Memory of groups of test cases, in int32.                               *)

Wrap(x) == ((x + Int32) % (2 * Int32)) - Int32
Sum32(s) ==
    LET sum[i \in 0 .. Len(s)] == IF i = 0 THEN 0 ELSE Wrap(sum[i - 1] + s[i])
    IN sum[Len(s)]

\* Go's division rounds towards zero.
Quotient(x, n) == IF x >= 0 THEN x \div n ELSE -((-x) \div n)

\* Mutant: the groups are counted, not their cases.
AvgMemoryPerGroup(groups) ==
    IF groups = <<>> THEN 0
    ELSE Quotient(Sum32([g \in DOMAIN groups |-> Sum32(groups[g])]), Len(groups))

\* Result adds up each group, Grade the groups in the order in which they ended.
AvgMemory(groups) ==
    LET total == Sum32([g \in DOMAIN groups |-> Sum32(groups[g])])
        cases == Sum32([g \in DOMAIN groups |-> Len(groups[g])])
    IN IF cases > 0 THEN Quotient(total, cases) ELSE 0

--------------------------------------------------------------------------------
(* The size of a result: a summary, and per case what remains (id, status  *)
(* and numbers) and its detail (output, input and message).                *)

SumOf(s) ==
    LET sum[i \in 0 .. Len(s)] == IF i = 0 THEN 0 ELSE sum[i - 1] + s[i]
    IN sum[Len(s)]
FullSize(r) == r.summary + SumOf(r.rest) + SumOf(r.detail)
StrippedSize(r) == r.summary + SumOf(r.rest)

\* Mutant: a result without detail is published whatever its size.
BoundedTwice(r) == IF FullSize(r) <= MaxResult THEN "full" ELSE "stripped"

\* marshalBoundedGradeResult: which form of the result is published.
Bounded(r) ==
    IF FullSize(r) <= MaxResult THEN "full"
    ELSE IF StrippedSize(r) <= MaxResult THEN "stripped" ELSE "summary"

Size(r, form) ==
    CASE form = "full" -> FullSize(r) [] form = "stripped" -> StrippedSize(r) [] OTHER -> r.summary

--------------------------------------------------------------------------------

\* However a process chops its output, the buffer holds its first MaxOutput bytes, and
\* truncated says whether there were more.
CaptureExact(chunks) ==
    LET b == Captured(chunks) IN
    /\ b.len = (IF SumOf(chunks) < MaxOutput THEN SumOf(chunks) ELSE MaxOutput)
    /\ b.truncated <=> SumOf(chunks) > MaxOutput

\* The average lies between the smallest and the largest memory of a case, in
\* whatever order the groups ended, as long as the memory of all cases together is
\* an int32, and their number is.
AverageBetween(groups) ==
    LET memories == UNION {{groups[g][i] : i \in DOMAIN groups[g]} : g \in DOMAIN groups} IN
    /\ memories # {}
    /\ SumOf([g \in DOMAIN groups |-> SumOf(groups[g])]) < Int32
    /\ SumOf([g \in DOMAIN groups |-> Len(groups[g])]) < Int32
    => /\ \E m \in memories : m <= AvgMemory(groups)
       /\ \E m \in memories : AvgMemory(groups) <= m

\* What is published fits whenever its summary does, and detail is given up only
\* when the result would not fit with it.
BoundedBest(r) ==
    r.summary <= MaxResult =>
        /\ Size(r, Bounded(r)) <= MaxResult
        /\ \A form \in {"full", "stripped"} :
            Size(r, form) > Size(r, Bounded(r)) => Size(r, form) > MaxResult
================================================================================
