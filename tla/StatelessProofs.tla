----------------------------- MODULE StatelessProofs -----------------------------
(***************************************************************************)
(* The modules without state, for inputs of any size: limits, the status   *)
(* of a test case, captured output, sums of memory, and sizes of results.  *)
(* What is computed along a sequence is a recursive function: Recursion    *)
(* says that it exists, and what it computes follows by induction on how   *)
(* far it has come (Upwards).                                              *)
(***************************************************************************)
EXTENDS MCScriptTests, WellFoundedInduction, TLAPS

--------------------------------------------------------------------------------
(* Induction, and recursion along a sequence.                              *)

\* There is a well-founded order with the smaller numbers below.
LEMMA NatOrder ==
    \E R : IsWellFoundedOn(R, Nat) /\ \A x, y \in Nat : x < y => <<x, y>> \in R
<1> DEFINE R == OpToRel(<, Nat)
<1>1. IsWellFoundedOn(R, Nat)
  BY NatLessThanWellFounded
<1>2. \A x, y \in Nat : x < y => <<x, y>> \in R
  BY DEF OpToRel
<1> HIDE DEF R
<1> QED  BY <1>1, <1>2

\* Induction: a set with 0 and all successors is Nat.
LEMMA NatSet ==
    ASSUME NEW S \in SUBSET Nat, 0 \in S, \A n \in S : n + 1 \in S
    PROVE  S = Nat
<1> SUFFICES ASSUME Nat \ S # {}
             PROVE  FALSE
  OBVIOUS
<1>1. PICK R : IsWellFoundedOn(R, Nat) /\ \A x, y \in Nat : x < y => <<x, y>> \in R
  BY NatOrder
<1>2. PICK x \in Nat \ S : \A y \in Nat \ S : ~ (<<y, x>> \in R)
  BY <1>1, WFMin
<1>3. x # 0 /\ x - 1 \in Nat /\ x - 1 < x
  OBVIOUS
<1>4. x - 1 \in S
  BY <1>1, <1>2, <1>3
<1> QED  BY <1>2, <1>3, <1>4

\* Induction from 0 up to n.
LEMMA Upwards ==
    ASSUME NEW n \in Nat, NEW S, 0 \in S, \A i \in 1 .. n : i - 1 \in S => i \in S
    PROVE  \A i \in 0 .. n : i \in S
<1> DEFINE T == {m \in Nat : m <= n => m \in S}
<1>1. 0 \in T
  OBVIOUS
<1>2. ASSUME NEW m \in T
      PROVE  m + 1 \in T
  <2>1. m + 1 <= n => m + 1 \in 1 .. n /\ (m + 1) - 1 = m /\ m \in S
    OBVIOUS
  <2> QED  BY <2>1
<1>3. T = Nat
  <2> HIDE DEF T
  <2>1. T \subseteq Nat
    BY DEF T
  <2> QED  BY <1>1, <1>2, <2>1, NatSet
<1> QED  BY <1>3

\* The functions that take the i-th step of a computation on A, and a computation.
Steps(n, A) == [1 .. n -> [A -> A]]
Computes(f, n, A, a, F) == f \in [0 .. n -> A] /\ f[0] = a /\ \A i \in 1 .. n : f[i] = F[i][f[i - 1]]

\* A computation exists for any steps.
LEMMA Recursion ==
    ASSUME NEW n \in Nat, NEW A, NEW a \in A, NEW F \in Steps(n, A)
    PROVE  \E f : Computes(f, n, A, a, F)
<1> DEFINE S == {m \in 0 .. n : \E f : Computes(f, m, A, a, F)}
<1>1. 0 \in S
  <2> DEFINE f == [i \in 0 .. 0 |-> a]
  <2>1. Computes(f, 0, A, a, F)
    BY DEF Computes
  <2> HIDE DEF f
  <2> QED  BY <2>1
<1>2. ASSUME NEW m \in 1 .. n, m - 1 \in S
      PROVE  m \in S
  <2>1. PICK f : Computes(f, m - 1, A, a, F)
    BY <1>2
  <2>2. f \in [0 .. m - 1 -> A] /\ f[0] = a /\ \A i \in 1 .. m - 1 : f[i] = F[i][f[i - 1]]
    BY <2>1 DEF Computes
  <2> DEFINE g == [i \in 0 .. m |-> IF i = m THEN F[m][f[m - 1]] ELSE f[i]]
  <2>3. F[m][f[m - 1]] \in A
    BY <2>2 DEF Steps
  <2>4. g \in [0 .. m -> A]
    BY <2>2, <2>3
  <2>5. ASSUME NEW i \in 1 .. m
        PROVE  g[i] = F[i][g[i - 1]]
    <3>1. g[i - 1] = f[i - 1]
      OBVIOUS
    <3>2. CASE i = m
      BY <3>1, <3>2
    <3>3. CASE i # m
      BY <2>2, <3>1, <3>3
    <3> QED  BY <3>2, <3>3
  <2>6. g[0] = a
    BY <2>2
  <2> HIDE DEF g
  <2>7. Computes(g, m, A, a, F)
    BY <2>4, <2>5, <2>6 DEF Computes
  <2> QED  BY <2>7
<1>3. n \in S
  <2> HIDE DEF S
  <2>1. \A i \in 0 .. n : i \in S
    BY <1>1, <1>2, Upwards
  <2> QED  BY <2>1
<1> QED  BY <1>3

--------------------------------------------------------------------------------
(* Sums.                                                                   *)

\* The sums of the first members of s.
Sums(sum, s) ==
    /\ sum[0] = 0
    /\ \A i \in 1 .. Len(s) : sum[i] = sum[i - 1] + s[i]
    /\ SumOf(s) = sum[Len(s)]

\* SumOf is the last of the partial sums.
LEMMA SumSteps ==
    ASSUME NEW s \in Seq(Int)
    PROVE  \E sum : Sums(sum, s)
<1> DEFINE n == Len(s)
           IsSum(f) == f = [i \in 0 .. n |-> IF i = 0 THEN 0 ELSE f[i - 1] + s[i]]
           F == [i \in 1 .. n |-> [x \in Int |-> x + s[i]]]
<1>1. n \in Nat /\ \A i \in 1 .. n : s[i] \in Int
  OBVIOUS
<1>2. SumOf(s) = (CHOOSE f : IsSum(f))[n]
  BY DEF SumOf
<1> HIDE DEF n
<1>3. F \in Steps(n, Int)
  BY <1>1 DEF Steps
<1>4. \A i \in 1 .. n, x \in Int : F[i][x] = x + s[i]
  BY <1>1
<1> HIDE DEF F
<1>5. \E f : IsSum(f)
  <2>1. 0 \in Int
    OBVIOUS
  <2>2. PICK f : Computes(f, n, Int, 0, F)
    BY <1>1, <1>3, <2>1, Recursion
  <2>3. f \in [0 .. n -> Int] /\ f[0] = 0 /\ \A i \in 1 .. n : f[i] = F[i][f[i - 1]]
    BY <2>2 DEF Computes
  <2>4. ASSUME NEW i \in 0 .. n
        PROVE  f[i] = IF i = 0 THEN 0 ELSE f[i - 1] + s[i]
    <3>1. i # 0 => i \in 1 .. n /\ f[i - 1] \in Int
      BY <1>1, <2>3
    <3> QED  BY <1>4, <2>3, <3>1
  <2>5. IsSum(f)
    BY <2>3, <2>4
  <2> HIDE DEF IsSum
  <2> QED  BY <2>5
<1>6. PICK sum : IsSum(sum) /\ SumOf(s) = sum[n]
  <2> HIDE DEF IsSum
  <2> QED  BY <1>2, <1>5
<1>7. 0 \in 0 .. n /\ \A i \in 1 .. n : i \in 0 .. n /\ i # 0
  BY <1>1
<1>8. sum[0] = 0 /\ \A i \in 1 .. n : sum[i] = sum[i - 1] + s[i]
  BY <1>6, <1>7
<1> HIDE DEF IsSum
<1> QED  BY <1>6, <1>8 DEF n, Sums

LEMMA ScaledStep ==
    ASSUME NEW a \in Int, NEW b \in Int, NEW x \in Int, NEW y \in Int, NEW u \in Int, NEW v \in Int,
           a * x >= b * y, a * u >= b * v
    PROVE  a * (x + u) >= b * (y + v)
  OBVIOUS

\* If a times each number is at least b times another, so are their sums.
LEMMA SumCompare ==
    ASSUME NEW s \in Seq(Int), NEW t \in Seq(Int), Len(s) = Len(t), NEW a \in Int, NEW b \in Int,
           \A i \in 1 .. Len(s) : a * s[i] >= b * t[i]
    PROVE  SumOf(s) \in Int /\ SumOf(t) \in Int /\ a * SumOf(s) >= b * SumOf(t)
<1>1. PICK f : Sums(f, s)
  BY SumSteps
<1>2. PICK g : Sums(g, t)
  BY SumSteps
<1>3. PICK n \in Nat : n = Len(s) /\ n = Len(t)
  OBVIOUS
<1>4. \A i \in 1 .. n : s[i] \in Int /\ t[i] \in Int
  BY <1>3
<1>5. f[0] = 0 /\ (\A i \in 1 .. n : f[i] = f[i - 1] + s[i]) /\ SumOf(s) = f[n]
  BY <1>1, <1>3 DEF Sums
<1>6. g[0] = 0 /\ (\A i \in 1 .. n : g[i] = g[i - 1] + t[i]) /\ SumOf(t) = g[n]
  BY <1>2, <1>3 DEF Sums
<1> DEFINE Ordered(i) == f[i] \in Int /\ g[i] \in Int /\ a * f[i] >= b * g[i]
           S == {i \in 0 .. n : Ordered(i)}
<1>7. 0 \in S
  <2>1. a * 0 >= b * 0
    OBVIOUS
  <2> QED  BY <1>5, <1>6, <2>1
<1>8. ASSUME NEW i \in 1 .. n, i - 1 \in S
      PROVE  i \in S
  <2>1. Ordered(i - 1)
    BY <1>8
  <2>2. s[i] \in Int /\ t[i] \in Int /\ a * s[i] >= b * t[i]
    BY <1>3, <1>4
  <2>3. f[i] = f[i - 1] + s[i] /\ g[i] = g[i - 1] + t[i]
    BY <1>5, <1>6
  <2> HIDE DEF S
  <2> DEFINE x == f[i - 1]
             y == g[i - 1]
             u == s[i]
             v == t[i]
  <2>4. x \in Int /\ y \in Int /\ u \in Int /\ v \in Int /\ a * x >= b * y /\ a * u >= b * v
    BY <2>1, <2>2
  <2>5. x + u \in Int /\ y + v \in Int /\ a * (x + u) >= b * (y + v)
    <3> HIDE DEF x, y, u, v
    <3> QED  BY <2>4, ScaledStep
  <2>6. Ordered(i)
    BY <2>3, <2>4, <2>5
  <2> HIDE DEF Ordered
  <2> QED  BY <2>6 DEF S
<1>9. n \in S
  <2> HIDE DEF S
  <2>1. \A i \in 0 .. n : i \in S
    BY <1>7, <1>8, Upwards
  <2> QED  BY <2>1
<1> QED  BY <1>5, <1>6, <1>9

\* The sum of natural numbers is one.
LEMMA SumNat ==
    ASSUME NEW s \in Seq(Nat)
    PROVE  SumOf(s) \in Nat
<1>1. s \in Seq(Int) /\ \A i \in 1 .. Len(s) : 1 * s[i] >= 0 * s[i]
  OBVIOUS
<1>2. SumOf(s) \in Int /\ 1 * SumOf(s) >= 0 * SumOf(s)
  <2>1. 0 \in Int /\ 1 \in Int
    OBVIOUS
  <2> QED  BY <1>1, <2>1, SumCompare
<1> QED  BY <1>2

\* The sum of as many ones is the length.
LEMMA SumOnes ==
    ASSUME NEW n \in Nat
    PROVE  SumOf([i \in 1 .. n |-> 1]) = n
<1> DEFINE s == [i \in 1 .. n |-> 1]
<1>1. s \in Seq(Int) /\ Len(s) = n /\ \A i \in 1 .. n : s[i] = 1
  OBVIOUS
<1> HIDE DEF s
<1>0. PICK f : Sums(f, s)
  BY <1>1, SumSteps
<1>2. f[0] = 0 /\ (\A i \in 1 .. n : f[i] = f[i - 1] + s[i]) /\ SumOf(s) = f[n]
  BY <1>0, <1>1 DEF Sums
<1> DEFINE S == {i \in 0 .. n : f[i] = i}
<1>3. 0 \in S
  BY <1>2
<1>4. \A i \in 1 .. n : i - 1 \in S => i \in S
  BY <1>1, <1>2
<1>5. n \in S
  <2> HIDE DEF S
  <2>1. \A i \in 0 .. n : i \in S
    BY <1>3, <1>4, Upwards
  <2> QED  BY <2>1
<1> QED  BY <1>2, <1>5 DEF s

--------------------------------------------------------------------------------
(* Captured output.                                                        *)

\* CaptureExact for every output: however a process chops it, the buffer of
\* limitedBuffer.Write has its first MaxOutput bytes, and truncated says whether
\* there were more.
LEMMA OutputsCaptured ==
    ASSUME NEW s \in Seq(Nat)
    PROVE  CaptureExact(s)
<1> DEFINE n == Len(s)
           Empty == [len |-> 0, truncated |-> FALSE]
           Buffers == [len : Nat, truncated : BOOLEAN]
           IsBuffer(f) == f = [i \in 0 .. n |-> IF i = 0 THEN Empty ELSE Write(f[i - 1], s[i])]
           F == [i \in 1 .. n |-> [b \in Buffers |-> Write(b, s[i])]]
<1>1. n \in Nat /\ (\A i \in 1 .. n : s[i] \in Nat) /\ s \in Seq(Int)
  OBVIOUS
<1>2. Captured(s) = (CHOOSE f : IsBuffer(f))[n]
  BY DEF Captured
<1>3. \A b \in Buffers, k \in Nat :
        /\ Write(b, k) \in Buffers
        /\ Write(b, k) = IF b.len + k <= MaxOutput THEN [len |-> b.len + k, truncated |-> b.truncated]
                         ELSE [len |-> MaxOutput, truncated |-> TRUE]
  BY GradeResultsAssumption DEF Write
<1>4. Empty \in Buffers
  OBVIOUS
<1> HIDE DEF n, Buffers
<1>5. F \in Steps(n, Buffers) /\ \A i \in 1 .. n, b \in Buffers : F[i][b] = Write(b, s[i])
  BY <1>1, <1>3 DEF Steps
<1> HIDE DEF F, Empty
<1>6. \E f : IsBuffer(f) /\ \A i \in 0 .. n : f[i] \in Buffers
  <2>1. PICK f : Computes(f, n, Buffers, Empty, F)
    BY <1>1, <1>4, <1>5, Recursion
  <2>2. f \in [0 .. n -> Buffers] /\ f[0] = Empty /\ \A i \in 1 .. n : f[i] = F[i][f[i - 1]]
    BY <2>1 DEF Computes
  <2>3. ASSUME NEW i \in 0 .. n
        PROVE  f[i] = IF i = 0 THEN Empty ELSE Write(f[i - 1], s[i])
    <3>1. i # 0 => i \in 1 .. n /\ f[i - 1] \in Buffers
      BY <1>1, <2>2
    <3> QED  BY <1>5, <2>2, <3>1
  <2>4. IsBuffer(f)
    BY <2>2, <2>3
  <2> HIDE DEF IsBuffer
  <2> QED  BY <2>2, <2>4
<1>7. PICK f : IsBuffer(f) /\ Captured(s) = f[n]
  <2> HIDE DEF IsBuffer
  <2> QED  BY <1>2, <1>6
<1>8. f[0] = Empty /\ \A i \in 1 .. n : f[i] = Write(f[i - 1], s[i])
  <2>1. 0 \in 0 .. n /\ \A i \in 1 .. n : i \in 0 .. n /\ i # 0
    BY <1>1
  <2> QED  BY <1>7, <2>1
<1> HIDE DEF IsBuffer
<1>9. PICK sum : Sums(sum, s)
  BY <1>1, SumSteps
<1>10. sum[0] = 0 /\ (\A i \in 1 .. n : sum[i] = sum[i - 1] + s[i]) /\ SumOf(s) = sum[n]
  BY <1>9 DEF Sums, n
<1> DEFINE Exact(i) == /\ sum[i] \in Nat /\ f[i] \in Buffers
                       /\ f[i].len = IF sum[i] < MaxOutput THEN sum[i] ELSE MaxOutput
                       /\ f[i].truncated <=> (sum[i] > MaxOutput)
           S == {i \in 0 .. n : Exact(i)}
<1>11. 0 \in S
  <2>1. Empty.len = 0 /\ ~ Empty.truncated
    BY DEF Empty
  <2>2. 0 \in 0 .. n
    BY <1>1
  <2>3. (IF 0 < MaxOutput THEN 0 ELSE MaxOutput) = 0 /\ ~ (0 > MaxOutput)
    BY GradeResultsAssumption
  <2>4. Exact(0)
    BY <1>4, <1>8, <1>10, <2>1, <2>3
  <2> HIDE DEF Exact
  <2> QED  BY <2>2, <2>4
<1>12. ASSUME NEW i \in 1 .. n, i - 1 \in S
       PROVE  i \in S
  <2> DEFINE b == f[i - 1]
             k == s[i]
             t == sum[i - 1]
  <2>1. /\ t \in Nat /\ b \in Buffers /\ k \in Nat
        /\ b.len = IF t < MaxOutput THEN t ELSE MaxOutput
        /\ b.truncated <=> (t > MaxOutput)
    BY <1>1, <1>12
  <2>2. f[i] = Write(b, k) /\ sum[i] = t + k
    BY <1>8, <1>10
  <2> HIDE DEF b, k, t
  <2>3. /\ Write(b, k).len = IF t + k < MaxOutput THEN t + k ELSE MaxOutput
        /\ Write(b, k).truncated <=> (t + k > MaxOutput)
    <3>1. CASE b.len + k <= MaxOutput
      <4>1. Write(b, k).len = b.len + k /\ (Write(b, k).truncated <=> b.truncated)
        BY <1>3, <2>1, <3>1
      <4> QED  BY <2>1, <3>1, <4>1, GradeResultsAssumption
    <3>2. CASE ~ (b.len + k <= MaxOutput)
      <4>1. Write(b, k).len = MaxOutput /\ Write(b, k).truncated
        BY <1>3, <2>1, <3>2
      <4>2. t + k > MaxOutput
        BY <2>1, <3>2, GradeResultsAssumption
      <4> QED  BY <2>1, <4>1, <4>2, GradeResultsAssumption
    <3> QED  BY <3>1, <3>2
  <2>4. Exact(i)
    BY <1>3, <2>1, <2>2, <2>3
  <2> HIDE DEF Exact
  <2> QED  BY <2>4
<1>13. Exact(n)
  <2> HIDE DEF Exact
  <2>1. 0 \in S /\ \A i \in 1 .. n : i - 1 \in S => i \in S
    BY <1>11, <1>12
  <2> HIDE DEF S
  <2>2. \A i \in 0 .. n : i \in S
    BY <1>1, <2>1, Upwards
  <2>3. n \in S
    BY <1>1, <2>2
  <2> QED  BY <2>3 DEF S
<1> HIDE DEF S
<1>14. Captured(s).len = (IF SumOf(s) < MaxOutput THEN SumOf(s) ELSE MaxOutput)
  BY <1>7, <1>10, <1>13
<1>15. Captured(s).truncated <=> (SumOf(s) > MaxOutput)
  BY <1>7, <1>10, <1>13
<1> HIDE DEF Exact
<1> QED  BY <1>14, <1>15 DEF CaptureExact

--------------------------------------------------------------------------------
(* Sizes of results.                                                       *)

\* BoundedBest for every result: marshalBoundedGradeResult publishes what fits
\* whenever the summary does, and gives up detail only when it would not fit.
LEMMA ResultsBest ==
    ASSUME NEW r \in [summary : Nat, rest : Seq(Nat), detail : Seq(Nat)]
    PROVE  BoundedBest(r)
<1>1. r.summary \in Nat /\ SumOf(r.rest) \in Nat /\ SumOf(r.detail) \in Nat
  BY SumNat
<1>2. FullSize(r) \in Nat /\ StrippedSize(r) \in Nat /\ r.summary \in Nat /\ StrippedSize(r) <= FullSize(r)
  BY <1>1 DEF FullSize, StrippedSize
<1>3. /\ Size(r, "full") = FullSize(r)
      /\ Size(r, "stripped") = StrippedSize(r)
      /\ Size(r, "summary") = r.summary
  BY DEF Size
<1>4. CASE FullSize(r) <= MaxResult
  <2>1. Bounded(r) = "full"
    BY <1>4 DEF Bounded
  <2> QED  BY <1>2, <1>3, <1>4, <2>1, GradeResultsAssumption DEF BoundedBest
<1>5. CASE ~ (FullSize(r) <= MaxResult) /\ StrippedSize(r) <= MaxResult
  <2>1. Bounded(r) = "stripped"
    BY <1>5 DEF Bounded
  <2> QED  BY <1>2, <1>3, <1>5, <2>1, GradeResultsAssumption DEF BoundedBest
<1>6. CASE ~ (FullSize(r) <= MaxResult) /\ ~ (StrippedSize(r) <= MaxResult)
  <2>1. Bounded(r) = "summary"
    BY <1>6 DEF Bounded
  <2> QED  BY <1>2, <1>3, <1>6, <2>1, GradeResultsAssumption DEF BoundedBest
<1> QED  BY <1>4, <1>5, <1>6

--------------------------------------------------------------------------------
(* Sums and averages in int32.                                             *)

\* An int32 is itself.
LEMMA WrapSmall ==
    ASSUME NEW x \in Nat, x < Int32
    PROVE  Wrap(x) = x
<1> DEFINE k == Int32
<1>1. k \in Nat
  BY GradeResultsAssumption
<1>2. x < k
  OBVIOUS
<1> HIDE DEF k
<1>3. ((x + k) % (2 * k)) - k = x
  BY <1>1, <1>2
<1> QED  BY <1>3 DEF Wrap, k

\* A sum that is an int32 is computed exactly, as no partial sum is larger.
LEMMA Sum32Exact ==
    ASSUME NEW s \in Seq(Nat), SumOf(s) < Int32
    PROVE  Sum32(s) = SumOf(s)
<1> DEFINE n == Len(s)
           IsSum(f) == f = [i \in 0 .. n |-> IF i = 0 THEN 0 ELSE Wrap(f[i - 1] + s[i])]
           F == [i \in 1 .. n |-> [x \in Int |-> Wrap(x + s[i])]]
<1>1. n \in Nat /\ (\A i \in 1 .. n : s[i] \in Nat) /\ s \in Seq(Int)
  OBVIOUS
<1>2. Sum32(s) = (CHOOSE f : IsSum(f))[n]
  BY DEF Sum32
<1> HIDE DEF n
<1>3. \A x \in Int : Wrap(x) \in Int
  BY GradeResultsAssumption DEF Wrap
<1>4. F \in Steps(n, Int) /\ \A i \in 1 .. n, x \in Int : F[i][x] = Wrap(x + s[i])
  BY <1>1, <1>3 DEF Steps
<1> HIDE DEF F
<1>5. \E f : IsSum(f)
  <2>1. 0 \in Int
    OBVIOUS
  <2>2. PICK f : Computes(f, n, Int, 0, F)
    BY <1>1, <1>4, <2>1, Recursion
  <2>3. f \in [0 .. n -> Int] /\ f[0] = 0 /\ \A i \in 1 .. n : f[i] = F[i][f[i - 1]]
    BY <2>2 DEF Computes
  <2>4. ASSUME NEW i \in 0 .. n
        PROVE  f[i] = IF i = 0 THEN 0 ELSE Wrap(f[i - 1] + s[i])
    <3>1. i # 0 => i \in 1 .. n /\ f[i - 1] \in Int
      BY <1>1, <2>3
    <3> QED  BY <1>4, <2>3, <3>1
  <2>5. IsSum(f)
    BY <2>3, <2>4
  <2> HIDE DEF IsSum
  <2> QED  BY <2>5
<1>6. PICK f : IsSum(f) /\ Sum32(s) = f[n]
  <2> HIDE DEF IsSum
  <2> QED  BY <1>2, <1>5
<1>7. f[0] = 0 /\ \A i \in 1 .. n : f[i] = Wrap(f[i - 1] + s[i])
  <2>1. 0 \in 0 .. n /\ \A i \in 1 .. n : i \in 0 .. n /\ i # 0
    BY <1>1
  <2> QED  BY <1>6, <2>1
<1> HIDE DEF IsSum
<1>8. PICK sum : Sums(sum, s)
  BY <1>1, SumSteps
<1>9. sum[0] = 0 /\ (\A i \in 1 .. n : sum[i] = sum[i - 1] + s[i]) /\ SumOf(s) = sum[n]
  BY <1>8 DEF Sums, n
<1> DEFINE Same(i) == sum[i] \in Nat /\ (sum[i] < Int32 => f[i] = sum[i])
           S == {i \in 0 .. n : Same(i)}
<1>10. 0 \in S
  BY <1>1, <1>7, <1>9
<1>11. ASSUME NEW i \in 1 .. n, i - 1 \in S
       PROVE  i \in S
  <2>1. Same(i - 1) /\ s[i] \in Nat
    BY <1>1, <1>11
  <2>2. f[i] = Wrap(f[i - 1] + s[i]) /\ sum[i] = sum[i - 1] + s[i]
    BY <1>7, <1>9
  <2>3. sum[i] \in Nat
    BY <2>1, <2>2
  <2>4. ASSUME sum[i] < Int32
        PROVE  f[i] = sum[i]
    <3>1. sum[i - 1] < Int32
      BY <2>1, <2>2, <2>4, GradeResultsAssumption
    <3>2. f[i] = Wrap(sum[i])
      BY <2>1, <2>2, <3>1
    <3> QED  BY <2>3, <2>4, <3>2, WrapSmall
  <2> QED  BY <2>3, <2>4
<1>12. Same(n)
  <2> HIDE DEF Same
  <2>1. 0 \in S /\ \A i \in 1 .. n : i - 1 \in S => i \in S
    BY <1>10, <1>11
  <2> HIDE DEF S
  <2>2. \A i \in 0 .. n : i \in S
    BY <1>1, <2>1, Upwards
  <2>3. n \in S
    BY <1>1, <2>2
  <2> QED  BY <2>3 DEF S
<1> QED  BY <1>6, <1>9, <1>12

\* No number is larger than a sum it is part of.
LEMMA PartAtMostSum ==
    ASSUME NEW s \in Seq(Nat), NEW j \in 1 .. Len(s)
    PROVE  s[j] <= SumOf(s)
<1> DEFINE n == Len(s)
<1>1. n \in Nat /\ (\A i \in 1 .. n : s[i] \in Nat) /\ s \in Seq(Int) /\ j \in 1 .. n
  OBVIOUS
<1>2. PICK sum : Sums(sum, s)
  BY <1>1, SumSteps
<1>3. sum[0] = 0 /\ (\A i \in 1 .. n : sum[i] = sum[i - 1] + s[i]) /\ SumOf(s) = sum[n]
  BY <1>2 DEF Sums
<1> HIDE DEF n
<1> DEFINE Large(i) == sum[i] \in Nat /\ (j <= i => s[j] <= sum[i])
           S == {i \in 0 .. n : Large(i)}
<1>4. 0 \in S
  BY <1>1, <1>3
<1>5. ASSUME NEW i \in 1 .. n, i - 1 \in S
      PROVE  i \in S
  <2>1. Large(i - 1) /\ s[i] \in Nat /\ s[j] \in Nat /\ sum[i] = sum[i - 1] + s[i]
    BY <1>1, <1>3, <1>5
  <2>2. CASE i = j
    BY <2>1, <2>2
  <2>3. CASE i # j
    <3>1. j <= i => j <= i - 1
      BY <1>1, <2>3
    <3> QED  BY <2>1, <3>1
  <2> QED  BY <2>2, <2>3
<1>6. Large(n)
  <2> HIDE DEF Large
  <2>1. 0 \in S /\ \A i \in 1 .. n : i - 1 \in S => i \in S
    BY <1>4, <1>5
  <2> HIDE DEF S
  <2>2. \A i \in 0 .. n : i \in S
    BY <1>1, <2>1, Upwards
  <2>3. n \in S
    BY <1>1, <2>2
  <2> QED  BY <2>3 DEF S
<1> QED  BY <1>1, <1>3, <1>6

\* What is at least, and at most, k times as long.
LEMMA SumByLength ==
    ASSUME NEW s \in Seq(Nat), NEW k \in Int
    PROVE  /\ (\A i \in 1 .. Len(s) : s[i] >= k) => SumOf(s) >= k * Len(s)
           /\ (\A i \in 1 .. Len(s) : k >= s[i]) => k * Len(s) >= SumOf(s)
<1> DEFINE n == Len(s)
           ones == [i \in 1 .. n |-> 1]
<1>1. n \in Nat /\ s \in Seq(Int) /\ \A i \in 1 .. n : s[i] \in Nat
  OBVIOUS
<1>2. SumOf(s) \in Nat
  BY SumNat
<1> HIDE DEF n
<1>3. ones \in Seq(Int) /\ Len(ones) = n /\ SumOf(ones) = n /\ \A i \in 1 .. n : ones[i] = 1
  BY <1>1, SumOnes
<1> HIDE DEF ones
<1>4. ASSUME \A i \in 1 .. n : s[i] >= k
      PROVE  SumOf(s) >= k * n
  <2>1. 1 \in Int /\ Len(s) = Len(ones)
    BY <1>3 DEF n
  <2>2. \A i \in 1 .. Len(s) : 1 * s[i] >= k * ones[i]
    BY <1>1, <1>3, <1>4 DEF n
  <2>3. 1 * SumOf(s) >= k * SumOf(ones)
    BY <1>1, <1>3, <2>1, <2>2, SumCompare
  <2> QED  BY <1>2, <1>3, <2>3
<1>5. ASSUME \A i \in 1 .. n : k >= s[i]
      PROVE  k * n >= SumOf(s)
  <2>1. 1 \in Int /\ Len(ones) = Len(s)
    BY <1>3 DEF n
  <2>2. \A i \in 1 .. Len(ones) : k * ones[i] >= 1 * s[i]
    BY <1>1, <1>3, <1>5
  <2>3. k * SumOf(ones) >= 1 * SumOf(s)
    BY <1>1, <1>3, <2>1, <2>2, SumCompare
  <2> QED  BY <1>2, <1>3, <2>3
<1> QED  BY <1>4, <1>5 DEF n

LEMMA Quotients ==
    ASSUME NEW x \in Nat, NEW n \in Nat \ {0}
    PROVE  /\ Quotient(x, n) \in Int
           /\ ~ (x >= (Quotient(x, n) + 1) * n)
           /\ ~ ((Quotient(x, n) - 1) * n >= x)
<1>1. Quotient(x, n) = x \div n
  BY DEF Quotient
<1> DEFINE q == x \div n
<1>2. q \in Nat /\ n * q <= x /\ x < n * (q + 1)
  OBVIOUS
<1> HIDE DEF q
<1>3. ~ (x >= (q + 1) * n) /\ ~ ((q - 1) * n >= x)
  BY <1>2
<1> QED  BY <1>1, <1>2, <1>3 DEF q

LEMMA FunctionIsSeq ==
    ASSUME NEW n \in Nat, NEW f \in [1 .. n -> Nat]
    PROVE  f \in Seq(Nat) /\ Len(f) = n
  OBVIOUS

\* AverageBetween for all groups of cases, in the order in which they ended: the average
\* memory that Grade publishes lies between the smallest and the largest of a case.
LEMMA AveragesFair ==
    ASSUME NEW groups \in Seq(Seq(Nat))
    PROVE  AverageBetween(groups)
<1> DEFINE G == DOMAIN groups
           memories == UNION {{groups[g][i] : i \in DOMAIN groups[g]} : g \in G}
           sums == [g \in G |-> SumOf(groups[g])]
           lens == [g \in G |-> Len(groups[g])]
           total == SumOf(sums)
           cases == SumOf(lens)
           avg == AvgMemory(groups)
<1> SUFFICES ASSUME memories # {}, total < Int32, cases < Int32
             PROVE  (\E m \in memories : m <= avg) /\ (\E m \in memories : avg <= m)
  BY Zenon DEF AverageBetween
<1>1. \A g \in G : groups[g] \in Seq(Nat) /\ Len(groups[g]) \in Nat /\ DOMAIN groups[g] = 1 .. Len(groups[g])
  OBVIOUS
<1>2. \A g \in G : SumOf(groups[g]) \in Nat
  BY <1>1, SumNat
<1>3. sums \in Seq(Nat) /\ lens \in Seq(Nat) /\ Len(sums) = Len(groups) /\ Len(lens) = Len(groups) /\ G = 1 .. Len(groups)
  <2>1. G = 1 .. Len(groups) /\ Len(groups) \in Nat
    OBVIOUS
  <2>2. sums \in [1 .. Len(groups) -> Nat] /\ lens \in [1 .. Len(groups) -> Nat]
    BY <1>1, <1>2, <2>1
  <2> HIDE DEF sums, lens
  <2> QED  BY <2>1, <2>2, FunctionIsSeq
<1>4. total \in Nat /\ cases \in Nat
  BY <1>3, SumNat
<1>5. \A g \in G : sums[g] = SumOf(groups[g]) /\ lens[g] = Len(groups[g])
  OBVIOUS
<1> HIDE DEF sums, lens
<1>6. \A m : m \in memories <=> \E g \in G : \E i \in 1 .. Len(groups[g]) : m = groups[g][i]
  <2> TAKE m
  <2>1. m \in memories <=> \E g \in G : m \in {groups[g][i] : i \in DOMAIN groups[g]}
    BY Zenon
  <2>2. \A g \in G : m \in {groups[g][i] : i \in DOMAIN groups[g]} <=> \E i \in DOMAIN groups[g] : m = groups[g][i]
    BY Zenon
  <2>3. \A g \in G : DOMAIN groups[g] = 1 .. Len(groups[g])
    BY <1>1
  <2> HIDE DEF memories, G
  <2> QED  BY <2>1, <2>2, <2>3
<1>7. memories # {} /\ memories \subseteq Nat
  <2> HIDE DEF memories, G
  <2>1. \A g \in G : \A i \in 1 .. Len(groups[g]) : groups[g][i] \in Nat
    BY <1>1
  <2> QED  BY <1>6, <2>1
<1> HIDE DEF memories
<1>8. cases > 0
  <2>1. PICK g \in G : \E i \in 1 .. Len(groups[g]) : TRUE
    BY <1>6, <1>7
  <2>2. lens[g] > 0
    BY <1>1, <1>5, <2>1
  <2>3. g \in 1 .. Len(lens)
    BY <1>3
  <2>4. lens[g] <= cases
    BY <1>3, <2>3, PartAtMostSum
  <2> QED  BY <1>1, <1>4, <1>5, <2>2, <2>4
<1>9. avg = Quotient(total, cases)
  <2>1. \A g \in G : Sum32(groups[g]) = SumOf(groups[g])
    <3> TAKE g \in G
    <3>1. g \in 1 .. Len(sums)
      BY <1>3
    <3>2. sums[g] <= total
      BY <1>3, <3>1, PartAtMostSum
    <3>3. SumOf(groups[g]) < Int32
      BY <1>2, <1>4, <1>5, <3>2, GradeResultsAssumption
    <3> QED  BY <1>1, <3>3, Sum32Exact
  <2>2. [g \in G |-> Sum32(groups[g])] = sums
    BY <2>1 DEF sums
  <2>3. Sum32(sums) = total /\ Sum32(lens) = cases
    BY <1>3, Sum32Exact
  <2> HIDE DEF total, cases
  <2>4. avg = IF cases > 0 THEN Quotient(total, cases) ELSE 0
    BY <2>2, <2>3 DEF AvgMemory, lens
  <2> QED  BY <1>8, <2>4
<1> HIDE DEF avg
<1>10. /\ avg \in Int
       /\ ~ (total >= (avg + 1) * cases)
       /\ ~ ((avg - 1) * cases >= total)
  BY <1>4, <1>8, <1>9, Quotients
<1>11. \E m \in memories : m <= avg
  <2> SUFFICES ASSUME \A m \in memories : m >= avg + 1
               PROVE  FALSE
    BY <1>7, <1>10
  <2> DEFINE k == avg + 1
  <2>1. k \in Int /\ (\A m \in memories : m >= k) /\ ~ (total >= k * cases)
    BY <1>10
  <2> HIDE DEF k
  <2>2. \A g \in 1 .. Len(sums) : 1 * sums[g] >= k * lens[g]
    <3> TAKE g \in 1 .. Len(sums)
    <3> DEFINE s == groups[g]
    <3>1. s \in Seq(Nat) /\ (\A i \in 1 .. Len(s) : s[i] >= k) /\ SumOf(s) \in Nat
      BY <1>1, <1>2, <1>3, <1>6, <2>1
    <3>2. sums[g] = SumOf(s) /\ lens[g] = Len(s)
      BY <1>3, <1>5
    <3> HIDE DEF s
    <3>3. SumOf(s) >= k * Len(s)
      BY <2>1, <3>1, SumByLength
    <3> QED  BY <3>1, <3>2, <3>3
  <2>3. sums \in Seq(Int) /\ lens \in Seq(Int) /\ Len(sums) = Len(lens) /\ 1 \in Int
    BY <1>3
  <2>4. 1 * total >= k * cases
    BY <2>1, <2>2, <2>3, SumCompare
  <2> QED  BY <1>4, <2>1, <2>4
<1>12. \E m \in memories : avg <= m
  <2> SUFFICES ASSUME \A m \in memories : avg - 1 >= m
               PROVE  FALSE
    BY <1>7, <1>10
  <2> DEFINE k == avg - 1
  <2>1. k \in Int /\ (\A m \in memories : k >= m) /\ ~ (k * cases >= total)
    BY <1>10
  <2> HIDE DEF k
  <2>2. \A g \in 1 .. Len(lens) : k * lens[g] >= 1 * sums[g]
    <3> TAKE g \in 1 .. Len(lens)
    <3> DEFINE s == groups[g]
    <3>1. s \in Seq(Nat) /\ (\A i \in 1 .. Len(s) : k >= s[i]) /\ SumOf(s) \in Nat
      BY <1>1, <1>2, <1>3, <1>6, <2>1
    <3>2. sums[g] = SumOf(s) /\ lens[g] = Len(s)
      BY <1>3, <1>5
    <3> HIDE DEF s
    <3>3. k * Len(s) >= SumOf(s)
      BY <2>1, <3>1, SumByLength
    <3> QED  BY <3>1, <3>2, <3>3
  <2>3. sums \in Seq(Int) /\ lens \in Seq(Int) /\ Len(lens) = Len(sums) /\ 1 \in Int
    BY <1>3
  <2>4. k * cases >= 1 * total
    BY <2>1, <2>2, <2>3, SumCompare
  <2> QED  BY <1>4, <2>1, <2>4
<1> QED  BY <1>11, <1>12

--------------------------------------------------------------------------------
(* Limits.                                                                 *)

\* A limit that is not positive becomes a safe one, which is.
LEMMA SafePositive ==
    ASSUME NEW l \in [Fields -> Int], NEW f \in Fields
    PROVE  WithSafeLimits(l)[f] > 0 /\ (l[f] > 0 => WithSafeLimits(l)[f] = l[f])
<1>1. Safe[f] \in Int /\ Safe[f] > 0
  BY DEF Safe, Fields
<1> QED  BY <1>1 DEF WithSafeLimits

\* The comment of WithSafeLimits, "ensuring isolate never runs unbounded": whatever
\* integers a task has for its limits, isolate gets all of them with positive values.
LEMMA SafeLimits ==
    \A l \in [Fields -> Int] : NeverUnbounded(l)
<1> SUFFICES ASSUME NEW l \in [Fields -> Int]
             PROVE  NeverUnbounded(l)
  OBVIOUS
<1> DEFINE safe == WithSafeLimits(l)
<1>1. DOMAIN safe = Fields /\ \A f \in Fields : safe[f] # 0 /\ safe[f] > 0 /\ (l[f] > 0 => safe[f] = l[f])
  <2>1. DOMAIN safe = Fields
    BY DEF WithSafeLimits
  <2>2. \A f \in Fields : safe[f] \in Int
    BY DEF WithSafeLimits, Safe, Fields
  <2> HIDE DEF safe
  <2>3. \A f \in Fields : safe[f] > 0 /\ (l[f] > 0 => safe[f] = l[f])
    BY SafePositive DEF safe
  <2> QED  BY <2>1, <2>2, <2>3
<1> HIDE DEF safe
<1>2. {g \in Fields : safe[g] # 0} = Fields
  BY <1>1
<1>3. LimitArgs(safe) = [f \in Fields |-> safe[f]]
  BY <1>2 DEF LimitArgs
<1> QED  BY <1>1, <1>3 DEF NeverUnbounded, safe

--------------------------------------------------------------------------------
(* The status of a test case.                                              *)

\* What the methods of IsolateInstance say of a good end, and only of it or of exit code 1.
LEMMA EndingsJudged ==
    ASSUME NEW e \in Endings
    PROVE  /\ CompileErr(e) = "none" <=> e = "ok"
           /\ RunFromDirErr(e) = "none" <=> e = "ok"
           /\ RunFromDirErr(e) \in {"none", "exit", "other"}
           /\ RunWithDirErr(e) = "none" <=> e \in {"ok", "failed"}
<1>1. e \in {"ok", "failed", "internal", "notFound", "killed", "unstarted"}
  BY DEF Endings
<1>2. (ExitCode(e) = 1 <=> e = "failed") /\ (ExitCode(e) = 127 <=> e = "notFound")
  BY <1>1 DEF ExitCode
<1>3. IsExitError(e) <=> e \notin {"ok", "unstarted"}
  BY DEF IsExitError
<1>4. CompileErr(e) = "none" <=> e = "ok"
  BY DEF CompileErr
<1>5. RunFromDirErr(e) \in {"none", "exit", "other"} /\ (RunFromDirErr(e) = "none" <=> e = "ok")
  BY <1>3 DEF RunFromDirErr, RunErr
<1>6. RunWithDirErr(e) = "none" <=> e \in {"ok", "failed"}
  BY <1>2, <1>3 DEF RunWithDirErr
<1> QED  BY <1>4, <1>5, <1>6

\* When RunTestCase says RUN_PASSED, and that it has an error only for lost metadata.
LEMMA RunTestCasePasses ==
    ASSUME NEW c \in Outcomes
    PROVE  /\ RunTestCase(c) = "RUN_PASSED" <=> Ran(c) /\ c.metadata = ""
           /\ RunTestCase(c) = "error" => c.metadata = "lost"
<1>1. c.metadata \in {"", "TO", "RE", "SG", "XX", "lost"} /\ c.files \in BOOLEAN /\ c.overMemory \in BOOLEAN
  BY DEF Outcomes
<1>2. Ran(c) => Compiled(c)
  BY DEF Ran
<1>3. Compiled(c) => c.files
  BY DEF Compiled
<1>4. /\ MetadataStatus(c) = "RUN_PASSED" <=> c.metadata = ""
      /\ MetadataStatus(c) = "error" <=> c.metadata = "lost"
  BY <1>1 DEF MetadataStatus
<1>5. CASE ~ c.files
  BY <1>2, <1>3, <1>5 DEF RunTestCase
<1>6. CASE c.files /\ ~ Compiled(c)
  BY <1>2, <1>6 DEF RunTestCase
<1>7. CASE Compiled(c) /\ ~ Ran(c)
  BY <1>3, <1>7 DEF RunTestCase
<1>8. CASE Ran(c)
  BY <1>2, <1>3, <1>4, <1>8 DEF RunTestCase
<1> QED  BY <1>3, <1>5, <1>6, <1>7, <1>8

\* PassedIsEarned for all outcomes of a test case: of what goes wrong on the way,
\* GetTestCaseResult takes one thing for an empty compare result, a compare script that
\* exits with 1 and leaves no message.
LEMMA PassesAreEarned ==
    ASSUME NEW c \in Outcomes
    PROVE  PassedIsEarned(c)
<1>1. /\ c.build \in Endings \cup {"none"} /\ c.run \in Endings /\ c.compare \in Endings
      /\ c.result \in {"", "message", "lost"} /\ c.script \in {"present", "missing", "unreadable"}
  BY DEF Outcomes
<1> SUFFICES ASSUME GetTestCaseResult(c) = "RUN_PASSED"
             PROVE  /\ c.files /\ c.build \in {"none", "ok"} /\ c.run = "ok"
                    /\ c.outputs /\ c.script = "present"
                    /\ c.compare \in {"ok", "failed"} /\ c.result = ""
  BY DEF PassedIsEarned
<1>2. RunTestCase(c) = "RUN_PASSED" /\ CompareOutput(c) = ""
  BY DEF GetTestCaseResult
<1>3. c.files /\ c.build \in {"none", "ok"} /\ c.run = "ok"
  BY <1>1, <1>2, RunTestCasePasses, EndingsJudged DEF Ran, Compiled
<1>4. c.outputs /\ c.script = "present"
  BY <1>1, <1>2 DEF CompareOutput
<1>5. RunWithDirErr(c.compare) = "none" /\ c.result = ""
  BY <1>1, <1>2, <1>4 DEF CompareOutput
<1> QED  BY <1>1, <1>3, <1>4, <1>5, EndingsJudged

\* ErrorIsTheGraders for all outcomes: no program brings an error of GetTestCaseResult
\* about by how it builds or ends.
LEMMA ErrorsAreTheGraders ==
    ASSUME NEW c \in Outcomes
    PROVE  ErrorIsTheGraders(c)
<1> SUFFICES ASSUME GetTestCaseResult(c) = "error"
             PROVE  \/ c.metadata = "lost" \/ c.result = "lost"
                    \/ ~ c.outputs \/ c.script = "unreadable"
                    \/ c.compare \notin {"ok", "failed"}
  BY DEF ErrorIsTheGraders
<1>1. RunTestCase(c) = "error" \/ CompareOutput(c) = "error"
  BY DEF GetTestCaseResult
<1>2. CASE RunTestCase(c) = "error"
  BY <1>2, RunTestCasePasses
<1>3. CASE CompareOutput(c) = "error"
  <2>1. c.compare \in Endings /\ c.result \in {"", "message", "lost"}
    BY DEF Outcomes
  <2>2. c.compare \in {"ok", "failed"} => RunWithDirErr(c.compare) = "none"
    BY <2>1, EndingsJudged
  <2> QED  BY <1>3, <2>1, <2>2 DEF CompareOutput
<1> QED  BY <1>1, <1>2, <1>3

\* RunAndGradeAgree for all outcomes: Run and RunTestCase take the same programs for good.
LEMMA SameProgramsPass ==
    ASSUME NEW c \in Outcomes
    PROVE  RunAndGradeAgree(c)
<1> SUFFICES ASSUME Possible(c)
             PROVE  ExecutorRun(c) = "RUN_PASSED" <=> RunTestCase(c) = "RUN_PASSED"
  BY DEF RunAndGradeAgree
<1>1. c.run \in Endings /\ c.metadata \in {"", "TO", "RE", "SG", "XX", "lost"}
  BY DEF Outcomes
<1>2. (Ran(c) <=> Compiled(c) /\ c.run = "ok") /\ (Compiled(c) => c.files)
  BY <1>1, EndingsJudged DEF Ran, Compiled
<1>3. Ran(c) => c.metadata \in {"", "lost"}
  BY <1>2 DEF Possible
<1>4. ExecutorRun(c) = "RUN_PASSED" <=> Ran(c) /\ c.metadata # "lost"
  <2>1. RunFromDirErr(c.run) \in {"none", "exit", "other"} /\ (RunFromDirErr(c.run) = "none" <=> c.run = "ok")
    BY <1>1, EndingsJudged
  <2>2. CASE ~ c.files
    BY <1>2, <2>2 DEF ExecutorRun
  <2>3. CASE c.files /\ ~ Compiled(c)
    BY <1>2, <2>3 DEF ExecutorRun
  <2>4. CASE Compiled(c) /\ RunFromDirErr(c.run) = "other"
    BY <1>2, <2>1, <2>4 DEF ExecutorRun
  <2>5. CASE Compiled(c) /\ RunFromDirErr(c.run) = "exit"
    BY <1>2, <2>1, <2>5 DEF ExecutorRun
  <2>6. CASE Compiled(c) /\ RunFromDirErr(c.run) = "none"
    BY <1>2, <2>1, <2>6 DEF ExecutorRun
  <2> QED  BY <1>2, <2>1, <2>2, <2>3, <2>4, <2>5, <2>6
<1> QED  BY <1>1, <1>3, <1>4, RunTestCasePasses

--------------------------------------------------------------------------------
(* What holds of every input, and so of the samples of the run             *)
(* script_tests.                                                           *)

\* A sample is an input of its module.
Sampled ==
    /\ sample.of = "outcome" => sample.value \in Outcomes
    /\ sample.of = "limits" => sample.value \in [Fields -> Int]
    /\ sample.of = "chunks" => sample.value \in Seq(Nat)
    /\ sample.of = "memory" => sample.value \in Seq(Seq(Nat))
    /\ sample.of = "sizes" => sample.value \in [summary : Nat, rest : Seq(Nat), detail : Seq(Nat)]

LEMMA UptoSeq ==
    ASSUME NEW n \in Nat, NEW S, NEW T, S \subseteq T, NEW s \in Upto(n, S)
    PROVE  s \in Seq(T)
<1>1. PICK m \in 0 .. n : s \in [1 .. m -> S]
  BY DEF Upto
<1>2. m \in Nat /\ s \in [1 .. m -> T]
  BY <1>1
<1> QED  BY <1>2

\* The samples of a run are inputs, and no step changes them.
LEMMA SamplesStay == MCSpec => []Sampled
<1>1. MCInit => Sampled
  <2> SUFFICES ASSUME MCInit
               PROVE  Sampled
    OBVIOUS
  <2>1. CASE sample = NoSample
    BY <2>1 DEF Sampled, NoSample
  <2>2. ASSUME NEW c \in Outcomes, sample = [of |-> "outcome", value |-> c]
        PROVE  Sampled
    BY <2>2 DEF Sampled
  <2>3. ASSUME NEW l \in [Fields -> -1 .. 1], sample = [of |-> "limits", value |-> l]
        PROVE  Sampled
    <3>1. l \in [Fields -> Int]
      OBVIOUS
    <3> QED  BY <2>3, <3>1 DEF Sampled
  <2>4. ASSUME NEW s \in Upto(4, 0 .. 4), sample = [of |-> "chunks", value |-> s]
        PROVE  Sampled
    <3>1. s \in Seq(Nat)
      BY UptoSeq
    <3> QED  BY <2>4, <3>1 DEF Sampled
  <2>5. ASSUME NEW g \in Upto(3, Upto(2, 0 .. 3)), sample = [of |-> "memory", value |-> g]
        PROVE  Sampled
    <3>1. Upto(2, 0 .. 3) \subseteq Seq(Nat)
      BY UptoSeq
    <3>2. g \in Seq(Seq(Nat))
      BY <3>1, UptoSeq
    <3> QED  BY <2>5, <3>2 DEF Sampled
  <2>6. ASSUME NEW r \in [summary : 0 .. 3, rest : Upto(2, 0 .. 4), detail : Upto(2, 0 .. 4)],
               sample = [of |-> "sizes", value |-> r]
        PROVE  Sampled
    <3>1. Upto(2, 0 .. 4) \subseteq Seq(Nat)
      BY UptoSeq
    <3>2. r \in [summary : Nat, rest : Seq(Nat), detail : Seq(Nat)]
      BY <3>1
    <3> QED  BY <2>6, <3>2 DEF Sampled
  <2> QED  BY <2>1, <2>2, <2>3, <2>4, <2>5, <2>6 DEF MCInit
<1>2. Sampled /\ [MCNext]_<<vars, sample>> => Sampled'
  BY DEF Sampled, MCNext
<1> QED  BY <1>1, <1>2, PTL DEF MCSpec

\* PassedIsEarned of all outcomes of a test case, and PassesEarned: GetTestCaseResult says
\* RUN_PASSED only if the program was built, ended well and was compared without a message,
\* where a compare script that exits with 1 counts as having compared.
THEOREM PassesSound ==
    /\ \A c \in Outcomes : PassedIsEarned(c)
    /\ MCSpec => []PassesEarned
<1>1. \A c \in Outcomes : PassedIsEarned(c)
  BY PassesAreEarned
<1>2. Sampled => PassesEarned
  BY <1>1 DEF Sampled, PassesEarned
<1> QED  BY <1>1, <1>2, SamplesStay, PTL

\* ErrorIsTheGraders of all outcomes, and ErrorsTheGraders: no program makes GRADER_ERROR of
\* a submission by how it builds or ends.
THEOREM ErrorsSound ==
    /\ \A c \in Outcomes : ErrorIsTheGraders(c)
    /\ MCSpec => []ErrorsTheGraders
<1>1. \A c \in Outcomes : ErrorIsTheGraders(c)
  BY ErrorsAreTheGraders
<1>2. Sampled => ErrorsTheGraders
  BY <1>1 DEF Sampled, ErrorsTheGraders
<1> QED  BY <1>1, <1>2, SamplesStay, PTL

\* RunAndGradeAgree of all outcomes, and ExecutorsAgree: Run and RunTestCase take the same
\* programs for good.
THEOREM ExecutorsSame ==
    /\ \A c \in Outcomes : RunAndGradeAgree(c)
    /\ MCSpec => []ExecutorsAgree
<1>1. \A c \in Outcomes : RunAndGradeAgree(c)
  BY SameProgramsPass
<1>2. Sampled => ExecutorsAgree
  BY <1>1 DEF Sampled, ExecutorsAgree
<1> QED  BY <1>1, <1>2, SamplesStay, PTL

\* NeverUnbounded of limits of any integers, and LimitsBounded: as the comment of
\* WithSafeLimits has it, isolate never runs unbounded.
THEOREM LimitsNeverUnbounded ==
    /\ \A l \in [Fields -> Int] : NeverUnbounded(l)
    /\ MCSpec => []LimitsBounded
<1>1. \A l \in [Fields -> Int] : NeverUnbounded(l)
  BY SafeLimits
<1>2. Sampled => LimitsBounded
  BY <1>1 DEF Sampled, LimitsBounded
<1> QED  BY <1>1, <1>2, SamplesStay, PTL

\* CaptureExact of outputs in any number of chunks of any size, and CapturesExact:
\* limitedBuffer has the first MaxOutput bytes and knows whether there were more.
THEOREM OutputsExact ==
    /\ \A s \in Seq(Nat) : CaptureExact(s)
    /\ MCSpec => []CapturesExact
<1>1. \A s \in Seq(Nat) : CaptureExact(s)
  BY OutputsCaptured
<1>2. Sampled => CapturesExact
  BY <1>1 DEF Sampled, CapturesExact
<1> QED  BY <1>1, <1>2, SamplesStay, PTL

\* AverageBetween of any number of groups and cases of any memory, and AveragesBetween: the
\* average of Grade lies between the smallest and the largest.
THEOREM AveragesSound ==
    /\ \A groups \in Seq(Seq(Nat)) : AverageBetween(groups)
    /\ MCSpec => []AveragesBetween
<1>1. \A groups \in Seq(Seq(Nat)) : AverageBetween(groups)
  BY AveragesFair
<1>2. Sampled => AveragesBetween
  BY <1>1 DEF Sampled, AveragesBetween
<1> QED  BY <1>1, <1>2, SamplesStay, PTL

\* BoundedBest of results of any number of cases of any size, and ResultsBounded:
\* marshalBoundedGradeResult publishes the most that fits.
THEOREM BoundedResults ==
    /\ \A r \in [summary : Nat, rest : Seq(Nat), detail : Seq(Nat)] : BoundedBest(r)
    /\ MCSpec => []ResultsBounded
<1>1. \A r \in [summary : Nat, rest : Seq(Nat), detail : Seq(Nat)] : BoundedBest(r)
  BY ResultsBest
<1>2. Sampled => ResultsBounded
  BY <1>1 DEF Sampled, ResultsBounded
<1> QED  BY <1>1, <1>2, SamplesStay, PTL
================================================================================
