--------------------------- MODULE RuntimeProofs ---------------------------
(***************************************************************************)
(* Proofs about the model runner (PagedRunner) and the training loop       *)
(* around it (WeightSync): what the queries of a forward read, which rows  *)
(* the tokens are sampled from, the rows of the model's fused tensors, and *)
(* what no forward may read.                                               *)
(***************************************************************************)
EXTENDS RuntimeInvariants, FiniteSetTheorems, SequenceTheorems, WellFoundedInduction, TLAPS

(***************************************************************************)
(* Arithmetic of pages.                                                    *)
(***************************************************************************)
LEMMA PageOf ==
  ASSUME NEW p \in Nat
  PROVE  /\ p \div BlockSize \in Nat /\ p % BlockSize \in 0..BlockSize - 1
         /\ p = BlockSize * (p \div BlockSize) + (p % BlockSize)
<1>1. BlockSize \in Nat \ {0}
  BY RunnerAssumption
<1>2. p \div BlockSize \in Nat
  BY <1>1
<1>3. p % BlockSize \in 0..BlockSize - 1
  BY <1>1
<1>4. p % BlockSize = p - BlockSize * (p \div BlockSize)
  BY <1>1
<1>5. BlockSize * (p \div BlockSize) \in Nat
  BY <1>1, <1>2
<1> QED
  BY <1>2, <1>3, <1>4, <1>5

\* A multiple of the page size further on is the same offset, as many pages
\* later.
LEMMA PageStep ==
  ASSUME NEW p \in Nat
  PROVE  (p + BlockSize) \div BlockSize = p \div BlockSize + 1
BY RunnerAssumption

\* Later positions are on later pages, or on the same one.
LEMMA PageMonotonic ==
  ASSUME NEW p \in Nat, NEW n \in Nat, p <= n
  PROVE  p \div BlockSize <= n \div BlockSize
BY RunnerAssumption

\* n entries fill the pages up to that of the last one.
LEMMA PagesFor ==
  ASSUME NEW n \in Nat
  PROVE  /\ NumPages(n) \in Nat
         /\ n = 0 => NumPages(n) = 0
         /\ n > 0 => NumPages(n) = (n - 1) \div BlockSize + 1
<1>1. CASE n = 0
  BY <1>1, RunnerAssumption DEF NumPages
<1>2. CASE n > 0
  <2>1. n - 1 \in Nat /\ n + BlockSize - 1 = (n - 1) + BlockSize
    BY <1>2, RunnerAssumption
  <2>2. ((n - 1) + BlockSize) \div BlockSize = (n - 1) \div BlockSize + 1
    BY <2>1, PageStep
  <2>3. (n - 1) \div BlockSize \in Nat
    BY <2>1, PageOf
  <2> QED
    BY <1>2, <2>1, <2>2, <2>3 DEF NumPages
<1> QED
  BY <1>1, <1>2

\* A position below n is on one of the pages n entries need.
LEMMA InPages ==
  ASSUME NEW n \in Nat, NEW p \in 0..n - 1
  PROVE  p \div BlockSize + 1 \in 1..NumPages(n)
<1>1. p \in Nat /\ n - 1 \in Nat /\ p <= n - 1 /\ n > 0
  OBVIOUS
<1>2. p \div BlockSize \in Nat /\ (n - 1) \div BlockSize \in Nat
  BY <1>1, PageOf
<1>3. p \div BlockSize <= (n - 1) \div BlockSize
  BY <1>1, PageMonotonic
<1>4. NumPages(n) = (n - 1) \div BlockSize + 1
  BY <1>1, PagesFor
<1> QED
  BY <1>2, <1>3, <1>4

\* More entries need at least as many pages.
LEMMA PagesMonotonic ==
  ASSUME NEW m \in Nat, NEW n \in Nat, m <= n
  PROVE  NumPages(m) <= NumPages(n)
<1>1. CASE m = 0
  BY <1>1, PagesFor
<1>2. CASE m > 0
  <2>1. m - 1 \in Nat /\ n - 1 \in Nat /\ m - 1 <= n - 1 /\ n > 0
    BY <1>2
  <2>2. (m - 1) \div BlockSize <= (n - 1) \div BlockSize
    BY <2>1, PageMonotonic
  <2>3. NumPages(m) = (m - 1) \div BlockSize + 1 /\ NumPages(n) = (n - 1) \div BlockSize + 1
    BY <1>2, <2>1, PagesFor
  <2>4. (m - 1) \div BlockSize \in Nat /\ (n - 1) \div BlockSize \in Nat
    BY <2>1, PageOf
  <2> QED
    BY <2>2, <2>3, <2>4
<1> QED
  BY <1>1, <1>2

\* The pages of n entries and the fill of the last one say n.
LEMMA LastPage ==
  ASSUME NEW n \in Nat \ {0}
  PROVE  (NumPages(n) - 1) * BlockSize + LastPageLen(n) = n
<1>1. PICK a \in Nat : a = n \div BlockSize
  BY PageOf
<1>2. PICK b \in 0..BlockSize - 1 : b = n % BlockSize
  BY PageOf
<1>3. n = BlockSize * a + b
  BY <1>1, <1>2, PageOf
<1>4. PICK c \in Nat : c = (n - 1) \div BlockSize
  BY PageOf
<1>5. PICK d \in 0..BlockSize - 1 : d = (n - 1) % BlockSize
  BY PageOf
<1>6. n - 1 = BlockSize * c + d /\ n - 1 \in Nat
  BY <1>4, <1>5, PageOf
<1>7. NumPages(n) = c + 1
  BY <1>4, PagesFor
<1>8. BlockSize * c \in Int /\ BlockSize * a \in Int /\ c * BlockSize = BlockSize * c /\ BlockSize \in Nat \ {0}
  BY <1>1, <1>4, RunnerAssumption
<1>9. CASE b = 0
  <2>1. LastPageLen(n) = BlockSize
    BY <1>2, <1>9 DEF LastPageLen
  <2>2. BlockSize * a = BlockSize * c + d + 1
    BY <1>3, <1>5, <1>6, <1>8, <1>9
  <2>3. d + 1 = BlockSize
    <3>1. BlockSize * (a - c) = d + 1
      BY <1>1, <1>4, <2>2, <1>8, <1>5
    <3>2. a - c = 1
      <4>1. CASE a - c <= 0
        BY <4>1, <3>1, <1>5, <1>1, <1>4, RunnerAssumption
      <4>2. CASE a - c >= 2
        <5>1. BlockSize * (a - c) >= BlockSize * 2
          BY <4>2, <1>1, <1>4, RunnerAssumption
        <5> QED
          BY <5>1, <3>1, <1>5, RunnerAssumption
      <4> QED
        BY <4>1, <4>2, <1>1, <1>4
    <3> QED
      BY <3>1, <3>2, RunnerAssumption
  <2> QED
    BY <1>6, <1>7, <1>8, <2>1, <2>3, <1>4, <1>5
<1>10. CASE b > 0
  <2>1. LastPageLen(n) = b
    BY <1>2, <1>10 DEF LastPageLen
  <2>2. n - 1 = BlockSize * a + (b - 1) /\ b - 1 \in 0..BlockSize - 1
    BY <1>2, <1>3, <1>8, <1>10
  <2>3. (n - 1) \div BlockSize = a
    BY <1>1, <2>2, <1>6, RunnerAssumption
  <2>4. NumPages(n) - 1 = a /\ a * BlockSize = BlockSize * a
    BY <1>1, <1>4, <1>7, <2>3, <1>8
  <2> QED
    BY <1>3, <2>1, <2>4
<1> QED
  BY <1>2, <1>9, <1>10

(***************************************************************************)
(* Induction and recursion over the naturals.                              *)
(***************************************************************************)
\* Every set of naturals that is not empty has a least member.
LEMMA LeastNatural ==
  ASSUME NEW X \in SUBSET Nat, X # {}
  PROVE  \E i \in X : \A j \in X : i <= j
<1> DEFINE Less == {p \in Nat \X Nat : p[1] < p[2]}
<1>1. IsWellFoundedOn(Less, Nat)
  BY NatLessThanWellFounded, Zenon DEF OpToRel
<1>2. \A i, j \in Nat : ~(<<j, i>> \in Less) => i <= j
  OBVIOUS
<1> HIDE DEF Less
<1>3. \E i \in X : \A j \in X : ~(<<j, i>> \in Less)
  BY <1>1, WFMin
<1> QED
  BY <1>2, <1>3

\* A set of naturals that has 0 and every successor has them all.
LEMMA InductionOnNaturals ==
  ASSUME NEW X, 0 \in X, \A n \in Nat : n \in X => n + 1 \in X
  PROVE  Nat \subseteq X
<1> SUFFICES ASSUME Nat \ X # {}
             PROVE  FALSE
  OBVIOUS
<1>1. PICK i \in Nat \ X : \A j \in Nat \ X : i <= j
  BY LeastNatural
<1>2. i # 0 /\ i - 1 \in Nat
  BY <1>1
<1>3. i - 1 \in X
  BY <1>1, <1>2
<1>4. i - 1 + 1 \in X
  BY <1>2, <1>3
<1> QED
  BY <1>1, <1>4

(***************************************************************************)
(* Packing.                                                                *)
(***************************************************************************)
SpanType == [r : Requests, n : Nat \ {0}, table : Seq(Pages)]

\* The sequences of a batch, one by one.
LEMMA BatchFacts ==
  ASSUME NEW batch \in Seq(SpanType)
  PROVE  /\ Len(batch) \in Nat /\ DOMAIN batch = 1..Len(batch)
         /\ \A i \in 1..Len(batch) : /\ batch[i] \in SpanType
                                     /\ batch[i].r \in Requests /\ batch[i].n \in Nat \ {0}
                                     /\ batch[i].table \in Seq(Pages)
<1>1. Len(batch) \in Nat /\ DOMAIN batch = 1..Len(batch)
  BY LenProperties
<1>2. \A i \in 1..Len(batch) : batch[i] \in SpanType
  BY ElementOfSeq
<1> QED
  BY <1>1, <1>2 DEF SpanType

\* The running sums of the span lengths.
Sums(c, batch) ==
  /\ c \in [1..Len(batch) + 1 -> Nat]
  /\ c[1] = 0
  /\ \A i \in 1..Len(batch) : c[i + 1] = c[i] + batch[i].n

\* Cumulative lengths start at 0 and go up by each span; all of them are
\* natural.
LEMMA CuFacts ==
  ASSUME NEW batch \in Seq(SpanType)
  PROVE  Sums(CuSeqlens(batch), batch)
<1> DEFINE N == Len(batch)
           G(c, i) == IF i = 1 THEN 0 ELSE c[i - 1] + batch[i - 1].n
           Sum(c, n) == c = [i \in 1..n + 1 |-> G(c, i)]
           X == {n \in Nat : \E c : Sum(c, n)}
<1>1. N \in Nat /\ DOMAIN batch = 1..N /\ \A i \in 1..N : batch[i].n \in Nat
  BY BatchFacts
<1>2. 0 \in X
  <2>1. Sum([i \in 1..1 |-> 0], 0)
    OBVIOUS
  <2> QED
    BY <2>1
<1>3. ASSUME NEW n \in Nat, n \in X
      PROVE  n + 1 \in X
  <2>1. PICK c : Sum(c, n)
    BY <1>3
  <2> DEFINE f == [i \in 1..n + 2 |-> IF i = n + 2 THEN c[n + 1] + batch[n + 1].n ELSE c[i]]
  <2>2. \A i \in 1..n + 1 : f[i] = c[i]
    OBVIOUS
  <2>3. \A i \in 1..n + 2 : f[i] = G(f, i)
    <3> SUFFICES ASSUME NEW i \in 1..n + 2
                 PROVE  f[i] = G(f, i)
      OBVIOUS
    <3>1. CASE i = n + 2
      <4>1. i # 1 /\ i - 1 = n + 1 /\ f[n + 1] = c[n + 1]
        BY <3>1, <2>2
      <4> QED
        BY <3>1, <4>1
    <3>2. CASE i # n + 2
      <4>1. i \in 1..n + 1 /\ c[i] = G(c, i)
        BY <3>2, <2>1
      <4>2. i # 1 => i - 1 \in 1..n + 1
        BY <4>1
      <4> HIDE DEF f
      <4> QED
        BY <4>1, <4>2, <2>2
    <3> QED
      BY <3>1, <3>2
  <2>4. f = [i \in 1..n + 2 |-> f[i]]
    OBVIOUS
  <2>5. n + 1 + 1 = n + 2
    OBVIOUS
  <2> HIDE DEF f, G
  <2>6. Sum(f, n + 1)
    BY <2>3, <2>4, <2>5
  <2> QED
    BY <2>6
<1>4. N \in X
  <2> HIDE DEF X
  <2>1. Nat \subseteq X
    BY <1>2, <1>3, InductionOnNaturals
  <2> QED
    BY <1>1, <2>1
<1>5. CuSeqlens(batch) = CHOOSE c : Sum(c, N)
  BY DEF CuSeqlens
<1>6. PICK c : c = CuSeqlens(batch) /\ Sum(c, N)
  <2> HIDE DEF Sum
  <2> QED
    BY <1>4, <1>5
<1>7. /\ DOMAIN c = 1..N + 1 /\ c[1] = 0
      /\ \A i \in 1..N : c[i + 1] = c[i] + batch[i].n
  <2>1. DOMAIN c = 1..N + 1 /\ \A i \in 1..N + 1 : c[i] = G(c, i)
    BY <1>6
  <2>2. c[1] = 0
    BY <1>1, <2>1
  <2>3. ASSUME NEW i \in 1..N
        PROVE  c[i + 1] = c[i] + batch[i].n
    <3>1. i + 1 \in 1..N + 1 /\ i + 1 # 1 /\ i + 1 - 1 = i
      BY <1>1
    <3> QED
      BY <2>1, <3>1
  <2> QED
    BY <2>1, <2>2, <2>3
<1>8. \A n \in Nat : n <= N => c[n + 1] \in Nat
  <2> DEFINE Y == {n \in Nat : n <= N => c[n + 1] \in Nat}
  <2>1. 0 \in Y
    BY <1>7
  <2>2. ASSUME NEW n \in Nat, n \in Y
        PROVE  n + 1 \in Y
    <3> SUFFICES ASSUME n + 1 <= N
                 PROVE  c[n + 1 + 1] \in Nat
      OBVIOUS
    <3>1. n + 1 \in 1..N /\ c[n + 1] \in Nat
      BY <1>1, <2>2
    <3> QED
      BY <1>1, <1>7, <3>1
  <2>3. Nat \subseteq Y
    <3> HIDE DEF Y
    <3> QED
      BY <2>1, <2>2, InductionOnNaturals
  <2> QED
    BY <2>3
<1>9. c \in [1..N + 1 -> Nat]
  <2>1. \A i \in 1..N + 1 : i - 1 \in Nat /\ i - 1 <= N /\ i - 1 + 1 = i
    BY <1>1
  <2>2. \A i \in 1..N + 1 : c[i] \in Nat
    BY <1>8, <2>1
  <2>3. c = [i \in 1..N + 1 |-> c[i]]
    BY <1>6
  <2> QED
    BY <2>2, <2>3
<1> QED
  BY <1>6, <1>7, <1>9 DEF Sums

\* Cumulative lengths never go down.
LEMMA SumsMonotonic ==
  ASSUME NEW batch \in Seq(SpanType), NEW c, Sums(c, batch),
         NEW i \in 1..Len(batch) + 1, NEW j \in 1..Len(batch) + 1, i <= j
  PROVE  c[i] <= c[j]
<1> DEFINE N == Len(batch)
           X == {n \in Nat : i + n <= N + 1 => c[i] <= c[i + n]}
<1>1. N \in Nat /\ DOMAIN batch = 1..N /\ \A k \in 1..N : batch[k].n \in Nat
  BY BatchFacts
<1>2. c \in [1..N + 1 -> Nat] /\ \A k \in 1..N : c[k + 1] = c[k] + batch[k].n
  BY DEF Sums
<1>3. i \in 1..N + 1 /\ j \in 1..N + 1
  OBVIOUS
<1> HIDE DEF N
<1>4. 0 \in X
  BY <1>1, <1>2, <1>3
<1>5. ASSUME NEW n \in Nat, n \in X
      PROVE  n + 1 \in X
  <2> SUFFICES ASSUME i + (n + 1) <= N + 1
               PROVE  c[i] <= c[i + (n + 1)]
    OBVIOUS
  <2>1. i + n \in 1..N /\ c[i] <= c[i + n] /\ i + (n + 1) = (i + n) + 1
    BY <1>1, <1>3, <1>5
  <2>2. c[(i + n) + 1] = c[i + n] + batch[i + n].n
    BY <1>2, <2>1
  <2>3. c[i + n] \in Nat /\ batch[i + n].n \in Nat /\ c[i] \in Nat
    BY <1>1, <1>2, <1>3, <2>1
  <2> QED
    BY <2>1, <2>2, <2>3
<1>6. Nat \subseteq X
  <2> HIDE DEF X
  <2> QED
    BY <1>4, <1>5, InductionOnNaturals
<1>7. j - i \in Nat /\ i + (j - i) = j /\ j <= N + 1
  BY <1>1, <1>3
<1>8. j - i \in X
  BY <1>6, <1>7
<1> QED
  BY <1>7, <1>8

\* Every packed row is one of one sequence's.
LEMMA OwnerFacts ==
  ASSUME NEW batch \in Seq(SpanType), NEW c, Sums(c, batch)
  PROVE  /\ Len(c) = Len(batch) + 1
         /\ \A k \in 1..c[Len(c)] :
              /\ SequenceOf(c, k) \in 1..Len(batch)
              /\ k - c[SequenceOf(c, k)] \in 1..batch[SequenceOf(c, k)].n
         /\ \A i \in 1..Len(batch), q \in Nat :
              q \in 1..batch[i].n => /\ c[i] + q \in 1..c[Len(c)]
                                     /\ SequenceOf(c, c[i] + q) = i
<1> DEFINE N == Len(batch)
           Owns(i, k) == c[i] < k /\ k <= c[i + 1]
           X == {n \in Nat : n <= N => \A k \in 1..c[n + 1] : \E i \in 1..n : Owns(i, k)}
<1>1. N \in Nat /\ DOMAIN batch = 1..N /\ \A i \in 1..N : batch[i].n \in Nat \ {0}
  BY BatchFacts
<1>2. /\ c \in [1..N + 1 -> Nat] /\ c[1] = 0
      /\ \A i \in 1..N : c[i + 1] = c[i] + batch[i].n
  BY DEF Sums
<1>3. Len(c) = N + 1
  <2>1. c \in Seq(Nat)
    BY <1>1, <1>2
  <2>2. DOMAIN c = 1..Len(c) /\ Len(c) \in Nat
    BY <2>1, LenProperties
  <2> QED
    BY <1>1, <1>2, <2>2
<1>4. 0 \in X
  BY <1>2
<1>5. ASSUME NEW n \in Nat, n \in X
      PROVE  n + 1 \in X
  <2> SUFFICES ASSUME n + 1 <= N, NEW k \in 1..c[n + 1 + 1]
               PROVE  \E i \in 1..n + 1 : Owns(i, k)
    OBVIOUS
  <2>1. n + 1 \in 1..N /\ n <= N
    BY <1>1
  <2>2. c[n + 1] \in Nat /\ c[n + 1 + 1] \in Nat
    <3>1. n + 1 \in 1..N + 1 /\ n + 1 + 1 \in 1..N + 1
      BY <1>1, <2>1
    <3> QED
      BY <1>2, <3>1
  <2>3. CASE k <= c[n + 1]
    <3>1. k \in 1..c[n + 1]
      BY <2>2, <2>3
    <3>2. PICK i \in 1..n : Owns(i, k)
      BY <1>5, <2>1, <3>1
    <3> QED
      BY <3>2
  <2>4. CASE ~(k <= c[n + 1])
    BY <2>2, <2>4
  <2> QED
    BY <2>3, <2>4
<1>6. Nat \subseteq X
  <2> HIDE DEF X
  <2> QED
    BY <1>4, <1>5, InductionOnNaturals
<1>7. \A k \in 1..c[N + 1] : \E i \in 1..N : Owns(i, k)
  <2>1. N \in X
    <3> HIDE DEF X
    <3> QED
      BY <1>1, <1>6
  <2>2. N <= N
    BY <1>1
  <2> HIDE DEF Owns, N
  <2> QED
    BY <2>1, <2>2
<1>8. ASSUME NEW k \in Nat, NEW i \in 1..N, NEW j \in 1..N, Owns(i, k), Owns(j, k), i < j
      PROVE  FALSE
  <2>1. i + 1 \in 1..N + 1 /\ j \in 1..N + 1 /\ i + 1 <= j
    BY <1>1, <1>8
  <2>2. c[i + 1] <= c[j]
    BY <2>1, SumsMonotonic
  <2>3. c[i + 1] \in Nat /\ c[j] \in Nat
    BY <1>2, <2>1
  <2> QED
    BY <1>8, <2>2, <2>3
<1>9. \A k \in Nat, i, j \in 1..N : Owns(i, k) /\ Owns(j, k) => i = j
  <2> SUFFICES ASSUME NEW k \in Nat, NEW i \in 1..N, NEW j \in 1..N, Owns(i, k), Owns(j, k), i # j
               PROVE  FALSE
    OBVIOUS
  <2>1. i < j \/ j < i
    BY <1>1
  <2> HIDE DEF Owns
  <2> QED
    BY <1>8, <2>1
<1>10. \A k \in Nat : \A i \in 1..N : Owns(i, k) => SequenceOf(c, k) = i
  <2> SUFFICES ASSUME NEW k \in Nat, NEW i \in 1..N, Owns(i, k)
               PROVE  SequenceOf(c, k) = i
    OBVIOUS
  <2>1. N + 1 - 1 = N
    BY <1>1
  <2>2. SequenceOf(c, k) = CHOOSE j \in 1..N : Owns(j, k)
    BY <1>3, <2>1 DEF SequenceOf
  <2> HIDE DEF Owns
  <2> QED
    BY <1>9, <2>2
<1>11. ASSUME NEW k \in 1..c[N + 1]
       PROVE  /\ SequenceOf(c, k) \in 1..N
              /\ k - c[SequenceOf(c, k)] \in 1..batch[SequenceOf(c, k)].n
  <2>1. PICK i \in 1..N : Owns(i, k)
    BY <1>7, <1>11
  <2>2. c[N + 1] \in Nat /\ k \in Nat
    <3>1. N + 1 \in 1..N + 1
      BY <1>1
    <3>2. c[N + 1] \in Nat
      BY <1>2, <3>1
    <3> QED
      BY <3>2
  <2>3. SequenceOf(c, k) = i
    BY <1>10, <2>1, <2>2
  <2>4. c[i] \in Nat /\ c[i + 1] = c[i] + batch[i].n /\ batch[i].n \in Nat
    BY <1>1, <1>2
  <2> QED
    BY <2>1, <2>2, <2>3, <2>4
<1>12. ASSUME NEW i \in 1..N, NEW q \in Nat, q \in 1..batch[i].n
       PROVE  /\ c[i] + q \in 1..c[N + 1]
              /\ SequenceOf(c, c[i] + q) = i
  <2>1. c[i] \in Nat /\ c[i + 1] = c[i] + batch[i].n /\ batch[i].n \in Nat /\ c[N + 1] \in Nat
    BY <1>1, <1>2
  <2>2. i + 1 \in 1..N + 1 /\ N + 1 \in 1..N + 1 /\ i + 1 <= N + 1
    BY <1>1
  <2>3. c[i + 1] <= c[N + 1]
    BY <2>2, SumsMonotonic
  <2>4. Owns(i, c[i] + q) /\ c[i] + q \in Nat
    BY <1>12, <2>1
  <2>5. SequenceOf(c, c[i] + q) = i
    BY <1>10, <2>4
  <2>6. c[i] + q >= 1 /\ c[i] + q <= c[N + 1]
    BY <1>12, <2>1, <2>3
  <2> QED
    BY <2>1, <2>4, <2>5, <2>6
<1> QED
  BY <1>3, <1>11, <1>12

\* The rows of the i-th sequence in a packed tensor, and whose row each one is.
LEMMA RaggedFacts ==
  ASSUME NEW batch \in Seq(SpanType), NEW c, Sums(c, batch), NEW each
  PROVE  /\ DOMAIN Ragged(c, each) = 1..c[Len(c)]
         /\ \A k \in 1..c[Len(c)] :
              \E i \in 1..Len(batch) : \E q \in 1..batch[i].n :
                k = c[i] + q /\ Ragged(c, each)[k] = each[i][q]
         /\ \A i \in 1..Len(batch) : \A q \in 1..batch[i].n :
              c[i] + q \in 1..c[Len(c)] /\ Ragged(c, each)[c[i] + q] = each[i][q]
         /\ \A i, j \in 1..Len(batch) : \A q \in 1..batch[i].n, s \in 1..batch[j].n :
              c[i] + q = c[j] + s => i = j /\ q = s
<1>1. /\ Len(batch) \in Nat /\ \A i \in 1..Len(batch) : batch[i].n \in Nat
      /\ c \in [1..Len(batch) + 1 -> Nat]
  BY BatchFacts DEF Sums
<1>2. DOMAIN Ragged(c, each) = 1..c[Len(c)]
  BY DEF Ragged
<1>3. ASSUME NEW i \in 1..Len(batch), NEW q \in 1..batch[i].n
      PROVE  /\ c[i] \in Nat /\ q \in Nat
             /\ c[i] + q \in 1..c[Len(c)] /\ SequenceOf(c, c[i] + q) = i
             /\ Ragged(c, each)[c[i] + q] = each[i][q]
  <2>1. c[i] \in Nat /\ q \in Nat
    BY <1>1
  <2>2. c[i] + q \in 1..c[Len(c)] /\ SequenceOf(c, c[i] + q) = i
    BY <2>1, OwnerFacts
  <2>3. c[i] + q - c[i] = q
    BY <2>1
  <2> QED
    BY <2>1, <2>2, <2>3 DEF Ragged
<1>4. ASSUME NEW k \in 1..c[Len(c)]
      PROVE  \E i \in 1..Len(batch) : \E q \in 1..batch[i].n :
               k = c[i] + q /\ Ragged(c, each)[k] = each[i][q]
  <2>1. PICK i \in 1..Len(batch) : i = SequenceOf(c, k) /\ k - c[i] \in 1..batch[i].n
    BY OwnerFacts
  <2>2. c[i] \in Nat /\ c[Len(c)] \in Int
    <3>1. Len(c) = Len(batch) + 1
      BY OwnerFacts
    <3> QED
      BY <1>1, <3>1
  <2>3. k = c[i] + (k - c[i])
    BY <2>2
  <2>4. Ragged(c, each)[k] = each[i][k - c[i]]
    BY <2>1 DEF Ragged
  <2> QED
    BY <2>1, <2>3, <2>4
<1>5. ASSUME NEW i \in 1..Len(batch), NEW j \in 1..Len(batch),
             NEW q \in 1..batch[i].n, NEW s \in 1..batch[j].n, c[i] + q = c[j] + s
      PROVE  i = j /\ q = s
  <2>1. i = j
    BY <1>3, <1>5
  <2>2. c[i] \in Nat /\ q \in Nat /\ s \in Nat
    BY <1>3, <2>1
  <2> QED
    BY <1>5, <2>1, <2>2
<1> QED
  BY <1>2, <1>3, <1>4, <1>5

\* The elements of a mask are its first, second, ... and each has a rank.
Rank(mask, i) == Cardinality({k \in mask : k <= i})

\* The j-th index of a mask: it is in the mask, unique, and the ranks are in
\* order.
LEMMA RankFacts ==
  ASSUME NEW mask \in SUBSET Nat, IsFiniteSet(mask)
  PROVE  /\ \A i \in mask : Rank(mask, i) \in 1..Cardinality(mask)
         /\ \A i \in mask : Nth(mask, Rank(mask, i)) = i
         /\ \A j \in 1..Cardinality(mask) : Nth(mask, j) \in mask /\ Rank(mask, Nth(mask, j)) = j
         /\ Cardinality(mask) \in Nat
<1> DEFINE U(i) == {k \in mask : k <= i}
           n == Cardinality(mask)
           f == [i \in mask |-> Rank(mask, i)]
<1>1. n \in Nat
  BY FS_CardinalityType
<1>2. ASSUME NEW i \in mask
      PROVE  IsFiniteSet(U(i)) /\ Rank(mask, i) \in 1..n
  <2>1. U(i) \in SUBSET mask
    OBVIOUS
  <2>2. IsFiniteSet(U(i)) /\ Cardinality(U(i)) <= n /\ Cardinality(U(i)) \in Nat
    BY <2>1, FS_Subset, FS_CardinalityType
  <2>3. i \in U(i)
    OBVIOUS
  <2>4. Cardinality(U(i)) # 0
    BY <2>2, <2>3, FS_EmptySet
  <2> HIDE DEF U
  <2> QED
    BY <1>1, <2>2, <2>4 DEF Rank, U
<1>3. ASSUME NEW i \in mask, NEW j \in mask, i < j
      PROVE  Rank(mask, i) # Rank(mask, j)
  <2>1. i \in Nat /\ j \in Nat /\ \A k \in mask : k \in Nat
    OBVIOUS
  <2>2. ASSUME NEW k \in U(i) PROVE k \in U(j)
    BY <1>3, <2>1, <2>2
  <2>3. j \in U(j) /\ j \notin U(i)
    BY <1>3, <2>1
  <2>4. IsFiniteSet(U(j))
    BY <1>2
  <2> HIDE DEF U
  <2>5. U(i) \in SUBSET U(j) /\ U(i) # U(j)
    BY <2>2, <2>3
  <2>6. Cardinality(U(i)) # Cardinality(U(j))
    BY <2>4, <2>5, FS_Subset
  <2> QED
    BY <2>6 DEF Rank, U
<1>4. \A i, j \in mask : Rank(mask, i) = Rank(mask, j) => i = j
  <2> SUFFICES ASSUME NEW i \in mask, NEW j \in mask, i # j
               PROVE  Rank(mask, i) # Rank(mask, j)
    OBVIOUS
  <2>1. i < j \/ j < i
    OBVIOUS
  <2> QED
    BY <1>3, <2>1
<1>5. \A i \in mask : Nth(mask, Rank(mask, i)) = i
  <2> SUFFICES ASSUME NEW i \in mask
               PROVE  Nth(mask, Rank(mask, i)) = i
    OBVIOUS
  <2>1. Nth(mask, Rank(mask, i)) = CHOOSE j \in mask : Rank(mask, j) = Rank(mask, i)
    BY DEF Nth, Rank
  <2> QED
    BY <1>4, <2>1
<1>6. f \in [mask -> 1..n]
  BY <1>2
<1>7. f \in Injection(mask, 1..n)
  BY <1>4, <1>6 DEF Injection, IsInjective
<1>8. IsFiniteSet(1..n) /\ Cardinality(1..n) = n
  BY <1>1, FS_Interval
<1>9. f \in Surjection(mask, 1..n)
  BY <1>7, <1>8, FS_Injection
<1>10. ASSUME NEW j \in 1..n
       PROVE  Nth(mask, j) \in mask /\ Rank(mask, Nth(mask, j)) = j
  <2>1. PICK i \in mask : f[i] = j
    BY <1>9 DEF Surjection
  <2>2. Rank(mask, i) = j
    BY <2>1
  <2>3. Nth(mask, j) = i
    BY <1>5, <2>2
  <2> QED
    BY <2>2, <2>3
<1> QED
  BY <1>1, <1>2, <1>5, <1>10

(***************************************************************************)
(* Slots.                                                                  *)
(***************************************************************************)
LEMMA SlotFacts ==
  ASSUME NEW t \in Seq(Pages), NEW n \in Nat, NumPages(n) <= Len(t), NEW p \in 0..n - 1
  PROVE  /\ p \in Nat /\ p \div BlockSize + 1 \in 1..Len(t)
         /\ t[p \div BlockSize + 1] \in Pages
         /\ p % BlockSize \in 0..BlockSize - 1
         /\ Slot(t, p) \in Pages \X (0..BlockSize - 1)
<1>1. p \in Nat
  OBVIOUS
<1>2. p \div BlockSize + 1 \in 1..NumPages(n) /\ NumPages(n) \in Nat
  BY InPages, PagesFor
<1>3. Len(t) \in Nat
  BY LenProperties
<1>4. p \div BlockSize + 1 \in 1..Len(t)
  BY <1>2, <1>3
<1>5. t[p \div BlockSize + 1] \in Pages
  BY <1>4, ElementOfSeq
<1>6. p % BlockSize \in 0..BlockSize - 1
  BY <1>1, PageOf
<1> QED
  BY <1>1, <1>4, <1>5, <1>6 DEF Slot

\* Two positions of one table have different slots.
LEMMA SlotsDiffer ==
  ASSUME NEW t, Unshared(t), NEW n \in Nat, NumPages(n) <= Len(t),
         NEW p \in 0..n - 1, NEW q \in 0..n - 1, Slot(t, p) = Slot(t, q)
  PROVE  p = q
<1>1. t \in Seq(Pages)
  BY DEF Unshared
<1>2. /\ p \div BlockSize + 1 \in 1..Len(t) /\ q \div BlockSize + 1 \in 1..Len(t)
      /\ p \in Nat /\ q \in Nat
  BY <1>1, SlotFacts
<1>3. t[p \div BlockSize + 1] = t[q \div BlockSize + 1] /\ p % BlockSize = q % BlockSize
  BY DEF Slot
<1>4. p \div BlockSize + 1 = q \div BlockSize + 1
  BY <1>2, <1>3 DEF Unshared
<1>5. p \div BlockSize \in Nat /\ q \div BlockSize \in Nat
  BY <1>2, PageOf
<1>6. p \div BlockSize = q \div BlockSize
  BY <1>4, <1>5
<1> QED
  BY <1>2, <1>3, <1>6, PageOf

\* Slots of tables without a common page are different.
LEMMA SlotsApart ==
  ASSUME NEW t \in Seq(Pages), NEW u \in Seq(Pages), Apart(t, u),
         NEW n \in Nat, NumPages(n) <= Len(t), NEW m \in Nat, NumPages(m) <= Len(u),
         NEW p \in 0..n - 1, NEW q \in 0..m - 1
  PROVE  Slot(t, p) # Slot(u, q)
<1>1. p \div BlockSize + 1 \in 1..Len(t) /\ q \div BlockSize + 1 \in 1..Len(u)
  BY SlotFacts
<1> QED
  BY <1>1 DEF Slot, Apart

\* The maximum of a single number.
LEMMA MaxSingleton ==
  ASSUME NEW i \in Nat
  PROVE  Max({i}) = i
BY DEF Max

\* A store leaves every other slot alone.
LEMMA StoreElsewhere ==
  ASSUME NEW kv, NEW slots, NEW entries, NEW b \in Pages, NEW o \in 0..BlockSize - 1,
         \A k \in DOMAIN slots : slots[k] # <<b, o>>
  PROVE  Store(kv, slots, entries)[b][o] = kv[b][o]
BY DEF Store

\* A store to distinct slots puts the k-th entry in the k-th slot and leaves
\* every other slot alone.
LEMMA StoreFacts ==
  ASSUME NEW kv \in PoolType, NEW slots, NEW entries, NEW K \in SUBSET Nat, DOMAIN slots = K,
         \A k \in K : entries[k] \in Entry \union {Blank},
         \A j, k \in K : slots[j] = slots[k] => j = k
  PROVE  /\ Store(kv, slots, entries) \in PoolType
         /\ \A k \in K, b \in Pages, o \in 0..BlockSize - 1 :
              slots[k] = <<b, o>> => Store(kv, slots, entries)[b][o] = entries[k]
         /\ \A b \in Pages, o \in 0..BlockSize - 1 :
              (\A k \in K : slots[k] # <<b, o>>) => Store(kv, slots, entries)[b][o] = kv[b][o]
<1> DEFINE after == Store(kv, slots, entries)
<1>1. ASSUME NEW b \in Pages, NEW o \in 0..BlockSize - 1
      PROVE  /\ \A k \in K : slots[k] = <<b, o>> => after[b][o] = entries[k]
             /\ (\A k \in K : slots[k] # <<b, o>>) => after[b][o] = kv[b][o]
  <2> DEFINE here == {k \in K : slots[k] = <<b, o>>}
  <2>1. after[b][o] = IF here = {} THEN kv[b][o] ELSE entries[Max(here)]
    BY DEF Store
  <2> HIDE DEF after
  <2>2. ASSUME NEW k \in K, slots[k] = <<b, o>>
        PROVE  after[b][o] = entries[k]
    <3>1. here = {k}
      BY <2>2
    <3>3. {k} # {} /\ k \in Nat
      OBVIOUS
    <3> HIDE DEF here
    <3>2. Max({k}) = k
      BY <3>3, MaxSingleton
    <3> QED
      BY <2>1, <3>1, <3>2, <3>3
  <2>3. ASSUME \A k \in K : slots[k] # <<b, o>>
        PROVE  after[b][o] = kv[b][o]
    <3>1. here = {}
      BY <2>3
    <3> HIDE DEF here
    <3> QED
      BY <2>1, <3>1
  <2> QED
    BY <2>2, <2>3
<1>2. after = [b \in Pages |-> [o \in 0..BlockSize - 1 |-> after[b][o]]]
  BY DEF Store
<1> HIDE DEF after
<1>3. ASSUME NEW b \in Pages, NEW o \in 0..BlockSize - 1
      PROVE  after[b][o] \in Entry \union {Blank}
  <2>1. kv[b] \in [0..BlockSize - 1 -> Entry \union {Blank}]
    BY DEF PoolType, Pages
  <2>2. kv[b][o] \in Entry \union {Blank}
    BY <2>1
  <2>3. CASE \E k \in K : slots[k] = <<b, o>>
    BY <1>1, <2>3
  <2>4. CASE ~ \E k \in K : slots[k] = <<b, o>>
    BY <1>1, <2>2, <2>4
  <2> QED
    BY <2>3, <2>4
<1>4. after \in PoolType
  <2>1. after \in [Pages -> [0..BlockSize - 1 -> Entry \union {Blank}]]
    BY <1>2, <1>3
  <2> QED
    BY <2>1 DEF PoolType, Pages
<1> QED
  BY <1>1, <1>4 DEF after

(***************************************************************************)
(* A batch, and what a store of its entries leaves in the pool.            *)
(***************************************************************************)
Spot(s, q) == Slot(s.table, Start(s) + q - 1)
EntryAt(s, q) == <<s.r, Start(s) + q - 1, weights>>

\* Spans of different requests, each with a table for its entries that it
\* shares with no other.
Batch(batch) ==
  /\ batch \in Seq(SpanType)
  /\ weights \in Nat
  /\ \A i, j \in 1..Len(batch) : batch[i].r = batch[j].r => i = j
  /\ \A i \in 1..Len(batch) : /\ Start(batch[i]) \in Nat /\ Length(batch[i].r) \in Nat
                              /\ Unshared(batch[i].table)
                              /\ Len(batch[i].table) = NumPages(End(batch[i]))
  /\ \A i, j \in 1..Len(batch) : i # j => Apart(batch[i].table, batch[j].table)

\* What the requests of the batch have computed before is in the pool.
Cached(kv, batch) ==
  /\ kv \in PoolType
  /\ \A i \in 1..Len(batch) : Holds(kv, batch[i].table, batch[i].r, Start(batch[i]))

Elsewhere(after, kv, batch) ==
  \A b \in Pages :
    (\A i \in 1..Len(batch) : \A p \in 1..Len(batch[i].table) : batch[i].table[p] # b)
      => \A o \in 0..BlockSize - 1 : after[b][o] = kv[b][o]

\* After an append the pool holds the spans too, and nothing else changed.
Appended(after, kv, batch) ==
  /\ after \in PoolType
  /\ \A i \in 1..Len(batch) : Holds(after, batch[i].table, batch[i].r, End(batch[i]))
  /\ Elsewhere(after, kv, batch)

\* A span starts at what is computed and ends on a page of its table.
LEMMA SpanFacts ==
  ASSUME NEW batch, Batch(batch), NEW i \in 1..Len(batch)
  PROVE  /\ batch[i].r \in Requests /\ batch[i].n \in Nat \ {0}
         /\ batch[i].table \in Seq(Pages)
         /\ Start(batch[i]) \in Nat /\ End(batch[i]) \in Nat \ {0}
         /\ End(batch[i]) = Start(batch[i]) + batch[i].n
         /\ NumPages(End(batch[i])) <= Len(batch[i].table)
         /\ Len(batch[i].table) \in Nat
<1>1. batch \in Seq(SpanType) /\ Start(batch[i]) \in Nat /\ Len(batch[i].table) = NumPages(End(batch[i]))
  BY DEF Batch
<1>2. /\ batch[i].r \in Requests /\ batch[i].n \in Nat \ {0}
      /\ batch[i].table \in Seq(Pages)
  BY <1>1, BatchFacts
<1>3. End(batch[i]) = Start(batch[i]) + batch[i].n
  BY DEF Start, End
<1>4. End(batch[i]) \in Nat \ {0}
  BY <1>1, <1>2, <1>3
<1>5. NumPages(End(batch[i])) \in Nat
  BY <1>4, PagesFor
<1> QED
  BY <1>1, <1>2, <1>3, <1>4, <1>5

\* Where the q-th token of a span goes, and what goes there.
LEMMA SpotFacts ==
  ASSUME NEW batch, Batch(batch), NEW i \in 1..Len(batch), NEW q \in 1..batch[i].n
  PROVE  /\ Start(batch[i]) + q - 1 \in 0..End(batch[i]) - 1
         /\ Spot(batch[i], q) \in Pages \X (0..BlockSize - 1)
         /\ EntryAt(batch[i], q) \in Entry
<1> DEFINE s == batch[i]
           p == Start(s) + q - 1
<1>1. /\ s.r \in Requests /\ s.n \in Nat \ {0} /\ s.table \in Seq(Pages) /\ Start(s) \in Nat
      /\ End(s) \in Nat \ {0} /\ End(s) = Start(s) + s.n /\ NumPages(End(s)) <= Len(s.table)
  BY SpanFacts
<1>2. q \in 1..s.n
  OBVIOUS
<1> HIDE DEF s
<1>3. p \in 0..End(s) - 1 /\ p \in Nat
  BY <1>1, <1>2
<1>4. Slot(s.table, p) \in Pages \X (0..BlockSize - 1) /\ p \div BlockSize + 1 \in 1..Len(s.table)
  BY <1>1, <1>3, SlotFacts
<1>5. weights \in Nat
  BY DEF Batch
<1>6. <<s.r, p, weights>> \in Entry
  BY <1>1, <1>3, <1>5 DEF Entry
<1> QED
  BY <1>3, <1>4, <1>6 DEF Spot, EntryAt, s

\* The page of a packed row is one of the table of its sequence.
LEMMA SpotPage ==
  ASSUME NEW batch, Batch(batch), NEW i \in 1..Len(batch), NEW q \in 1..batch[i].n
  PROVE  \E p \in 1..Len(batch[i].table) : Spot(batch[i], q)[1] = batch[i].table[p]
<1> DEFINE s == batch[i]
           p == Start(s) + q - 1
<1>1. p \in 0..End(s) - 1
  BY SpotFacts
<1>2. s.table \in Seq(Pages) /\ End(s) \in Nat /\ NumPages(End(s)) <= Len(s.table)
  BY SpanFacts
<1>3. Spot(s, q) = Slot(s.table, p)
  BY DEF Spot
<1> HIDE DEF s, p
<1>4. p \div BlockSize + 1 \in 1..Len(s.table)
  BY <1>1, <1>2, SlotFacts
<1>5. Slot(s.table, p)[1] = s.table[p \div BlockSize + 1]
  BY DEF Slot
<1> QED
  BY <1>3, <1>4, <1>5 DEF s

\* Two packed rows have different slots.
LEMMA SpotsDiffer ==
  ASSUME NEW batch, Batch(batch), NEW i \in 1..Len(batch), NEW j \in 1..Len(batch),
         NEW q \in 1..batch[i].n, NEW m \in 1..batch[j].n,
         Spot(batch[i], q) = Spot(batch[j], m)
  PROVE  i = j /\ q = m
<1> DEFINE p == Start(batch[i]) + q - 1
           o == Start(batch[j]) + m - 1
<1>1. p \in 0..End(batch[i]) - 1 /\ o \in 0..End(batch[j]) - 1
  BY SpotFacts
<1>2. /\ batch[i].table \in Seq(Pages) /\ NumPages(End(batch[i])) <= Len(batch[i].table)
      /\ End(batch[i]) \in Nat /\ Start(batch[i]) \in Nat
  BY SpanFacts
<1>3. /\ batch[j].table \in Seq(Pages) /\ NumPages(End(batch[j])) <= Len(batch[j].table)
      /\ End(batch[j]) \in Nat /\ Start(batch[j]) \in Nat
  BY SpanFacts
<1>4. Slot(batch[i].table, p) = Slot(batch[j].table, o)
  BY DEF Spot
<1>5. i = j
  <2> SUFFICES ASSUME i # j
               PROVE  FALSE
    OBVIOUS
  <2>1. Apart(batch[i].table, batch[j].table)
    BY DEF Batch
  <2> HIDE DEF p, o
  <2> QED
    BY <1>1, <1>2, <1>3, <1>4, <2>1, SlotsApart
<1>6. p = o
  <2>1. Unshared(batch[i].table)
    BY DEF Batch
  <2> HIDE DEF p, o
  <2> QED
    BY <1>1, <1>2, <1>4, <1>5, <2>1, SlotsDiffer
<1>7. batch[i].n \in Nat /\ batch[j].n \in Nat
  BY SpanFacts
<1>8. q \in Nat /\ m \in Nat
  BY <1>7
<1> QED
  BY <1>2, <1>5, <1>6, <1>8

\* Slots and entries that are those of the batch, each once.
Placed(slots, entries, K, batch) ==
  /\ DOMAIN slots = K
  /\ \A k \in K : \E i \in 1..Len(batch) : \E q \in 1..batch[i].n :
       slots[k] = Spot(batch[i], q) /\ entries[k] = EntryAt(batch[i], q)
  /\ \A i \in 1..Len(batch) : \A q \in 1..batch[i].n : \E k \in K :
       slots[k] = Spot(batch[i], q) /\ entries[k] = EntryAt(batch[i], q)
  /\ \A j, k \in K : slots[j] = slots[k] => j = k

\* A store of a packed batch puts every entry where its request will look for
\* it.
LEMMA AppendPlaced ==
  ASSUME NEW batch, Batch(batch), NEW kv, Cached(kv, batch),
         NEW slots, NEW entries, NEW K \in SUBSET Nat, Placed(slots, entries, K, batch)
  PROVE  Appended(Store(kv, slots, entries), kv, batch)
<1> DEFINE after == Store(kv, slots, entries)
<1>10. DOMAIN slots = K /\ \A j, k \in K : slots[j] = slots[k] => j = k
  BY DEF Placed
<1>11. \A k \in K : \E i \in 1..Len(batch) : \E q \in 1..batch[i].n :
         slots[k] = Spot(batch[i], q) /\ entries[k] = EntryAt(batch[i], q)
  BY DEF Placed
<1>12. \A i \in 1..Len(batch) : \A q \in 1..batch[i].n : \E k \in K :
         slots[k] = Spot(batch[i], q) /\ entries[k] = EntryAt(batch[i], q)
  BY DEF Placed
<1>1. kv \in PoolType
  BY DEF Cached
<1>2. \A k \in K : entries[k] \in Entry \union {Blank}
  <2> SUFFICES ASSUME NEW k \in K
               PROVE  entries[k] \in Entry
    OBVIOUS
  <2>1. PICK i \in 1..Len(batch) : \E q \in 1..batch[i].n : entries[k] = EntryAt(batch[i], q)
    BY <1>11
  <2>2. PICK q \in 1..batch[i].n : entries[k] = EntryAt(batch[i], q)
    BY <2>1
  <2> QED
    BY <2>2, SpotFacts
<1>3. /\ after \in PoolType
      /\ \A k \in K, b \in Pages, o \in 0..BlockSize - 1 :
           slots[k] = <<b, o>> => after[b][o] = entries[k]
      /\ \A b \in Pages, o \in 0..BlockSize - 1 :
           (\A k \in K : slots[k] # <<b, o>>) => after[b][o] = kv[b][o]
  <2>1. Store(kv, slots, entries) \in PoolType
    BY <1>1, <1>2, <1>10, StoreFacts
  <2>2. \A k \in K, b \in Pages, o \in 0..BlockSize - 1 :
          slots[k] = <<b, o>> => Store(kv, slots, entries)[b][o] = entries[k]
    BY <1>1, <1>2, <1>10, StoreFacts
  <2>3. \A b \in Pages, o \in 0..BlockSize - 1 :
          (\A k \in K : slots[k] # <<b, o>>) => Store(kv, slots, entries)[b][o] = kv[b][o]
    <3> SUFFICES ASSUME NEW b \in Pages, NEW o \in 0..BlockSize - 1,
                        \A k \in K : slots[k] # <<b, o>>
                 PROVE  Store(kv, slots, entries)[b][o] = kv[b][o]
      OBVIOUS
    <3>1. \A k \in DOMAIN slots : slots[k] # <<b, o>>
      BY <1>10
    <3> QED
      BY <3>1, StoreElsewhere
  <2> QED
    BY <2>1, <2>2, <2>3
<1> HIDE DEF after
<1>4. ASSUME NEW i \in 1..Len(batch), NEW p \in 0..End(batch[i]) - 1
      PROVE  At(after, Slot(batch[i].table, p)) = <<batch[i].r, p, weights>>
  <2> DEFINE t == batch[i].table
  <2>1. /\ t \in Seq(Pages) /\ End(batch[i]) \in Nat /\ NumPages(End(batch[i])) <= Len(t)
        /\ Start(batch[i]) \in Nat /\ End(batch[i]) = Start(batch[i]) + batch[i].n
        /\ batch[i].n \in Nat
    BY SpanFacts
  <2>2. PICK b \in Pages, o \in 0..BlockSize - 1 : Slot(t, p) = <<b, o>>
    <3> HIDE DEF t
    <3>1. Slot(t, p) \in Pages \X (0..BlockSize - 1)
      BY <1>4, <2>1, SlotFacts
    <3> QED
      BY <3>1
  <2>3. \A x : At(x, Slot(t, p)) = x[b][o]
    BY <2>2 DEF At
  <2>4. p \in Nat
    BY <2>1
  <2>5. CASE p < Start(batch[i])
    <3>1. ASSUME NEW k \in K
          PROVE  slots[k] # <<b, o>>
      <4>1. PICK j \in 1..Len(batch) : \E q \in 1..batch[j].n : slots[k] = Spot(batch[j], q)
        BY <1>11
      <4>2. PICK q \in 1..batch[j].n : slots[k] = Spot(batch[j], q)
        BY <4>1
      <4> DEFINE e == Start(batch[j]) + q - 1
      <4>3. e \in 0..End(batch[j]) - 1
        BY SpotFacts
      <4>4. /\ batch[j].table \in Seq(Pages) /\ NumPages(End(batch[j])) <= Len(batch[j].table)
            /\ End(batch[j]) \in Nat /\ Start(batch[j]) \in Nat /\ batch[j].n \in Nat
        BY SpanFacts
      <4>5. e >= Start(batch[j])
        BY <4>4
      <4>6. Spot(batch[j], q) = Slot(batch[j].table, e)
        BY DEF Spot
      <4> HIDE DEF e
      <4>7. CASE i = j
        <5>1. p # e
          BY <2>1, <2>4, <2>5, <4>5, <4>7
        <5>2. Unshared(t)
          BY DEF Batch
        <5>3. Slot(t, p) # Slot(t, e)
          BY <2>1, <4>3, <4>7, <5>1, <5>2, SlotsDiffer
        <5> QED
          BY <2>2, <4>2, <4>6, <4>7, <5>3
      <4>8. CASE i # j
        <5>1. Apart(t, batch[j].table)
          BY <4>8 DEF Batch
        <5> HIDE DEF t
        <5>2. Slot(t, p) # Slot(batch[j].table, e)
          BY <2>1, <4>3, <4>4, <5>1, SlotsApart, SMTT(60)
        <5> QED
          BY <2>2, <4>2, <4>6, <5>2
      <4> QED
        BY <4>7, <4>8
    <3>2. after[b][o] = kv[b][o]
      BY <1>3, <3>1
    <3>3. p \in 0..Start(batch[i]) - 1
      BY <2>1, <2>4, <2>5
    <3>4. At(kv, Slot(t, p)) = <<batch[i].r, p, weights>>
      BY <3>3 DEF Cached, Holds
    <3> QED
      BY <2>3, <3>2, <3>4
  <2>6. CASE ~(p < Start(batch[i]))
    <3>1. PICK q \in 1..batch[i].n : q = p - Start(batch[i]) + 1
      BY <2>1, <2>4, <2>6
    <3>2. Start(batch[i]) + q - 1 = p
      BY <2>1, <2>4, <3>1
    <3>3. Spot(batch[i], q) = <<b, o>> /\ EntryAt(batch[i], q) = <<batch[i].r, p, weights>>
      BY <2>2, <3>2 DEF Spot, EntryAt
    <3>4. PICK k \in K : slots[k] = Spot(batch[i], q) /\ entries[k] = EntryAt(batch[i], q)
      BY <1>12
    <3>5. after[b][o] = entries[k]
      BY <1>3, <3>3, <3>4
    <3> QED
      BY <2>3, <3>3, <3>4, <3>5
  <2> QED
    BY <2>5, <2>6
<1>5. ASSUME NEW b \in Pages,
             \A i \in 1..Len(batch) : \A p \in 1..Len(batch[i].table) : batch[i].table[p] # b,
             NEW o \in 0..BlockSize - 1
      PROVE  after[b][o] = kv[b][o]
  <2>1. ASSUME NEW k \in K
        PROVE  slots[k] # <<b, o>>
    <3>1. PICK i \in 1..Len(batch) : \E q \in 1..batch[i].n : slots[k] = Spot(batch[i], q)
      BY <1>11
    <3>2. PICK q \in 1..batch[i].n : slots[k] = Spot(batch[i], q)
      BY <3>1
    <3>3. PICK p \in 1..Len(batch[i].table) : Spot(batch[i], q)[1] = batch[i].table[p]
      BY SpotPage
    <3> QED
      BY <1>5, <3>2, <3>3
  <2> QED
    BY <1>3, <2>1
<1> QED
  BY <1>3, <1>4, <1>5 DEF Appended, Holds, Elsewhere, after

(***************************************************************************)
(* What is gathered from the pages.                                        *)
(***************************************************************************)
Own(r, n) == [j \in 1..n |-> <<r, j - 1, weights>>]

\* A gather over pages that hold a request's entries returns them in order.
LEMMA GatherOwn ==
  ASSUME NEW kv, NEW t, NEW r, NEW n \in Nat, Holds(kv, t, r, n)
  PROVE  Gather(kv, t, n) = Own(r, n)
<1>1. ASSUME NEW j \in 1..n
      PROVE  kv[t[((j - 1) \div BlockSize) + 1]][(j - 1) % BlockSize] = <<r, j - 1, weights>>
  <2>1. j - 1 \in 0..n - 1
    OBVIOUS
  <2>2. At(kv, Slot(t, j - 1)) = <<r, j - 1, weights>>
    BY <2>1 DEF Holds
  <2> QED
    BY <2>2 DEF At, Slot
<1> QED
  BY <1>1 DEF Gather, Own

\* A gather reads no further than the pages of what it gathers.
LEMMA GatherSame ==
  ASSUME NEW kv, NEW t, NEW u, NEW n \in Nat, \A p \in 1..NumPages(n) : u[p] = t[p]
  PROVE  Gather(kv, u, n) = Gather(kv, t, n)
<1>1. ASSUME NEW j \in 1..n
      PROVE  u[((j - 1) \div BlockSize) + 1] = t[((j - 1) \div BlockSize) + 1]
  <2>1. j - 1 \in 0..n - 1
    OBVIOUS
  <2>2. (j - 1) \div BlockSize + 1 \in 1..NumPages(n)
    BY <2>1, InPages
  <2> QED
    BY <2>2
<1> QED
  BY <1>1 DEF Gather

\* A plan made for a table says the same as the table.
LEMMA PlanSame ==
  ASSUME NEW kv, NEW plan, NEW i, NEW t \in Seq(Pages), NEW n \in Nat \ {0}, NumPages(n) <= Len(t),
         plan.pages[i] = SubSeq(t, 1, NumPages(n)), plan.last[i] = LastPageLen(n)
  PROVE  PlannedContext(kv, plan, i) = Gather(kv, t, n)
<1> DEFINE u == SubSeq(t, 1, NumPages(n))
<1>1. NumPages(n) \in Nat /\ Len(t) \in Nat
  BY PagesFor, LenProperties
<1>2. Len(u) = NumPages(n) /\ \A p \in 1..NumPages(n) : u[p] = t[p]
  <2>1. \A p \in 1..NumPages(n) : p \in 1..Len(t)
    BY <1>1
  <2>2. u = [p \in 1..NumPages(n) |-> t[p]]
    BY <1>1, <2>1
  <2> QED
    BY <1>1, <2>2
<1>3. (NumPages(n) - 1) * BlockSize + LastPageLen(n) = n
  BY LastPage
<1> HIDE DEF u
<1>4. Gather(kv, u, n) = Gather(kv, t, n)
  BY <1>2, GatherSame
<1>5. PlannedContext(kv, plan, i) = Gather(kv, u, n)
  BY <1>2, <1>3 DEF PlannedContext, u
<1> QED
  BY <1>4, <1>5

\* A query attends the entries up to its own.
LEMMA OwnPrefix ==
  ASSUME NEW batch, Batch(batch), NEW i \in 1..Len(batch), NEW q \in 1..batch[i].n
  PROVE  SubSeq(Own(batch[i].r, End(batch[i])), 1, CausalAllowed(batch[i].n, End(batch[i]), q))
           = OwnContext(EntryAt(batch[i], q))
<1> DEFINE r == batch[i].r
           e == End(batch[i])
           m == Start(batch[i]) + q
<1>1. /\ Start(batch[i]) \in Nat /\ batch[i].n \in Nat /\ e \in Nat
      /\ e = Start(batch[i]) + batch[i].n
  BY SpanFacts
<1>2. q \in 1..batch[i].n
  OBVIOUS
<1>3. CausalAllowed(batch[i].n, e, q) = m /\ m \in Nat /\ m <= e
  BY <1>1, <1>2 DEF CausalAllowed
<1>4. OwnContext(EntryAt(batch[i], q)) = Own(r, m)
  <2>1. /\ EntryAt(batch[i], q)[1] = r /\ EntryAt(batch[i], q)[2] = m - 1
        /\ EntryAt(batch[i], q)[3] = weights
    BY <1>1, <1>2 DEF EntryAt
  <2>2. m - 1 + 1 = m
    BY <1>3
  <2> HIDE DEF m, r
  <2> QED
    BY <2>1, <2>2 DEF OwnContext, Own
<1> HIDE DEF r, e, m
<1>5. SubSeq(Own(r, e), 1, m) = Own(r, m)
  <2> DEFINE S == {<<r, j - 1, weights>> : j \in 1..e}
  <2>1. Own(r, e) \in Seq(S) /\ Len(Own(r, e)) = e
    <3>1. \A j \in 1..e : <<r, j - 1, weights>> \in S
      OBVIOUS
    <3> HIDE DEF S
    <3>2. Own(r, e) \in [1..e -> S]
      BY <3>1 DEF Own
    <3>3. e \in Nat
      BY <1>1
    <3> DEFINE own == Own(r, e)
    <3>4. own \in [1..e -> S]
      BY <3>2
    <3> HIDE DEF own
    <3>5. own \in Seq(S) /\ Len(own) = e
      BY <3>3, <3>4
    <3> QED
      BY <3>5 DEF own
  <2> HIDE DEF S
  <2>2. \A j \in 1..m : j \in 1..e
    BY <1>1, <1>3
  <2>3. SubSeq(Own(r, e), 1, m) = [j \in 1..m |-> Own(r, e)[j]]
    BY <1>1, <1>3, <2>1
  <2>4. \A j \in 1..m : Own(r, e)[j] = <<r, j - 1, weights>>
    BY <2>2 DEF Own
  <2> QED
    BY <2>3, <2>4 DEF Own
<1> QED
  BY <1>3, <1>4, <1>5 DEF r, e

(***************************************************************************)
(* Eager forwards.                                                         *)
(***************************************************************************)
Reads(reads) == \A read \in reads : read[2] = OwnContext(read[1])

\* Each request whose span reaches its last token gets the one sampled there.
TokensOf(tokens, batch) ==
  \A i \in 1..Len(batch) :
    tokens[i] = IF End(batch[i]) >= Length(batch[i].r)
                THEN <<batch[i].r, End(batch[i]) - 1, weights>> ELSE NoToken

\* A forward of the batch, from a pool with what was computed before.
Done(f, kv, batch) == Appended(f.pool, kv, batch) /\ Reads(f.reads) /\ TokensOf(f.tokens, batch)

\* The packed tensors of a batch, row by row.
Packed(packed, batch) ==
  /\ Sums(packed.cu, batch)
  /\ DOMAIN packed.slots = 1..packed.cu[Len(packed.cu)]
  /\ \A k \in 1..packed.cu[Len(packed.cu)] : \E i \in 1..Len(batch) : \E q \in 1..batch[i].n :
       /\ k = packed.cu[i] + q
       /\ packed.slots[k] = Spot(batch[i], q) /\ packed.entries[k] = EntryAt(batch[i], q)
  /\ \A i \in 1..Len(batch) : \A q \in 1..batch[i].n :
       /\ packed.cu[i] + q \in 1..packed.cu[Len(packed.cu)]
       /\ packed.slots[packed.cu[i] + q] = Spot(batch[i], q)
       /\ packed.entries[packed.cu[i] + q] = EntryAt(batch[i], q)
  /\ packed.tables = [i \in 1..Len(batch) |-> batch[i].table]
  /\ packed.kvLens = [i \in 1..Len(batch) |-> End(batch[i])]
  /\ packed.sample = [i \in 1..Len(batch) |-> End(batch[i]) >= Length(batch[i].r)]

\* What a packed batch has: tables, lengths, sampling flags, the last row of a
\* sequence.
LEMMA PackFacts ==
  ASSUME NEW batch, Batch(batch), NEW packed, packed = PackPaged(batch)
  PROVE  Packed(packed, batch)
<1> DEFINE c == CuSeqlens(batch)
           ents == [i \in 1..Len(batch) |-> Entries(batch[i])]
           slots == [i \in 1..Len(batch) |-> SlotMapping(batch[i])]
<1>1. batch \in Seq(SpanType)
  BY DEF Batch
<1>2. Sums(c, batch)
  BY <1>1, CuFacts
<1>3. /\ packed.cu = c /\ packed.entries = Ragged(c, ents) /\ packed.slots = Ragged(c, slots)
      /\ packed.tables = [i \in 1..Len(batch) |-> batch[i].table]
      /\ packed.kvLens = [i \in 1..Len(batch) |-> End(batch[i])]
      /\ packed.sample = [i \in 1..Len(batch) |-> End(batch[i]) >= Length(batch[i].r)]
  BY DEF PackPaged
<1>4. \A i \in 1..Len(batch) : \A q \in 1..batch[i].n :
        ents[i][q] = EntryAt(batch[i], q) /\ slots[i][q] = Spot(batch[i], q)
  BY DEF Entries, SlotMapping, EntryAt, Spot, Slot
<1> HIDE DEF c, ents, slots
<1>5. DOMAIN Ragged(c, slots) = 1..c[Len(c)]
  BY <1>1, <1>2, RaggedFacts
<1>6. ASSUME NEW k \in 1..c[Len(c)]
      PROVE  \E i \in 1..Len(batch) : \E q \in 1..batch[i].n :
               /\ k = c[i] + q
               /\ Ragged(c, slots)[k] = Spot(batch[i], q) /\ Ragged(c, ents)[k] = EntryAt(batch[i], q)
  <2>1. PICK i \in 1..Len(batch) : \E q \in 1..batch[i].n : k = c[i] + q
    BY <1>1, <1>2, <1>6, RaggedFacts
  <2>2. PICK q \in 1..batch[i].n : k = c[i] + q
    BY <2>1
  <2>3. /\ Ragged(c, slots)[c[i] + q] = slots[i][q]
        /\ Ragged(c, ents)[c[i] + q] = ents[i][q]
    BY <1>1, <1>2, RaggedFacts
  <2> QED
    BY <1>4, <2>2, <2>3
<1>7. ASSUME NEW i \in 1..Len(batch), NEW q \in 1..batch[i].n
      PROVE  /\ c[i] + q \in 1..c[Len(c)]
             /\ Ragged(c, slots)[c[i] + q] = Spot(batch[i], q)
             /\ Ragged(c, ents)[c[i] + q] = EntryAt(batch[i], q)
  <2>1. /\ c[i] + q \in 1..c[Len(c)]
        /\ Ragged(c, slots)[c[i] + q] = slots[i][q]
        /\ Ragged(c, ents)[c[i] + q] = ents[i][q]
    BY <1>1, <1>2, RaggedFacts
  <2> QED
    BY <1>4, <2>1
<1> QED
  BY <1>2, <1>3, <1>5, <1>6, <1>7 DEF Packed

\* The append of a packed batch.
LEMMA PackedAppend ==
  ASSUME NEW batch, Batch(batch), NEW kv, Cached(kv, batch), NEW packed, packed = PackPaged(batch)
  PROVE  Appended(Store(kv, packed.slots, packed.entries), kv, batch)
<1> DEFINE K == 1..packed.cu[Len(packed.cu)]
           c == packed.cu
<1>1. /\ DOMAIN packed.slots = K
      /\ \A k \in K : \E i \in 1..Len(batch) : \E q \in 1..batch[i].n :
           /\ k = c[i] + q
           /\ packed.slots[k] = Spot(batch[i], q) /\ packed.entries[k] = EntryAt(batch[i], q)
      /\ \A i \in 1..Len(batch) : \A q \in 1..batch[i].n :
           /\ c[i] + q \in K
           /\ packed.slots[c[i] + q] = Spot(batch[i], q)
           /\ packed.entries[c[i] + q] = EntryAt(batch[i], q)
  <2>1. Packed(packed, batch)
    BY PackFacts
  <2> QED
    BY <2>1 DEF Packed
<1>2. K \in SUBSET Nat
  OBVIOUS
<1> HIDE DEF K, c
<1>3. ASSUME NEW j \in K, NEW k \in K, packed.slots[j] = packed.slots[k]
      PROVE  j = k
  <2>1. PICK i \in 1..Len(batch) : \E q \in 1..batch[i].n :
          j = c[i] + q /\ packed.slots[j] = Spot(batch[i], q)
    BY <1>1
  <2>2. PICK q \in 1..batch[i].n : j = c[i] + q /\ packed.slots[j] = Spot(batch[i], q)
    BY <2>1
  <2>3. PICK h \in 1..Len(batch) : \E m \in 1..batch[h].n :
          k = c[h] + m /\ packed.slots[k] = Spot(batch[h], m)
    BY <1>1
  <2>4. PICK m \in 1..batch[h].n : k = c[h] + m /\ packed.slots[k] = Spot(batch[h], m)
    BY <2>3
  <2>5. i = h /\ q = m
    BY <1>3, <2>2, <2>4, SpotsDiffer
  <2> QED
    BY <2>2, <2>4, <2>5
<1>4. \A k \in K : \E i \in 1..Len(batch) : \E q \in 1..batch[i].n :
        packed.slots[k] = Spot(batch[i], q) /\ packed.entries[k] = EntryAt(batch[i], q)
  BY <1>1
<1>5. \A i \in 1..Len(batch) : \A q \in 1..batch[i].n : \E k \in K :
        packed.slots[k] = Spot(batch[i], q) /\ packed.entries[k] = EntryAt(batch[i], q)
  BY <1>1
<1> QED
  BY <1>1, <1>2, <1>3, <1>4, <1>5, AppendPlaced DEF Placed

\* The context of an eager forward, on every backend.
LEMMA EagerContextOwn ==
  ASSUME NEW batch, Batch(batch), NEW packed, packed = PackPaged(batch),
         NEW after, NEW i \in 1..Len(batch), Holds(after, batch[i].table, batch[i].r, End(batch[i]))
  PROVE  EagerContext(after, packed, i) = Own(batch[i].r, End(batch[i]))
<1> DEFINE t == batch[i].table
           n == End(batch[i])
           plan == PageTensors(packed.tables, packed.kvLens)
<1>1. /\ packed.tables = [j \in 1..Len(batch) |-> batch[j].table]
      /\ packed.kvLens = [j \in 1..Len(batch) |-> End(batch[j])]
  <2>1. Packed(packed, batch)
    BY PackFacts
  <2> QED
    BY <2>1 DEF Packed
<1>2. t \in Seq(Pages) /\ n \in Nat \ {0} /\ NumPages(n) <= Len(t)
  BY SpanFacts
<1>3. Gather(after, t, n) = Own(batch[i].r, n)
  BY <1>2, GatherOwn
<1>4. packed.tables[i] = t /\ packed.kvLens[i] = n
  BY <1>1
<1>5. plan.pages[i] = SubSeq(t, 1, NumPages(n)) /\ plan.last[i] = LastPageLen(n)
  BY <1>1 DEF PageTensors, PageSignature
<1> HIDE DEF t, n, plan
<1>6. PlannedContext(after, plan, i) = Gather(after, t, n)
  BY <1>2, <1>5, PlanSame
<1> QED
  BY <1>3, <1>4, <1>6 DEF EagerContext, t, n, plan

\* The rows of the logits are the last ones of the sequences that sample, and
\* each token is taken from its own sequence's.
LEMMA SampledTokens ==
  ASSUME NEW batch, Batch(batch), NEW packed, packed = PackPaged(batch),
         NEW rows, rows = SampledLogitRows(packed.cu, packed.sample)
  PROVE  TokensOf(SampleScheduled([j \in DOMAIN rows |-> packed.entries[rows[j]]], packed.sample),
                  batch)
<1> DEFINE N == Len(batch)
           mask == {i \in 1..N : packed.sample[i]}
           c == packed.cu
           logits == [j \in DOMAIN rows |-> packed.entries[rows[j]]]
<1>1. /\ Sums(c, batch)
      /\ packed.sample = [i \in 1..N |-> End(batch[i]) >= Length(batch[i].r)]
      /\ \A i \in 1..N : \A q \in 1..batch[i].n : packed.entries[c[i] + q] = EntryAt(batch[i], q)
  <2>1. Packed(packed, batch)
    BY PackFacts
  <2> QED
    BY <2>1 DEF Packed
<1>2. N \in Nat /\ batch \in Seq(SpanType)
  BY BatchFacts DEF Batch
<1>3. Len(c) = N + 1
  BY <1>1, <1>2, OwnerFacts
<1>4. DOMAIN packed.sample = 1..N
  BY <1>1
<1>5. mask \in SUBSET Nat /\ IsFiniteSet(mask)
  <2>1. IsFiniteSet(1..N)
    BY <1>2, FS_Interval
  <2> QED
    BY <1>2, <2>1, FS_Subset
<1>6. rows = [j \in 1..Cardinality(mask) |-> LastTokenIndices(c)[Nth(mask, j)]]
  BY <1>4 DEF SampledLogitRows, Selected
<1>7. \A i \in 1..N : LastTokenIndices(c)[i] = c[i + 1]
  BY <1>2, <1>3 DEF LastTokenIndices
<1> SUFFICES ASSUME NEW i \in 1..N
             PROVE  SampleScheduled(logits, packed.sample)[i]
                      = IF End(batch[i]) >= Length(batch[i].r)
                        THEN <<batch[i].r, End(batch[i]) - 1, weights>> ELSE NoToken
  BY DEF TokensOf
<1>8. SampleScheduled(logits, packed.sample)[i]
        = IF packed.sample[i] THEN logits[Cardinality({j \in 1..i : packed.sample[j]})] ELSE NoToken
  BY <1>4 DEF SampleScheduled
<1>9. packed.sample[i] <=> End(batch[i]) >= Length(batch[i].r)
  BY <1>1
<1>10. CASE packed.sample[i]
  <2>1. i \in mask
    BY <1>10
  <2>2. {j \in 1..i : packed.sample[j]} = {k \in mask : k <= i}
    BY <1>2
  <2>3. Cardinality({j \in 1..i : packed.sample[j]}) = Rank(mask, i)
    BY <2>2 DEF Rank
  <2> HIDE DEF mask
  <2>4. Rank(mask, i) \in 1..Cardinality(mask) /\ Nth(mask, Rank(mask, i)) = i
    BY <1>5, <2>1, RankFacts
  <2>5. rows[Rank(mask, i)] = c[i + 1] /\ Rank(mask, i) \in DOMAIN rows
    BY <1>6, <1>7, <2>4
  <2>6. c[i + 1] = c[i] + batch[i].n
    BY <1>1 DEF Sums
  <2>7. batch[i].n \in 1..batch[i].n
    BY SpanFacts
  <2>8. logits[Rank(mask, i)] = EntryAt(batch[i], batch[i].n)
    BY <1>1, <2>5, <2>6, <2>7
  <2>9. EntryAt(batch[i], batch[i].n) = <<batch[i].r, End(batch[i]) - 1, weights>>
    <3>1. /\ End(batch[i]) = Start(batch[i]) + batch[i].n
          /\ Start(batch[i]) \in Nat /\ batch[i].n \in Nat
      BY SpanFacts
    <3>2. End(batch[i]) - 1 = Start(batch[i]) + batch[i].n - 1
      BY <3>1
    <3> QED
      BY <3>2 DEF EntryAt
  <2> HIDE DEF logits
  <2> QED
    BY <1>8, <1>9, <1>10, <2>3, <2>8, <2>9
<1>11. CASE ~packed.sample[i]
  BY <1>8, <1>9, <1>11
<1> QED
  BY <1>10, <1>11

\* An eager forward reads own contexts, samples own rows and keeps what was
\* resident.
LEMMA EagerDone ==
  ASSUME NEW batch, Batch(batch), NEW kv, Cached(kv, batch)
  PROVE  Done(Eager(kv, batch), kv, batch)
<1>1. PICK packed : packed = PackPaged(batch)
  OBVIOUS
<1> DEFINE after == Store(kv, packed.slots, packed.entries)
           rows == SampledLogitRows(packed.cu, packed.sample)
           f == EagerReads(after, packed, rows, batch)
<1>2. Eager(kv, batch) = f
  BY <1>1 DEF Eager, EagerPacked
<1>3. Appended(after, kv, batch)
  BY <1>1, PackedAppend
<1>4. TokensOf(SampleScheduled([j \in DOMAIN rows |-> packed.entries[rows[j]]], packed.sample), batch)
  BY <1>1, SampledTokens
<1>5. DOMAIN batch = 1..Len(batch)
  BY BatchFacts DEF Batch
<1> HIDE DEF after, rows
<1>6. /\ f.pool = after
      /\ f.tokens = SampleScheduled([j \in DOMAIN rows |-> packed.entries[rows[j]]], packed.sample)
  BY DEF EagerReads
<1>7. ASSUME NEW read \in f.reads
      PROVE  read[2] = OwnContext(read[1])
  <2>1. PICK i \in DOMAIN batch : \E q \in 1..batch[i].n :
          read = <<packed.entries[packed.cu[i] + q],
                   SubSeq(EagerContext(after, packed, i), 1,
                          CausalAllowed(batch[i].n, packed.kvLens[i], q))>>
    BY <1>7 DEF EagerReads
  <2>2. PICK q \in 1..batch[i].n :
          read = <<packed.entries[packed.cu[i] + q],
                   SubSeq(EagerContext(after, packed, i), 1,
                          CausalAllowed(batch[i].n, packed.kvLens[i], q))>>
    BY <2>1
  <2>3. i \in 1..Len(batch)
    BY <1>5
  <2>4. packed.entries[packed.cu[i] + q] = EntryAt(batch[i], q) /\ packed.kvLens[i] = End(batch[i])
    <3>1. Packed(packed, batch)
      BY <1>1, PackFacts
    <3> QED
      BY <2>3, <3>1 DEF Packed
  <2>5. EagerContext(after, packed, i) = Own(batch[i].r, End(batch[i]))
    BY <1>1, <1>3, <2>3, EagerContextOwn DEF Appended
  <2>6. SubSeq(Own(batch[i].r, End(batch[i])), 1, CausalAllowed(batch[i].n, End(batch[i]), q))
          = OwnContext(EntryAt(batch[i], q))
    BY <2>3, OwnPrefix
  <2> QED
    BY <2>2, <2>4, <2>5, <2>6
<1> QED
  BY <1>2, <1>3, <1>4, <1>6, <1>7 DEF Done, Reads

(***************************************************************************)
(* Captured decode graphs.                                                 *)
(***************************************************************************)
\* A table has no more pages than the pool, which is what a capture has room for.
LEMMA TableShort ==
  ASSUME NEW t, Unshared(t)
  PROVE  Len(t) \in 0..NumBlocks
<1>1. t \in Seq(Pages) /\ \A i, j \in 1..Len(t) : t[i] = t[j] => i = j
  BY DEF Unshared
<1>2. Len(t) \in Nat /\ t \in [1..Len(t) -> Pages]
  BY <1>1, LenProperties
<1>3. NumBlocks \in Nat
  BY RunnerAssumption
<1>4. IsFiniteSet(1..Len(t)) /\ Cardinality(1..Len(t)) = Len(t)
  BY <1>2, FS_Interval
<1>5. IsFiniteSet(Pages) /\ Cardinality(Pages) = NumBlocks
  BY <1>3, FS_Interval DEF Pages
<1> SUFFICES ASSUME NumBlocks < Len(t)
             PROVE  FALSE
  BY <1>2, <1>3
<1>6. \E i, j \in 1..Len(t) : i # j /\ t[i] = t[j]
  BY <1>2, <1>4, <1>5, FS_PigeonHole
<1> QED
  BY <1>1, <1>6

Decodes(batch) == \A i \in 1..Len(batch) : IsPureDecode(batch[i])

\* The buffers of a capture say what the tables of the batch say.
Filled(graph, batch) ==
  \A i \in 1..Len(batch) :
    /\ graph.pages[i] = SubSeq(batch[i].table, 1, NumPages(End(batch[i])))
    /\ graph.last[i] = LastPageLen(End(batch[i]))
    /\ setup.backend = "triton" =>
         /\ graph.kv[i] = End(batch[i])
         /\ \A p \in 1..NumPages(End(batch[i])) : graph.table[i][p] = batch[i].table[p]

\* The buffers a replay reads are those of its batch, whether or not the plan
\* was skipped.
LEMMA FillFacts ==
  ASSUME NEW batch, Batch(batch), Decodes(batch), NEW graph, DOMAIN graph = GraphFields
  PROVE  /\ DOMAIN Fill(graph, batch) = GraphFields
         /\ Fill(graph, batch).home = graph.home
         /\ Filled(Fill(graph, batch), batch)
<1> DEFINE tables == [i \in DOMAIN batch |-> batch[i].table]
           kvLens == [i \in DOMAIN batch |-> Start(batch[i]) + 1]
           signature == PageSignature(tables, kvLens)
           plan == PageTensors(tables, kvLens)
           skip == CanSkipPlan(graph.pages, signature)
           pages == IF skip THEN graph.pages ELSE signature
           table == IF setup.backend # "triton" THEN graph.table
                    ELSE [i \in DOMAIN batch |-> [p \in Pages |->
                            IF p <= NumPages(kvLens[i]) THEN tables[i][p] ELSE graph.table[i][p]]]
           kv == IF setup.backend # "triton" THEN graph.kv ELSE kvLens
           g == [graph EXCEPT !.pages = pages, !.last = plan.last, !.table = table, !.kv = kv]
<1>1. Fill(graph, batch) = g
  BY DEF Fill
<1>2. DOMAIN batch = 1..Len(batch)
  BY BatchFacts DEF Batch
<1>3. \A i \in 1..Len(batch) : kvLens[i] = End(batch[i]) /\ tables[i] = batch[i].table
  BY <1>2 DEF Decodes, IsPureDecode, Start, End
<1>4. pages = signature
  BY DEF CanSkipPlan
<1>5. \A i \in 1..Len(batch) :
        /\ signature[i] = SubSeq(batch[i].table, 1, NumPages(End(batch[i])))
        /\ plan.last[i] = LastPageLen(End(batch[i]))
  <2>1. DOMAIN tables = 1..Len(batch) /\ DOMAIN kvLens = 1..Len(batch)
    BY <1>2
  <2> HIDE DEF tables, kvLens
  <2> QED
    BY <1>3, <2>1 DEF PageSignature, PageTensors
<1>6. ASSUME setup.backend = "triton", NEW i \in 1..Len(batch)
      PROVE  /\ kv[i] = End(batch[i])
             /\ \A p \in 1..NumPages(End(batch[i])) : table[i][p] = batch[i].table[p]
  <2>1. kv[i] = End(batch[i])
    BY <1>3, <1>6
  <2>2. table[i] = [p \in Pages |-> IF p <= NumPages(kvLens[i]) THEN tables[i][p] ELSE graph.table[i][p]]
    BY <1>2, <1>6
  <2>3. ASSUME NEW p \in 1..NumPages(End(batch[i]))
        PROVE  table[i][p] = batch[i].table[p]
    <3>1. Unshared(batch[i].table)
      BY DEF Batch
    <3>2. Len(batch[i].table) \in 0..NumBlocks /\ NumBlocks \in Nat
      BY <3>1, TableShort, RunnerAssumption
    <3>3. NumPages(End(batch[i])) <= Len(batch[i].table) /\ NumPages(End(batch[i])) \in Nat
      BY SpanFacts, PagesFor
    <3>4. p \in Pages /\ p <= NumPages(End(batch[i]))
      BY <3>2, <3>3 DEF Pages
    <3> QED
      BY <1>3, <2>2, <3>4
  <2> QED
    BY <2>1, <2>3
<1> HIDE DEF pages, plan, table, kv, signature
<1>7. /\ DOMAIN g = GraphFields /\ g.home = graph.home
      /\ g.pages = pages /\ g.last = plan.last /\ g.table = table /\ g.kv = kv
  BY DEF GraphFields
<1> HIDE DEF g
<1> QED
  BY <1>1, <1>4, <1>5, <1>6, <1>7 DEF Filled

\* A replay does what the eager forward of the same decodes does.
LEMMA ReplayDone ==
  ASSUME NEW batch, Batch(batch), Decodes(batch), NEW kv, Cached(kv, batch),
         NEW graph, Filled(graph, batch), graph.home = home
  PROVE  Done(Replay(kv, graph, batch), kv, batch)
<1> DEFINE N == Len(batch)
           entry(i) == <<batch[i].r, Start(batch[i]), weights>>
           append(i) == <<graph.pages[i][(Start(batch[i]) \div BlockSize) + 1],
                          Start(batch[i]) % BlockSize>>
           slots == [i \in DOMAIN batch |-> append(i)]
           ents == [i \in DOMAIN batch |-> entry(i)]
           after == Store(kv, slots, ents)
           context(i) == IF graph.home # home THEN Blank
                         ELSE IF setup.backend = "triton"
                              THEN Gather(after, graph.table[i], graph.kv[i])
                              ELSE PlannedContext(after, graph, i)
           f == Replay(kv, graph, batch)
<1>1. DOMAIN batch = 1..N /\ N \in Nat
  BY BatchFacts DEF Batch
<1>2. /\ f.pool = after
      /\ f.reads = {<<entry(i), context(i)>> : i \in 1..N}
      /\ f.tokens = [i \in 1..N |-> entry(i)]
  BY <1>1 DEF Replay
<1>3. ASSUME NEW i \in 1..N
      PROVE  /\ batch[i].n = 1 /\ 1 \in 1..batch[i].n
             /\ End(batch[i]) = Start(batch[i]) + 1 /\ Start(batch[i]) \in Nat
             /\ End(batch[i]) \in Nat \ {0}
             /\ Start(batch[i]) + 1 - 1 = Start(batch[i])
             /\ Length(batch[i].r) = End(batch[i])
  <2>1. /\ batch[i].n = 1 /\ Length(batch[i].r) - Start(batch[i]) = 1
    BY DEF Decodes, IsPureDecode, Uncomputed, Start
  <2>2. /\ Start(batch[i]) \in Nat /\ End(batch[i]) = Start(batch[i]) + batch[i].n
        /\ Length(batch[i].r) \in Nat /\ End(batch[i]) \in Nat \ {0}
    BY SpanFacts DEF Batch
  <2> QED
    BY <2>1, <2>2
<1>4. ASSUME NEW i \in 1..N
      PROVE  append(i) = Spot(batch[i], 1) /\ entry(i) = EntryAt(batch[i], 1)
  <2> DEFINE t == batch[i].table
             p == Start(batch[i])
  <2>1. /\ t \in Seq(Pages) /\ NumPages(End(batch[i])) <= Len(t) /\ End(batch[i]) \in Nat
        /\ Len(t) \in Nat
    BY SpanFacts
  <2>2. p \in 0..End(batch[i]) - 1
    BY <1>3
  <2>3. p \div BlockSize + 1 \in 1..NumPages(End(batch[i])) /\ NumPages(End(batch[i])) \in Nat
    BY <2>1, <2>2, InPages, PagesFor
  <2>4. graph.pages[i] = SubSeq(t, 1, NumPages(End(batch[i])))
    BY DEF Filled
  <2> HIDE DEF t, p
  <2>5. SubSeq(t, 1, NumPages(End(batch[i])))[p \div BlockSize + 1] = t[p \div BlockSize + 1]
    BY <2>1, <2>3
  <2>6. append(i) = Slot(t, p)
    BY <2>4, <2>5 DEF Slot, p
  <2>7. Spot(batch[i], 1) = Slot(t, p)
    BY <1>3 DEF Spot, t, p
  <2>8. entry(i) = EntryAt(batch[i], 1)
    BY <1>3 DEF EntryAt
  <2> QED
    BY <2>6, <2>7, <2>8
<1>5. \A i \in 1..N : slots[i] = Spot(batch[i], 1) /\ ents[i] = EntryAt(batch[i], 1)
  <2> HIDE DEF append, entry
  <2> QED
    BY <1>1, <1>4
<1>6. DOMAIN slots = 1..N
  BY <1>1
<1> HIDE DEF slots, ents
<1>7. Appended(after, kv, batch)
  <2>1. 1..N \in SUBSET Nat
    BY <1>1
  <2>2. \A k \in 1..N : \E i \in 1..Len(batch) : \E q \in 1..batch[i].n :
          slots[k] = Spot(batch[i], q) /\ ents[k] = EntryAt(batch[i], q)
    BY <1>3, <1>5
  <2>3. \A i \in 1..Len(batch) : \A q \in 1..batch[i].n : \E k \in 1..N :
          slots[k] = Spot(batch[i], q) /\ ents[k] = EntryAt(batch[i], q)
    <3> SUFFICES ASSUME NEW i \in 1..N, NEW q \in 1..batch[i].n
                 PROVE  \E k \in 1..N : slots[k] = Spot(batch[i], q) /\ ents[k] = EntryAt(batch[i], q)
      OBVIOUS
    <3>1. batch[i].n = 1
      BY <1>3
    <3>2. q = 1
      BY <3>1
    <3> QED
      BY <1>5, <3>2
  <2>4. ASSUME NEW j \in 1..N, NEW k \in 1..N, slots[j] = slots[k]
        PROVE  j = k
    <3>1. 1 \in 1..batch[j].n /\ 1 \in 1..batch[k].n
      BY <1>3
    <3>2. Spot(batch[j], 1) = Spot(batch[k], 1)
      BY <1>5, <2>4
    <3> QED
      BY <3>1, <3>2, SpotsDiffer
  <2> HIDE DEF N
  <2>5. Appended(Store(kv, slots, ents), kv, batch)
    BY <1>6, <2>1, <2>2, <2>3, <2>4, AppendPlaced DEF Placed
  <2> QED
    BY <2>5
<1> HIDE DEF after
<1>8. ASSUME NEW i \in 1..N
      PROVE  context(i) = OwnContext(entry(i))
  <2> DEFINE t == batch[i].table
             n == End(batch[i])
  <2>1. t \in Seq(Pages) /\ NumPages(n) <= Len(t) /\ n \in Nat \ {0}
    BY SpanFacts
  <2>2. Holds(after, t, batch[i].r, n)
    BY <1>7 DEF Appended
  <2>3. Gather(after, t, n) = Own(batch[i].r, n)
    <3> HIDE DEF t, n
    <3> QED
      BY <2>1, <2>2, GatherOwn
  <2>4. CASE setup.backend = "triton"
    <3>1. /\ graph.kv[i] = n
          /\ \A p \in 1..NumPages(n) : graph.table[i][p] = t[p]
      BY <2>4 DEF Filled
    <3>2. Gather(after, graph.table[i], n) = Gather(after, t, n)
      <4> HIDE DEF t, n
      <4> QED
        BY <2>1, <3>1, GatherSame
    <3> QED
      <4>1. context(i) = Own(batch[i].r, n)
        BY <2>3, <2>4, <3>1, <3>2
      <4>2. OwnContext(entry(i)) = Own(batch[i].r, Start(batch[i]) + 1)
        BY DEF OwnContext, Own
      <4> QED
        BY <1>3, <4>1, <4>2
  <2>5. CASE setup.backend # "triton"
    <3>1. graph.pages[i] = SubSeq(t, 1, NumPages(n)) /\ graph.last[i] = LastPageLen(n)
      BY DEF Filled
    <3>2. PlannedContext(after, graph, i) = Gather(after, t, n)
      <4> HIDE DEF t, n
      <4> QED
        BY <2>1, <3>1, PlanSame
    <3> QED
      <4>1. context(i) = Own(batch[i].r, n)
        BY <2>3, <2>5, <3>2
      <4>2. OwnContext(entry(i)) = Own(batch[i].r, Start(batch[i]) + 1)
        BY DEF OwnContext, Own
      <4> QED
        BY <1>3, <4>1, <4>2
  <2> QED
    BY <2>4, <2>5
<1>9. ASSUME NEW read \in f.reads
      PROVE  read[2] = OwnContext(read[1])
  <2> HIDE DEF entry, context, f
  <2>1. PICK i \in 1..N : read = <<entry(i), context(i)>>
    BY <1>2, <1>9
  <2> QED
    BY <1>8, <2>1
<1>10. TokensOf(f.tokens, batch)
  <2> SUFFICES ASSUME NEW i \in 1..N
               PROVE  f.tokens[i] = IF End(batch[i]) >= Length(batch[i].r)
                                    THEN <<batch[i].r, End(batch[i]) - 1, weights>> ELSE NoToken
    BY DEF TokensOf
  <2>1. End(batch[i]) - 1 = Start(batch[i]) /\ End(batch[i]) >= Length(batch[i].r)
    BY <1>3
  <2>2. f.tokens[i] = <<batch[i].r, Start(batch[i]), weights>>
    BY <1>2
  <2> QED
    BY <2>1, <2>2
<1> QED
  BY <1>2, <1>7, <1>9, <1>10 DEF Done, Reads

(***************************************************************************)
(* Forwards.                                                               *)
(***************************************************************************)
LEMMA ForwardDone ==
  ASSUME NEW batch, Batch(batch), Len(batch) \in 1..MaxSeqs, NEW kv, Cached(kv, batch),
         NEW gs, Bound(gs), NEW ws
  PROVE  /\ Done(Forward(kv, gs, ws, batch), kv, batch)
         /\ Bound(Forward(kv, gs, ws, batch).graphs)
<1> DEFINE n == Len(batch)
           decode == UseDecodeGraph(batch)
           from == IF gs[n] = NoGraph THEN NewGraph(n) ELSE gs[n]
           graph == Fill(from, batch)
<1>1. CASE decode /\ (gs[n] # NoGraph \/ ws[n] >= WarmRuns)
  <2> DEFINE f == Replay(kv, graph, batch)
  <2>1. Forward(kv, gs, ws, batch) = Forwarded(f, [gs EXCEPT ![n] = graph], ws)
    BY <1>1 DEF Forward, Replayed
  <2>2. Decodes(batch)
    <3>1. DOMAIN batch = 1..Len(batch)
      BY BatchFacts DEF Batch
    <3> QED
      BY <1>1, <3>1 DEF UseDecodeGraph, Decodes
  <2>3. DOMAIN from = GraphFields /\ from.home = home
    <3>1. CASE gs[n] = NoGraph
      <4>1. from = NewGraph(n)
        BY <3>1
      <4> QED
        BY <4>1 DEF NewGraph, GraphFields
    <3>2. CASE gs[n] # NoGraph
      BY <3>2 DEF Bound
    <3> QED
      BY <3>1, <3>2
  <2> HIDE DEF from
  <2>4. DOMAIN graph = GraphFields /\ graph.home = home /\ Filled(graph, batch)
    BY <2>2, <2>3, FillFacts
  <2> HIDE DEF graph
  <2>5. Done(f, kv, batch)
    BY <2>2, <2>4, ReplayDone
  <2>6. Bound([gs EXCEPT ![n] = graph])
    BY <2>4 DEF Bound
  <2> HIDE DEF f
  <2> QED
    BY <2>1, <2>5, <2>6 DEF Forwarded, Done
<1>2. CASE ~(decode /\ (gs[n] # NoGraph \/ ws[n] >= WarmRuns))
  <2> DEFINE f == Eager(kv, batch)
             wn == IF decode THEN [ws EXCEPT ![n] = @ + 1] ELSE ws
  <2>1. Forward(kv, gs, ws, batch) = Forwarded(f, gs, wn)
    BY <1>2 DEF Forward
  <2>2. Done(f, kv, batch)
    BY EagerDone
  <2> HIDE DEF f, wn
  <2> QED
    BY <2>1, <2>2 DEF Forwarded, Done
<1> QED
  BY <1>1, <1>2

\* The spans of a batch at the places of a mask, in the order of the batch.
Part(sub, batch, mask) ==
  /\ Batch(sub) /\ Len(sub) \in 0..Len(batch)
  /\ \A i \in mask : Rank(mask, i) \in 1..Len(sub) /\ sub[Rank(mask, i)] = batch[i]
  /\ \A j \in 1..Len(sub) : Nth(mask, j) \in mask /\ sub[j] = batch[Nth(mask, j)]

\* Some spans of a batch are a batch.
LEMMA SelectedBatch ==
  ASSUME NEW batch, Batch(batch), NEW mask \in SUBSET (1..Len(batch)),
         NEW sub, sub = Selected(batch, mask)
  PROVE  Part(sub, batch, mask)
<1> DEFINE m == Cardinality(mask)
<1>1. Len(batch) \in Nat /\ DOMAIN batch = 1..Len(batch) /\ \A i \in 1..Len(batch) : batch[i] \in SpanType
  BY BatchFacts DEF Batch
<1>2. IsFiniteSet(1..Len(batch)) /\ Cardinality(1..Len(batch)) = Len(batch)
  <2>1. PICK N \in Nat : N = Len(batch)
    BY <1>1
  <2>2. IsFiniteSet(1..N) /\ Cardinality(1..N) = N
    BY FS_Interval
  <2> QED
    BY <2>1, <2>2
<1>3. IsFiniteSet(mask) /\ m \in Nat /\ m <= Len(batch)
  BY <1>2, FS_Subset, FS_CardinalityType
<1>4. mask \in SUBSET Nat
  BY <1>1
<1>5. /\ \A i \in mask : Rank(mask, i) \in 1..m /\ Nth(mask, Rank(mask, i)) = i
      /\ \A j \in 1..m : Nth(mask, j) \in mask /\ Rank(mask, Nth(mask, j)) = j
  BY <1>3, <1>4, RankFacts
<1>6. sub = [j \in 1..m |-> batch[Nth(mask, j)]]
  BY DEF Selected
<1> HIDE DEF m
<1>7. /\ \A j \in 1..m : Nth(mask, j) \in 1..Len(batch) /\ sub[j] = batch[Nth(mask, j)]
      /\ \A i, j \in 1..m : Nth(mask, i) = Nth(mask, j) => i = j
  BY <1>5, <1>6
<1>8. sub \in Seq(SpanType) /\ Len(sub) = m
  <2>1. sub \in [1..m -> SpanType]
    BY <1>1, <1>6, <1>7
  <2>2. DOMAIN sub = 1..m
    BY <2>1
  <2> QED
    BY <1>3, <2>1, <2>2
<1>9. Batch(sub)
  <2>1. weights \in Nat
    BY DEF Batch
  <2>2. ASSUME NEW i \in 1..m, NEW j \in 1..m, sub[i].r = sub[j].r
        PROVE  i = j
    <3>2. \A k, h \in 1..Len(batch) : batch[k].r = batch[h].r => k = h
      BY DEF Batch
    <3>1. Nth(mask, i) = Nth(mask, j)
      BY <1>7, <2>2, <3>2
    <3> QED
      BY <1>7, <3>1
  <2>3. ASSUME NEW i \in 1..m
        PROVE  /\ Start(sub[i]) \in Nat /\ Length(sub[i].r) \in Nat /\ Unshared(sub[i].table)
               /\ Len(sub[i].table) = NumPages(End(sub[i]))
    BY <1>7 DEF Batch
  <2>4. ASSUME NEW i \in 1..m, NEW j \in 1..m, i # j
        PROVE  Apart(sub[i].table, sub[j].table)
    BY <1>7, <2>4 DEF Batch
  <2> QED
    BY <1>8, <2>1, <2>2, <2>3, <2>4 DEF Batch
<1> QED
  BY <1>1, <1>3, <1>5, <1>7, <1>8, <1>9 DEF Part

\* What other pages hold stays there.
LEMMA HoldsElsewhere ==
  ASSUME NEW kv, NEW after, NEW batch, Elsewhere(after, kv, batch),
         NEW t \in Seq(Pages), NEW r, NEW n \in Nat, NumPages(n) <= Len(t), Holds(kv, t, r, n),
         \A i \in 1..Len(batch) : Apart(batch[i].table, t)
  PROVE  Holds(after, t, r, n)
<1> SUFFICES ASSUME NEW p \in 0..n - 1
             PROVE  At(after, Slot(t, p)) = <<r, p, weights>>
  BY DEF Holds
<1>1. /\ p \div BlockSize + 1 \in 1..Len(t) /\ t[p \div BlockSize + 1] \in Pages
      /\ p % BlockSize \in 0..BlockSize - 1
  BY SlotFacts
<1>2. PICK q \in 1..Len(t), o \in 0..BlockSize - 1 :
        /\ q = p \div BlockSize + 1 /\ o = p % BlockSize /\ t[q] \in Pages
  BY <1>1
<1>3. \A x : At(x, Slot(t, p)) = x[t[q]][o]
  BY <1>2 DEF At, Slot
<1>4. \A i \in 1..Len(batch) : \A j \in 1..Len(batch[i].table) : batch[i].table[j] # t[q]
  BY DEF Apart
<1>5. after[t[q]][o] = kv[t[q]][o]
  BY <1>2, <1>4 DEF Elsewhere
<1>6. At(kv, Slot(t, p)) = <<r, p, weights>>
  BY DEF Holds
<1> QED
  BY <1>3, <1>5, <1>6

\* The fields of what a forward comes to.
LEMMA ForwardFields ==
  ASSUME NEW kv, NEW gs, NEW ws, NEW batch
  PROVE  DOMAIN Forward(kv, gs, ws, batch) = {"pool", "reads", "tokens", "graphs", "warm"}
BY DEF Forward, Replayed, Forwarded

\* The forwards of the two halves of a mixed batch are a forward of the batch.
LEMMA SplitDone ==
  ASSUME NEW batch, Batch(batch), NEW kv, Cached(kv, batch),
         NEW pure \in SUBSET (1..Len(batch)),
         NEW decodes, decodes = Selected(batch, pure),
         NEW prefills, prefills = Selected(batch, (1..Len(batch)) \ pure),
         NEW first, Done(first, kv, prefills), NEW second, Done(second, first.pool, decodes),
         {"pool", "reads", "tokens"} \subseteq DOMAIN second
  PROVE  Done(InBatchOrder(batch, prefills, first, decodes, second), kv, batch)
<1> DEFINE f == InBatchOrder(batch, prefills, first, decodes, second)
           rest == (1..Len(batch)) \ pure
           at(spans, r) == CHOOSE i \in DOMAIN spans : spans[i].r = r
           token(i) == IF \E j \in DOMAIN prefills : prefills[j].r = batch[i].r
                       THEN first.tokens[at(prefills, batch[i].r)]
                       ELSE second.tokens[at(decodes, batch[i].r)]
<1>1. DOMAIN batch = 1..Len(batch)
  BY BatchFacts DEF Batch
<1>2. f = [second EXCEPT !.reads = @ \union first.reads, !.tokens = [i \in DOMAIN batch |-> token(i)]]
  BY DEF InBatchOrder
<1>3. /\ f.pool = second.pool /\ f.reads = second.reads \union first.reads
      /\ f.tokens = [i \in 1..Len(batch) |-> token(i)]
  <2> HIDE DEF token, f
  <2> QED
    BY <1>1, <1>2
<1>4. /\ Batch(decodes) /\ Len(decodes) \in 0..Len(batch)
      /\ \A i \in pure : Rank(pure, i) \in 1..Len(decodes) /\ decodes[Rank(pure, i)] = batch[i]
      /\ \A j \in 1..Len(decodes) : Nth(pure, j) \in pure /\ decodes[j] = batch[Nth(pure, j)]
  BY SelectedBatch DEF Part
<1>5. /\ Batch(prefills) /\ Len(prefills) \in 0..Len(batch)
      /\ \A i \in rest : Rank(rest, i) \in 1..Len(prefills) /\ prefills[Rank(rest, i)] = batch[i]
      /\ \A j \in 1..Len(prefills) : Nth(rest, j) \in rest /\ prefills[j] = batch[Nth(rest, j)]
  <2>1. rest \in SUBSET (1..Len(batch))
    OBVIOUS
  <2> HIDE DEF rest
  <2>2. prefills = Selected(batch, rest)
    BY DEF rest
  <2>3. Part(prefills, batch, rest)
    BY <2>1, <2>2, SelectedBatch
  <2> QED
    BY <2>3 DEF Part
<1>6. DOMAIN decodes = 1..Len(decodes) /\ DOMAIN prefills = 1..Len(prefills)
  BY <1>4, <1>5, BatchFacts DEF Batch
<1>7. /\ Appended(first.pool, kv, prefills) /\ Reads(first.reads) /\ TokensOf(first.tokens, prefills)
      /\ Appended(second.pool, first.pool, decodes) /\ Reads(second.reads)
      /\ TokensOf(second.tokens, decodes)
  BY DEF Done
<1> HIDE DEF f, at
<1>8. Appended(second.pool, kv, batch)
  <2>1. second.pool \in PoolType
    BY <1>7 DEF Appended
  <2>2. ASSUME NEW i \in 1..Len(batch)
        PROVE  Holds(second.pool, batch[i].table, batch[i].r, End(batch[i]))
    <3>1. CASE i \in pure
      <4>1. Holds(second.pool, decodes[Rank(pure, i)].table, decodes[Rank(pure, i)].r,
                  End(decodes[Rank(pure, i)]))
        BY <1>4, <1>7, <3>1 DEF Appended
      <4> QED
        BY <1>4, <3>1, <4>1
    <3>2. CASE i \notin pure
      <4>1. Holds(first.pool, prefills[Rank(rest, i)].table, prefills[Rank(rest, i)].r,
                  End(prefills[Rank(rest, i)]))
        BY <1>5, <1>7, <3>2 DEF Appended
      <4>2. Holds(first.pool, batch[i].table, batch[i].r, End(batch[i]))
        BY <1>5, <3>2, <4>1
      <4>3. \A j \in 1..Len(decodes) : Apart(decodes[j].table, batch[i].table)
        <5> SUFFICES ASSUME NEW j \in 1..Len(decodes)
                     PROVE  Apart(decodes[j].table, batch[i].table)
          OBVIOUS
        <5>1. Nth(pure, j) \in pure /\ decodes[j] = batch[Nth(pure, j)]
          BY <1>4
        <5>2. Nth(pure, j) \in 1..Len(batch) /\ Nth(pure, j) # i
          BY <3>2, <5>1
        <5> QED
          BY <5>1, <5>2 DEF Batch
      <4>4. /\ batch[i].table \in Seq(Pages) /\ End(batch[i]) \in Nat
            /\ NumPages(End(batch[i])) <= Len(batch[i].table)
        BY SpanFacts
      <4>5. Elsewhere(second.pool, first.pool, decodes)
        BY <1>7 DEF Appended
      <4> QED
        BY <4>2, <4>3, <4>4, <4>5, HoldsElsewhere
    <3> QED
      BY <3>1, <3>2
  <2>3. ASSUME NEW b \in Pages,
               \A i \in 1..Len(batch) : \A p \in 1..Len(batch[i].table) : batch[i].table[p] # b,
               NEW o \in 0..BlockSize - 1
        PROVE  second.pool[b][o] = kv[b][o]
    <3>1. \A j \in 1..Len(decodes) : \A p \in 1..Len(decodes[j].table) : decodes[j].table[p] # b
      <4> SUFFICES ASSUME NEW j \in 1..Len(decodes), NEW p \in 1..Len(decodes[j].table)
                   PROVE  decodes[j].table[p] # b
        OBVIOUS
      <4>1. PICK i \in 1..Len(batch) : decodes[j] = batch[i]
        BY <1>4
      <4> QED
        BY <2>3, <4>1
    <3>2. \A j \in 1..Len(prefills) : \A p \in 1..Len(prefills[j].table) : prefills[j].table[p] # b
      <4> SUFFICES ASSUME NEW j \in 1..Len(prefills), NEW p \in 1..Len(prefills[j].table)
                   PROVE  prefills[j].table[p] # b
        OBVIOUS
      <4>1. PICK i \in 1..Len(batch) : prefills[j] = batch[i]
        BY <1>5
      <4> QED
        BY <2>3, <4>1
    <3>3. second.pool[b][o] = first.pool[b][o]
      BY <1>7, <3>1 DEF Appended, Elsewhere
    <3>4. first.pool[b][o] = kv[b][o]
      BY <1>7, <3>2 DEF Appended, Elsewhere
    <3> QED
      BY <3>3, <3>4
  <2> QED
    BY <2>1, <2>2, <2>3 DEF Appended, Elsewhere
<1>9. ASSUME NEW i \in 1..Len(batch)
      PROVE  token(i) = IF End(batch[i]) >= Length(batch[i].r)
                        THEN <<batch[i].r, End(batch[i]) - 1, weights>> ELSE NoToken
  <2>1. CASE i \in pure
    <3>1. ~ \E j \in DOMAIN prefills : prefills[j].r = batch[i].r
      <4> SUFFICES ASSUME NEW j \in 1..Len(prefills), prefills[j].r = batch[i].r
                   PROVE  FALSE
        BY <1>6
      <4>1. Nth(rest, j) \in rest /\ batch[Nth(rest, j)].r = batch[i].r
        BY <1>5
      <4>2. Nth(rest, j) = i
        BY <4>1 DEF Batch
      <4> QED
        BY <2>1, <4>1, <4>2
    <3>2. Rank(pure, i) \in 1..Len(decodes) /\ decodes[Rank(pure, i)] = batch[i]
      BY <1>4, <2>1
    <3>3. at(decodes, batch[i].r) = Rank(pure, i)
      <4>1. \A j \in 1..Len(decodes) : decodes[j].r = batch[i].r <=> j = Rank(pure, i)
        <5>1. \A j, k \in 1..Len(decodes) : decodes[j].r = decodes[k].r => j = k
          BY <1>4 DEF Batch
        <5> QED
          BY <3>2, <5>1
      <4> QED
        BY <1>6, <3>2, <4>1 DEF at
    <3>4. second.tokens[Rank(pure, i)] = IF End(batch[i]) >= Length(batch[i].r)
                        THEN <<batch[i].r, End(batch[i]) - 1, weights>> ELSE NoToken
      BY <1>7, <3>2 DEF TokensOf
    <3> QED
      BY <3>1, <3>3, <3>4
  <2>2. CASE i \notin pure
    <3>1. Rank(rest, i) \in 1..Len(prefills) /\ prefills[Rank(rest, i)] = batch[i]
      BY <1>5, <2>2
    <3>2. at(prefills, batch[i].r) = Rank(rest, i)
      <4>1. \A j \in 1..Len(prefills) : prefills[j].r = batch[i].r <=> j = Rank(rest, i)
        <5>1. \A j, k \in 1..Len(prefills) : prefills[j].r = prefills[k].r => j = k
          BY <1>5 DEF Batch
        <5> QED
          BY <3>1, <5>1
      <4> QED
        BY <1>6, <3>1, <4>1 DEF at
    <3>3. first.tokens[Rank(rest, i)] = IF End(batch[i]) >= Length(batch[i].r)
                        THEN <<batch[i].r, End(batch[i]) - 1, weights>> ELSE NoToken
      BY <1>7, <3>1 DEF TokensOf
    <3>4. \E j \in DOMAIN prefills : prefills[j].r = batch[i].r
      BY <1>6, <3>1
    <3> QED
      BY <3>2, <3>3, <3>4
  <2> QED
    BY <2>1, <2>2
<1>10. Reads(f.reads)
  BY <1>3, <1>7 DEF Reads
<1>11. TokensOf(f.tokens, batch)
  <2> HIDE DEF token
  <2> QED
    BY <1>3, <1>9 DEF TokensOf
<1> QED
  BY <1>3, <1>8, <1>10, <1>11 DEF Done, f

\* A run of a batch of requests, in one forward or in two.
LEMMA RunDone ==
  ASSUME NEW batch, Batch(batch), Len(batch) \in 1..MaxSeqs, Cached(pool, batch), Bound(graphs)
  PROVE  Done(Run(batch), pool, batch) /\ Bound(Run(batch).graphs)
<1> DEFINE pure == {i \in DOMAIN batch : IsPureDecode(batch[i])}
           decodes == Selected(batch, pure)
           prefills == Selected(batch, DOMAIN batch \ pure)
           first == Forward(pool, graphs, warm, prefills)
           second == Forward(first.pool, first.graphs, first.warm, decodes)
<1>1. DOMAIN batch = 1..Len(batch) /\ Len(batch) \in Nat
  BY BatchFacts DEF Batch
<1>2. pure \in SUBSET (1..Len(batch)) /\ DOMAIN batch \ pure \in SUBSET (1..Len(batch))
  BY <1>1
<1>3. CASE prefills = <<>> \/ decodes = <<>>
  <2>1. Run(batch) = Forward(pool, graphs, warm, batch)
    BY <1>3 DEF Run
  <2> QED
    BY <2>1, ForwardDone
<1>4. CASE ~(prefills = <<>> \/ decodes = <<>>)
  <2>1. Run(batch) = InBatchOrder(batch, prefills, first, decodes, second)
    BY <1>4 DEF Run, RunDecodes
  <2> HIDE DEF pure
  <2>2. /\ Batch(decodes) /\ Len(decodes) \in 0..Len(batch)
        /\ \A j \in 1..Len(decodes) : Nth(pure, j) \in pure /\ decodes[j] = batch[Nth(pure, j)]
    BY <1>2, SelectedBatch DEF Part
  <2>3. /\ Batch(prefills) /\ Len(prefills) \in 0..Len(batch)
        /\ \A j \in 1..Len(prefills) : /\ Nth(DOMAIN batch \ pure, j) \in DOMAIN batch \ pure
                                       /\ prefills[j] = batch[Nth(DOMAIN batch \ pure, j)]
    BY <1>2, SelectedBatch DEF Part
  <2>4. decodes = Selected(batch, pure) /\ prefills = Selected(batch, (1..Len(batch)) \ pure)
    BY <1>1
  <2> HIDE DEF decodes, prefills
  <2>5. Len(decodes) \in 1..MaxSeqs /\ Len(prefills) \in 1..MaxSeqs
    <3>1. Len(decodes) # 0 /\ Len(prefills) # 0
      BY <1>4, <2>2, <2>3, EmptySeq DEF Batch
    <3> QED
      BY <1>1, <2>2, <2>3, <3>1, RunnerAssumption
  <2>6. Cached(pool, prefills)
    <3>1. \A j \in 1..Len(prefills) : Holds(pool, prefills[j].table, prefills[j].r, Start(prefills[j]))
      BY <1>1, <2>3 DEF Cached
    <3> QED
      BY <3>1 DEF Cached
  <2>7. Done(first, pool, prefills) /\ Bound(first.graphs)
    BY <2>3, <2>5, <2>6, ForwardDone
  <2> HIDE DEF first
  <2>8. Cached(first.pool, decodes)
    <3>1. first.pool \in PoolType /\ Elsewhere(first.pool, pool, prefills)
      BY <2>7 DEF Done, Appended
    <3>2. ASSUME NEW j \in 1..Len(decodes)
          PROVE  Holds(first.pool, decodes[j].table, decodes[j].r, Start(decodes[j]))
      <4>1. PICK i \in 1..Len(batch) : i \in pure /\ decodes[j] = batch[i]
        BY <1>2, <2>2
      <4>2. Holds(pool, batch[i].table, batch[i].r, Start(batch[i]))
        BY DEF Cached
      <4>3. \A k \in 1..Len(prefills) : Apart(prefills[k].table, batch[i].table)
        <5> SUFFICES ASSUME NEW k \in 1..Len(prefills)
                     PROVE  Apart(prefills[k].table, batch[i].table)
          OBVIOUS
        <5>1. PICK h \in 1..Len(batch) : h \notin pure /\ prefills[k] = batch[h]
          BY <1>1, <2>3
        <5>2. h # i
          BY <4>1, <5>1
        <5> QED
          BY <5>1, <5>2 DEF Batch
      <4>4. /\ batch[i].table \in Seq(Pages) /\ Start(batch[i]) \in Nat
            /\ NumPages(Start(batch[i])) <= Len(batch[i].table)
        <5>1. /\ batch[i].table \in Seq(Pages) /\ Start(batch[i]) \in Nat /\ End(batch[i]) \in Nat
              /\ NumPages(End(batch[i])) <= Len(batch[i].table) /\ Len(batch[i].table) \in Nat
              /\ End(batch[i]) = Start(batch[i]) + batch[i].n /\ batch[i].n \in Nat
          BY SpanFacts
        <5>2. Start(batch[i]) <= End(batch[i])
          BY <5>1
        <5>3. NumPages(Start(batch[i])) <= NumPages(End(batch[i]))
          BY <5>1, <5>2, PagesMonotonic
        <5>4. NumPages(Start(batch[i])) \in Nat /\ NumPages(End(batch[i])) \in Nat
          BY <5>1, PagesFor
        <5> QED
          BY <5>1, <5>3, <5>4
      <4>5. Holds(first.pool, batch[i].table, batch[i].r, Start(batch[i]))
        BY <3>1, <4>2, <4>3, <4>4, HoldsElsewhere
      <4> QED
        BY <4>1, <4>5
    <3> QED
      BY <3>1, <3>2 DEF Cached
  <2>9. Done(second, first.pool, decodes) /\ Bound(second.graphs)
    BY <2>2, <2>5, <2>7, <2>8, ForwardDone
  <2>10. DOMAIN second = {"pool", "reads", "tokens", "graphs", "warm"}
    BY ForwardFields
  <2> HIDE DEF second
  <2>11. Done(InBatchOrder(batch, prefills, first, decodes, second), pool, batch)
    BY <1>2, <2>4, <2>7, <2>9, <2>10, SplitDone
  <2>12. InBatchOrder(batch, prefills, first, decodes, second).graphs = second.graphs
    BY <2>10 DEF InBatchOrder
  <2> QED
    BY <2>1, <2>9, <2>11, <2>12
<1> QED
  BY <1>3, <1>4

(***************************************************************************)
(* Growing the tables of a step's requests.                                *)
(***************************************************************************)
LEMMA Bounded ==
  ASSUME NEW N \in Nat, NEW f \in [1..N -> Nat]
  PROVE  \E M \in Nat : \A i \in 1..N : f[i] <= M
<1> DEFINE Y == {n \in Nat : n <= N => \E M \in Nat : \A i \in 1..n : f[i] <= M}
<1>1. 0 \in Y
  OBVIOUS
<1>2. ASSUME NEW n \in Nat, n \in Y
      PROVE  n + 1 \in Y
  <2> SUFFICES ASSUME n + 1 <= N
               PROVE  \E M \in Nat : \A i \in 1..n + 1 : f[i] <= M
    OBVIOUS
  <2>1. PICK M \in Nat : \A i \in 1..n : f[i] <= M
    BY <1>2
  <2>2. f[n + 1] \in Nat
    OBVIOUS
  <2>3. ASSUME NEW i \in 1..n + 1
        PROVE  f[i] <= M + f[n + 1]
    <3>1. i \in 1..n \/ i = n + 1
      OBVIOUS
    <3>2. f[i] \in Nat
      OBVIOUS
    <3> QED
      BY <2>1, <2>2, <3>1, <3>2
  <2>4. M + f[n + 1] \in Nat
    BY <2>2
  <2> QED
    BY <2>3, <2>4
<1>3. Nat \subseteq Y
  <2> HIDE DEF Y
  <2> QED
    BY <1>1, <1>2, InductionOnNaturals
<1>4. N \in Y
  <2> HIDE DEF Y
  <2> QED
    BY <1>3
<1> QED
  BY <1>4

\* A set maps one to one into every set that is as large.
LEMMA InjectionExists ==
  ASSUME NEW S, IsFiniteSet(S), NEW T, IsFiniteSet(T), Cardinality(S) <= Cardinality(T)
  PROVE  \E g \in [S -> T] : IsInjective(g)
<1>1. PICK m \in Nat : ExistsBijection(1..m, S)
  BY FS_NatBijection
<1>2. PICK n \in Nat : ExistsBijection(1..n, T)
  BY FS_NatBijection
<1>3. m = Cardinality(S) /\ n = Cardinality(T)
  BY <1>1, <1>2, FS_CountingElements
<1>4. PICK a : a \in Bijection(1..m, S)
  BY <1>1 DEF ExistsBijection
<1>5. PICK b : b \in Bijection(1..n, T)
  BY <1>2 DEF ExistsBijection
<1>6. /\ a \in [1..m -> S] /\ \A s \in S : \E i \in 1..m : a[i] = s
      /\ b \in [1..n -> T] /\ \A i, j \in 1..n : b[i] = b[j] => i = j
  BY <1>4, <1>5 DEF Bijection, Injection, Surjection, IsInjective
<1> DEFINE place == [s \in S |-> CHOOSE i \in 1..m : a[i] = s]
           g == [s \in S |-> b[place[s]]]
<1>7. \A s \in S : place[s] \in 1..m /\ a[place[s]] = s
  BY <1>6
<1>8. \A s \in S : place[s] \in 1..n
  BY <1>3, <1>7
<1> HIDE DEF place
<1>9. g \in [S -> T]
  BY <1>6, <1>8
<1>10. ASSUME NEW s \in S, NEW t \in S, g[s] = g[t]
       PROVE  s = t
  <2>1. place[s] = place[t]
    BY <1>6, <1>8, <1>10
  <2> QED
    BY <1>7, <2>1
<1> HIDE DEF g
<1>11. DOMAIN g = S
  BY <1>9
<1> QED
  BY <1>9, <1>10, <1>11 DEF IsInjective

\* Spans of different requests with the tables these have.
Planned(spans) ==
  /\ spans \in Seq(SpanType)
  /\ \A i, j \in 1..Len(spans) : spans[i].r = spans[j].r => i = j
  /\ \A i \in 1..Len(spans) : spans[i].table = req[spans[i].r].table

\* The fields of a request and their types.
LEMMA RequestFacts ==
  ASSUME RunnerInv, NEW r \in Requests
  PROVE  /\ req[r] \in RequestType
         /\ req[r].state \in {"new", "live", "done"} /\ req[r].prompt \in PromptLens
         /\ req[r].prompt \in Nat \ {0}
         /\ req[r].out \in Seq(Requests \X Int) /\ Len(req[r].out) \in Nat
         /\ req[r].table \in Seq(Pages) /\ Len(req[r].table) \in Nat
         /\ req[r].computed \in Nat /\ Length(r) \in Nat
         /\ Len(req[r].table) = NumPages(req[r].computed)
         /\ req[r].computed < Length(r) /\ Uncomputed(r) \in Nat \ {0}
<1>1. req[r] \in RequestType
  BY DEF RunnerInv, RunnerTyped
<1>2. /\ req[r].state \in {"new", "live", "done"} /\ req[r].prompt \in PromptLens
      /\ req[r].out \in Seq(Requests \X Int) /\ req[r].table \in Seq(Pages) /\ req[r].computed \in Nat
  BY <1>1 DEF RequestType
<1>3. req[r].prompt \in Nat \ {0}
  <2>1. PromptLens \subseteq 1..MaxLen /\ MaxLen \in Nat
    BY RunnerAssumption
  <2>2. req[r].prompt \in 1..MaxLen
    BY <1>2, <2>1
  <2> QED
    BY <2>1, <2>2
<1>4. Len(req[r].out) \in Nat /\ Len(req[r].table) \in Nat
  BY <1>2, LenProperties
<1>5. Length(r) \in Nat
  BY <1>3, <1>4 DEF Length
<1>6. Len(req[r].table) = NumPages(req[r].computed) /\ req[r].computed < Length(r)
  BY DEF RunnerInv, TablesFit
<1>7. Uncomputed(r) \in Nat \ {0}
  BY <1>2, <1>5, <1>6 DEF Uncomputed
<1> QED
  BY <1>1, <1>2, <1>3, <1>4, <1>5, <1>6, <1>7

\* The free pages suffice for the new places, one for each.
LEMMA FreshPages ==
  ASSUME RunnerInv, NEW spans, Planned(spans), Fits(spans)
  PROVE  \E g \in [NewPages(spans) -> FreePages] : IsInjective(g)
<1> DEFINE N == Len(spans)
           fill == [i \in 1..N |-> NumPages(End(spans[i]))]
<1>1. /\ N \in Nat /\ DOMAIN spans = 1..N
      /\ \A i \in 1..N : spans[i].r \in Requests /\ spans[i].n \in Nat /\ spans[i].table \in Seq(Pages)
  BY BatchFacts DEF Planned
<1>2. \A i \in 1..N : End(spans[i]) \in Nat /\ NumPages(End(spans[i])) \in Nat
  <2> SUFFICES ASSUME NEW i \in 1..N
               PROVE  End(spans[i]) \in Nat /\ NumPages(End(spans[i])) \in Nat
    OBVIOUS
  <2>1. req[spans[i].r].computed \in Nat
    BY <1>1, RequestFacts
  <2>2. End(spans[i]) \in Nat
    BY <1>1, <2>1 DEF End
  <2> QED
    BY <2>2, PagesFor
<1>3. fill \in [1..N -> Nat]
  BY <1>2
<1>4. PICK M \in Nat : \A i \in 1..N : fill[i] <= M
  <2> HIDE DEF N, fill
  <2> QED
    BY <1>1, <1>3, Bounded
<1>5. NewPages(spans) \subseteq (1..N) \X (1..M)
  <2> SUFFICES ASSUME NEW x \in NewPages(spans)
               PROVE  x \in (1..N) \X (1..M)
    OBVIOUS
  <2>1. PICK i \in 1..N : x \in {i} \X (Len(spans[i].table) + 1 .. NumPages(End(spans[i])))
    BY <1>1 DEF NewPages
  <2>2. PICK p \in Len(spans[i].table) + 1 .. NumPages(End(spans[i])) : x = <<i, p>>
    BY <2>1
  <2>3. Len(spans[i].table) \in Nat /\ NumPages(End(spans[i])) \in Nat /\ NumPages(End(spans[i])) <= M
    BY <1>1, <1>2, <1>4, LenProperties
  <2>4. p \in 1..M
    BY <2>3
  <2> QED
    BY <2>2, <2>4
<1>6. IsFiniteSet(NewPages(spans))
  <2>1. IsFiniteSet(1..N) /\ IsFiniteSet(1..M)
    BY <1>1, FS_Interval
  <2>2. IsFiniteSet((1..N) \X (1..M))
    BY <2>1, FS_Product
  <2> QED
    BY <1>5, <2>2, FS_Subset
<1>7. IsFiniteSet(FreePages)
  <2>1. IsFiniteSet(Pages)
    BY FS_Interval, RunnerAssumption DEF Pages
  <2> QED
    BY <2>1, FS_Subset DEF FreePages
<1> QED
  BY <1>6, <1>7, InjectionExists DEF Fits

\* A table holds the same entries in a pool that has them in the same slots.
LEMMA HoldsSame ==
  ASSUME NEW kv, NEW t, NEW u, NEW r, NEW n \in Nat, Holds(kv, t, r, n),
         \A p \in 1..NumPages(n) : u[p] = t[p]
  PROVE  Holds(kv, u, r, n)
<1> SUFFICES ASSUME NEW p \in 0..n - 1
             PROVE  At(kv, Slot(u, p)) = <<r, p, weights>>
  BY DEF Holds
<1>1. p \div BlockSize + 1 \in 1..NumPages(n)
  BY InPages
<1>2. Slot(u, p) = Slot(t, p)
  BY <1>1 DEF Slot
<1> QED
  BY <1>2 DEF Holds

\* The grown spans are a batch, whose pages no other request has.
GrownFrom(batch, spans) ==
  /\ Batch(batch) /\ Len(batch) = Len(spans)
  /\ \A i \in 1..Len(batch) :
       /\ batch[i].r = spans[i].r /\ batch[i].n = spans[i].n
       /\ \A r \in Requests : r # batch[i].r => Apart(batch[i].table, req[r].table)
  /\ pool # NoPool => Cached(pool, batch)

\* The batch that the scheduler hands to the runner is well formed.
LEMMA GrownBatch ==
  ASSUME RunnerInv, NEW spans, Planned(spans), Fits(spans)
  PROVE  GrownFrom(Grown(spans), spans)
<1> DEFINE N == Len(spans)
           new == NewPages(spans)
           page == CHOOSE g \in [new -> FreePages] : IsInjective(g)
           old(i) == spans[i].table
           k(i) == NumPages(End(spans[i]))
           T(i) == [p \in 1..k(i) |-> IF p <= Len(old(i)) THEN old(i)[p] ELSE page[<<i, p>>]]
           batch == [i \in 1..N |-> [spans[i] EXCEPT !.table = T(i)]]
<1>1. /\ N \in Nat /\ DOMAIN spans = 1..N
      /\ \A i \in 1..N : /\ spans[i] \in SpanType /\ spans[i].r \in Requests
                         /\ spans[i].n \in Nat \ {0} /\ old(i) \in Seq(Pages)
  BY BatchFacts DEF Planned
<1>2. Grown(spans) = batch
  BY <1>1 DEF Grown
<1>3. page \in [new -> FreePages] /\ \A x, y \in new : page[x] = page[y] => x = y
  <2>1. page \in [new -> FreePages] /\ IsInjective(page)
    BY FreshPages
  <2> HIDE DEF page, new
  <2>2. DOMAIN page = new
    BY <2>1
  <2> QED
    BY <2>1, <2>2 DEF IsInjective
<1>4. ASSUME NEW i \in 1..N
      PROVE  /\ old(i) = req[spans[i].r].table /\ Len(old(i)) \in Nat
             /\ Start(spans[i]) \in Nat /\ End(spans[i]) \in Nat /\ Length(spans[i].r) \in Nat
             /\ Len(old(i)) = NumPages(Start(spans[i])) /\ k(i) \in Nat /\ Len(old(i)) <= k(i)
  <2>1. /\ old(i) = req[spans[i].r].table /\ spans[i].r \in Requests /\ spans[i].n \in Nat \ {0}
    BY <1>1 DEF Planned
  <2>2. /\ Start(spans[i]) \in Nat /\ Length(spans[i].r) \in Nat /\ Len(old(i)) \in Nat
        /\ Len(old(i)) = NumPages(Start(spans[i]))
    BY <2>1, RequestFacts DEF Start
  <2>3. End(spans[i]) = Start(spans[i]) + spans[i].n
    BY DEF Start, End
  <2>4. End(spans[i]) \in Nat /\ Start(spans[i]) <= End(spans[i])
    BY <2>1, <2>2, <2>3
  <2>5. k(i) \in Nat /\ NumPages(Start(spans[i])) <= k(i)
    BY <2>2, <2>4, PagesFor, PagesMonotonic
  <2> QED
    BY <2>1, <2>2, <2>4, <2>5
<1>5. ASSUME NEW i \in 1..N, NEW p \in 1..k(i), ~(p <= Len(old(i)))
      PROVE  <<i, p>> \in new /\ T(i)[p] = page[<<i, p>>] /\ T(i)[p] \in FreePages
  <2>1. p \in Len(old(i)) + 1..k(i)
    BY <1>4, <1>5
  <2>2. <<i, p>> \in {i} \X (Len(old(i)) + 1..k(i))
    BY <2>1
  <2>3. <<i, p>> \in new
    BY <1>1, <2>2 DEF NewPages
  <2> HIDE DEF page, new
  <2>4. T(i)[p] = page[<<i, p>>]
    BY <1>5
  <2> QED
    BY <1>3, <2>3, <2>4
<1>6. ASSUME NEW i \in 1..N, NEW p \in 1..k(i), p <= Len(old(i))
      PROVE  /\ T(i)[p] = old(i)[p] /\ p \in 1..Len(old(i)) /\ old(i)[p] \in Pages
             /\ old(i)[p] \notin FreePages
  <2>1. T(i)[p] = old(i)[p]
    BY <1>6
  <2>2. p \in 1..Len(old(i))
    BY <1>4, <1>6
  <2>3. old(i)[p] \in Pages
    BY <1>1, <2>2, ElementOfSeq
  <2>4. DOMAIN old(i) = 1..Len(old(i))
    BY <1>1, LenProperties
  <2>5. old(i)[p] \in Range(req[spans[i].r].table)
    BY <1>4, <2>2, <2>4 DEF Range
  <2> QED
    BY <1>1, <2>1, <2>2, <2>3, <2>5 DEF FreePages
<1>7. \A b \in FreePages : b \in Pages
  BY DEF FreePages
<1>8. \A i \in 1..N : Len(T(i)) = k(i) /\ T(i) \in Seq(Pages)
  <2> SUFFICES ASSUME NEW i \in 1..N
               PROVE  Len(T(i)) = k(i) /\ T(i) \in Seq(Pages)
    OBVIOUS
  <2>1. \A p \in 1..k(i) : T(i)[p] \in Pages
    <3> SUFFICES ASSUME NEW p \in 1..k(i)
                 PROVE  T(i)[p] \in Pages
      OBVIOUS
    <3>1. CASE p <= Len(old(i))
      BY <1>6, <3>1
    <3>2. CASE ~(p <= Len(old(i)))
      BY <1>5, <1>7, <3>2
    <3> QED
      BY <3>1, <3>2
  <2>2. DOMAIN T(i) = 1..k(i) /\ k(i) \in Nat
    BY <1>4
  <2>3. T(i) = [p \in 1..k(i) |-> T(i)[p]]
    OBVIOUS
  <2> HIDE DEF T, k
  <2>4. T(i) \in [1..k(i) -> Pages]
    BY <2>1, <2>3
  <2> QED
    BY <2>2, <2>4
<1>9. ASSUME NEW i \in 1..N
      PROVE  /\ batch[i].r = spans[i].r /\ batch[i].n = spans[i].n /\ batch[i].table = T(i)
             /\ batch[i] \in SpanType
  <2>1. batch[i] = [spans[i] EXCEPT !.table = T(i)]
    OBVIOUS
  <2>2. T(i) \in Seq(Pages) /\ spans[i] \in SpanType
    BY <1>1, <1>8
  <2> HIDE DEF T, batch
  <2> QED
    BY <2>1, <2>2 DEF SpanType
<1>10. batch \in Seq(SpanType) /\ Len(batch) = N
  <2>1. DOMAIN batch = 1..N
    OBVIOUS
  <2>2. batch = [i \in 1..N |-> batch[i]]
    OBVIOUS
  <2> HIDE DEF batch, N
  <2>3. batch \in [1..N -> SpanType]
    BY <1>9, <2>2
  <2> QED
    BY <1>1, <2>1, <2>3
<1> HIDE DEF page, new, batch
<1>11. ASSUME NEW i \in 1..N, NEW p \in 1..k(i), NEW q \in 1..k(i), T(i)[p] = T(i)[q]
       PROVE  p = q
  <2>1. Unshared(old(i))
    BY <1>1, <1>4 DEF RunnerInv, TablesApart
  <2> HIDE DEF T, k, old
  <2>2. CASE p <= Len(old(i)) /\ q <= Len(old(i))
    BY <1>6, <1>11, <2>1, <2>2 DEF Unshared
  <2>3. CASE ~(p <= Len(old(i))) /\ ~(q <= Len(old(i)))
    <3>1. <<i, p>> \in new /\ <<i, q>> \in new /\ page[<<i, p>>] = page[<<i, q>>]
      BY <1>5, <1>11, <2>3
    <3> QED
      BY <1>3, <3>1
  <2>4. CASE (p <= Len(old(i))) /\ ~(q <= Len(old(i)))
    <3>1. T(i)[p] \notin FreePages
      BY <1>6, <2>4
    <3>2. T(i)[q] \in FreePages
      BY <1>5, <2>4
    <3> QED
      BY <1>11, <3>1, <3>2
  <2>5. CASE ~(p <= Len(old(i))) /\ (q <= Len(old(i)))
    <3>1. T(i)[q] \notin FreePages
      BY <1>6, <2>5
    <3>2. T(i)[p] \in FreePages
      BY <1>5, <2>5
    <3> QED
      BY <1>11, <3>1, <3>2
  <2> QED
    BY <2>2, <2>3, <2>4, <2>5
<1>12. ASSUME NEW i \in 1..N, NEW j \in 1..N, i # j, NEW p \in 1..k(i), NEW q \in 1..k(j)
       PROVE  T(i)[p] # T(j)[q]
  <2>1. Apart(old(i), old(j))
    <3>1. spans[i].r # spans[j].r
      BY <1>12 DEF Planned
    <3> QED
      BY <1>1, <1>4, <3>1 DEF RunnerInv, TablesApart
  <2> HIDE DEF T, k, old
  <2>2. CASE p <= Len(old(i)) /\ q <= Len(old(j))
    BY <1>6, <2>1, <2>2 DEF Apart
  <2>3. CASE ~(p <= Len(old(i))) /\ ~(q <= Len(old(j)))
    <3>1. <<i, p>> \in new /\ <<j, q>> \in new /\ <<i, p>> # <<j, q>>
      BY <1>5, <1>12, <2>3
    <3> QED
      BY <1>3, <1>5, <2>3, <3>1
  <2>4. CASE (p <= Len(old(i))) /\ ~(q <= Len(old(j)))
    <3>1. T(i)[p] \notin FreePages
      BY <1>6, <2>4
    <3>2. T(j)[q] \in FreePages
      BY <1>5, <2>4
    <3> QED
      BY <3>1, <3>2
  <2>5. CASE ~(p <= Len(old(i))) /\ (q <= Len(old(j)))
    <3>1. T(j)[q] \notin FreePages
      BY <1>6, <2>5
    <3>2. T(i)[p] \in FreePages
      BY <1>5, <2>5
    <3> QED
      BY <3>1, <3>2
  <2> QED
    BY <2>2, <2>3, <2>4, <2>5
<1>13. ASSUME NEW i \in 1..N, NEW r \in Requests, r # spans[i].r
       PROVE  Apart(T(i), req[r].table)
  <2>1. Apart(old(i), req[r].table)
    BY <1>1, <1>4, <1>13 DEF RunnerInv, TablesApart
  <2>2. DOMAIN req[r].table = 1..Len(req[r].table)
    BY RequestFacts, LenProperties
  <2>3. \A q \in 1..Len(req[r].table) : req[r].table[q] \notin FreePages
    BY <2>2 DEF FreePages, Range
  <2>4. Len(T(i)) = k(i)
    BY <1>8
  <2> HIDE DEF T, k, old
  <2> SUFFICES ASSUME NEW p \in 1..k(i), NEW q \in 1..Len(req[r].table)
               PROVE  T(i)[p] # req[r].table[q]
    BY <2>4 DEF Apart
  <2>5. CASE p <= Len(old(i))
    BY <1>6, <2>1, <2>5 DEF Apart
  <2>6. CASE ~(p <= Len(old(i)))
    BY <1>5, <2>3, <2>6
  <2> QED
    BY <2>5, <2>6
<1>14. Batch(batch)
  <2>1. weights \in Nat
    BY DEF RunnerInv, RunnerTyped
  <2>2. \A i, j \in 1..N : batch[i].r = batch[j].r => i = j
    BY <1>9 DEF Planned
  <2>3. ASSUME NEW i \in 1..N
        PROVE  /\ Start(batch[i]) \in Nat /\ Length(batch[i].r) \in Nat /\ Unshared(batch[i].table)
               /\ Len(batch[i].table) = NumPages(End(batch[i]))
    <3>1. Start(batch[i]) = Start(spans[i]) /\ End(batch[i]) = End(spans[i])
      BY <1>9 DEF Start, End
    <3>2. Unshared(T(i)) /\ Len(T(i)) = k(i)
      <4>1. T(i) \in Seq(Pages) /\ Len(T(i)) = k(i)
        BY <1>8
      <4> HIDE DEF T, k
      <4> QED
        BY <1>11, <4>1 DEF Unshared
    <3> HIDE DEF T
    <3> QED
      BY <1>4, <1>9, <3>1, <3>2
  <2>4. ASSUME NEW i \in 1..N, NEW j \in 1..N, i # j
        PROVE  Apart(batch[i].table, batch[j].table)
    <3>1. Len(T(i)) = k(i) /\ Len(T(j)) = k(j)
      BY <1>8
    <3> HIDE DEF T, k
    <3> QED
      BY <1>9, <1>12, <2>4, <3>1 DEF Apart
  <2> HIDE DEF T, k, old
  <2> QED
    BY <1>10, <2>1, <2>2, <2>3, <2>4 DEF Batch
<1>15. ASSUME pool # NoPool
       PROVE  Cached(pool, batch)
  <2>1. pool \in PoolType
    BY <1>15 DEF RunnerInv, RunnerTyped
  <2>2. ASSUME NEW i \in 1..N
        PROVE  Holds(pool, T(i), spans[i].r, Start(spans[i]))
    <3>1. Holds(pool, old(i), spans[i].r, Start(spans[i]))
      BY <1>1, <1>4, <1>15 DEF RunnerInv, Resident, Start
    <3>2. \A p \in 1..NumPages(Start(spans[i])) : T(i)[p] = old(i)[p]
      <4> SUFFICES ASSUME NEW p \in 1..Len(old(i))
                   PROVE  T(i)[p] = old(i)[p]
        BY <1>4
      <4>1. p \in 1..k(i) /\ p <= Len(old(i))
        BY <1>4
      <4> QED
        BY <1>6, <4>1
    <3> HIDE DEF T, old
    <3> QED
      BY <1>4, <3>1, <3>2, HoldsSame
  <2>3. \A i \in 1..N : Start(batch[i]) = Start(spans[i])
    BY <1>9 DEF Start
  <2> HIDE DEF T
  <2> QED
    BY <1>9, <1>10, <2>1, <2>2, <2>3 DEF Cached
<1> HIDE DEF T, k, old
<1> QED
  BY <1>2, <1>9, <1>10, <1>13, <1>14, <1>15 DEF GrownFrom

(***************************************************************************)
(* What a step leaves of the requests it ran.                              *)
(***************************************************************************)
Prefix(u, t) == Len(u) <= Len(t) /\ \A p \in 1..Len(u) : u[p] = t[p]

\* The outputs are those of the request's own rows.
OwnOutputs(out, r, prompt) == \A i \in 1..Len(out) : out[i] = <<r, prompt + i - 2>>

\* A request after its span: with some of the span's pages, whose entries the
\* pool holds.
Moved(q, s, kv) ==
  /\ q \in RequestType
  /\ q.state \in {"done", req[s.r].state}
  /\ Len(q.table) = NumPages(q.computed) /\ q.computed < q.prompt + Len(q.out)
  /\ OwnOutputs(q.out, s.r, q.prompt)
  /\ Prefix(q.table, s.table)
  /\ Holds(kv, q.table, s.r, q.computed)

\* What is apart stays apart when a table is cut.
LEMMA ApartPrefix ==
  ASSUME NEW t, NEW u, NEW v, Len(t) \in Nat, Len(u) \in Nat, Prefix(u, t), Apart(t, v)
  PROVE  Apart(u, v)
<1> SUFFICES ASSUME NEW p \in 1..Len(u), NEW q \in 1..Len(v)
             PROVE  u[p] # v[q]
  BY DEF Apart
<1>1. p \in 1..Len(t) /\ u[p] = t[p]
  BY DEF Prefix
<1> QED
  BY <1>1 DEF Apart

\* Being apart is symmetric.
LEMMA ApartSymmetric ==
  ASSUME NEW t, NEW u, Apart(t, u)
  PROVE  Apart(u, t)
BY DEF Apart

\* An empty table is apart from every table.
LEMMA ApartEmpty ==
  ASSUME NEW t
  PROVE  Apart(<<>>, t) /\ Apart(t, <<>>) /\ Unshared(<<>>)
BY DEF Apart, Unshared

\* What is kept of a request: its new outputs, and the table it was given or,
\* when it is complete, none.
Kept(q, rq, table, n, out) ==
  /\ q \in RequestType /\ q.prompt = rq.prompt /\ q.out = out
  /\ q.state \in {"done", rq.state}
  /\ \/ q.table = <<>> /\ q.computed = 0
     \/ q.table = table /\ q.computed = n
  /\ Len(q.table) = NumPages(q.computed) /\ q.computed < q.prompt + Len(q.out)

\* A request that is done gives its table up, any other keeps it.
LEMMA WithFacts ==
  ASSUME NEW rq \in RequestType, NEW table \in Seq(Pages), NEW n \in Nat,
         NEW out \in Seq(Requests \X Int), n < rq.prompt + Len(out), Len(table) = NumPages(n),
         NEW q, q = With(rq, table, n, out)
  PROVE  Kept(q, rq, table, n, out)
<1>1. /\ rq.prompt \in Nat \ {0} /\ Len(out) \in Nat
  <2>1. PromptLens \subseteq 1..MaxLen /\ MaxLen \in Nat
    BY RunnerAssumption
  <2>2. rq.prompt \in PromptLens
    BY DEF RequestType
  <2>3. rq.prompt \in 1..MaxLen
    BY <2>1, <2>2
  <2> QED
    BY <2>1, <2>3, LenProperties
<1>2. CASE rq.prompt + Len(out) >= MaxLen
  <2>1. q = [Cold(rq) EXCEPT !.state = "done", !.out = out]
    BY <1>2 DEF With
  <2>2. Cold(rq) = [rq EXCEPT !.table = <<>>, !.computed = 0]
    BY DEF Cold
  <2>3. Cold(rq) \in RequestType /\ Cold(rq).prompt = rq.prompt /\ Cold(rq).table = <<>> /\ Cold(rq).computed = 0
    <3>1. <<>> \in Seq(Pages)
      BY EmptySeq
    <3> DEFINE warmer == [rq EXCEPT !.table = <<>>]
    <3>2. warmer \in RequestType /\ warmer.prompt = rq.prompt /\ warmer.table = <<>>
      BY <3>1 DEF RequestType
    <3>3. Cold(rq) = [warmer EXCEPT !.computed = 0]
      BY <2>2
    <3> HIDE DEF warmer
    <3>4. [warmer EXCEPT !.computed = 0] \in RequestType
      BY <3>2 DEF RequestType
    <3>5. /\ [warmer EXCEPT !.computed = 0].prompt = warmer.prompt
          /\ [warmer EXCEPT !.computed = 0].table = warmer.table
          /\ [warmer EXCEPT !.computed = 0].computed = 0
      BY <3>2 DEF RequestType
    <3> QED
      BY <3>2, <3>3, <3>4, <3>5
  <2> HIDE DEF Cold
  <2>4. /\ q \in RequestType /\ q.prompt = rq.prompt /\ q.out = out /\ q.state = "done"
        /\ q.table = <<>> /\ q.computed = 0
    BY <2>1, <2>3 DEF RequestType
  <2>5. Len(q.table) = NumPages(q.computed)
    BY <2>4, PagesFor
  <2> QED
    BY <1>1, <2>4, <2>5 DEF Kept
<1>3. CASE ~(rq.prompt + Len(out) >= MaxLen)
  <2>1. q = [rq EXCEPT !.table = table, !.computed = n, !.out = out]
    BY <1>3 DEF With
  <2>2. /\ q \in RequestType /\ q.prompt = rq.prompt /\ q.out = out /\ q.state = rq.state
        /\ q.table = table /\ q.computed = n
    BY <2>1 DEF RequestType
  <2> QED
    BY <2>2 DEF Kept
<1> QED
  BY <1>2, <1>3

Continues(more, out, r, prompt) ==
  \A i \in 1..Len(more) : more[i] = <<r, prompt + Len(out) + i - 2>>

\* Outputs with more that continue them are outputs sampled from own rows.
LEMMA OutputsGrow ==
  ASSUME NEW r \in Requests, NEW prompt \in Nat, NEW out \in Seq(Requests \X Int),
         OwnOutputs(out, r, prompt), NEW more \in Seq(Requests \X Int),
         Continues(more, out, r, prompt)
  PROVE  /\ out \o more \in Seq(Requests \X Int) /\ Len(out \o more) = Len(out) + Len(more)
         /\ OwnOutputs(out \o more, r, prompt)
<1> DEFINE m == Len(more)
<1>1. m \in Nat /\ Len(out) \in Nat
  BY LenProperties
<1>2. /\ out \o more \in Seq(Requests \X Int) /\ Len(out \o more) = Len(out) + m
      /\ \A i \in 1..Len(out) + m : (out \o more)[i] = IF i <= Len(out) THEN out[i] ELSE more[i - Len(out)]
  BY <1>1, ConcatProperties
<1>3. ASSUME NEW i \in 1..Len(out) + m
      PROVE  (out \o more)[i] = <<r, prompt + i - 2>>
  <2>1. CASE i <= Len(out)
    <3>1. i \in 1..Len(out)
      BY <1>1, <2>1
    <3> QED
      BY <1>2, <2>1, <3>1 DEF OwnOutputs
  <2>2. CASE ~(i <= Len(out))
    <3> DEFINE l == Len(out)
    <3> HIDE DEF l
    <3>1. l \in Nat /\ i \in 1..l + m /\ ~(i <= l)
      BY <1>1, <2>2 DEF l
    <3>2. i - l \in 1..m
      BY <3>1
    <3>3. PICK j \in 1..m : j = i - Len(out)
      BY <3>2 DEF l
    <3>4. more[j] = <<r, prompt + Len(out) + j - 2>>
      BY DEF Continues
    <3>5. prompt + Len(out) + j - 2 = prompt + i - 2
      BY <1>1, <3>3
    <3> QED
      BY <1>2, <2>2, <3>3, <3>4, <3>5
  <2> QED
    BY <2>1, <2>2
<1> QED
  BY <1>2, <1>3 DEF OwnOutputs

\* Fewer requests are live after a step that makes none live.
LEMMA FewerLive ==
  ASSUME FewLive, setup \in Setups, setup' = setup,
         \A r \in Requests : req'[r].state = "live" => req[r].state = "live"
  PROVE  FewLive'
<1>1. Live' \in SUBSET Live
  BY DEF Live
<1>2. IsFiniteSet(Live)
  BY DEF FewLive
<1> DEFINE L == Live
           M == Live'
<1>3. M \in SUBSET L /\ IsFiniteSet(L)
  BY <1>1, <1>2
<1> HIDE DEF L, M
<1>4. IsFiniteSet(M) /\ Cardinality(M) <= Cardinality(L) /\ Cardinality(M) \in Nat /\ Cardinality(L) \in Nat
  BY <1>3, FS_Subset, FS_CardinalityType
<1>5. setup.seqs \in Int
  BY RunnerAssumption
<1>6. Cardinality(L) <= setup.seqs
  BY DEF FewLive, L
<1>7. Cardinality(M) <= setup.seqs
  BY <1>4, <1>5, <1>6
<1> QED
  BY <1>4, <1>7 DEF FewLive, M

\* A step that moves the requests of a batch and touches only their pages
\* preserves the invariant.
LEMMA StepInv ==
  ASSUME RunnerInv, NEW spans, NEW batch, GrownFrom(batch, spans), pool # NoPool,
         req' \in [Requests -> RequestType], pool' \in PoolType,
         home' = home, weights' = weights, setup' = setup,
         Elsewhere(pool', pool, batch), Bound(graphs'), misread' = {},
         \A r \in Requests :
           \/ req'[r] = req[r] /\ \A i \in 1..Len(batch) : batch[i].r # r
           \/ \E i \in 1..Len(batch) : batch[i].r = r /\ Moved(req'[r], batch[i], pool')
  PROVE  RunnerInv'
<1>1. /\ Batch(batch)
      /\ \A i \in 1..Len(batch) : \A r \in Requests :
           r # batch[i].r => Apart(batch[i].table, req[r].table)
  BY DEF GrownFrom
<1> DEFINE Same(r) == req'[r] = req[r] /\ \A i \in 1..Len(batch) : batch[i].r # r
           Ran(r, i) == batch[i].r = r /\ Moved(req'[r], batch[i], pool')
<1>2. \A r \in Requests : Same(r) \/ \E i \in 1..Len(batch) : Ran(r, i)
  OBVIOUS
<1>3. pool' # NoPool
  BY MarkersAssumption
<1>4. RunnerTyped'
  BY DEF RunnerInv, RunnerTyped
<1>5. FewLive'
  <2>1. ASSUME NEW r \in Requests, req'[r].state = "live"
        PROVE  req[r].state = "live"
    <3>1. CASE Same(r)
      BY <2>1, <3>1
    <3>2. ASSUME NEW i \in 1..Len(batch), Ran(r, i)
          PROVE  req[r].state = "live"
      BY <2>1, <3>2 DEF Moved
    <3> QED
      BY <1>2, <3>1, <3>2
  <2>2. FewLive /\ setup \in Setups
    BY DEF RunnerInv, RunnerTyped
  <2> QED
    BY <2>1, <2>2, FewerLive
<1>6. \A r \in Requests : req'[r].table \in Seq(Pages) /\ req'[r].computed \in Nat /\ Len(req'[r].table) \in Nat
  <2> SUFFICES ASSUME NEW r \in Requests
               PROVE  req'[r].table \in Seq(Pages) /\ req'[r].computed \in Nat /\ Len(req'[r].table) \in Nat
    OBVIOUS
  <2>1. req'[r] \in RequestType
    OBVIOUS
  <2>2. req'[r].table \in Seq(Pages) /\ req'[r].computed \in Nat
    BY <2>1 DEF RequestType
  <2> QED
    BY <2>2, LenProperties
<1>7. TablesFit'
  <2> SUFFICES ASSUME NEW r \in Requests
               PROVE  /\ Len(req'[r].table) = NumPages(req'[r].computed)
                      /\ req'[r].computed < req'[r].prompt + Len(req'[r].out)
    BY DEF TablesFit, Length
  <2>1. CASE Same(r)
    BY <2>1 DEF RunnerInv, TablesFit, Length
  <2>2. ASSUME NEW i \in 1..Len(batch), Ran(r, i)
        PROVE  /\ Len(req'[r].table) = NumPages(req'[r].computed)
               /\ req'[r].computed < req'[r].prompt + Len(req'[r].out)
    BY <2>2 DEF Moved
  <2> QED
    BY <1>2, <2>1, <2>2
<1>8. ASSUME NEW r \in Requests
      PROVE  Unshared(req'[r].table)
  <2>1. CASE Same(r)
    BY <2>1 DEF RunnerInv, TablesApart
  <2>2. ASSUME NEW i \in 1..Len(batch), Ran(r, i)
        PROVE  Unshared(req'[r].table)
    <3>1. Unshared(batch[i].table) /\ Prefix(req'[r].table, batch[i].table)
      BY <1>1, <2>2 DEF Moved, Batch
    <3>2. Len(req'[r].table) \in Nat /\ Len(batch[i].table) \in Nat /\ req'[r].table \in Seq(Pages)
      BY <1>1, <1>6, SpanFacts
    <3> QED
      BY <3>1, <3>2 DEF Unshared, Prefix
  <2> QED
    BY <1>2, <2>1, <2>2
<1>9. ASSUME NEW q \in Requests, NEW r \in Requests, q # r
      PROVE  Apart(req'[q].table, req'[r].table)
  <2>1. Len(req'[q].table) \in Nat /\ Len(req'[r].table) \in Nat
    BY <1>6
  <2>2. CASE Same(q) /\ Same(r)
    BY <1>9, <2>2 DEF RunnerInv, TablesApart
  <2>3. ASSUME NEW i \in 1..Len(batch), Ran(q, i), Same(r)
        PROVE  Apart(req'[q].table, req'[r].table)
    <3>1. Apart(batch[i].table, req[r].table) /\ Len(batch[i].table) \in Nat
      BY <1>1, <1>9, <2>3, SpanFacts
    <3>2. Prefix(req'[q].table, batch[i].table)
      BY <2>3 DEF Moved
    <3> QED
      BY <2>1, <2>3, <3>1, <3>2, ApartPrefix
  <2>4. ASSUME NEW i \in 1..Len(batch), Ran(r, i), Same(q)
        PROVE  Apart(req'[q].table, req'[r].table)
    <3>1. Apart(batch[i].table, req[q].table) /\ Len(batch[i].table) \in Nat
      BY <1>1, <1>9, <2>4, SpanFacts
    <3>2. Prefix(req'[r].table, batch[i].table)
      BY <2>4 DEF Moved
    <3>3. Apart(req'[r].table, req'[q].table)
      BY <2>1, <2>4, <3>1, <3>2, ApartPrefix
    <3> QED
      BY <3>3, ApartSymmetric
  <2>5. ASSUME NEW i \in 1..Len(batch), NEW j \in 1..Len(batch), Ran(q, i), Ran(r, j)
        PROVE  Apart(req'[q].table, req'[r].table)
    <3>1. Apart(batch[i].table, batch[j].table)
      BY <1>1, <1>9, <2>5 DEF Batch
    <3>2. /\ Prefix(req'[q].table, batch[i].table) /\ Prefix(req'[r].table, batch[j].table)
          /\ Len(batch[i].table) \in Nat /\ Len(batch[j].table) \in Nat
      BY <1>1, <2>5, SpanFacts DEF Moved
    <3>3. Apart(req'[q].table, batch[j].table)
      BY <2>1, <3>1, <3>2, ApartPrefix
    <3>4. Apart(batch[j].table, req'[q].table)
      BY <3>3, ApartSymmetric
    <3>5. Apart(req'[r].table, req'[q].table)
      BY <2>1, <3>2, <3>4, ApartPrefix
    <3> QED
      BY <3>5, ApartSymmetric
  <2> HIDE DEF Same, Ran
  <2> QED
    BY <1>2, <2>2, <2>3, <2>4, <2>5
<1>10. ASSUME NEW r \in Requests
       PROVE  Holds(pool', req'[r].table, r, req'[r].computed)
  <2>1. CASE Same(r)
    <3>1. Holds(pool, req[r].table, r, req[r].computed)
      BY DEF RunnerInv, Resident
    <3>2. /\ req[r].table \in Seq(Pages) /\ req[r].computed \in Nat
          /\ NumPages(req[r].computed) <= Len(req[r].table)
      <4>1. /\ req[r].table \in Seq(Pages) /\ req[r].computed \in Nat /\ Len(req[r].table) \in Nat
            /\ NumPages(req[r].computed) = Len(req[r].table)
        BY RequestFacts
      <4> QED
        BY <4>1
    <3>3. \A i \in 1..Len(batch) : Apart(batch[i].table, req[r].table)
      BY <1>1, <2>1
    <3>4. Holds(pool', req[r].table, r, req[r].computed)
      BY <3>1, <3>2, <3>3, HoldsElsewhere
    <3> QED
      BY <2>1, <3>4
  <2>2. ASSUME NEW i \in 1..Len(batch), Ran(r, i)
        PROVE  Holds(pool', req'[r].table, r, req'[r].computed)
    BY <2>2 DEF Moved
  <2> QED
    BY <1>2, <2>1, <2>2
<1>11. Resident'
  <2> SUFFICES ASSUME NEW r \in Requests
               PROVE  Holds(pool, req[r].table, r, req[r].computed)'
    BY DEF Resident
  <2> QED
    BY <1>10 DEF Holds
<1>12. Bound(graphs)'
  BY DEF Bound
<1>13. NothingAsleep'
  BY <1>3 DEF NothingAsleep
<1>14. ReadsOwnContext'
  BY DEF ReadsOwnContext
<1>15. ASSUME NEW r \in Requests, NEW k \in DOMAIN req'[r].out
       PROVE  req'[r].out[k] = <<r, req'[r].prompt + k - 2>>
  <2>1. CASE Same(r)
    BY <1>15, <2>1 DEF RunnerInv, SampledFromOwnRow
  <2>2. ASSUME NEW i \in 1..Len(batch), Ran(r, i)
        PROVE  req'[r].out[k] = <<r, req'[r].prompt + k - 2>>
    <3>1. req'[r] \in RequestType /\ OwnOutputs(req'[r].out, r, req'[r].prompt)
      BY <2>2 DEF Moved
    <3>2. req'[r].out \in Seq(Requests \X Int)
      BY <3>1 DEF RequestType
    <3>3. DOMAIN req'[r].out = 1..Len(req'[r].out)
      BY <3>2, LenProperties
    <3> QED
      BY <1>15, <3>1, <3>3 DEF OwnOutputs
  <2> QED
    BY <1>2, <2>1, <2>2
<1>16. SampledFromOwnRow'
  BY <1>15 DEF SampledFromOwnRow
<1>17. TablesApart'
  BY <1>8, <1>9 DEF TablesApart
<1> QED
  BY <1>4, <1>5, <1>7, <1>11, <1>12, <1>13, <1>14, <1>16, <1>17 DEF RunnerInv

\* A request takes its token: it has the pages of its span, or is complete.
LEMMA TakenMoved ==
  ASSUME RunnerInv, NEW batch, Batch(batch), NEW i \in 1..Len(batch), NEW kv,
         End(batch[i]) <= Length(batch[i].r),
         Holds(kv, batch[i].table, batch[i].r, End(batch[i])),
         NEW token, token = IF End(batch[i]) >= Length(batch[i].r)
                            THEN <<batch[i].r, End(batch[i]) - 1, weights>> ELSE NoToken
  PROVE  Moved(Taken(batch[i], token), batch[i], kv)
<1> DEFINE s == batch[i]
           rq == req[s.r]
           more == IF token = NoToken THEN <<>> ELSE <<<<token[1], token[2]>>>>
           q == Taken(s, token)
<1>1. /\ s.r \in Requests /\ s.table \in Seq(Pages) /\ End(s) \in Nat \ {0}
      /\ Len(s.table) = NumPages(End(s)) /\ Len(s.table) \in Nat /\ weights \in Nat
  BY SpanFacts DEF Batch
<1>2. /\ rq \in RequestType /\ rq.prompt \in Nat /\ rq.out \in Seq(Requests \X Int)
      /\ Len(rq.out) \in Nat /\ Length(s.r) = rq.prompt + Len(rq.out) /\ Length(s.r) \in Nat
  BY <1>1, RequestFacts DEF Length
<1>3. OwnOutputs(rq.out, s.r, rq.prompt)
  <2>1. DOMAIN rq.out = 1..Len(rq.out)
    BY <1>2, LenProperties
  <2> QED
    BY <1>1, <2>1 DEF RunnerInv, SampledFromOwnRow, OwnOutputs
<1>4. q = With(rq, s.table, End(s), rq.out \o more)
  BY DEF Taken
<1>5. End(s) <= Length(s.r)
  OBVIOUS
<1>6. /\ rq.out \o more \in Seq(Requests \X Int) /\ OwnOutputs(rq.out \o more, s.r, rq.prompt)
      /\ End(s) < rq.prompt + Len(rq.out \o more)
  <2>1. CASE End(s) >= Length(s.r)
    <3>1. token = <<s.r, End(s) - 1, weights>>
      BY <2>1
    <3>2. token \in Entry
      BY <1>1, <3>1 DEF Entry
    <3>3. token # NoToken
      BY <3>2, MarkersAssumption
    <3>4. more = <<<<s.r, End(s) - 1>>>>
      BY <3>1, <3>3
    <3>5. End(s) - 1 = rq.prompt + Len(rq.out) + 1 - 2 /\ End(s) - 1 \in Int
      BY <1>1, <1>2, <1>5, <2>1
    <3> HIDE DEF s, rq, more
    <3>6. DOMAIN more = 1..1 /\ more \in Seq(Requests \X Int) /\ more[1] = <<s.r, End(s) - 1>>
      BY <1>1, <3>4, <3>5
    <3>7. Len(more) = 1 /\ Continues(more, rq.out, s.r, rq.prompt)
      <4>1. Len(more) = 1
        BY <3>4
      <4> QED
        BY <3>5, <3>6, <4>1 DEF Continues
    <3>8. /\ rq.out \o more \in Seq(Requests \X Int) /\ Len(rq.out \o more) = Len(rq.out) + 1
          /\ OwnOutputs(rq.out \o more, s.r, rq.prompt)
      <4> DEFINE a == rq.prompt
                 b == rq.out
                 x == s.r
      <4>1. /\ a \in Nat /\ b \in Seq(Requests \X Int) /\ OwnOutputs(b, x, a)
            /\ Continues(more, b, x, a) /\ x \in Requests
        BY <1>1, <1>2, <1>3, <3>7
      <4> HIDE DEF a, b, x
      <4>2. /\ b \o more \in Seq(Requests \X Int) /\ Len(b \o more) = Len(b) + Len(more)
            /\ OwnOutputs(b \o more, x, a)
        BY <3>6, <4>1, OutputsGrow
      <4> QED
        BY <3>7, <4>2 DEF a, b, x
    <3> QED
      BY <1>1, <1>2, <1>5, <3>8
  <2>2. CASE ~(End(s) >= Length(s.r))
    <3>1. more = <<>>
      BY <2>2
    <3> HIDE DEF s, rq, more
    <3>2. rq.out \o more = rq.out
      BY <1>2, <3>1
    <3> QED
      BY <1>1, <1>2, <1>3, <2>2, <3>2
  <2> QED
    BY <2>1, <2>2
<1>7. Holds(kv, s.table, s.r, End(s))
  OBVIOUS
<1> HIDE DEF more, q, s, rq
<1>8. /\ q \in RequestType /\ q.prompt = rq.prompt /\ q.out = rq.out \o more
      /\ q.state \in {"done", rq.state}
      /\ \/ q.table = <<>> /\ q.computed = 0
         \/ q.table = s.table /\ q.computed = End(s)
      /\ Len(q.table) = NumPages(q.computed) /\ q.computed < q.prompt + Len(q.out)
  <2>1. Kept(q, rq, s.table, End(s), rq.out \o more)
    BY <1>1, <1>2, <1>4, <1>6, WithFacts
  <2> QED
    BY <2>1 DEF Kept
<1>9. Prefix(q.table, s.table) /\ Holds(kv, q.table, s.r, q.computed)
  <2>1. CASE q.table = <<>> /\ q.computed = 0
    <3>1. Prefix(<<>>, s.table)
      BY <1>1 DEF Prefix
    <3>2. Holds(kv, <<>>, s.r, 0)
      BY DEF Holds
    <3> QED
      BY <2>1, <3>1, <3>2
  <2>2. CASE q.table = s.table /\ q.computed = End(s)
    <3>1. Prefix(s.table, s.table)
      BY <1>1 DEF Prefix
    <3> QED
      BY <1>7, <2>2, <3>1
  <2> QED
    BY <1>8, <2>1, <2>2
<1> QED
  BY <1>6, <1>8, <1>9 DEF Moved, s, q, rq

\* A forward that reads own contexts adds nothing to misread.
LEMMA NothingMisread ==
  ASSUME NEW reads, Reads(reads), ReadsOwnContext
  PROVE  misread \union Misread(reads) = {}
BY DEF Reads, Misread, ReadsOwnContext

\* A step of the runner preserves the invariant.
LEMMA RunStepInv ==
  ASSUME RunnerInv, NEW spans, Planned(spans), Len(spans) \in 1..MaxSeqs,
         \A i \in 1..Len(spans) : End(spans[i]) <= Length(spans[i].r),
         Fits(spans), RunStep(Grown(spans))
  PROVE  RunnerInv'
<1>1. PICK batch : batch = Grown(spans)
  OBVIOUS
<1>2. GrownFrom(batch, spans)
  BY <1>1, GrownBatch
<1>3. PICK done : done = Run(batch)
  OBVIOUS
<1>4. Took(batch, done)
  BY <1>1, <1>3 DEF RunStep
<1>5. pool # NoPool
  BY <1>4 DEF Took
<1>6. Batch(batch) /\ Len(batch) \in 1..MaxSeqs /\ Cached(pool, batch)
  BY <1>2, <1>5 DEF GrownFrom
<1>7. Done(done, pool, batch) /\ Bound(done.graphs)
  <2>1. Bound(graphs)
    BY DEF RunnerInv
  <2> QED
    BY <1>3, <1>6, <2>1, RunDone
<1>8. /\ Appended(done.pool, pool, batch) /\ Reads(done.reads) /\ TokensOf(done.tokens, batch)
  BY <1>7 DEF Done
<1>9. /\ pool' = done.pool /\ graphs' = done.graphs
      /\ home' = home /\ weights' = weights /\ setup' = setup
  BY <1>4 DEF Took
<1>10. /\ pool' \in PoolType /\ Elsewhere(pool', pool, batch) /\ Bound(graphs')
  BY <1>7, <1>8, <1>9 DEF Appended
<1>11. misread' = {}
  <2>1. misread' = misread \union Misread(done.reads)
    BY <1>4 DEF Took
  <2> QED
    BY <1>8, <2>1, NothingMisread DEF RunnerInv
<1>12. DOMAIN batch = 1..Len(batch)
  BY <1>6, BatchFacts DEF Batch
<1>13. ASSUME NEW i \in 1..Len(batch)
       PROVE  Moved(Taken(batch[i], done.tokens[i]), batch[i], pool')
  <2>1. End(batch[i]) <= Length(batch[i].r)
    <3>1. i \in 1..Len(spans) /\ batch[i].r = spans[i].r /\ batch[i].n = spans[i].n
      BY <1>2 DEF GrownFrom
    <3> QED
      BY <3>1 DEF End
  <2>2. Holds(pool', batch[i].table, batch[i].r, End(batch[i]))
    BY <1>8, <1>9 DEF Appended
  <2>3. done.tokens[i] = IF End(batch[i]) >= Length(batch[i].r)
                         THEN <<batch[i].r, End(batch[i]) - 1, weights>> ELSE NoToken
    BY <1>8 DEF TokensOf
  <2> QED
    BY <1>6, <2>1, <2>2, <2>3, TakenMoved
<1>14. req' = [r \in Requests |->
                 IF \E i \in DOMAIN batch : batch[i].r = r
                 THEN LET i == CHOOSE j \in DOMAIN batch : batch[j].r = r
                      IN  Taken(batch[i], done.tokens[i])
                 ELSE req[r]]
  BY <1>4 DEF Took
<1>15. ASSUME NEW r \in Requests
       PROVE  \/ req'[r] = req[r] /\ \A i \in 1..Len(batch) : batch[i].r # r
              \/ \E i \in 1..Len(batch) : batch[i].r = r /\ Moved(req'[r], batch[i], pool')
  <2>1. CASE \E i \in 1..Len(batch) : batch[i].r = r
    <3>1. PICK i \in 1..Len(batch) : i = CHOOSE j \in DOMAIN batch : batch[j].r = r
      BY <1>12, <2>1
    <3>2. batch[i].r = r
      BY <1>12, <2>1, <3>1
    <3>3. req'[r] = Taken(batch[i], done.tokens[i])
      BY <1>12, <1>14, <2>1, <3>1
    <3> QED
      BY <1>13, <3>2, <3>3
  <2>2. CASE ~ \E i \in 1..Len(batch) : batch[i].r = r
    BY <1>12, <1>14, <2>2
  <2> QED
    BY <2>1, <2>2
<1>16. req' \in [Requests -> RequestType]
  <2>1. \A r \in Requests : req'[r] \in RequestType
    BY <1>15, RequestFacts DEF Moved
  <2>2. req' = [r \in Requests |-> req'[r]]
    BY <1>14
  <2> QED
    BY <2>1, <2>2
<1> QED
  BY <1>2, <1>5, <1>9, <1>10, <1>11, <1>15, <1>16, StepInv

\* Speculative verification preserves it too: what is kept is what was accepted.
LEMMA VerifyStepInv ==
  ASSUME RunnerInv, NEW r \in Requests, NEW drafts \in Nat \ {0}, NEW accepted \in 0..drafts,
         NEW spans, spans = <<Span(r, drafts + 1)>>, Uncomputed(r) = 1, Fits(spans),
         VerifyStep(Grown(spans)[1], accepted)
  PROVE  RunnerInv'
<1>1. /\ req[r].table \in Seq(Pages) /\ req[r].computed \in Nat /\ Length(r) \in Nat
      /\ req[r] \in RequestType /\ req[r].prompt \in Nat \ {0} /\ req[r].out \in Seq(Requests \X Int)
      /\ Len(req[r].out) \in Nat /\ Length(r) = req[r].prompt + Len(req[r].out)
  BY RequestFacts DEF Length
<1>2. Planned(spans) /\ Len(spans) = 1 /\ spans[1].r = r /\ spans[1].n = drafts + 1
  <2>1. Span(r, drafts + 1) \in SpanType
    BY <1>1 DEF Span, SpanType
  <2>2. /\ Len(spans) = 1 /\ spans \in Seq(SpanType) /\ spans[1] = Span(r, drafts + 1)
    BY <2>1
  <2> QED
    BY <2>2 DEF Planned, Span
<1>3. PICK batch : batch = Grown(spans)
  OBVIOUS
<1>4. GrownFrom(batch, spans)
  BY <1>2, <1>3, GrownBatch
<1> DEFINE s == batch[1]
           kept == Length(r) + accepted
<1>5. /\ Batch(batch) /\ Len(batch) = 1 /\ s.r = r /\ s.n = drafts + 1
  BY <1>2, <1>4 DEF GrownFrom
<1>6. batch = <<s>>
  <2>1. batch \in Seq(SpanType)
    BY <1>5 DEF Batch
  <2> QED
    BY <1>5, <2>1
<1>7. /\ s.table \in Seq(Pages) /\ Len(s.table) \in Nat /\ Len(s.table) = NumPages(End(s))
      /\ Unshared(s.table) /\ Start(s) = req[r].computed /\ End(s) = Start(s) + drafts + 1
      /\ End(s) \in Nat
  <2>1. 1 \in 1..Len(batch)
    BY <1>5
  <2>2. /\ s.table \in Seq(Pages) /\ Len(s.table) \in Nat /\ End(s) = Start(s) + s.n
        /\ End(s) \in Nat /\ Start(s) \in Nat
    BY <1>5, <2>1, SpanFacts
  <2>3. Unshared(s.table) /\ Len(s.table) = NumPages(End(s))
    BY <1>5, <2>1 DEF Batch
  <2>4. Start(s) = req[r].computed
    BY <1>5 DEF Start
  <2>5. End(s) = Start(s) + drafts + 1
    BY <1>5, <2>2
  <2> QED
    BY <2>2, <2>3, <2>4, <2>5
<1>8. Start(s) = Length(r) - 1 /\ Start(s) \in Nat
  <2>1. Length(r) - req[r].computed = 1
    BY DEF Uncomputed
  <2> QED
    BY <1>1, <1>7, <2>1
<1>9. kept \in Nat /\ kept <= End(s) /\ Start(s) <= kept /\ accepted \in Nat
  <2>1. PICK c \in Nat, l \in Nat, e \in Nat : c = Start(s) /\ l = Length(r) /\ e = End(s)
    BY <1>1, <1>7, <1>8
  <2>2. c = l - 1 /\ e = c + drafts + 1 /\ kept = l + accepted
    BY <1>7, <1>8, <2>1
  <2>3. l + accepted \in Nat /\ l + accepted <= e /\ c <= l + accepted
    BY <2>2
  <2> QED
    BY <2>1, <2>2, <2>3
<1>10. PICK done : done = Eager(pool, batch)
  OBVIOUS
<1>11. Committed(s, accepted, kept, done)
  BY <1>3, <1>5, <1>6, <1>10 DEF VerifyStep
<1> DEFINE rejected == {SlotMapping(s)[i] : i \in {j \in 1..s.n : Start(s) + j > kept}}
           more == [i \in 1..accepted + 1 |-> <<s.r, Start(s) + i - 1>>]
           q == With(req[r], SubSeq(s.table, 1, NumPages(kept)), kept, req[r].out \o more)
<1>12. /\ pool # NoPool
       /\ pool' = [b \in Pages |-> [o \in 0..BlockSize - 1 |->
                     IF <<b, o>> \in rejected THEN Blank ELSE done.pool[b][o]]]
       /\ req' = [req EXCEPT ![r] = q]
       /\ misread' = misread \union Misread(done.reads)
       /\ home' = home /\ weights' = weights /\ graphs' = graphs /\ setup' = setup
  BY <1>5, <1>11 DEF Committed
<1>13. Done(done, pool, batch)
  BY <1>4, <1>5, <1>10, <1>12, EagerDone DEF GrownFrom
<1>14. Appended(done.pool, pool, batch) /\ Reads(done.reads)
  BY <1>13 DEF Done
<1>15. \A sl \in rejected : \E p \in Nat : p >= kept /\ p < End(s) /\ sl = Slot(s.table, p)
  <2> SUFFICES ASSUME NEW j \in 1..s.n, Start(s) + j > kept
               PROVE  \E p \in Nat : p >= kept /\ p < End(s) /\ SlotMapping(s)[j] = Slot(s.table, p)
    OBVIOUS
  <2>1. SlotMapping(s)[j] = Slot(s.table, Start(s) + j - 1)
    BY DEF SlotMapping, Slot
  <2>2. s.n \in Nat /\ End(s) = Start(s) + s.n
    BY <1>5, <1>7, <1>8
  <2>3. /\ Start(s) + j - 1 \in Nat /\ Start(s) + j - 1 >= kept /\ Start(s) + j - 1 < End(s)
    BY <1>8, <1>9, <2>2
  <2> QED
    BY <2>1, <2>3
<1>16. pool' \in PoolType
  <2>1. ASSUME NEW b \in Pages, NEW o \in 0..BlockSize - 1
        PROVE  (IF <<b, o>> \in rejected THEN Blank ELSE done.pool[b][o]) \in Entry \union {Blank}
    <3>1. done.pool \in PoolType
      BY <1>14 DEF Appended
    <3>2. done.pool[b] \in [0..BlockSize - 1 -> Entry \union {Blank}]
      BY <3>1 DEF PoolType, Pages
    <3>3. done.pool[b][o] \in Entry \union {Blank}
      BY <3>2
    <3> QED
      BY <3>3
  <2> HIDE DEF rejected
  <2> QED
    BY <1>12, <2>1 DEF PoolType, Pages
<1> HIDE DEF s, kept, rejected
<1>17. Elsewhere(pool', pool, batch)
  <2> SUFFICES ASSUME NEW b \in Pages,
                      \A i \in 1..Len(batch) : \A p \in 1..Len(batch[i].table) : batch[i].table[p] # b,
                      NEW o \in 0..BlockSize - 1
               PROVE  pool'[b][o] = pool[b][o]
    BY DEF Elsewhere
  <2>1. done.pool[b][o] = pool[b][o]
    BY <1>14 DEF Appended, Elsewhere
  <2>2. <<b, o>> \notin rejected
    <3> SUFFICES ASSUME <<b, o>> \in rejected
                 PROVE  FALSE
      OBVIOUS
    <3>1. PICK p \in Nat : p < End(s) /\ <<b, o>> = Slot(s.table, p)
      BY <1>15
    <3>2. p \in 0..End(s) - 1
      BY <1>7, <3>1
    <3>3. p \div BlockSize + 1 \in 1..Len(s.table)
      BY <1>7, <3>2, SlotFacts
    <3>4. s.table[p \div BlockSize + 1] = b
      BY <3>1 DEF Slot
    <3> QED
      BY <1>5, <3>3, <3>4 DEF s
  <2> QED
    BY <1>12, <2>1, <2>2
<1>18. Holds(pool', s.table, s.r, kept)
  <2> SUFFICES ASSUME NEW p \in 0..kept - 1
               PROVE  At(pool', Slot(s.table, p)) = <<s.r, p, weights>>
    BY DEF Holds
  <2>1. p \in 0..End(s) - 1
    BY <1>7, <1>9
  <2>2. At(done.pool, Slot(s.table, p)) = <<s.r, p, weights>>
    BY <1>5, <1>14, <2>1 DEF Appended, Holds, s
  <2>3. PICK b \in Pages, o \in 0..BlockSize - 1 : Slot(s.table, p) = <<b, o>>
    <3>1. Slot(s.table, p) \in Pages \X (0..BlockSize - 1)
      BY <1>7, <2>1, SlotFacts
    <3> QED
      BY <3>1
  <2>4. <<b, o>> \notin rejected
    <3> SUFFICES ASSUME <<b, o>> \in rejected
                 PROVE  FALSE
      OBVIOUS
    <3>1. PICK e \in Nat : e >= kept /\ e < End(s) /\ <<b, o>> = Slot(s.table, e)
      BY <1>15
    <3>2. e \in 0..End(s) - 1 /\ p # e
      BY <1>7, <1>9, <3>1
    <3>3. Slot(s.table, p) # Slot(s.table, e)
      BY <1>7, <2>1, <3>2, SlotsDiffer
    <3> QED
      BY <2>3, <3>1, <3>3
  <2>5. pool'[b][o] = done.pool[b][o]
    BY <1>12, <2>4
  <2> QED
    BY <2>2, <2>3, <2>5 DEF At
<1>19. /\ NumPages(kept) \in Nat /\ NumPages(kept) <= Len(s.table)
       /\ SubSeq(s.table, 1, NumPages(kept)) \in Seq(Pages)
       /\ Len(SubSeq(s.table, 1, NumPages(kept))) = NumPages(kept)
       /\ Prefix(SubSeq(s.table, 1, NumPages(kept)), s.table)
  <2>1. NumPages(kept) \in Nat /\ NumPages(kept) <= NumPages(End(s))
    BY <1>7, <1>9, PagesFor, PagesMonotonic
  <2>2. PICK k \in Nat : k = NumPages(kept) /\ k <= Len(s.table)
    BY <1>7, <2>1
  <2>3. \A p \in 1..k : p \in 1..Len(s.table) /\ s.table[p] \in Pages
    BY <1>7, <2>2, ElementOfSeq
  <2>4. SubSeq(s.table, 1, k) = [p \in 1..k |-> s.table[p]]
    BY <1>7, <2>2, <2>3
  <2>5. SubSeq(s.table, 1, k) \in Seq(Pages) /\ Len(SubSeq(s.table, 1, k)) = k
    BY <2>2, <2>3, <2>4
  <2>6. Prefix(SubSeq(s.table, 1, k), s.table)
    BY <2>2, <2>4, <2>5 DEF Prefix
  <2> QED
    BY <2>2, <2>5, <2>6
<1>20. /\ req[r].out \o more \in Seq(Requests \X Int)
       /\ Len(req[r].out \o more) = Len(req[r].out) + (accepted + 1)
       /\ OwnOutputs(req[r].out \o more, r, req[r].prompt)
  <2>1. DOMAIN more = 1..accepted + 1 /\ accepted + 1 \in Nat
    BY <1>9
  <2>2. \A i \in 1..accepted + 1 : more[i] = <<r, req[r].prompt + Len(req[r].out) + i - 2>>
    <3> SUFFICES ASSUME NEW i \in 1..accepted + 1
                 PROVE  more[i] = <<r, req[r].prompt + Len(req[r].out) + i - 2>>
      OBVIOUS
    <3>2. PICK a \in Nat, b \in Nat, c \in Nat :
            a = req[r].prompt /\ b = Len(req[r].out) /\ c = Start(s)
      BY <1>1, <1>8
    <3>3. c = a + b - 1 /\ i \in Nat
      BY <1>1, <1>8, <1>9, <3>2
    <3>4. c + i - 1 = a + b + i - 2
      BY <3>3
    <3>1. Start(s) + i - 1 = req[r].prompt + Len(req[r].out) + i - 2
      BY <3>2, <3>4
    <3> QED
      BY <1>5, <3>1 DEF s
  <2>3. more \in Seq(Requests \X Int)
    <3>1. \A i \in 1..accepted + 1 : more[i] \in Requests \X Int
      BY <1>1, <2>2
    <3>2. more = [i \in 1..accepted + 1 |-> more[i]]
      OBVIOUS
    <3> HIDE DEF more
    <3>3. more \in [1..accepted + 1 -> Requests \X Int]
      BY <3>1, <3>2
    <3> QED
      BY <2>1, <3>3
  <2>4. OwnOutputs(req[r].out, r, req[r].prompt)
    <3>1. DOMAIN req[r].out = 1..Len(req[r].out)
      BY <1>1, LenProperties
    <3> QED
      BY <3>1 DEF RunnerInv, SampledFromOwnRow, OwnOutputs
  <2> HIDE DEF more
  <2>5. Len(more) = accepted + 1
    BY <2>1, <2>3
  <2>6. Continues(more, req[r].out, r, req[r].prompt)
    BY <2>2, <2>5 DEF Continues
  <2>7. /\ req[r].out \o more \in Seq(Requests \X Int)
        /\ Len(req[r].out \o more) = Len(req[r].out) + Len(more)
        /\ OwnOutputs(req[r].out \o more, r, req[r].prompt)
    <3> DEFINE a == req[r].prompt
               b == req[r].out
    <3>1. a \in Nat /\ b \in Seq(Requests \X Int) /\ OwnOutputs(b, r, a) /\ Continues(more, b, r, a)
      BY <1>1, <2>4, <2>6
    <3> HIDE DEF a, b
    <3>2. /\ b \o more \in Seq(Requests \X Int) /\ Len(b \o more) = Len(b) + Len(more)
          /\ OwnOutputs(b \o more, r, a)
      BY <2>3, <3>1, OutputsGrow
    <3> QED
      BY <3>2 DEF a, b
  <2> QED
    BY <2>5, <2>7
<1>21. kept < req[r].prompt + Len(req[r].out \o more)
  <2>1. PICK a \in Nat, b \in Nat : a = req[r].prompt /\ b = Len(req[r].out)
    BY <1>1
  <2>2. kept = a + b + accepted /\ Len(req[r].out \o more) = b + (accepted + 1)
    BY <1>1, <1>20, <2>1 DEF kept
  <2>3. a + b + accepted < a + (b + (accepted + 1))
    BY <1>9
  <2> QED
    BY <2>1, <2>2, <2>3
<1> HIDE DEF more, q
<1>22. /\ q \in RequestType /\ q.prompt = req[r].prompt /\ q.out = req[r].out \o more
       /\ q.state \in {"done", req[r].state}
       /\ \/ q.table = <<>> /\ q.computed = 0
          \/ q.table = SubSeq(s.table, 1, NumPages(kept)) /\ q.computed = kept
       /\ Len(q.table) = NumPages(q.computed) /\ q.computed < q.prompt + Len(q.out)
  <2>1. q = With(req[r], SubSeq(s.table, 1, NumPages(kept)), kept, req[r].out \o more)
    BY DEF q
  <2>2. Kept(q, req[r], SubSeq(s.table, 1, NumPages(kept)), kept, req[r].out \o more)
    BY <1>1, <1>9, <1>19, <1>20, <1>21, <2>1, WithFacts
  <2> QED
    BY <2>2 DEF Kept
<1>23. Prefix(q.table, s.table) /\ Holds(pool', q.table, s.r, q.computed)
  <2>1. CASE q.table = <<>> /\ q.computed = 0
    <3>1. Prefix(<<>>, s.table)
      BY <1>7 DEF Prefix
    <3>2. Holds(pool', <<>>, s.r, 0)
      BY DEF Holds
    <3> QED
      BY <2>1, <3>1, <3>2
  <2>2. CASE q.table = SubSeq(s.table, 1, NumPages(kept)) /\ q.computed = kept
    <3> DEFINE u == SubSeq(s.table, 1, NumPages(kept))
    <3>1. Prefix(u, s.table) /\ Len(u) = NumPages(kept)
      BY <1>19
    <3> HIDE DEF u
    <3>2. \A p \in 1..NumPages(kept) : u[p] = s.table[p]
      BY <3>1 DEF Prefix
    <3>3. Holds(pool', u, s.r, kept)
      BY <1>9, <1>18, <3>2, HoldsSame
    <3> QED
      BY <2>2, <3>1, <3>3 DEF u
  <2> QED
    BY <1>22, <2>1, <2>2
<1>24. Moved(q, s, pool')
  BY <1>5, <1>20, <1>22, <1>23 DEF Moved, s
<1>25. req' \in [Requests -> RequestType]
  BY <1>12, <1>22 DEF RunnerInv, RunnerTyped
<1>26. ASSUME NEW x \in Requests
       PROVE  \/ req'[x] = req[x] /\ \A i \in 1..Len(batch) : batch[i].r # x
              \/ \E i \in 1..Len(batch) : batch[i].r = x /\ Moved(req'[x], batch[i], pool')
  <2>1. req' = [req EXCEPT ![r] = q] /\ DOMAIN req = Requests
    BY <1>12 DEF RunnerInv, RunnerTyped
  <2>2. CASE x = r
    BY <1>5, <1>24, <2>1, <2>2 DEF s
  <2>3. CASE x # r
    BY <1>5, <2>1, <2>3 DEF s
  <2> QED
    BY <2>2, <2>3
<1>27. misread' = {} /\ Bound(graphs')
  BY <1>12, <1>14, NothingMisread DEF RunnerInv
<1> QED
  BY <1>4, <1>12, <1>16, <1>17, <1>25, <1>26, <1>27, StepInv

(***************************************************************************)
(* Copying tensors into the fused parameters.                              *)
(***************************************************************************)
\* What a delivery under a name counts for.
Given(name) == IF name = "qkv" THEN {"q", "k", "v"} ELSE {name}
Sent(sent, name) == [n \in HFNames |-> IF n \in Given(name) THEN trained ELSE sent[n]]
\* The fused parameters and their rows.
LEMMA LoadedFacts ==
  ASSUME NEW t \in BOOLEAN
  PROVE  /\ DOMAIN Loaded(t) = {"embed", "qkv", "o", "gate_up"} \union (IF t THEN {} ELSE {"lm_head"})
         /\ Loaded(t)["qkv"] = <<<<"q", 1>>, <<"q", 2>>, <<"k", 1>>, <<"v", 1>>>>
         /\ Loaded(t)["gate_up"] = <<<<"gate", 1>>, <<"up", 1>>>>
         /\ Loaded(t)["embed"] = <<<<"embed", 1>>>> /\ Loaded(t)["o"] = <<<<"o", 1>>>>
         /\ ~t => Loaded(t)["lm_head"] = <<<<"lm_head", 1>>>>
BY DEF Loaded

Copied(name) == LET to == Destination(name) IN to.from..(to.from + RowsOf(name) - 1)

Goes(name, param, from, rows) ==
  /\ Destination(name).param = param /\ Destination(name).from = from
  /\ Copied(name) = rows

\* Where the rows of each tensor go, written out.
LEMMA DestinationTable ==
  /\ Goes("q", "qkv", 1, {1, 2}) /\ Goes("k", "qkv", 3, {3}) /\ Goes("v", "qkv", 4, {4})
  /\ Goes("qkv", "qkv", 1, {1, 2, 3, 4})
  /\ Goes("gate", "gate_up", 1, {1}) /\ Goes("up", "gate_up", 2, {2})
  /\ Goes("o", "o", 1, {1}) /\ Goes("embed", "embed", 1, {1})
  /\ Goes("lm_head", IF tied THEN "embed" ELSE "lm_head", 1, {1})
BY DEF Goes, Copied, Destination, RowsOf

Rightly(name, p, i) ==
  IF p = Destination(name).param /\ i \in Copied(name)
  THEN /\ TensorRow(name, i - Destination(name).from + 1) # <<>>
       /\ IF p = "embed" /\ tied THEN Given(name) \in {{"embed"}, {"lm_head"}}
          ELSE /\ TensorRow(name, i - Destination(name).from + 1) = Loaded(tied)[p][i]
               /\ Loaded(tied)[p][i][1] \in Given(name)
  ELSE IF p = "embed" /\ tied THEN "embed" \notin Given(name) /\ "lm_head" \notin Given(name)
       ELSE Loaded(tied)[p][i][1] \notin Given(name)

\* A row goes where the loaded model has it.
LEMMA DestinationFacts ==
  ASSUME tied \in BOOLEAN, NEW name \in Names
  PROVE  /\ Destination(name).param \in DOMAIN Loaded(tied)
         /\ \A p \in DOMAIN Loaded(tied) : \A i \in DOMAIN Loaded(tied)[p] : Rightly(name, p, i)
<1>1. Destination(name).param \in DOMAIN Loaded(tied)
  BY DestinationTable, LoadedFacts DEF Names, HFNames, Goes
<1> DEFINE load == Loaded(tied)
<1>2. /\ load["qkv"] = <<<<"q", 1>>, <<"q", 2>>, <<"k", 1>>, <<"v", 1>>>>
      /\ load["gate_up"] = <<<<"gate", 1>>, <<"up", 1>>>>
      /\ load["embed"] = <<<<"embed", 1>>>> /\ load["o"] = <<<<"o", 1>>>>
      /\ ~tied => load["lm_head"] = <<<<"lm_head", 1>>>>
  BY LoadedFacts
<1> HIDE DEF load
<1>4. Rightly(name, "o", 1)
  BY <1>2, DestinationTable DEF Names, HFNames, Goes, Rightly, TensorRow, Given, load
<1>5. Rightly(name, "embed", 1)
  BY <1>2, DestinationTable DEF Names, HFNames, Goes, Rightly, TensorRow, Given, load
<1>6. ASSUME ~tied PROVE Rightly(name, "lm_head", 1)
  BY <1>2, <1>6, DestinationTable DEF Names, HFNames, Goes, Rightly, TensorRow, Given, load
<1>7. Rightly(name, "gate_up", 1)
  BY <1>2, DestinationTable DEF Names, HFNames, Goes, Rightly, TensorRow, Given, load
<1>8. Rightly(name, "gate_up", 2)
  BY <1>2, DestinationTable DEF Names, HFNames, Goes, Rightly, TensorRow, Given, load
<1>9. Rightly(name, "qkv", 1)
  BY <1>2, DestinationTable DEF Names, HFNames, Goes, Rightly, TensorRow, Given, load
<1>10. Rightly(name, "qkv", 2)
  <2>1. load["qkv"][2] = <<"q", 2>>
    BY <1>2
  <2>2. CASE name = "q"
    BY <2>1, <2>2, DestinationTable DEF Goes, Rightly, TensorRow, Given, load
  <2>3. CASE name = "qkv"
    <3>1. Destination(name).param = "qkv" /\ Destination(name).from = 1 /\ 2 \in Copied(name)
      BY <2>3, DestinationTable DEF Goes
    <3>2. TensorRow(name, 2) = load["qkv"][2] /\ 2 - 1 + 1 = 2 /\ "q" \in Given(name)
      BY <2>3 DEF TensorRow, load, Given
    <3>3. TensorRow(name, 2 - Destination(name).from + 1) = load["qkv"][2]
      BY <3>1, <3>2
    <3>4. load["qkv"][2] # <<>> /\ load["qkv"][2][1] \in Given(name)
      BY <2>1, <3>2
    <3> QED
      BY <3>1, <3>3, <3>4 DEF Rightly, load
  <2>4. CASE name \notin {"q", "qkv"}
    <3>1. ~(Destination(name).param = "qkv" /\ 2 \in Copied(name))
      BY <2>4, DestinationTable DEF Names, HFNames, Goes
    <3> QED
      BY <2>1, <2>4, <3>1 DEF Rightly, Given, load
  <2> QED
    BY <2>2, <2>3, <2>4
<1>11. Rightly(name, "qkv", 3)
  BY <1>2, DestinationTable DEF Names, HFNames, Goes, Rightly, TensorRow, Given, load
<1>12. Rightly(name, "qkv", 4)
  BY <1>2, DestinationTable DEF Names, HFNames, Goes, Rightly, TensorRow, Given, load
<1>13. DOMAIN load = {"embed", "qkv", "o", "gate_up"} \union (IF tied THEN {} ELSE {"lm_head"})
  BY LoadedFacts DEF load
<1>14. /\ DOMAIN load["qkv"] = {1, 2, 3, 4} /\ DOMAIN load["gate_up"] = {1, 2}
       /\ DOMAIN load["embed"] = {1} /\ DOMAIN load["o"] = {1}
       /\ ~tied => DOMAIN load["lm_head"] = {1}
  BY <1>2
<1> QED
  BY <1>1, <1>4, <1>5, <1>6, <1>7, <1>8, <1>9, <1>10, <1>11, <1>12, <1>13, <1>14 DEF load

\* The maximum of two numbers is one of them and not below the other.
LEMMA MaxOfTwo ==
  ASSUME NEW a \in Nat, NEW b \in Nat
  PROVE  Max({a, b}) = IF a >= b THEN a ELSE b
<1>1. \A x \in {a, b} : (\A y \in {a, b} : x >= y) => x = IF a >= b THEN a ELSE b
  OBVIOUS
<1>2. \E x \in {a, b} : \A y \in {a, b} : x >= y
  OBVIOUS
<1> QED
  BY <1>1, <1>2 DEF Max

\* Every fused row comes from a tensor with a name of the checkpoint.
LEMMA OwnerNames ==
  ASSUME tied \in BOOLEAN
  PROVE  /\ \A p \in DOMAIN Loaded(tied) : \A i \in DOMAIN Loaded(tied)[p] :
              Loaded(tied)[p][i] # <<>> /\ Loaded(tied)[p][i][1] \in HFNames
         /\ "embed" \in HFNames /\ "lm_head" \in HFNames
<1> DEFINE load == Loaded(tied)
<1>1. /\ load["qkv"] = <<<<"q", 1>>, <<"q", 2>>, <<"k", 1>>, <<"v", 1>>>>
      /\ load["gate_up"] = <<<<"gate", 1>>, <<"up", 1>>>>
      /\ load["embed"] = <<<<"embed", 1>>>> /\ load["o"] = <<<<"o", 1>>>>
      /\ ~tied => load["lm_head"] = <<<<"lm_head", 1>>>>
      /\ DOMAIN load = {"embed", "qkv", "o", "gate_up"} \union (IF tied THEN {} ELSE {"lm_head"})
  BY LoadedFacts
<1> HIDE DEF load
<1>2. /\ \A i \in DOMAIN load["qkv"] : load["qkv"][i] # <<>> /\ load["qkv"][i][1] \in {"q", "k", "v"}
      /\ \A i \in DOMAIN load["gate_up"] :
           load["gate_up"][i] # <<>> /\ load["gate_up"][i][1] \in {"gate", "up"}
      /\ \A i \in DOMAIN load["embed"] : load["embed"][i] # <<>> /\ load["embed"][i][1] = "embed"
      /\ \A i \in DOMAIN load["o"] : load["o"][i] # <<>> /\ load["o"][i][1] = "o"
      /\ ~tied => \A i \in DOMAIN load["lm_head"] :
                    load["lm_head"][i] # <<>> /\ load["lm_head"][i][1] = "lm_head"
  BY <1>1
<1>3. ASSUME NEW p \in DOMAIN load, NEW i \in DOMAIN load[p]
      PROVE  load[p][i] # <<>> /\ load[p][i][1] \in HFNames
  BY <1>1, <1>2 DEF HFNames
<1> QED
  BY <1>3 DEF load, HFNames

\* What RowsFrom says of one row.
RowFrom(x, p, i, sent) ==
  IF p = "embed" /\ tied
  THEN x.version = Max({sent["embed"], sent["lm_head"]})
  ELSE x.src = Loaded(tied)[p][i] /\ x.version = sent[Loaded(tied)[p][i][1]]

Copies(ps, name, sent) ==
  LET copy == CopyNamedWeight(ps, name)
  IN  /\ Laid(copy) /\ RowsFrom(copy, Sent(sent, name))
      /\ Sent(sent, name) \in [HFNames -> 0..trained]
      /\ Blanks(ps) = {} => Blanks(copy) = {}

\* Copying one tensor writes its rows and no other.
LEMMA CopyFacts ==
  ASSUME tied \in BOOLEAN, trained \in Nat, NEW ps, NEW sent \in [HFNames -> 0..trained],
         NEW name \in Names, Laid(ps), RowsFrom(ps, sent)
  PROVE  Copies(ps, name, sent)
<1> DEFINE copy == CopyNamedWeight(ps, name)
           param == Destination(name).param
           row(i) == TensorRow(name, i - Destination(name).from + 1)
           now == Sent(sent, name)
<1>1. /\ param \in DOMAIN Loaded(tied)
      /\ \A p \in DOMAIN Loaded(tied) : \A i \in DOMAIN Loaded(tied)[p] : Rightly(name, p, i)
  BY DestinationFacts
<1>2. /\ DOMAIN copy = DOMAIN ps
      /\ \A p \in DOMAIN ps : p # param => copy[p] = ps[p]
      /\ copy[param] = [i \in DOMAIN ps[param] |->
                         IF i \in Copied(name) THEN [src |-> row(i), version |-> trained]
                         ELSE ps[param][i]]
  BY <1>1 DEF CopyNamedWeight, Copied, Laid
<1>3. Laid(copy)
  BY <1>1, <1>2 DEF Laid
<1>4. \A p \in DOMAIN Loaded(tied) : \A i \in DOMAIN Loaded(tied)[p] :
        copy[p][i] = IF p = param /\ i \in Copied(name)
                     THEN [src |-> row(i), version |-> trained] ELSE ps[p][i]
  BY <1>2 DEF Laid
<1>5. /\ now \in [HFNames -> 0..trained]
      /\ \A n \in HFNames : now[n] = IF n \in Given(name) THEN trained ELSE sent[n]
  BY DEF Sent
<1>6. ASSUME NEW p \in DOMAIN Loaded(tied), NEW i \in DOMAIN Loaded(tied)[p], ps[p][i] # NaNRow,
             ~(p = param /\ i \in Copied(name))
      PROVE  RowFrom(ps[p][i], p, i, now)
  <2>1. RowFrom(ps[p][i], p, i, sent)
    <3>1. \A x \in DOMAIN ps : \A k \in DOMAIN ps[x] :
            ps[x][k] # NaNRow => RowFrom(ps[x][k], x, k, sent)
      BY DEF RowsFrom, RowFrom
    <3>2. p \in DOMAIN ps /\ i \in DOMAIN ps[p]
      BY DEF Laid
    <3> QED
      BY <1>6, <3>1, <3>2
  <2>2. IF p = "embed" /\ tied THEN "embed" \notin Given(name) /\ "lm_head" \notin Given(name)
        ELSE Loaded(tied)[p][i][1] \notin Given(name)
    BY <1>1, <1>6 DEF Rightly
  <2> HIDE DEF now
  <2>3. CASE p = "embed" /\ tied
    <3>1. now["embed"] = sent["embed"] /\ now["lm_head"] = sent["lm_head"]
      BY <1>5, <2>2, <2>3, OwnerNames
    <3> QED
      BY <2>1, <2>3, <3>1 DEF RowFrom
  <2>4. CASE ~(p = "embed" /\ tied)
    <3>1. now[Loaded(tied)[p][i][1]] = sent[Loaded(tied)[p][i][1]]
      BY <1>5, <2>2, <2>4, OwnerNames
    <3> QED
      BY <2>1, <2>4, <3>1 DEF RowFrom
  <2> QED
    BY <2>3, <2>4
<1>7. ASSUME NEW p \in DOMAIN Loaded(tied), NEW i \in DOMAIN Loaded(tied)[p],
             p = param, i \in Copied(name)
      PROVE  /\ row(i) # <<>>
             /\ IF p = "embed" /\ tied
                THEN trained = Max({now["embed"], now["lm_head"]})
                ELSE row(i) = Loaded(tied)[p][i] /\ trained = now[Loaded(tied)[p][i][1]]
  <2>1. /\ row(i) # <<>>
        /\ IF p = "embed" /\ tied THEN Given(name) \in {{"embed"}, {"lm_head"}}
           ELSE row(i) = Loaded(tied)[p][i] /\ Loaded(tied)[p][i][1] \in Given(name)
    BY <1>1, <1>7 DEF Rightly
  <2> HIDE DEF now, row
  <2>2. CASE p = "embed" /\ tied
    <3>1. now["embed"] \in 0..trained /\ now["lm_head"] \in 0..trained
      BY <1>5, OwnerNames
    <3>2. now["embed"] = trained \/ now["lm_head"] = trained
      BY <1>5, <2>1, <2>2, OwnerNames
    <3>3. Max({now["embed"], now["lm_head"]}) = trained
      BY <3>1, <3>2, MaxOfTwo
    <3> QED
      BY <2>1, <2>2, <3>3
  <2>3. CASE ~(p = "embed" /\ tied)
    <3>1. now[Loaded(tied)[p][i][1]] = trained
      BY <1>5, <2>1, <2>3, OwnerNames
    <3> QED
      BY <2>1, <2>3, <3>1
  <2> QED
    BY <2>2, <2>3
<1> HIDE DEF copy, param, row, now
<1>8. ASSUME NEW p \in DOMAIN Loaded(tied), NEW i \in DOMAIN Loaded(tied)[p]
      PROVE  copy[p][i] # NaNRow => RowFrom(copy[p][i], p, i, now)
  <2>1. CASE p = param /\ i \in Copied(name)
    <3>1. copy[p][i] = [src |-> row(i), version |-> trained]
      BY <1>4, <2>1
    <3>2. copy[p][i].src = row(i) /\ copy[p][i].version = trained
      BY <3>1
    <3> QED
      BY <1>7, <2>1, <3>2 DEF RowFrom
  <2>2. CASE ~(p = param /\ i \in Copied(name))
    <3>1. copy[p][i] = ps[p][i]
      BY <1>4, <2>2
    <3> QED
      BY <1>6, <2>2, <3>1
  <2> QED
    BY <2>1, <2>2
<1>9. RowsFrom(copy, now)
  <2>1. ASSUME NEW p \in DOMAIN copy, NEW i \in DOMAIN copy[p], copy[p][i] # NaNRow
        PROVE  RowFrom(copy[p][i], p, i, now)
    BY <1>3, <1>8, <2>1 DEF Laid
  <2> QED
    BY <2>1 DEF RowsFrom, RowFrom
<1>10. ASSUME Blanks(ps) = {} PROVE Blanks(copy) = {}
  <2> SUFFICES ASSUME NEW p \in DOMAIN copy, NEW i \in DOMAIN copy[p], copy[p][i] = NaNRow
               PROVE  FALSE
    BY DEF Blanks
  <2>1. p \in DOMAIN Loaded(tied) /\ i \in DOMAIN Loaded(tied)[p]
    BY <1>3 DEF Laid
  <2>2. ps[p][i] # NaNRow
    BY <1>10, <2>1 DEF Blanks, Laid
  <2>3. p = param /\ i \in Copied(name)
    BY <1>4, <2>1, <2>2
  <2>4. copy[p][i] = [src |-> row(i), version |-> trained]
    BY <1>4, <2>1, <2>3
  <2> QED
    BY <1>7, <2>1, <2>3, <2>4 DEF NaNRow
<1> QED
  BY <1>3, <1>5, <1>9, <1>10 DEF Copies, copy, now

\* What the first k names of a call count for.
SentBy(names, k) ==
  [n \in HFNames |-> IF \E j \in 1..k : n \in Given(names[j]) THEN trained ELSE delivered[n]]

\* The function copied of ApplyNamedWeights.
Copying(c, ps, names, n) ==
  c = [k \in 0..n |-> IF k = 0 THEN ps ELSE CopyNamedWeight(c[k - 1], names[k])]

\* Copying a call's tensors one after the other is defined, step by step.
LEMMA CopyingExists ==
  ASSUME NEW ps, NEW names, NEW N \in Nat
  PROVE  \E c : Copying(c, ps, names, N)
<1> DEFINE G(c, k) == IF k = 0 THEN ps ELSE CopyNamedWeight(c[k - 1], names[k])
           X == {n \in Nat : \E c : Copying(c, ps, names, n)}
<1>1. 0 \in X
  <2>1. Copying([k \in 0..0 |-> ps], ps, names, 0)
    BY DEF Copying
  <2> QED
    BY <2>1
<1>2. ASSUME NEW n \in Nat, n \in X
      PROVE  n + 1 \in X
  <2>1. PICK c : Copying(c, ps, names, n)
    BY <1>2
  <2> DEFINE f == [k \in 0..n + 1 |-> IF k = n + 1 THEN CopyNamedWeight(c[n], names[n + 1]) ELSE c[k]]
  <2>2. \A k \in 0..n : f[k] = c[k]
    OBVIOUS
  <2>3. \A k \in 0..n + 1 : f[k] = G(f, k)
    <3> SUFFICES ASSUME NEW k \in 0..n + 1
                 PROVE  f[k] = G(f, k)
      OBVIOUS
    <3>1. CASE k = n + 1
      <4>1. k # 0 /\ k - 1 = n /\ f[n] = c[n]
        BY <3>1, <2>2
      <4>2. f[k] = CopyNamedWeight(c[n], names[n + 1])
        BY <3>1
      <4> HIDE DEF f
      <4> QED
        BY <3>1, <4>1, <4>2
    <3>2. CASE k # n + 1
      <4>1. k \in 0..n
        BY <3>2
      <4>2. c[k] = G(c, k)
        BY <2>1, <4>1 DEF Copying
      <4>3. k # 0 => k - 1 \in 0..n
        BY <4>1
      <4> HIDE DEF f
      <4> QED
        BY <4>1, <4>2, <4>3, <2>2
    <3> QED
      BY <3>1, <3>2
  <2>4. f = [k \in 0..n + 1 |-> f[k]]
    OBVIOUS
  <2> HIDE DEF f
  <2>5. f = [k \in 0..n + 1 |-> G(f, k)]
    BY <2>3, <2>4
  <2> QED
    BY <2>5 DEF Copying
<1> HIDE DEF X
<1>3. Nat \subseteq X
  BY <1>1, <1>2, InductionOnNaturals
<1> QED
  BY <1>3 DEF X

\* What has been delivered after one more name.
LEMMA SentStep ==
  ASSUME delivered \in [HFNames -> 0..trained], trained \in Nat, NEW names, NEW k \in Nat
  PROVE  /\ SentBy(names, 0) = delivered
         /\ SentBy(names, k + 1) = Sent(SentBy(names, k), names[k + 1])
<1>1. SentBy(names, 0) = delivered
  <2>1. SentBy(names, 0) = [n \in HFNames |-> delivered[n]]
    BY DEF SentBy
  <2> QED
    BY <2>1
<1>2. ASSUME NEW n \in HFNames
      PROVE  (\E j \in 1..k + 1 : n \in Given(names[j]))
               <=> (n \in Given(names[k + 1]) \/ \E j \in 1..k : n \in Given(names[j]))
  <2>1. \A j \in 1..k + 1 : j = k + 1 \/ j \in 1..k
    OBVIOUS
  <2>2. k + 1 \in 1..k + 1 /\ \A j \in 1..k : j \in 1..k + 1
    OBVIOUS
  <2> QED
    BY <2>1, <2>2
<1> QED
  BY <1>1, <1>2 DEF SentBy, Sent

\* What has been delivered after the first n names of a call.
LEMMA SentAll ==
  ASSUME NEW names \in Seq(Names)
  PROVE  Delivered(names) = SentBy(names, Len(names))
<1> DEFINE given == Range(names) \union (IF "qkv" \in Range(names) THEN {"q", "k", "v"} ELSE {})
<1>1. Range(names) = {names[j] : j \in 1..Len(names)}
  BY DEF Range
<1>2. ASSUME NEW n \in HFNames
      PROVE  n \in given <=> \E j \in 1..Len(names) : n \in Given(names[j])
  <2>1. n # "qkv"
    BY DEF HFNames
  <2>2. ASSUME n \in given PROVE \E j \in 1..Len(names) : n \in Given(names[j])
    <3>1. CASE n \in Range(names)
      BY <1>1, <2>1, <3>1 DEF Given
    <3>2. CASE "qkv" \in Range(names) /\ n \in {"q", "k", "v"}
      BY <1>1, <3>2 DEF Given
    <3> QED
      BY <2>2, <3>1, <3>2
  <2>3. ASSUME NEW j \in 1..Len(names), n \in Given(names[j]) PROVE n \in given
    <3>1. names[j] \in Range(names)
      BY <1>1
    <3>2. CASE names[j] = "qkv"
      BY <2>3, <3>1, <3>2 DEF Given
    <3>3. CASE names[j] # "qkv"
      BY <2>3, <3>1, <3>3 DEF Given
    <3> QED
      BY <3>2, <3>3
  <2> QED
    BY <2>2, <2>3
<1>3. Delivered(names) = [n \in HFNames |-> IF n \in given THEN trained ELSE delivered[n]]
  BY DEF Delivered
<1> HIDE DEF given
<1> QED
  BY <1>2, <1>3 DEF SentBy

Applied(ps, names) ==
  LET copy == ApplyNamedWeights(ps, names)
  IN  /\ Laid(copy) /\ RowsFrom(copy, Delivered(names))
      /\ Delivered(names) \in [HFNames -> 0..trained]
      /\ Blanks(ps) = {} => Blanks(copy) = {}

\* An update call, cut short or not, leaves every row the row of its tensor.
LEMMA ApplyFacts ==
  ASSUME tied \in BOOLEAN, trained \in Nat, delivered \in [HFNames -> 0..trained], NEW ps,
         Laid(ps), RowsFrom(ps, delivered), NEW names \in Seq(Names)
  PROVE  Applied(ps, names)
<1>1. PICK N \in Nat : N = Len(names)
  OBVIOUS
<1>2. PICK c : c = (CHOOSE d : Copying(d, ps, names, N)) /\ Copying(c, ps, names, N)
  <2> HIDE DEF Copying
  <2> QED
    BY CopyingExists
<1>3. ApplyNamedWeights(ps, names) = c[N]
  BY <1>1, <1>2 DEF ApplyNamedWeights, Copying
<1> DEFINE step(k) == IF k = 0 THEN ps ELSE CopyNamedWeight(c[k - 1], names[k])
<1>4. /\ c[0] = ps
      /\ \A k \in Nat : k + 1 <= N => c[k + 1] = CopyNamedWeight(c[k], names[k + 1])
  <2>3. c = [k \in 0..N |-> step(k)]
    BY <1>2 DEF Copying
  <2> HIDE DEF step
  <2>4. \A k \in 0..N : c[k] = step(k)
    BY <2>3
  <2>1. c[0] = ps
    BY <2>4 DEF step
  <2>2. ASSUME NEW k \in Nat, k + 1 <= N
        PROVE  c[k + 1] = CopyNamedWeight(c[k], names[k + 1])
    <3>1. k + 1 \in 0..N /\ k + 1 # 0 /\ k + 1 - 1 = k
      BY <2>2
    <3>2. c[k + 1] = CopyNamedWeight(c[k + 1 - 1], names[k + 1])
      BY <2>4, <3>1 DEF step
    <3> QED
      BY <3>1, <3>2
  <2> QED
    BY <2>1, <2>2
<1> DEFINE Good(k) == /\ Laid(c[k]) /\ RowsFrom(c[k], SentBy(names, k))
                      /\ SentBy(names, k) \in [HFNames -> 0..trained]
                      /\ Blanks(ps) = {} => Blanks(c[k]) = {}
           X == {n \in Nat : n <= N => Good(n)}
<1>5. Good(0)
  BY <1>4, SentStep
<1>6. ASSUME NEW k \in Nat, k <= N => Good(k), k + 1 <= N
      PROVE  Good(k + 1)
  <2>1. names[k + 1] \in Names
    BY <1>1, <1>6
  <2>2. Copies(c[k], names[k + 1], SentBy(names, k))
    BY <1>6, <2>1, CopyFacts
  <2>3. c[k + 1] = CopyNamedWeight(c[k], names[k + 1])
    BY <1>4, <1>6
  <2>4. SentBy(names, k + 1) = Sent(SentBy(names, k), names[k + 1])
    BY SentStep
  <2>5. Good(k)
    BY <1>6
  <2> QED
    BY <2>2, <2>3, <2>4, <2>5 DEF Copies
<1>7. 0 \in X /\ \A k \in Nat : k \in X => k + 1 \in X
  <2> HIDE DEF Good
  <2> QED
    BY <1>5, <1>6
<1> HIDE DEF X
<1>8. Nat \subseteq X
  BY <1>7, InductionOnNaturals
<1>9. Good(N)
  BY <1>1, <1>8 DEF X
<1> QED
  BY <1>1, <1>3, <1>9, SentAll DEF Applied

(***************************************************************************)
(* The steps of the runner and of the training loop.                       *)
(***************************************************************************)
\* A request moved to no other state, or cold: the same tokens.
Sooner(q, rq) ==
  /\ q.prompt = rq.prompt /\ q.out = rq.out
  /\ \/ q.table = rq.table /\ q.computed = rq.computed
     \/ q.table = <<>> /\ q.computed = 0

\* A step that runs nothing preserves the invariant of the runner when the
\* KV of the requests goes with the pool or the weights that made it.
LEMMA IdleInv ==
  ASSUME RunnerInv, req' \in [Requests -> RequestType], pool' \in PoolType \union {NoPool},
         home' \in Nat, weights' \in Nat, setup' = setup, misread' = misread,
         FewLive', Bound(graphs)', \A r \in Requests : Sooner(req'[r], req[r]),
         \/ \A r \in Requests : req'[r].computed = 0
         \/ pool' = pool /\ weights' = weights,
         pool' = NoPool => /\ \A r \in Requests : req'[r].computed = 0
                           /\ \A n \in 1..MaxSeqs : graphs'[n] = NoGraph
  PROVE  RunnerInv'
<1>1. RunnerTyped'
  BY DEF RunnerTyped, RunnerInv
<1>2. ASSUME NEW r \in Requests
      PROVE  /\ Len(req'[r].table) = NumPages(req'[r].computed)
             /\ req'[r].computed < req'[r].prompt + Len(req'[r].out)
             /\ Unshared(req'[r].table)
             /\ req'[r].table = <<>> \/ req'[r].table = req[r].table
  <2>1. /\ Len(req[r].table) = NumPages(req[r].computed) /\ Length(r) \in Nat
        /\ req[r].computed < Length(r) /\ req[r].computed \in Nat
    BY RequestFacts
  <2>2. Unshared(req[r].table)
    BY DEF RunnerInv, TablesApart
  <2>3. NumPages(0) = 0 /\ Len(<<>>) = 0 /\ Unshared(<<>>)
    BY PagesFor DEF Unshared
  <2>4. Sooner(req'[r], req[r])
    OBVIOUS
  <2>5. Length(r) = req'[r].prompt + Len(req'[r].out)
    BY <2>4 DEF Sooner, Length
  <2>6. CASE req'[r].table = req[r].table /\ req'[r].computed = req[r].computed
    BY <2>1, <2>2, <2>5, <2>6
  <2>7. CASE req'[r].table = <<>> /\ req'[r].computed = 0
    <3>1. 0 < Length(r)
      BY <2>1
    <3> QED
      BY <2>3, <2>5, <2>7, <3>1
  <2> QED
    BY <2>4, <2>6, <2>7 DEF Sooner
<1>3. TablesFit'
  BY <1>2 DEF TablesFit, Length
<1>4. TablesApart'
  <2>1. ASSUME NEW q \in Requests, NEW r \in Requests, q # r
        PROVE  Apart(req'[q].table, req'[r].table)
    <3>1. Apart(req[q].table, req[r].table)
      BY <2>1 DEF RunnerInv, TablesApart
    <3>2. \A t : Apart(<<>>, t) /\ Apart(t, <<>>)
      BY DEF Apart
    <3> QED
      BY <1>2, <3>1, <3>2
  <2> QED
    BY <1>2, <2>1 DEF TablesApart
<1>5. Resident'
  <2>1. ASSUME NEW r \in Requests, pool' # NoPool
        PROVE  Holds(pool, req[r].table, r, req[r].computed)' 
    <3>1. CASE req'[r].computed = 0
      BY <3>1 DEF Holds
    <3>2. CASE req'[r].computed # 0
      <4>1. pool' = pool /\ weights' = weights
        BY <3>2
      <4>2. req'[r].table = req[r].table /\ req'[r].computed = req[r].computed
        BY <3>2 DEF Sooner
      <4>3. Holds(pool, req[r].table, r, req[r].computed)
        BY <2>1, <4>1 DEF RunnerInv, Resident
      <4> QED
        BY <4>1, <4>2, <4>3 DEF Holds
    <3> QED
      BY <3>1, <3>2
  <2> QED
    BY <2>1 DEF Resident
<1>6. NothingAsleep'
  BY DEF NothingAsleep
<1>7. ReadsOwnContext' /\ SampledFromOwnRow'
  <2>1. \A r \in Requests : req'[r].out = req[r].out /\ req'[r].prompt = req[r].prompt
    BY DEF Sooner
  <2>2. ReadsOwnContext /\ SampledFromOwnRow
    BY DEF RunnerInv
  <2> QED
    BY <2>1, <2>2 DEF ReadsOwnContext, SampledFromOwnRow
<1> QED
  BY <1>1, <1>3, <1>4, <1>5, <1>6, <1>7 DEF RunnerInv

\* A request that lost its KV: no table, nothing computed, the same tokens.
LEMMA ColdFacts ==
  ASSUME NEW rq \in RequestType
  PROVE  /\ Cold(rq) \in RequestType /\ Sooner(Cold(rq), rq)
         /\ Cold(rq).computed = 0 /\ Cold(rq).state = rq.state
<1> DEFINE warmer == [rq EXCEPT !.table = <<>>]
           q == [warmer EXCEPT !.computed = 0]
<1>1. Cold(rq) = q
  BY DEF Cold
<1>2. /\ warmer \in RequestType /\ warmer.table = <<>> /\ warmer.state = rq.state
      /\ warmer.prompt = rq.prompt /\ warmer.out = rq.out
  <2>1. <<>> \in Seq(Pages)
    BY EmptySeq
  <2> QED
    BY <2>1 DEF RequestType
<1> HIDE DEF warmer
<1>3. /\ q \in RequestType /\ q.table = <<>> /\ q.state = warmer.state
      /\ q.prompt = warmer.prompt /\ q.out = warmer.out /\ q.computed = 0
  BY <1>2 DEF RequestType
<1> HIDE DEF q
<1> QED
  BY <1>1, <1>2, <1>3 DEF Sooner

\* All requests cold.
LEMMA ColdAll ==
  ASSUME RunnerInv, setup' = setup, req' = ColdRequests
  PROVE  /\ req' \in [Requests -> RequestType] /\ FewLive'
         /\ \A r \in Requests : Sooner(req'[r], req[r]) /\ req'[r].computed = 0
<1>1. \A r \in Requests : req[r] \in RequestType /\ req'[r] = Cold(req[r])
  BY RequestFacts DEF ColdRequests
<1>2. \A r \in Requests : /\ req'[r] \in RequestType /\ Sooner(req'[r], req[r])
                          /\ req'[r].computed = 0 /\ req'[r].state = req[r].state
  BY <1>1, ColdFacts
<1>3. FewLive'
  BY <1>2, FewerLive DEF RunnerInv, RunnerTyped
<1> QED
  BY <1>2, <1>3 DEF ColdRequests

\* An arrival keeps the invariant.
LEMMA ArriveInv ==
  ASSUME RunnerInv, NEW r \in Requests, Arrive(r)
  PROVE  RunnerInv'
<1>1. /\ req[r].state = "new" /\ Cardinality(Live) < setup.seqs
      /\ req' = [req EXCEPT ![r].state = "live"]
      /\ pool' = pool /\ home' = home /\ weights' = weights /\ graphs' = graphs
      /\ setup' = setup /\ misread' = misread
  BY DEF Arrive
<1>2. /\ req \in [Requests -> RequestType] /\ pool \in PoolType \union {NoPool}
      /\ home \in Nat /\ weights \in Nat
  BY DEF RunnerInv, RunnerTyped
<1>3. /\ \A q \in Requests : q # r => req'[q] = req[q]
      /\ req'[r] = [req[r] EXCEPT !.state = "live"]
  BY <1>1, <1>2
<1>4. /\ req'[r].state = "live" /\ req'[r].prompt = req[r].prompt /\ req'[r].out = req[r].out
      /\ req'[r].table = req[r].table /\ req'[r].computed = req[r].computed /\ req'[r] \in RequestType
  BY <1>2, <1>3 DEF RequestType
<1>5. \A q \in Requests : Sooner(req'[q], req[q]) /\ req'[q].computed = req[q].computed
  <2> SUFFICES ASSUME NEW q \in Requests
               PROVE  Sooner(req'[q], req[q]) /\ req'[q].computed = req[q].computed
    OBVIOUS
  <2>1. CASE q = r
    BY <1>4, <2>1 DEF Sooner
  <2>2. CASE q # r
    BY <1>3, <2>2 DEF Sooner
  <2> QED
    BY <2>1, <2>2
<1>6. req' \in [Requests -> RequestType]
  BY <1>1, <1>2, <1>3, <1>4
<1>7. FewLive'
  <2>1. Live' = Live \union {r} /\ r \notin Live
    BY <1>1, <1>3, <1>4 DEF Live
  <2>2. IsFiniteSet(Live) /\ Cardinality(Live) \in Nat
    BY FS_CardinalityType DEF RunnerInv, FewLive
  <2> DEFINE L == Live
             M == Live'
  <2>3. M = L \union {r} /\ r \notin L /\ IsFiniteSet(L) /\ Cardinality(L) \in Nat
    BY <2>1, <2>2
  <2>4. Cardinality(L) < setup'.seqs /\ setup'.seqs \in Int
    <3>1. setup \in Setups
      BY DEF RunnerInv, RunnerTyped
    <3> QED
      BY <1>1, <3>1, RunnerAssumption
  <2> HIDE DEF L, M
  <2>5. IsFiniteSet(M) /\ Cardinality(M) = Cardinality(L) + 1
    BY <2>3, FS_AddElement
  <2>6. Cardinality(M) <= setup'.seqs
    BY <2>3, <2>4, <2>5
  <2> QED
    BY <2>5, <2>6 DEF FewLive, M
<1>8. Bound(graphs)'
  BY <1>1 DEF RunnerInv, Bound
<1>9. pool' = NoPool => /\ \A q \in Requests : req'[q].computed = 0
                        /\ \A n \in 1..MaxSeqs : graphs'[n] = NoGraph
  BY <1>1, <1>5 DEF RunnerInv, NothingAsleep
<1> QED
  BY <1>1, <1>2, <1>5, <1>6, <1>7, <1>8, <1>9, IdleInv

\* A preemption keeps the invariant.
LEMMA PreemptInv ==
  ASSUME RunnerInv, NEW r \in Requests, Preempt(r)
  PROVE  RunnerInv'
<1>1. /\ req' = [req EXCEPT ![r] = Cold(req[r])]
      /\ pool' = pool /\ home' = home /\ weights' = weights /\ graphs' = graphs
      /\ setup' = setup /\ misread' = misread
  BY DEF Preempt
<1>2. /\ req \in [Requests -> RequestType] /\ pool \in PoolType \union {NoPool}
      /\ home \in Nat /\ weights \in Nat
  BY DEF RunnerInv, RunnerTyped
<1>3. \A q \in Requests : req'[q] = IF q = r THEN Cold(req[r]) ELSE req[q]
  BY <1>1, <1>2
<1>4. \A q \in Requests : /\ Sooner(req'[q], req[q]) /\ req'[q] \in RequestType
                          /\ req'[q].state = req[q].state
                          /\ req[q].computed = 0 => req'[q].computed = 0
  <2> SUFFICES ASSUME NEW q \in Requests
               PROVE  /\ Sooner(req'[q], req[q]) /\ req'[q] \in RequestType
                      /\ req'[q].state = req[q].state
                      /\ req[q].computed = 0 => req'[q].computed = 0
    OBVIOUS
  <2>1. CASE q = r
    BY <1>2, <1>3, <2>1, ColdFacts
  <2>2. CASE q # r
    <3>1. req'[q] = req[q] /\ req[q] \in RequestType
      BY <1>2, <1>3, <2>2
    <3> QED
      BY <3>1 DEF Sooner
  <2> QED
    BY <2>1, <2>2
<1>5. req' \in [Requests -> RequestType]
  BY <1>1, <1>2, <1>4
<1>6. FewLive'
  BY <1>1, <1>4, FewerLive DEF RunnerInv, RunnerTyped
<1>7. Bound(graphs)'
  BY <1>1 DEF RunnerInv, Bound
<1>8. pool' = NoPool => /\ \A q \in Requests : req'[q].computed = 0
                        /\ \A n \in 1..MaxSeqs : graphs'[n] = NoGraph
  BY <1>1, <1>4 DEF RunnerInv, NothingAsleep
<1> QED
  BY <1>1, <1>2, <1>4, <1>5, <1>6, <1>7, <1>8, IdleInv

\* Any running requests, in any order, each for one token or all it has.
LEMMA StepsInv ==
  ASSUME RunnerInv, Steps
  PROVE  RunnerInv'
<1>1. PICK rs \in SUBSET Live : \E order \in SetToSeqs(rs) :
        \E n \in [rs -> {1} \union {Uncomputed(r) : r \in rs}] :
          LET spans == [i \in DOMAIN order |-> Span(order[i], n[order[i]])]
          IN  /\ rs # {} /\ \A r \in rs : n[r] \in Chunks(r)
              /\ Fits(spans) /\ RunStep(Grown(spans))
  BY DEF Steps
<1>2. PICK order \in SetToSeqs(rs) :
        \E n \in [rs -> {1} \union {Uncomputed(r) : r \in rs}] :
          LET spans == [i \in DOMAIN order |-> Span(order[i], n[order[i]])]
          IN  /\ rs # {} /\ \A r \in rs : n[r] \in Chunks(r)
              /\ Fits(spans) /\ RunStep(Grown(spans))
  BY <1>1
<1>3. PICK n \in [rs -> {1} \union {Uncomputed(r) : r \in rs}] :
          LET spans == [i \in DOMAIN order |-> Span(order[i], n[order[i]])]
          IN  /\ rs # {} /\ \A r \in rs : n[r] \in Chunks(r)
              /\ Fits(spans) /\ RunStep(Grown(spans))
  BY <1>2
<1>4. PICK spans : spans = [i \in DOMAIN order |-> Span(order[i], n[order[i]])]
  OBVIOUS
<1>5. rs # {} /\ (\A r \in rs : n[r] \in Chunks(r)) /\ Fits(spans) /\ RunStep(Grown(spans))
  BY <1>3, <1>4
<1>6. rs \subseteq Requests /\ IsFiniteSet(rs) /\ Cardinality(rs) \in 1..MaxSeqs
  <2>1. IsFiniteSet(Live) /\ Cardinality(Live) <= setup.seqs /\ setup \in Setups
    BY DEF RunnerInv, FewLive, RunnerTyped
  <2>2. setup.seqs \in 1..MaxSeqs /\ MaxSeqs \in Nat
    BY <2>1, RunnerAssumption
  <2>3. IsFiniteSet(rs) /\ Cardinality(rs) <= Cardinality(Live) /\ Cardinality(Live) \in Nat
    BY <1>1, <2>1, FS_Subset, FS_CardinalityType
  <2>4. Cardinality(rs) \in Nat /\ Cardinality(rs) # 0
    BY <1>5, <2>3, FS_CardinalityType, FS_EmptySet
  <2>5. rs \subseteq Requests
    BY <1>1 DEF Live
  <2> DEFINE a == Cardinality(rs)
             b == Cardinality(Live)
  <2>6. a \in Nat /\ a # 0 /\ b \in Nat /\ a <= b /\ b <= setup.seqs
    BY <2>1, <2>3, <2>4
  <2> HIDE DEF a, b
  <2>7. a \in 1..MaxSeqs
    BY <2>2, <2>6
  <2> QED
    BY <2>3, <2>5, <2>7 DEF a
<1>7. PICK N \in 1..MaxSeqs : N = Cardinality(rs)
  BY <1>6
<1>8. /\ DOMAIN order = 1..N /\ \A i \in 1..N : order[i] \in rs
      /\ \A i, j \in 1..N : i # j => order[i] # order[j]
  BY <1>7 DEF SetToSeqs
<1>9. ASSUME NEW i \in 1..N
      PROVE  /\ spans[i] = Span(order[i], n[order[i]]) /\ order[i] \in Requests
             /\ n[order[i]] \in Nat \ {0} /\ n[order[i]] <= Uncomputed(order[i])
  <2>1. spans[i] = Span(order[i], n[order[i]]) /\ order[i] \in rs /\ order[i] \in Requests
    BY <1>4, <1>6, <1>8
  <2>2. n[order[i]] \in {1, Uncomputed(order[i])}
    BY <1>5, <2>1 DEF Chunks
  <2>3. Uncomputed(order[i]) \in Nat \ {0}
    BY <2>1, RequestFacts
  <2> QED
    BY <2>1, <2>2, <2>3
<1>10. N \in Nat /\ DOMAIN spans = 1..N
  BY <1>4, <1>7, <1>8
<1>11. ASSUME NEW i \in 1..N
       PROVE  /\ spans[i] \in SpanType /\ spans[i].r = order[i]
              /\ spans[i].table = req[spans[i].r].table
              /\ End(spans[i]) <= Length(spans[i].r)
  <2>1. /\ req[order[i]].table \in Seq(Pages) /\ req[order[i]].computed \in Nat
        /\ Length(order[i]) \in Nat
    BY <1>9, RequestFacts
  <2>2. /\ spans[i].r = order[i] /\ spans[i].n = n[order[i]]
        /\ spans[i].table = req[order[i]].table /\ spans[i] \in SpanType
    <3>1. spans[i] = [r |-> order[i], n |-> n[order[i]], table |-> req[order[i]].table]
      BY <1>9 DEF Span
    <3>2. spans[i] \in SpanType
      BY <1>9, <2>1, <3>1 DEF SpanType
    <3> QED
      BY <3>1, <3>2
  <2>3. n[order[i]] \in Nat /\ n[order[i]] <= Length(order[i]) - req[order[i]].computed
    BY <1>9 DEF Uncomputed
  <2>4. req[order[i]].computed + n[order[i]] <= Length(order[i])
    BY <2>1, <2>3
  <2> QED
    BY <2>2, <2>4 DEF End
<1>12. spans \in Seq(SpanType) /\ Len(spans) = N
  <2>1. spans = [i \in 1..N |-> spans[i]]
    BY <1>4, <1>10
  <2>2. spans \in [1..N -> SpanType]
    BY <1>11, <2>1
  <2> QED
    BY <1>10, <2>2
<1>13. Planned(spans)
  BY <1>8, <1>11, <1>12 DEF Planned
<1> QED
  BY <1>5, <1>7, <1>11, <1>12, <1>13, RunStepInv

\* The layout and the rows after a step are those of the new parameters.
LEMMA RowsNext ==
  ASSUME NEW ps, NEW sent, tied' = tied, params' = ps, delivered' = sent,
         Laid(ps), RowsFrom(ps, sent)
  PROVE  Laid(params)' /\ RowsFrom(params, delivered)'
<1>1. Laid(params)'
  BY DEF Laid
<1>2. RowsFrom(params, delivered)'
  BY DEF RowsFrom
<1> QED
  BY <1>1, <1>2

\* Parameters, deliveries and layout left alone.
LEMMA RowsSame ==
  ASSUME SyncInv, params' = params, tied' = tied, trained' = trained, delivered' = delivered
  PROVE  /\ tied' \in BOOLEAN /\ trained' \in Nat /\ delivered' \in [HFNames -> 0..trained']
         /\ Laid(params)' /\ RowsFrom(params, delivered)' /\ Blanks(params)' = Blanks(params)
<1>1. tied \in BOOLEAN /\ trained \in Nat /\ delivered \in [HFNames -> 0..trained]
  BY DEF SyncInv, SyncTyped
<1>2. Laid(params) /\ RowsFrom(params, delivered)
  BY DEF SyncInv
<1>3. PICK ps, sent : ps = params /\ sent = delivered
  OBVIOUS
<1>4. Laid(params)' /\ RowsFrom(params, delivered)'
  BY <1>2, <1>3, RowsNext
<1>5. Blanks(params)' = Blanks(params)
  BY DEF Blanks
<1> QED
  BY <1>1, <1>4, <1>5

\* Waking up finds the parameters as they were, or as rows nobody wrote.
LEMMA ReloadedFacts ==
  ASSUME SyncInv
  PROVE  /\ Laid(Reloaded) /\ RowsFrom(Reloaded, delivered)
         /\ where # "released" /\ ~unverified => Blanks(Reloaded) = {}
<1>1. /\ Laid(params) /\ RowsFrom(params, delivered)
      /\ where # "released" /\ ~unverified => Blanks(params) = {}
  BY DEF SyncInv, Written
<1>2. CASE where = "released"
  <2>1. /\ DOMAIN Reloaded = DOMAIN params
        /\ \A p \in DOMAIN params : /\ DOMAIN Reloaded[p] = DOMAIN params[p]
                                    /\ \A i \in DOMAIN params[p] : Reloaded[p][i] = NaNRow
    BY <1>2 DEF Reloaded
  <2>2. Laid(Reloaded)
    BY <1>1, <2>1 DEF Laid
  <2>3. RowsFrom(Reloaded, delivered)
    BY <2>1 DEF RowsFrom
  <2> QED
    BY <1>2, <2>2, <2>3
<1>3. CASE where # "released"
  BY <1>1, <1>3 DEF Reloaded
<1> QED
  BY <1>2, <1>3

\* A run, which scans unverified weights first, keeps both halves of the
\* invariant.
LEMMA ForwardsInv ==
  ASSUME RuntimeInv, Forwards
  PROVE  RuntimeInv'
<1>1. RunnerInv /\ SyncInv
  BY DEF RuntimeInv
<1>2. /\ Steps /\ where = "device" /\ (unverified => Blanks(params) = {})
      /\ unverified' = FALSE /\ blank' = (blank \/ Blanks(params) # {})
      /\ params' = params /\ where' = where /\ tied' = tied /\ trained' = trained
      /\ delivered' = delivered
  BY DEF Forwards, Usable
<1>3. RunnerInv'
  BY <1>1, <1>2, StepsInv
<1>4. Blanks(params) = {}
  BY <1>1, <1>2 DEF SyncInv, SyncTyped, Written
<1>5. NoUnwrittenRead'
  BY <1>1, <1>2, <1>4 DEF SyncInv, NoUnwrittenRead
<1>6. SyncTyped' /\ Laid(params)' /\ RowsFrom(params, delivered)' /\ Blanks(params)' = {}
  BY <1>1, <1>2, <1>4, RowsSame DEF SyncInv, SyncTyped
<1>7. AwayAsleep' /\ Written' /\ ColdUnverified'
  BY <1>2, <1>6 DEF AwayAsleep, Written, ColdUnverified
<1> QED
  BY <1>3, <1>5, <1>6, <1>7 DEF RuntimeInv, SyncInv

\* run_logits asks nothing of the weights, and need not: a request that
\* decodes has KV, so the weights were in use since they were last dropped.
LEMMA VerifiesInv ==
  ASSUME RuntimeInv, Verifies
  PROVE  RuntimeInv'
<1>1. RunnerInv /\ SyncInv
  BY DEF RuntimeInv
<1>2. /\ where = "device" /\ blank' = (blank \/ Blanks(params) # {})
      /\ params' = params /\ where' = where /\ unverified' = unverified /\ tied' = tied
      /\ trained' = trained /\ delivered' = delivered
  BY DEF Verifies
<1>3. PICK r \in Live, drafts \in 1..2 : \E accepted \in 0..drafts :
        LET s == Span(r, drafts + 1)
        IN  /\ IsPureDecode(Span(r, 1))
            /\ Length(r) + drafts <= MaxLen
            /\ Fits(<<s>>) /\ VerifyStep(Grown(<<s>>)[1], accepted)
  BY DEF Verifies
<1>4. PICK spans : spans = <<Span(r, drafts + 1)>>
  OBVIOUS
<1>5. PICK accepted \in 0..drafts :
        IsPureDecode(Span(r, 1)) /\ Fits(spans) /\ VerifyStep(Grown(spans)[1], accepted)
  BY <1>3, <1>4
<1>6. r \in Requests
  BY DEF Live
<1>7. Uncomputed(r) = 1 /\ req[r].computed >= req[r].prompt
  BY <1>5 DEF IsPureDecode, Span
<1>8. drafts \in Nat \ {0}
  OBVIOUS
<1>9. RunnerInv'
  BY <1>1, <1>4, <1>5, <1>6, <1>7, <1>8, VerifyStepInv
<1>10. ~unverified
  <2>1. req[r].computed # 0
    BY <1>1, <1>6, <1>7, RequestFacts
  <2> QED
    BY <1>1, <1>6, <2>1 DEF SyncInv, ColdUnverified
<1>11. Blanks(params) = {}
  BY <1>1, <1>2, <1>10 DEF SyncInv, Written
<1>12. NoUnwrittenRead'
  BY <1>1, <1>2, <1>11 DEF SyncInv, NoUnwrittenRead
<1>13. SyncTyped' /\ Laid(params)' /\ RowsFrom(params, delivered)' /\ Blanks(params)' = {}
  BY <1>1, <1>2, <1>11, RowsSame DEF SyncInv, SyncTyped
<1>14. AwayAsleep' /\ Written' /\ ColdUnverified'
  BY <1>2, <1>10, <1>13 DEF AwayAsleep, Written, ColdUnverified
<1> QED
  BY <1>9, <1>12, <1>13, <1>14 DEF RuntimeInv, SyncInv

\* A sleep keeps the invariant.
LEMMA SleepInv ==
  ASSUME RuntimeInv, Sleep
  PROVE  RuntimeInv'
<1>1. RunnerInv /\ SyncInv
  BY DEF RuntimeInv
<1>2. /\ pool' = NoPool /\ graphs' = [n \in 1..MaxSeqs |-> NoGraph] /\ req' = ColdRequests
      /\ home' = home /\ weights' = weights /\ setup' = setup /\ misread' = misread
      /\ params' = params /\ where' = where /\ unverified' = unverified /\ tied' = tied
      /\ trained' = trained /\ delivered' = delivered /\ blank' = blank
  BY DEF Sleep, ReleaseKvPool
<1>3. home' \in Nat /\ weights' \in Nat
  BY <1>1, <1>2 DEF RunnerInv, RunnerTyped
<1>4. Bound(graphs)' /\ \A n \in 1..MaxSeqs : graphs'[n] = NoGraph
  BY <1>2 DEF Bound
<1>5. /\ req' \in [Requests -> RequestType] /\ FewLive'
      /\ \A r \in Requests : Sooner(req'[r], req[r]) /\ req'[r].computed = 0
  BY <1>1, <1>2, ColdAll
<1>6. RunnerInv'
  BY <1>1, <1>2, <1>3, <1>4, <1>5, IdleInv
<1>7. SyncTyped' /\ Laid(params)' /\ RowsFrom(params, delivered)' /\ Blanks(params)' = Blanks(params)
  BY <1>1, <1>2, RowsSame DEF SyncInv, SyncTyped
<1>8. AwayAsleep' /\ Written' /\ ColdUnverified' /\ NoUnwrittenRead'
  BY <1>1, <1>2, <1>5, <1>7 DEF SyncInv, AwayAsleep, Written, ColdUnverified, NoUnwrittenRead
<1> QED
  BY <1>6, <1>7, <1>8 DEF RuntimeInv, SyncInv

\* A step that leaves the runner alone.
LEMMA RunnerSame ==
  ASSUME RunnerInv, UNCHANGED runnerVars
  PROVE  RunnerInv'
<1>1. /\ req' = req /\ pool' = pool /\ home' = home /\ weights' = weights /\ graphs' = graphs
      /\ setup' = setup /\ misread' = misread
  BY DEF runnerVars
<1>2. /\ req' \in [Requests -> RequestType] /\ pool' \in PoolType \union {NoPool}
      /\ home' \in Nat /\ weights' \in Nat
  BY <1>1 DEF RunnerInv, RunnerTyped
<1>3. FewLive'
  BY <1>1, FewerLive DEF RunnerInv, RunnerTyped
<1>4. Bound(graphs)'
  BY <1>1 DEF RunnerInv, Bound
<1>5. \A r \in Requests : Sooner(req'[r], req[r])
  BY <1>1 DEF Sooner
<1>6. pool' = NoPool => /\ \A r \in Requests : req'[r].computed = 0
                        /\ \A n \in 1..MaxSeqs : graphs'[n] = NoGraph
  BY <1>1 DEF RunnerInv, NothingAsleep
<1> QED
  BY <1>1, <1>2, <1>3, <1>4, <1>5, <1>6, IdleInv

\* A release of the weights, asleep, keeps the invariant.
LEMMA OffloadWeightsInv ==
  ASSUME RuntimeInv, NEW keep \in BOOLEAN, OffloadWeights(keep)
  PROVE  RuntimeInv'
<1>1. RunnerInv /\ SyncInv
  BY DEF RuntimeInv
<1>2. /\ pool = NoPool /\ where = "device" /\ where' = (IF keep THEN "host" ELSE "released")
      /\ UNCHANGED runnerVars /\ params' = params /\ unverified' = unverified /\ tied' = tied
      /\ trained' = trained /\ delivered' = delivered /\ blank' = blank
  BY DEF OffloadWeights
<1>3. RunnerInv'
  BY <1>1, <1>2, RunnerSame
<1>4. SyncTyped' /\ Laid(params)' /\ RowsFrom(params, delivered)' /\ Blanks(params)' = Blanks(params)
  BY <1>1, <1>2, RowsSame DEF SyncInv, SyncTyped
<1>5. pool' = pool /\ req' = req
  BY <1>2 DEF runnerVars
<1>6. AwayAsleep' /\ Written' /\ ColdUnverified' /\ NoUnwrittenRead'
  BY <1>1, <1>2, <1>4, <1>5 DEF SyncInv, AwayAsleep, Written, ColdUnverified, NoUnwrittenRead
<1> QED
  BY <1>3, <1>4, <1>6 DEF RuntimeInv, SyncInv

\* A wake-up, which may reload or reallocate the weights, keeps the invariant.
LEMMA WakeUpInv ==
  ASSUME RuntimeInv, NEW kv \in BOOLEAN, WakeUp(kv)
  PROVE  RuntimeInv'
<1>1. RunnerInv /\ SyncInv
  BY DEF RuntimeInv
<1>2. /\ pool = NoPool /\ params' = Reloaded /\ where' = "device"
      /\ unverified' = (unverified \/ where = "released")
      /\ home' = (IF kv \/ where # "device" THEN home + 1 ELSE home)
      /\ pool' = (IF kv THEN EmptyPool ELSE pool)
      /\ req' = req /\ weights' = weights /\ graphs' = graphs /\ setup' = setup
      /\ misread' = misread /\ tied' = tied /\ trained' = trained /\ delivered' = delivered
      /\ blank' = blank
  BY DEF WakeUp
<1>3. /\ \A r \in Requests : req'[r].computed = 0
      /\ \A n \in 1..MaxSeqs : graphs'[n] = NoGraph
  BY <1>1, <1>2 DEF RunnerInv, NothingAsleep
<1>4. req' \in [Requests -> RequestType] /\ home' \in Nat /\ weights' \in Nat
  BY <1>1, <1>2 DEF RunnerInv, RunnerTyped
<1>5. pool' \in PoolType \union {NoPool}
  <2>1. EmptyPool \in PoolType
    BY DEF EmptyPool, PoolType, Pages
  <2> QED
    BY <1>2, <2>1
<1>6. FewLive'
  BY <1>1, <1>2, FewerLive DEF RunnerInv, RunnerTyped
<1>7. Bound(graphs)'
  <2>1. DOMAIN graphs = 1..MaxSeqs
    BY <1>1 DEF RunnerInv, Bound
  <2> QED
    BY <1>2, <1>3, <2>1 DEF Bound
<1>8. \A r \in Requests : Sooner(req'[r], req[r])
  BY <1>2 DEF Sooner
<1>9. RunnerInv'
  BY <1>1, <1>2, <1>3, <1>4, <1>5, <1>6, <1>7, <1>8, IdleInv
<1>10. /\ Laid(Reloaded) /\ RowsFrom(Reloaded, delivered)
       /\ where # "released" /\ ~unverified => Blanks(Reloaded) = {}
  BY <1>1, ReloadedFacts
<1>11. PICK ps : ps = Reloaded
  OBVIOUS
<1>20. PICK sent : sent = delivered
  OBVIOUS
<1>12. /\ Laid(ps) /\ RowsFrom(ps, sent) /\ params' = ps /\ tied' = tied /\ delivered' = sent
       /\ where # "released" /\ ~unverified => Blanks(ps) = {}
  BY <1>2, <1>10, <1>11, <1>20
<1>13. Laid(params)' /\ RowsFrom(params, delivered)'
  BY <1>12, RowsNext
<1>14. Blanks(params)' = Blanks(ps)
  BY <1>12 DEF Blanks
<1>15. SyncTyped'
  BY <1>1, <1>2 DEF SyncInv, SyncTyped
<1>16. unverified \in BOOLEAN
  BY <1>1 DEF SyncInv, SyncTyped
<1>17. AwayAsleep' /\ Written' /\ ColdUnverified' /\ NoUnwrittenRead'
  BY <1>1, <1>2, <1>3, <1>12, <1>14, <1>16
     DEF SyncInv, AwayAsleep, Written, ColdUnverified, NoUnwrittenRead
<1> QED
  BY <1>9, <1>13, <1>15, <1>17 DEF RuntimeInv, SyncInv

\* A training step keeps the invariant.
LEMMA TrainInv ==
  ASSUME RuntimeInv, Train
  PROVE  RuntimeInv'
<1>1. RunnerInv /\ SyncInv
  BY DEF RuntimeInv
<1>2. /\ trained' = trained + 1 /\ UNCHANGED runnerVars /\ params' = params /\ where' = where
      /\ unverified' = unverified /\ tied' = tied /\ delivered' = delivered /\ blank' = blank
  BY DEF Train
<1>3. RunnerInv'
  BY <1>1, <1>2, RunnerSame
<1>4. SyncTyped'
  <2>1. trained \in Nat /\ delivered \in [HFNames -> 0..trained]
    BY <1>1 DEF SyncInv, SyncTyped
  <2>2. trained' \in Nat /\ 0..trained \subseteq 0..trained'
    BY <1>2, <2>1
  <2>3. delivered' \in [HFNames -> 0..trained']
    BY <1>2, <2>1, <2>2
  <2> QED
    BY <1>1, <1>2, <2>2, <2>3 DEF SyncInv, SyncTyped
<1>5. Laid(params)' /\ RowsFrom(params, delivered)'
  <2>1. PICK ps, sent : ps = params /\ sent = delivered
    OBVIOUS
  <2>2. Laid(ps) /\ RowsFrom(ps, sent)
    BY <1>1, <2>1 DEF SyncInv
  <2> QED
    BY <1>2, <2>1, <2>2, RowsNext
<1>6. Blanks(params)' = Blanks(params)
  BY <1>2 DEF Blanks
<1>7. pool' = pool /\ req' = req
  BY <1>2 DEF runnerVars
<1>8. AwayAsleep' /\ Written' /\ ColdUnverified' /\ NoUnwrittenRead'
  BY <1>1, <1>2, <1>6, <1>7 DEF SyncInv, AwayAsleep, Written, ColdUnverified, NoUnwrittenRead
<1> QED
  BY <1>3, <1>4, <1>5, <1>8 DEF RuntimeInv, SyncInv

\* An update by name, cut short at any name, keeps the invariant.
LEMMA UpdateInv ==
  ASSUME RuntimeInv, NEW names \in Calls, NEW good \in 0..Len(names), UpdateNamedWeights(names, good)
  PROVE  RuntimeInv'
<1>1. RunnerInv /\ SyncInv
  BY DEF RuntimeInv
<1>2. PICK copied, ps : copied = SubSeq(names, 1, good) /\ ps = ApplyNamedWeights(Reloaded, copied)
  OBVIOUS
<1>3. PICK sent : sent = Delivered(copied)
  OBVIOUS
<1>4. /\ params' = ps /\ where' = "device" /\ unverified' = (unverified \/ where = "released")
      /\ home' = (IF where = "device" THEN home ELSE home + 1) /\ delivered' = sent
      /\ weights' = (IF good = 0 THEN weights ELSE weights + 1) /\ req' = ColdRequests
      /\ pool' = pool /\ graphs' = graphs /\ setup' = setup /\ misread' = misread
      /\ tied' = tied /\ trained' = trained /\ blank' = blank
  BY <1>2, <1>3 DEF UpdateNamedWeights, ReloadWeights, Invalidated
<1>5. /\ req' \in [Requests -> RequestType] /\ FewLive'
      /\ \A r \in Requests : Sooner(req'[r], req[r]) /\ req'[r].computed = 0
  BY <1>1, <1>4, ColdAll
<1>6. home' \in Nat /\ weights' \in Nat /\ pool' \in PoolType \union {NoPool}
  BY <1>1, <1>4 DEF RunnerInv, RunnerTyped
<1>7. Bound(graphs)'
  <2>1. Bound(graphs)
    BY <1>1 DEF RunnerInv
  <2>2. CASE where = "device"
    BY <1>4, <2>1, <2>2 DEF Bound
  <2>3. CASE where # "device"
    <3>1. \A n \in 1..MaxSeqs : graphs[n] = NoGraph
      BY <1>1, <2>3 DEF RunnerInv, NothingAsleep, SyncInv, AwayAsleep
    <3> QED
      BY <1>4, <2>1, <3>1 DEF Bound
  <2> QED
    BY <2>2, <2>3
<1>8. pool' = NoPool => /\ \A r \in Requests : req'[r].computed = 0
                        /\ \A n \in 1..MaxSeqs : graphs'[n] = NoGraph
  BY <1>1, <1>4, <1>5 DEF RunnerInv, NothingAsleep
<1>9. RunnerInv'
  BY <1>1, <1>4, <1>5, <1>6, <1>7, <1>8, IdleInv
<1>10. copied \in Seq(Names)
  <2>1. names \in Seq(Names)
    BY SyncAssumption
  <2> QED
    BY <1>2, <2>1
<1>11. /\ Laid(Reloaded) /\ RowsFrom(Reloaded, delivered)
       /\ where # "released" /\ ~unverified => Blanks(Reloaded) = {}
  BY <1>1, ReloadedFacts
<1>12. tied \in BOOLEAN /\ unverified \in BOOLEAN /\ trained \in Nat /\ delivered \in [HFNames -> 0..trained]
  BY <1>1 DEF SyncInv, SyncTyped
<1>13. Applied(Reloaded, copied)
  BY <1>10, <1>11, <1>12, ApplyFacts
<1>14. /\ Laid(ps) /\ RowsFrom(ps, sent) /\ sent \in [HFNames -> 0..trained]
       /\ where # "released" /\ ~unverified => Blanks(ps) = {}
  BY <1>2, <1>3, <1>11, <1>13 DEF Applied
<1>15. Laid(params)' /\ RowsFrom(params, delivered)'
  BY <1>4, <1>14, RowsNext
<1>16. Blanks(params)' = Blanks(ps)
  BY <1>4 DEF Blanks
<1>17. SyncTyped'
  BY <1>4, <1>12, <1>14 DEF SyncTyped
<1>18. AwayAsleep' /\ Written' /\ ColdUnverified' /\ NoUnwrittenRead'
  BY <1>1, <1>4, <1>5, <1>12, <1>14, <1>16
     DEF SyncInv, AwayAsleep, Written, ColdUnverified, NoUnwrittenRead
<1> QED
  BY <1>9, <1>15, <1>17, <1>18 DEF RuntimeInv, SyncInv

\* A step of the runner that computes nothing, the weights left alone.
LEMMA SyncSame ==
  ASSUME SyncInv, UNCHANGED syncVars, pool' = pool,
         \A r \in Requests : req[r].computed = 0 => req'[r].computed = 0
  PROVE  SyncInv'
<1>1. /\ params' = params /\ where' = where /\ unverified' = unverified /\ tied' = tied
      /\ trained' = trained /\ delivered' = delivered /\ blank' = blank
  BY DEF syncVars
<1>2. SyncTyped' /\ Laid(params)' /\ RowsFrom(params, delivered)' /\ Blanks(params)' = Blanks(params)
  BY <1>1, RowsSame DEF SyncInv, SyncTyped
<1>3. AwayAsleep' /\ Written' /\ ColdUnverified' /\ NoUnwrittenRead'
  BY <1>1, <1>2 DEF SyncInv, AwayAsleep, Written, ColdUnverified, NoUnwrittenRead
<1> QED
  BY <1>2, <1>3 DEF SyncInv

\* Arrivals and preemptions keep the half about weights.
LEMMA RequestStepInv ==
  ASSUME RuntimeInv, NEW r \in Requests, Arrive(r) \/ Preempt(r), UNCHANGED syncVars
  PROVE  RuntimeInv'
<1>1. RunnerInv /\ SyncInv
  BY DEF RuntimeInv
<1>2. RunnerInv'
  BY <1>1, ArriveInv, PreemptInv
<1>3. pool' = pool
  BY DEF Arrive, Preempt
<1>4. ASSUME NEW q \in Requests, req[q].computed = 0
      PROVE  req'[q].computed = 0
  <2>1. req \in [Requests -> RequestType]
    BY <1>1 DEF RunnerInv, RunnerTyped
  <2>2. CASE Arrive(r)
    <3>1. req' = [req EXCEPT ![r].state = "live"]
      BY <2>2 DEF Arrive
    <3>2. CASE q = r
      <4>1. req'[q] = [req[r] EXCEPT !.state = "live"] /\ req[r] \in RequestType
        BY <2>1, <3>1, <3>2
      <4> QED
        BY <1>4, <3>2, <4>1 DEF RequestType
    <3>3. CASE q # r
      BY <1>4, <2>1, <3>1, <3>3
    <3> QED
      BY <3>2, <3>3
  <2>3. CASE Preempt(r)
    <3>1. req' = [req EXCEPT ![r] = Cold(req[r])]
      BY <2>3 DEF Preempt
    <3>2. Cold(req[r]).computed = 0
      BY <2>1, ColdFacts
    <3> QED
      BY <1>4, <2>1, <3>1, <3>2
  <2> QED
    BY <2>2, <2>3
<1>5. SyncInv'
  BY <1>1, <1>3, <1>4, SyncSame
<1> QED
  BY <1>2, <1>5 DEF RuntimeInv

\* A stuttering step keeps the invariant.
LEMMA StutterInv ==
  ASSUME RuntimeInv, UNCHANGED allVars
  PROVE  RuntimeInv'
<1>1. UNCHANGED runnerVars /\ UNCHANGED syncVars
  BY DEF allVars
<1>2. pool' = pool /\ req' = req
  BY <1>1 DEF runnerVars
<1> QED
  BY <1>1, <1>2, RunnerSame, SyncSame DEF RuntimeInv

\* The initial states meet the invariant.
LEMMA InitInv ==
  ASSUME RuntimeInit
  PROVE  RuntimeInv
<1>1. RunnerInit /\ SyncInit
  BY DEF RuntimeInit
<1>2. PICK prompt \in [Requests -> PromptLens] :
        req = [r \in Requests |-> [state |-> IF r \in setup.served THEN "new" ELSE "done",
                                   prompt |-> prompt[r], out |-> <<>>, table |-> <<>>, computed |-> 0]]
  BY <1>1 DEF RunnerInit
<1>3. /\ setup \in Setups /\ pool = EmptyPool /\ home = 0 /\ weights = 0
      /\ graphs = [n \in 1..MaxSeqs |-> NoGraph] /\ misread = {}
  BY <1>1 DEF RunnerInit
<1>4. \A r \in Requests :
        /\ req[r].state \in {"new", "done"} /\ req[r].prompt \in PromptLens
        /\ req[r].out = <<>> /\ req[r].table = <<>> /\ req[r].computed = 0
        /\ req[r] \in RequestType
  <2> SUFFICES ASSUME NEW r \in Requests
               PROVE  /\ req[r].state \in {"new", "done"} /\ req[r].prompt \in PromptLens
                      /\ req[r].out = <<>> /\ req[r].table = <<>> /\ req[r].computed = 0
                      /\ req[r] \in RequestType
    OBVIOUS
  <2>1. PICK st \in {"new", "done"} :
          req[r] = [state |-> st, prompt |-> prompt[r], out |-> <<>>, table |-> <<>>, computed |-> 0]
    BY <1>2
  <2>2. prompt[r] \in PromptLens /\ <<>> \in Seq(Pages) /\ <<>> \in Seq(Requests \X Int)
    OBVIOUS
  <2> QED
    BY <2>1, <2>2 DEF RequestType
<1>5. EmptyPool \in PoolType
  BY DEF EmptyPool, PoolType, Pages
<1>6. RunnerTyped
  BY <1>2, <1>3, <1>4, <1>5 DEF RunnerTyped
<1>7. FewLive
  <2>1. Live = {}
    BY <1>4 DEF Live
  <2>2. setup.seqs \in 1..MaxSeqs
    BY <1>3, RunnerAssumption
  <2> QED
    BY <2>1, <2>2, FS_EmptySet, RunnerAssumption DEF FewLive
<1>8. TablesFit
  <2>1. NumPages(0) = 0
    BY PagesFor
  <2>2. ASSUME NEW r \in Requests
        PROVE  Len(req[r].table) = NumPages(req[r].computed) /\ req[r].computed < Length(r)
    <3>1. req[r].prompt \in 1..MaxLen
      BY <1>4, RunnerAssumption
    <3>2. Len(req[r].out) = 0 /\ Len(req[r].table) = 0 /\ req[r].computed = 0
      BY <1>4
    <3>3. Length(r) = req[r].prompt
      BY <3>1, <3>2, RunnerAssumption DEF Length
    <3> QED
      BY <2>1, <3>1, <3>2, <3>3, RunnerAssumption
  <2> QED
    BY <2>2 DEF TablesFit
<1>9. TablesApart
  <2>1. Unshared(<<>>) /\ Apart(<<>>, <<>>)
    BY DEF Unshared, Apart
  <2> QED
    BY <1>4, <2>1 DEF TablesApart
<1>10. Resident
  BY <1>4 DEF Resident, Holds
<1>11. Bound(graphs) /\ NothingAsleep /\ ReadsOwnContext /\ SampledFromOwnRow
  BY <1>3, <1>4 DEF Bound, NothingAsleep, ReadsOwnContext, SampledFromOwnRow
<1>12. RunnerInv
  BY <1>6, <1>7, <1>8, <1>9, <1>10, <1>11 DEF RunnerInv
<1>13. /\ where = "device" /\ unverified = FALSE /\ trained = 0
       /\ delivered = [n \in HFNames |-> 0] /\ blank = FALSE
       /\ params = [p \in DOMAIN Loaded(tied) |->
                      [i \in DOMAIN Loaded(tied)[p] |-> [src |-> Loaded(tied)[p][i], version |-> 0]]]
  BY <1>1 DEF SyncInit
<1>14. tied \in BOOLEAN
  <2>1. \E t \in Trainings : tied = t.tied
    BY <1>1 DEF SyncInit
  <2> QED
    BY <2>1, SyncAssumption
<1>15. SyncTyped
  <2>1. delivered \in [HFNames -> {0}] /\ 0 \in 0..0
    BY <1>13
  <2>2. delivered \in [HFNames -> 0..trained]
    BY <1>13, <2>1
  <2> QED
    BY <1>13, <1>14, <2>2 DEF SyncTyped
<1>16. Laid(params)
  BY <1>13 DEF Laid
<1>17. \A p \in DOMAIN Loaded(tied) : \A i \in DOMAIN Loaded(tied)[p] :
         params[p][i].src = Loaded(tied)[p][i] /\ params[p][i].version = 0
  BY <1>13
<1>18. RowsFrom(params, delivered)
  <2>1. ASSUME NEW p \in DOMAIN params, NEW i \in DOMAIN params[p]
        PROVE  RowFrom(params[p][i], p, i, delivered)
    <3>1. /\ p \in DOMAIN Loaded(tied) /\ i \in DOMAIN Loaded(tied)[p]
          /\ params[p][i].src = Loaded(tied)[p][i] /\ params[p][i].version = 0
      BY <1>16, <1>17 DEF Laid
    <3>2. CASE p = "embed" /\ tied
      <4>1. delivered["embed"] = 0 /\ delivered["lm_head"] = 0
        BY <1>13 DEF HFNames
      <4>2. Max({delivered["embed"], delivered["lm_head"]}) = 0
        BY <4>1, MaxOfTwo
      <4> QED
        BY <3>1, <3>2, <4>2 DEF RowFrom
    <3>3. CASE ~(p = "embed" /\ tied)
      <4>1. delivered[Loaded(tied)[p][i][1]] = 0
        BY <1>13, <1>14, <3>1, OwnerNames
      <4> QED
        BY <3>1, <3>3, <4>1 DEF RowFrom
    <3> QED
      BY <3>2, <3>3
  <2> QED
    BY <2>1 DEF RowsFrom, RowFrom
<1>19. Blanks(params) = {}
  <2> SUFFICES ASSUME NEW p \in DOMAIN params, NEW i \in DOMAIN params[p], params[p][i] = NaNRow
               PROVE  FALSE
    BY DEF Blanks
  <2>1. /\ p \in DOMAIN Loaded(tied) /\ i \in DOMAIN Loaded(tied)[p]
        /\ params[p][i].src = Loaded(tied)[p][i]
    BY <1>16, <1>17 DEF Laid
  <2>2. Loaded(tied)[p][i] = <<>>
    BY <2>1 DEF NaNRow
  <2> QED
    BY <1>14, <2>1, <2>2, OwnerNames
<1>20. AwayAsleep /\ Written /\ ColdUnverified /\ NoUnwrittenRead
  BY <1>13, <1>19 DEF AwayAsleep, Written, ColdUnverified, NoUnwrittenRead
<1> QED
  BY <1>12, <1>15, <1>16, <1>18, <1>20 DEF RuntimeInv, SyncInv

\* Every step keeps the invariant.
LEMMA NextInv ==
  ASSUME RuntimeInv, RuntimeNext
  PROVE  RuntimeInv'
<1>1. CASE \E r \in Requests : (Arrive(r) \/ Preempt(r)) /\ UNCHANGED syncVars
  BY <1>1, RequestStepInv
<1>2. CASE Forwards
  BY <1>2, ForwardsInv
<1>3. CASE Verifies
  BY <1>3, VerifiesInv
<1>4. CASE Sleep
  BY <1>4, SleepInv
<1>5. CASE \E keep \in BOOLEAN : OffloadWeights(keep)
  BY <1>5, OffloadWeightsInv
<1>6. CASE \E kv \in BOOLEAN : WakeUp(kv)
  BY <1>6, WakeUpInv
<1>7. CASE Train
  BY <1>7, TrainInv
<1>8. CASE \E names \in Calls : \E good \in 0..Len(names) : UpdateNamedWeights(names, good)
  BY <1>8, UpdateInv
<1> QED
  BY <1>1, <1>2, <1>3, <1>4, <1>5, <1>6, <1>7, <1>8 DEF RuntimeNext

\* Of any runner and any training loop around it: the inductive invariant.
THEOREM RuntimeInvariance == RuntimeSpec => []RuntimeInv
<1>1. RuntimeInit => RuntimeInv
  BY InitInv
<1>2. RuntimeInv /\ [RuntimeNext]_allVars => RuntimeInv'
  BY NextInv, StutterInv
<1> QED
  BY <1>1, <1>2, PTL DEF RuntimeSpec

\* Every query reads its own request's K/V, in order and of the current
\* weights: eagerly or as a captured graph, on any backend, across sleeps,
\* preemptions, speculation and weight updates.
THEOREM OwnContextRead == RuntimeSpec => []ReadsOwnContext
<1>1. RuntimeInv => ReadsOwnContext
  BY DEF RuntimeInv, RunnerInv
<1> QED
  BY <1>1, RuntimeInvariance, PTL

\* Every output token was sampled from the row of its request's last token.
THEOREM OwnRowSampled == RuntimeSpec => []SampledFromOwnRow
<1>1. RuntimeInv => SampledFromOwnRow
  BY DEF RuntimeInv, RunnerInv
<1> QED
  BY <1>1, RuntimeInvariance, PTL

\* After any update calls, cut short or not, every row of a fused parameter is
\* the row of its tensor in the version last delivered, or was never written.
THEOREM FusedRowsExact == RuntimeSpec => []RowsExact
<1>1. RuntimeInv => RowsExact
  <2>1. RowsFrom(params, delivered) => RowsExact
    BY DEF RowsFrom, RowsExact
  <2> QED
    BY <2>1 DEF RuntimeInv, SyncInv
<1> QED
  BY <1>1, RuntimeInvariance, PTL

\* No forward reads weights that nobody wrote since they were allocated.
THEOREM UnwrittenNeverRead == RuntimeSpec => []NoUnwrittenRead
<1>1. RuntimeInv => NoUnwrittenRead
  BY DEF RuntimeInv, SyncInv
<1> QED
  BY <1>1, RuntimeInvariance, PTL
=============================================================================
