---------------------------- MODULE EngineProofs ----------------------------
(***************************************************************************)
(* IInv of EngineInvariants is an invariant of Engine, for every number of *)
(* blocks, requests and tokens, every block size and every limit; the      *)
(* properties of Engine that follow from it are theorems.                  *)
(***************************************************************************)
EXTENDS EngineInvariants, BlockManagerProofs

(***************************************************************************)
(* Queues.                                                                 *)
(***************************************************************************)
\* The members of a sequence are elements of its range.
LEMMA MembersType ==
  ASSUME NEW S, NEW s \in Seq(S)
  PROVE  /\ Members(s) \subseteq S /\ Members(s) = Range(s)
         /\ \A x : x \in Members(s) <=> \E i \in 1..Len(s) : s[i] = x
BY LenProperties DEF Members, Range

LEMMA EmptyQueue ==
  IsInjective(<< >>) /\ Members(<< >>) = {} /\ \A S : << >> \in Seq(S)
BY DEF IsInjective, Members

LEMMA NonemptyQueue ==
  ASSUME NEW S, NEW s \in Seq(S), s # << >>
  PROVE  /\ Head(s) \in Members(s) /\ Last(s) \in Members(s) /\ Len(s) > 0
         /\ Head(s) \in S /\ Last(s) \in S
<1>1. Len(s) \in Nat \ {0} /\ s \in [1..Len(s) -> S]
  BY LenProperties, EmptySeq
<1> QED
  BY <1>1, HeadTailProperties DEF Members, Last

\* A request that is not queued joins at the end.
LEMMA AppendQueue ==
  ASSUME NEW S, NEW s \in Seq(S), NEW x \in S
  PROVE  /\ Append(s, x) \in Seq(S)
         /\ Members(Append(s, x)) = Members(s) \union {x}
         /\ Len(Append(s, x)) = Len(s) + 1
         /\ IsInjective(s) /\ x \notin Members(s) => IsInjective(Append(s, x))
<1>1. /\ Append(s, x) \in Seq(S) /\ Len(Append(s, x)) = Len(s) + 1 /\ Len(s) \in Nat
      /\ \A i \in 1..Len(s) : Append(s, x)[i] = s[i]
      /\ Append(s, x)[Len(s) + 1] = x
      /\ DOMAIN s = 1..Len(s) /\ DOMAIN Append(s, x) = 1..Len(s) + 1
  BY AppendProperties, LenProperties
<1>2. \A y : y \in Members(Append(s, x)) <=> y \in Members(s) \/ y = x
  BY <1>1 DEF Members
<1>3. Members(Append(s, x)) = Members(s) \union {x}
  BY <1>2
<1>4. ASSUME IsInjective(s), x \notin Members(s)
      PROVE  IsInjective(Append(s, x))
  <2> SUFFICES ASSUME NEW i \in 1..Len(s) + 1, NEW j \in 1..Len(s) + 1,
                      Append(s, x)[i] = Append(s, x)[j]
               PROVE  i = j
    BY <1>1 DEF IsInjective
  <2>1. \A k \in 1..Len(s) : s[k] # x
    BY <1>1, <1>4 DEF Members
  <2>2. CASE i \in 1..Len(s) /\ j \in 1..Len(s)
    BY <1>1, <1>4, <2>2 DEF IsInjective
  <2>3. CASE i = Len(s) + 1 \/ j = Len(s) + 1
    BY <1>1, <2>1, <2>3
  <2> QED
    BY <1>1, <2>2, <2>3
<1> QED
  BY <1>1, <1>3, <1>4

\* The first request leaves.
LEMMA TailQueue ==
  ASSUME NEW S, NEW s \in Seq(S), s # << >>, IsInjective(s)
  PROVE  /\ Tail(s) \in Seq(S)
         /\ Members(Tail(s)) = Members(s) \ {Head(s)}
         /\ IsInjective(Tail(s))
<1>1. /\ Tail(s) \in Seq(S) /\ Len(s) \in Nat \ {0} /\ Len(Tail(s)) = Len(s) - 1
      /\ \A i \in 1..Len(s) - 1 : Tail(s)[i] = s[i + 1]
      /\ Head(s) = s[1]
      /\ DOMAIN s = 1..Len(s) /\ DOMAIN Tail(s) = 1..Len(s) - 1
  BY HeadTailProperties, LenProperties, EmptySeq
<1>2. IsInjective(Tail(s))
  BY <1>1 DEF IsInjective
<1>3. ASSUME NEW y \in Members(Tail(s))
      PROVE  y \in Members(s) /\ y # Head(s)
  BY <1>1 DEF Members, IsInjective
<1>4. ASSUME NEW y \in Members(s), y # Head(s)
      PROVE  y \in Members(Tail(s))
  <2>1. PICK i \in 1..Len(s) : s[i] = y
    BY <1>1 DEF Members
  <2>2. i - 1 \in 1..Len(s) - 1 /\ Tail(s)[i - 1] = y
    BY <1>1, <1>4, <2>1
  <2> QED
    BY <1>1, <2>2 DEF Members
<1> QED
  BY <1>1, <1>2, <1>3, <1>4

\* A part of a sequence.
LEMMA SubSeqFacts ==
  ASSUME NEW S, NEW s \in Seq(S), NEW m \in Nat \ {0}, NEW n \in Nat, m <= n + 1, n <= Len(s)
  PROVE  /\ SubSeq(s, m, n) \in Seq(S)
         /\ Len(SubSeq(s, m, n)) = n - m + 1
         /\ DOMAIN SubSeq(s, m, n) = 1..n - m + 1
         /\ \A i \in 1..n - m + 1 : SubSeq(s, m, n)[i] = s[m + i - 1]
<1>1. Len(s) \in Nat /\ \A i \in 1..Len(s) : s[i] \in S
  BY LenProperties
<1>2. \A i \in m..n : s[i] \in S
  BY <1>1
<1>3. m \in Int /\ n \in Int
  OBVIOUS
<1>4. /\ SubSeq(s, m, n) \in Seq(S)
      /\ Len(SubSeq(s, m, n)) = IF m <= n THEN n - m + 1 ELSE 0
      /\ \A i \in 1..n - m + 1 : SubSeq(s, m, n)[i] = s[m + i - 1]
  BY <1>2, <1>3, SubSeqProperties
<1>5. Len(SubSeq(s, m, n)) = n - m + 1
  BY <1>4
<1> QED
  BY <1>4, <1>5, LenProperties

\* The last request leaves.
LEMMA FrontQueue ==
  ASSUME NEW S, NEW s \in Seq(S), s # << >>, IsInjective(s)
  PROVE  /\ Front(s) \in Seq(S) /\ Len(Front(s)) = Len(s) - 1
         /\ Members(Front(s)) = Members(s) \ {Last(s)}
         /\ IsInjective(Front(s))
<1>1. Len(s) \in Nat \ {0} /\ DOMAIN s = 1..Len(s) /\ \A i \in 1..Len(s) : s[i] \in S
  BY LenProperties, EmptySeq
<1>2. /\ Front(s) \in Seq(S) /\ Len(Front(s)) = Len(s) - 1
      /\ \A i \in 1..Len(s) - 1 : Front(s)[i] = s[i]
  <2>0. Len(s) - 1 \in Nat
    BY <1>1
  <2>1. PICK n \in Nat : n = Len(s) - 1
    BY <2>0
  <2>2. 1 \in Nat \ {0} /\ 1 <= n + 1 /\ n <= Len(s)
    BY <1>1, <2>1
  <2>3. /\ SubSeq(s, 1, n) \in Seq(S) /\ Len(SubSeq(s, 1, n)) = n - 1 + 1
        /\ \A i \in 1..n - 1 + 1 : SubSeq(s, 1, n)[i] = s[1 + i - 1]
    BY <2>2, SubSeqFacts
  <2>4. Front(s) = SubSeq(s, 1, n)
    BY <2>1 DEF Front
  <2>5. \A i \in 1..n : Front(s)[i] = s[i]
    BY <2>3, <2>4
  <2> QED
    BY <2>1, <2>3, <2>4, <2>5
<1>3. DOMAIN Front(s) = 1..Len(s) - 1
  BY <1>2, LenProperties
<1>4. IsInjective(Front(s))
  BY <1>1, <1>2, <1>3 DEF IsInjective
<1>5. ASSUME NEW y \in Members(Front(s))
      PROVE  y \in Members(s) /\ y # Last(s)
  BY <1>1, <1>2, <1>3 DEF Members, IsInjective, Last
<1>6. ASSUME NEW y \in Members(s), y # Last(s)
      PROVE  y \in Members(Front(s))
  <2>1. PICK i \in 1..Len(s) : s[i] = y
    BY <1>1 DEF Members
  <2>2. i \in 1..Len(s) - 1 /\ Front(s)[i] = y
    BY <1>1, <1>2, <1>6, <2>1 DEF Last
  <2> QED
    BY <1>3, <2>2 DEF Members
<1> QED
  BY <1>2, <1>4, <1>5, <1>6

\* Two queues with no common request are joined.
LEMMA ConcatQueue ==
  ASSUME NEW S, NEW s \in Seq(S), NEW t \in Seq(S)
  PROVE  /\ s \o t \in Seq(S)
         /\ Members(s \o t) = Members(s) \union Members(t)
         /\ IsInjective(s) /\ IsInjective(t) /\ Members(s) \intersect Members(t) = {}
              => IsInjective(s \o t)
<1>1. /\ s \o t \in Seq(S) /\ Len(s) \in Nat /\ Len(t) \in Nat
      /\ DOMAIN s = 1..Len(s) /\ DOMAIN t = 1..Len(t)
      /\ DOMAIN (s \o t) = 1..Len(s) + Len(t)
      /\ \A i \in 1..Len(s) + Len(t) :
           (s \o t)[i] = IF i <= Len(s) THEN s[i] ELSE t[i - Len(s)]
  BY ConcatProperties, LenProperties
<1>2. ASSUME NEW y \in Members(s \o t)
      PROVE  y \in Members(s) \union Members(t)
  BY <1>1 DEF Members
<1>3. ASSUME NEW y \in Members(s)
      PROVE  y \in Members(s \o t)
  BY <1>1 DEF Members
<1>4. ASSUME NEW y \in Members(t)
      PROVE  y \in Members(s \o t)
  <2>1. PICK i \in 1..Len(t) : t[i] = y
    BY <1>1 DEF Members
  <2>2. i + Len(s) \in 1..Len(s) + Len(t) /\ (s \o t)[i + Len(s)] = y
    BY <1>1, <2>1
  <2> QED
    BY <1>1, <2>2 DEF Members
<1>5. ASSUME IsInjective(s), IsInjective(t), Members(s) \intersect Members(t) = {}
      PROVE  IsInjective(s \o t)
  <2> SUFFICES ASSUME NEW i \in 1..Len(s) + Len(t), NEW j \in 1..Len(s) + Len(t),
                      (s \o t)[i] = (s \o t)[j]
               PROVE  i = j
    BY <1>1 DEF IsInjective
  <2>1. \A k \in 1..Len(s), m \in 1..Len(t) : s[k] # t[m]
    BY <1>1, <1>5 DEF Members
  <2>2. CASE i <= Len(s) /\ j <= Len(s)
    BY <1>1, <1>5, <2>2 DEF IsInjective
  <2>3. CASE i > Len(s) /\ j > Len(s)
    <3>1. /\ i - Len(s) \in 1..Len(t) /\ j - Len(s) \in 1..Len(t)
          /\ t[i - Len(s)] = t[j - Len(s)]
      BY <1>1, <2>3
    <3>2. i - Len(s) = j - Len(s)
      BY <1>1, <1>5, <3>1 DEF IsInjective
    <3> QED
      BY <1>1, <3>2
  <2>4. CASE i <= Len(s) /\ j > Len(s)
    <3>1. i \in 1..Len(s) /\ j - Len(s) \in 1..Len(t) /\ s[i] = t[j - Len(s)]
      BY <1>1, <2>4
    <3> QED
      BY <2>1, <3>1
  <2>5. CASE i > Len(s) /\ j <= Len(s)
    <3>1. j \in 1..Len(s) /\ i - Len(s) \in 1..Len(t) /\ s[j] = t[i - Len(s)]
      BY <1>1, <2>5
    <3> QED
      BY <2>1, <3>1
  <2> QED
    BY <1>1, <2>2, <2>3, <2>4, <2>5
<1> QED
  BY <1>1, <1>2, <1>3, <1>4, <1>5

\* The least element of a set of positions.
LEMMA FirstIsLeast ==
  ASSUME NEW X \in SUBSET Nat, X # {}
  PROVE  First(X) \in X /\ \A j \in X : First(X) <= j
<1> DEFINE Less == {p \in Nat \X Nat : p[1] < p[2]}
<1>1. IsWellFoundedOn(Less, Nat)
  BY NatLessThanWellFounded, Zenon DEF OpToRel
<1>2. \A i, j \in Nat : ~(<<j, i>> \in Less) => i <= j
  OBVIOUS
<1> HIDE DEF Less
<1>3. \E i \in X : \A j \in X : ~(<<j, i>> \in Less)
  BY <1>1, WFMin
<1>4. \E i \in X : \A j \in X : i <= j
  BY <1>2, <1>3
<1> QED
  BY <1>4 DEF First

\* A request leaves a queue from wherever it stands.
LEMMA WithoutQueue ==
  ASSUME NEW S, NEW s \in Seq(S), IsInjective(s), NEW r
  PROVE  /\ Without(s, r) \in Seq(S)
         /\ Members(Without(s, r)) = Members(s) \ {r}
         /\ IsInjective(Without(s, r))
<1>1. Len(s) \in Nat /\ DOMAIN s = 1..Len(s) /\ \A i \in 1..Len(s) : s[i] \in S
  BY LenProperties
<1>2. CASE r \notin Range(s)
  BY <1>2, MembersType DEF Without
<1>3. CASE r \in Range(s)
  <2> DEFINE X == {i \in DOMAIN s : s[i] = r}
             k == First(X)
             a == SubSeq(s, 1, k - 1)
             z == SubSeq(s, k + 1, Len(s))
  <2>1. X \in SUBSET Nat /\ X # {}
    BY <1>1, <1>3 DEF Range
  <2>2. k \in X
    BY <2>1, FirstIsLeast
  <2>3. k \in 1..Len(s) /\ s[k] = r
    BY <1>1, <2>2
  <2>4. Without(s, r) = a \o z
    BY <1>3 DEF Without, RemoveAt
  <2> HIDE DEF X, k
  <2>5. /\ a \in Seq(S) /\ DOMAIN a = 1..k - 1
        /\ \A i \in 1..k - 1 : a[i] = s[i]
    <3>1. 1 \in Nat \ {0} /\ k - 1 \in Nat /\ 1 <= k - 1 + 1 /\ k - 1 <= Len(s)
      BY <1>1, <2>3
    <3>2. /\ a \in Seq(S) /\ DOMAIN a = 1..k - 1 - 1 + 1
          /\ \A i \in 1..k - 1 - 1 + 1 : a[i] = s[1 + i - 1]
      BY <3>1, SubSeqFacts
    <3> QED
      BY <3>1, <3>2
  <2>6. /\ z \in Seq(S) /\ DOMAIN z = 1..Len(s) - k
        /\ \A i \in 1..Len(s) - k : z[i] = s[i + k]
    <3>1. k + 1 \in Nat \ {0} /\ Len(s) \in Nat /\ k + 1 <= Len(s) + 1
      BY <1>1, <2>3
    <3>2. /\ z \in Seq(S) /\ DOMAIN z = 1..Len(s) - (k + 1) + 1
          /\ \A i \in 1..Len(s) - (k + 1) + 1 : z[i] = s[k + 1 + i - 1]
      BY <3>1, SubSeqFacts
    <3>3. k \in Nat
      BY <2>3
    <3> HIDE DEF z
    <3> QED
      BY <3>1, <3>2, <3>3
  <2> HIDE DEF a, z
  <2>8. IsInjective(a)
    BY <1>1, <2>3, <2>5 DEF IsInjective
  <2>9. IsInjective(z)
    <3> SUFFICES ASSUME NEW i \in 1..Len(s) - k, NEW j \in 1..Len(s) - k, z[i] = z[j]
                 PROVE  i = j
      BY <2>6 DEF IsInjective
    <3>1. s[i + k] = s[j + k] /\ i + k \in 1..Len(s) /\ j + k \in 1..Len(s)
      BY <1>1, <2>3, <2>6
    <3>2. i + k = j + k
      BY <1>1, <3>1 DEF IsInjective
    <3> QED
      BY <1>1, <2>3, <3>2
  <2>10. Members(a) = {s[i] : i \in 1..k - 1}
    BY <2>5 DEF Members
  <2>11. Members(z) = {s[i] : i \in k + 1..Len(s)}
    <3>1. ASSUME NEW y \in Members(z)
          PROVE  \E i \in k + 1..Len(s) : s[i] = y
      <4>1. PICK j \in 1..Len(s) - k : z[j] = y
        BY <2>6 DEF Members
      <4>2. j + k \in k + 1..Len(s) /\ s[j + k] = y
        BY <1>1, <2>3, <2>6, <4>1
      <4> QED
        BY <4>2
    <3>2. ASSUME NEW i \in k + 1..Len(s)
          PROVE  s[i] \in Members(z)
      <4>1. PICK n \in Nat : n = Len(s)
        BY <1>1
      <4>2. PICK j \in Nat : j = i - k
        BY <2>3, <4>1
      <4>3. j \in 1..n - k /\ i = j + k
        BY <2>3, <4>1, <4>2
      <4>4. z[j] = s[i]
        BY <2>6, <4>1, <4>3
      <4> QED
        BY <2>6, <4>1, <4>3, <4>4 DEF Members
    <3> QED
      BY <3>1, <3>2
  <2>7. \A i \in 1..Len(s) : i # k => s[i] # r
    BY <1>1, <2>3 DEF IsInjective
  <2>12. Members(a) \intersect Members(z) = {}
    BY <1>1, <2>3, <2>10, <2>11 DEF IsInjective
  <2>13. Members(a) \union Members(z) = Members(s) \ {r}
    <3>1. Members(s) = {s[i] : i \in 1..Len(s)}
      BY <1>1 DEF Members
    <3>2. \A y \in Members(a) \union Members(z) : y \in Members(s) /\ y # r
      BY <1>1, <2>3, <2>7, <2>10, <2>11, <3>1
    <3>3. ASSUME NEW i \in 1..Len(s), s[i] # r
          PROVE  s[i] \in Members(a) \union Members(z)
      <4>1. i \in 1..k - 1 \/ i \in k + 1..Len(s)
        BY <1>1, <2>3, <3>3
      <4> QED
        BY <2>10, <2>11, <4>1
    <3> QED
      BY <3>1, <3>2, <3>3
  <2> QED
    BY <2>4, <2>5, <2>6, <2>8, <2>9, <2>12, <2>13, ConcatQueue
<1> QED
  BY <1>2, <1>3

(***************************************************************************)
(* Blocks and tokens.                                                      *)
(***************************************************************************)
\* n full blocks are within x tokens exactly when they fill them.
LEMMA DivBound ==
  ASSUME NEW x \in Nat, NEW n \in Nat
  PROVE  /\ x \div BlockSize \in Nat
         /\ n <= x \div BlockSize <=> n * BlockSize <= x
         /\ n * BlockSize \in Nat
BY BlockSizeAssumption

\* A block that token computed + 1 or a later one of a span goes to lies
\* beyond the full blocks.
LEMMA SpanBlocks ==
  ASSUME NEW c \in Nat, NEW n \in Nat, n > 0
  PROVE  /\ BlockIndex(c + 1) = c \div BlockSize + 1
         /\ BlockIndex(c + n) \in Int
         /\ BlocksNeededFor(c + n) = BlockIndex(c + n)
<1>1. c + n \in Nat /\ c + n > 0
  OBVIOUS
<1>2. BlockIndex(c + 1) = c \div BlockSize + 1
  BY DEF BlockIndex
<1> QED
  BY <1>1, <1>2, NeededFor, BlockSizeAssumption DEF BlockIndex

(***************************************************************************)
(* Requests.                                                               *)
(***************************************************************************)
LEMMA ColdFacts ==
  ASSUME NEW q \in RequestType
  PROVE  /\ Cold(q) \in RequestType
         /\ Cold(q).table = << >> /\ Cold(q).drafts = 0 /\ Cold(q).sched = 0
         /\ Cold(q).computed = 0 /\ Cold(q).status = q.status /\ Cold(q).tokens = q.tokens
<1> DEFINE p == [q EXCEPT !.table = << >>]
<1>1. << >> \in Seq(Blocks)
  BY EmptySeq
<1>2. p \in RequestType /\ p.table = << >> /\ p.status = q.status /\ p.tokens = q.tokens
  BY <1>1 DEF RequestType
<1> HIDE DEF p
<1>3. /\ ResetKvState(p) \in RequestType
      /\ ResetKvState(p).table = p.table /\ ResetKvState(p).drafts = 0
      /\ ResetKvState(p).sched = 0 /\ ResetKvState(p).computed = 0
      /\ ResetKvState(p).status = p.status /\ ResetKvState(p).tokens = p.tokens
  BY <1>2 DEF ResetKvState, RequestType
<1> QED
  BY <1>2, <1>3 DEF Cold, p

LEMMA StripFacts ==
  ASSUME NEW q \in RequestType, q.drafts <= Len(q.tokens)
  PROVE  /\ StripSpecDrafts(q) \in RequestType
         /\ StripSpecDrafts(q).drafts = 0
         /\ Len(StripSpecDrafts(q).tokens) = Len(q.tokens) - q.drafts
         /\ StripSpecDrafts(q).table = q.table /\ StripSpecDrafts(q).computed = q.computed
         /\ StripSpecDrafts(q).status = q.status /\ StripSpecDrafts(q).sched = q.sched
         /\ StripSpecDrafts(q).kvEpoch = q.kvEpoch
<1>1. q.tokens \in Seq(Tokens) /\ q.drafts \in Nat /\ Len(q.tokens) \in Nat
  BY LenProperties DEF RequestType
<1>2. PICK n \in Nat : n = Len(q.tokens) - q.drafts
  <2>1. Len(q.tokens) - q.drafts \in Nat
    BY <1>1
  <2> QED
    BY <2>1
<1>3. 1 \in Nat \ {0} /\ 1 <= n + 1 /\ n <= Len(q.tokens)
  BY <1>1, <1>2
<1>4. SubSeq(q.tokens, 1, n) \in Seq(Tokens) /\ Len(SubSeq(q.tokens, 1, n)) = n - 1 + 1
  BY <1>1, <1>3, SubSeqFacts
<1>5. SubSeq(q.tokens, 1, Len(q.tokens) - q.drafts) \in Seq(Tokens)
  BY <1>2, <1>4
<1>6. /\ StripSpecDrafts(q).tokens = SubSeq(q.tokens, 1, n)
      /\ StripSpecDrafts(q).drafts = 0
      /\ StripSpecDrafts(q).table = q.table /\ StripSpecDrafts(q).computed = q.computed
      /\ StripSpecDrafts(q).status = q.status /\ StripSpecDrafts(q).sched = q.sched
      /\ StripSpecDrafts(q).kvEpoch = q.kvEpoch
  BY <1>2 DEF StripSpecDrafts, RequestType
<1>7. StripSpecDrafts(q) \in RequestType
  BY <1>5 DEF StripSpecDrafts, RequestType
<1> QED
  BY <1>2, <1>4, <1>6, <1>7

\* reserve: the record of a request that was given n tokens.
Scheduled(q, t, n) ==
  [q EXCEPT !.table = t, !.kvEpoch = epoch, !.sched = n, !.status = "running"]

LEMMA ScheduledFacts ==
  ASSUME NEW q \in RequestType, NEW t \in Seq(Blocks), NEW n \in Nat, epoch \in Nat
  PROVE  /\ Scheduled(q, t, n) \in RequestType
         /\ Scheduled(q, t, n).table = t /\ Scheduled(q, t, n).kvEpoch = epoch
         /\ Scheduled(q, t, n).sched = n /\ Scheduled(q, t, n).status = "running"
         /\ Scheduled(q, t, n).tokens = q.tokens /\ Scheduled(q, t, n).drafts = q.drafts
         /\ Scheduled(q, t, n).computed = q.computed
BY DEF Scheduled, RequestType

LEMMA WithDraftsFacts ==
  ASSUME NEW q \in RequestType, NEW d \in Seq(Tokens)
  PROVE  /\ WithDrafts(q, d) \in RequestType
         /\ WithDrafts(q, d).drafts = Len(d)
         /\ Len(WithDrafts(q, d).tokens) = Len(q.tokens) + Len(d)
         /\ WithDrafts(q, d).table = q.table /\ WithDrafts(q, d).computed = q.computed
         /\ WithDrafts(q, d).status = q.status /\ WithDrafts(q, d).sched = q.sched
         /\ WithDrafts(q, d).kvEpoch = q.kvEpoch
<1>1. /\ q.tokens \in Seq(Tokens) /\ q.tokens \o d \in Seq(Tokens) /\ Len(d) \in Nat
      /\ Len(q.tokens \o d) = Len(q.tokens) + Len(d)
  BY ConcatProperties, LenProperties DEF RequestType
<1> QED
  BY <1>1 DEF WithDrafts, RequestType

\* The prefix of a request that its k first blocks digest.
LEMMA PrefixType ==
  ASSUME NEW q \in RequestType, NEW k \in Nat, k <= MaxCached(q)
  PROVE  PrefixHash(q, k) \in Seq(Tokens)
<1>1. q.tokens \in Seq(Tokens) /\ Len(q.tokens) \in Nat
  BY LenProperties DEF RequestType
<1>2. PICK l \in Nat : l = Len(q.tokens)
  BY <1>1
<1>3. k <= (l - 1) \div BlockSize
  BY <1>2 DEF MaxCached
<1>4. k * BlockSize \in Nat /\ k * BlockSize <= l
  <2>1. CASE l = 0
    <3>1. k <= (-1) \div BlockSize
      BY <1>3, <2>1
    <3>2. (-1) \div BlockSize = -1
      BY BlockSizeAssumption
    <3> QED
      BY <3>1, <3>2
  <2>2. CASE l > 0
    <3>1. PICK m \in Nat : m = l - 1
      BY <2>2
    <3>2. k * BlockSize \in Nat /\ k * BlockSize <= m
      BY <1>3, <3>1, DivBound
    <3> QED
      BY <3>1, <3>2
  <2> QED
    BY <2>1, <2>2
<1>5. PICK n \in Nat : n = k * BlockSize
  BY <1>4
<1>6. 1 \in Nat \ {0} /\ 1 <= n + 1 /\ n <= Len(q.tokens)
  BY <1>2, <1>4, <1>5
<1>7. SubSeq(q.tokens, 1, n) \in Seq(Tokens)
  BY <1>1, <1>6, SubSeqFacts
<1> QED
  BY <1>5, <1>7 DEF PrefixHash

\* Every block of table t is cached and in use.
CachedBlocks(P, t) == \A i \in DOMAIN t : \E h : <<h, t[i]>> \in P.cache /\ P.ref[t[i]] > 0

\* attach_cached_prefix gives a request a table of cached blocks.
LEMMA AttachedFacts ==
  ASSUME NEW q \in RequestType, NEW P, NEW a \in Attachments(P, q)
  PROVE  /\ a \in Seq(Blocks) /\ CachedBlocks(P, a)
         /\ Attached(q, a) \in RequestType
         /\ Attached(q, a).table = a /\ Attached(q, a).computed = Len(a) * BlockSize
         /\ Attached(q, a).tokens = q.tokens /\ Attached(q, a).drafts = q.drafts
         /\ Attached(q, a).status = q.status /\ Attached(q, a).sched = q.sched
<1>1. PICK k \in LongestHit(P, q) :
        a \in {t \in [1..k -> Blocks] : \A i \in 1..k : t[i] \in Lookup(P, PrefixHash(q, i))}
  BY DEF Attachments
<1>2. k \in Nat /\ k <= MaxCached(q)
  <2>1. MaxCached(q) \in Int
    BY LenProperties, BlockSizeAssumption DEF MaxCached, RequestType
  <2> QED
    BY <2>1 DEF LongestHit
<1>3. a \in [1..k -> Blocks] /\ \A i \in 1..k : a[i] \in Lookup(P, PrefixHash(q, i))
  BY <1>1
<1>4. a \in Seq(Blocks) /\ Len(a) = k
  BY <1>2, <1>3
<1>5. CachedBlocks(P, a)
  BY <1>3 DEF Lookup, CachedBlocks
<1>6. PrefixHash(q, Len(a)) \in Seq(Tokens)
  BY <1>2, <1>4, PrefixType
<1>7. Len(a) \in Nat /\ Len(a) * BlockSize \in Nat
  BY <1>2, <1>4, BlockSizeAssumption
<1> QED
  BY <1>4, <1>5, <1>6, <1>7 DEF Attached, RequestType

\* The same when nothing is attached.
LEMMA AttachedNone ==
  ASSUME NEW q \in RequestType
  PROVE  /\ Attached(q, << >>) \in RequestType
         /\ Attached(q, << >>).table = << >> /\ Attached(q, << >>).computed = Len(<< >>) * BlockSize
         /\ Attached(q, << >>).tokens = q.tokens /\ Attached(q, << >>).drafts = q.drafts
         /\ Attached(q, << >>).status = q.status /\ Attached(q, << >>).sched = q.sched
<1>1. Len(<< >>) = 0 /\ << >> \in Seq(Blocks) /\ 0 * BlockSize \in Nat
  BY BlockSizeAssumption, EmptySeq
<1>2. q.tokens \in Seq(Tokens)
  BY DEF RequestType
<1>3. PrefixHash(q, 0) \in Seq(Tokens)
  <2>1. 1 \in Nat \ {0} /\ 0 \in Nat /\ 1 <= 0 + 1 /\ 0 <= Len(q.tokens)
    BY <1>2, LenProperties
  <2>2. SubSeq(q.tokens, 1, 0) \in Seq(Tokens)
    BY <1>2, <2>1, SubSeqFacts
  <2> QED
    <3>1. 0 * BlockSize = 0
      BY BlockSizeAssumption
    <3> QED
      BY <2>2, <3>1 DEF PrefixHash
<1>4. Len(<< >>) * BlockSize \in Nat /\ PrefixHash(q, Len(<< >>)) \in Seq(Tokens) /\ Len(<< >>) \in Nat
  BY <1>1, <1>3
<1> DEFINE e == << >>
<1>5. e \in Seq(Blocks) /\ Len(e) * BlockSize \in Nat /\ PrefixHash(q, Len(e)) \in Seq(Tokens) /\ Len(e) \in Nat
  BY <1>1, <1>4
<1> HIDE DEF e
<1>6. /\ Attached(q, e) \in RequestType
      /\ Attached(q, e).table = e /\ Attached(q, e).computed = Len(e) * BlockSize
      /\ Attached(q, e).tokens = q.tokens /\ Attached(q, e).drafts = q.drafts
      /\ Attached(q, e).status = q.status /\ Attached(q, e).sched = q.sched
  BY <1>5 DEF Attached, RequestType
<1> QED
  BY <1>6 DEF e

\* Attaching nothing leaves the pool as it is.
LEMMA AttachNothing ==
  ASSUME NEW H, NEW P \in PoolOf(H)
  PROVE  AttachPool(P, << >>) = P
<1>1. /\ P = [free |-> P.free, ref |-> P.ref, cache |-> P.cache]
      /\ P.ref \in [Blocks -> Nat]
  BY DEF PoolOf
<1>2. [b \in Blocks |-> P.ref[b] + [c \in Blocks |-> Occ(<< >>, c)][b]] = P.ref
  <2>1. \A b \in Blocks : Occ(<< >>, b) = 0
    BY OccEmpty
  <2> QED
    BY <1>1, <2>1
<1> QED
  BY <1>1, <1>2 DEF AttachPool, Incref

\* Giving nothing back leaves the pool as it is.
LEMMA DeallocateNothing ==
  ASSUME NEW H, NEW P \in PoolOf(H)
  PROVE  Deallocate(P, << >>) = P
<1>1. /\ P = [free |-> P.free, ref |-> P.ref, cache |-> P.cache]
      /\ P.ref \in [Blocks -> Nat]
  BY DEF PoolOf
<1>2. \A b \in Blocks : Occ(<< >>, b) = 0
  BY OccEmpty
<1> DEFINE n == [c \in Blocks |-> Occ(<< >>, c)]
<1>3. [b \in Blocks |-> P.ref[b] - n[b]] = P.ref
  BY <1>1, <1>2
<1>4. P.free \union {b \in Blocks : n[b] > 0 /\ P.ref[b] = n[b]} = P.free
  BY <1>2
<1> HIDE DEF n
<1>5. Decref(P, n) = P
  BY <1>1, <1>3, <1>4 DEF Decref
<1> QED
  BY <1>5 DEF Deallocate, n

\* The full blocks of a request lie in its table and in its computed tokens.
LEMMA FullBlocksFacts ==
  ASSUME NEW q \in RequestType
  PROVE  /\ FullBlocks(q) \in Nat /\ FullBlocks(q) <= Len(q.table)
         /\ FullBlocks(q) <= q.computed \div BlockSize
         /\ FullBlocks(q) <= Len(q.tokens) \div BlockSize
<1>1. Len(q.table) \in Nat /\ Len(q.tokens) \in Nat /\ q.computed \in Nat
  BY LenProperties DEF RequestType
<1>2. q.computed \div BlockSize \in Nat /\ Len(q.tokens) \div BlockSize \in Nat
  BY <1>1, DivBound
<1> QED
  BY <1>1, <1>2 DEF FullBlocks, Lesser

LEMMA PublishHashType ==
  ASSUME NEW q \in RequestType, NEW i \in q.published + 1..FullBlocks(q)
  PROVE  PublishHash(q, i) \in Seq(Tokens)
<1>1. /\ q.tokens \in Seq(Tokens) /\ q.parent \in Seq(Tokens) /\ q.published \in Nat
      /\ Len(q.tokens) \in Nat
  BY LenProperties DEF RequestType
<1>2. i \in Nat /\ q.published < i /\ i <= Len(q.tokens) \div BlockSize
  <2>1. FullBlocks(q) \in Nat /\ FullBlocks(q) <= Len(q.tokens) \div BlockSize
    BY FullBlocksFacts
  <2>2. Len(q.tokens) \div BlockSize \in Nat
    BY <1>1, DivBound
  <2> QED
    BY <1>1, <2>1, <2>2
<1>3. /\ i * BlockSize \in Nat /\ i * BlockSize <= Len(q.tokens)
      /\ q.published * BlockSize \in Nat
  BY <1>1, <1>2, DivBound
<1>4. q.published * BlockSize <= i * BlockSize
  BY <1>1, <1>2, BlockSizeAssumption
<1>5. PICK m \in Nat \ {0}, n \in Nat : m = q.published * BlockSize + 1 /\ n = i * BlockSize
  BY <1>3
<1>6. m <= n + 1 /\ n <= Len(q.tokens)
  BY <1>1, <1>3, <1>4, <1>5
<1>7. SubSeq(q.tokens, m, n) \in Seq(Tokens)
  BY <1>1, <1>6, SubSeqFacts
<1>8. q.parent \o SubSeq(q.tokens, m, n) \in Seq(Tokens)
  BY <1>1, <1>7, ConcatProperties
<1> QED
  BY <1>5, <1>8 DEF PublishHash, BlockHash

LEMMA PublishedFacts ==
  ASSUME NEW q \in RequestType
  PROVE  /\ Published(q) \in RequestType
         /\ Published(q).table = q.table /\ Published(q).computed = q.computed
         /\ Published(q).tokens = q.tokens /\ Published(q).drafts = q.drafts
         /\ Published(q).status = q.status /\ Published(q).sched = q.sched
         /\ Published(q).kvEpoch = q.kvEpoch
<1>1. q.published \in Nat /\ FullBlocks(q) \in Nat
  BY FullBlocksFacts DEF RequestType
<1>2. CASE PrefixCaching /\ q.published < FullBlocks(q)
  <2>1. FullBlocks(q) \in q.published + 1..FullBlocks(q)
    BY <1>1, <1>2
  <2>2. PublishHash(q, FullBlocks(q)) \in Seq(Tokens)
    BY <2>1, PublishHashType
  <2>3. Published(q) = [q EXCEPT !.published = FullBlocks(q),
                                 !.parent = PublishHash(q, FullBlocks(q))]
    BY <1>2 DEF Published
  <2> QED
    BY <1>1, <2>2, <2>3 DEF RequestType
<1>3. CASE ~(PrefixCaching /\ q.published < FullBlocks(q))
  BY <1>3 DEF Published
<1> QED
  BY <1>2, <1>3

\* What publish_full_blocks caches: finitely many copies of blocks of q's own
\* table, all of them full.
LEMMA NewCopiesFacts ==
  ASSUME NEW q \in RequestType
  PROVE  /\ NewCopies(q) \in SUBSET (Seq(Tokens) \X Blocks)
         /\ IsFiniteSet(NewCopies(q))
         /\ \A e \in NewCopies(q) : \E i \in DOMAIN q.table :
              e[2] = q.table[i] /\ i <= q.computed \div BlockSize
<1> DEFINE I == q.published + 1..FullBlocks(q)
           E == {<<PublishHash(q, i), q.table[i]>> : i \in I}
           f == [i \in I |-> <<PublishHash(q, i), q.table[i]>>]
<1>1. q.published \in Nat /\ q.table \in Seq(Blocks) /\ q.computed \in Nat
  BY DEF RequestType
<1>2. /\ FullBlocks(q) \in Nat /\ FullBlocks(q) <= Len(q.table)
      /\ FullBlocks(q) <= q.computed \div BlockSize
  BY FullBlocksFacts
<1>3. DOMAIN q.table = 1..Len(q.table) /\ Len(q.table) \in Nat
      /\ \A i \in 1..Len(q.table) : q.table[i] \in Blocks
  BY <1>1, LenProperties
<1>4. \A i \in I : /\ i \in DOMAIN q.table /\ q.table[i] \in Blocks
                   /\ i <= q.computed \div BlockSize
  <2>1. q.computed \div BlockSize \in Nat
    BY <1>1, DivBound
  <2> QED
    BY <1>1, <1>2, <1>3, <2>1
<1>5. \A i \in I : PublishHash(q, i) \in Seq(Tokens)
  BY PublishHashType
<1>6. IsFiniteSet(I)
  <2>1. q.published + 1 \in Int /\ FullBlocks(q) \in Int
    BY <1>1, <1>2
  <2> QED
    BY <2>1, FS_Interval
<1>7. IsFiniteSet(E)
  <2>1. f \in Surjection(I, E)
    <3>1. f \in [I -> E]
      OBVIOUS
    <3>2. \A e \in E : \E i \in I : f[i] = e
      OBVIOUS
    <3> HIDE DEF f, E, I
    <3> QED
      BY <3>1, <3>2 DEF Surjection
  <2> HIDE DEF f, E, I
  <2> QED
    BY <1>6, <2>1, FS_Surjection
<1>8. E \in SUBSET (Seq(Tokens) \X Blocks)
  BY <1>4, <1>5
<1>9. \A e \in E : \E i \in DOMAIN q.table : e[2] = q.table[i] /\ i <= q.computed \div BlockSize
  BY <1>4
<1>10. NewCopies(q) = E \/ NewCopies(q) = {}
  BY DEF NewCopies
<1> HIDE DEF E
<1> QED
  BY <1>7, <1>8, <1>9, <1>10, FS_EmptySet

\* commit_spec: the accepted tokens e of the drafts that q carries.
LEMMA CommitSpecFacts ==
  ASSUME NEW q \in RequestType, q.drafts > 0, Len(q.tokens) = q.computed + 1 + q.drafts,
         NEW e \in Seq(Tokens), Len(e) > 0
  PROVE  LET c == CommitSpec(q, e)
         IN  /\ c \in RequestType
             /\ c.computed \in Nat /\ c.computed >= q.computed /\ c.computed > 0 /\ c.drafts = 0 /\ c.sched = 0
             /\ c.status = q.status /\ c.kvEpoch = q.kvEpoch
             /\ KeptBlocks(q, c.computed) \in 0..Len(q.table)
             /\ c.table = SubSeq(q.table, 1, KeptBlocks(q, c.computed))
<1> DEFINE t == CommittedTokens(q)
           n == Len(t) + Len(e) - 1
           p == [q EXCEPT !.tokens = t \o e, !.computed = n, !.drafts = 0, !.sched = 0]
           c == CommitSpec(q, e)
<1>1. /\ q.tokens \in Seq(Tokens) /\ q.drafts \in Nat /\ Len(q.tokens) \in Nat /\ q.computed \in Nat
      /\ q.table \in Seq(Blocks) /\ Len(q.table) \in Nat /\ Len(e) \in Nat /\ q.published \in Nat
  BY LenProperties DEF RequestType
<1>2. t \in Seq(Tokens) /\ Len(t) = q.computed + 1
  <2>1. PICK m \in Nat : m = Len(q.tokens) - q.drafts
    <3>1. Len(q.tokens) - q.drafts \in Nat
      BY <1>1
    <3> QED
      BY <3>1
  <2>2. 1 \in Nat \ {0} /\ 1 <= m + 1 /\ m <= Len(q.tokens) /\ m = q.computed + 1
    BY <1>1, <2>1
  <2>3. SubSeq(q.tokens, 1, m) \in Seq(Tokens) /\ Len(SubSeq(q.tokens, 1, m)) = m - 1 + 1
    BY <1>1, <2>2, SubSeqFacts
  <2>4. t = SubSeq(q.tokens, 1, m)
    BY <2>1 DEF CommittedTokens
  <2> QED
    BY <2>2, <2>3, <2>4
<1> HIDE DEF t
<1>3. t \o e \in Seq(Tokens)
  BY <1>2, ConcatProperties
<1>4. n \in Nat /\ n >= q.computed /\ n > 0
  BY <1>1, <1>2
<1> HIDE DEF n
<1>5. /\ p \in RequestType /\ p.computed = n /\ p.drafts = 0 /\ p.sched = 0
      /\ p.status = q.status /\ p.kvEpoch = q.kvEpoch /\ p.table = q.table
      /\ p.published = q.published
  BY <1>3, <1>4 DEF RequestType
<1>6. c = Truncated(p, n)
  BY DEF CommitSpec, t, n, p
<1> HIDE DEF p, c
<1>7. BlocksNeededFor(n) \in Nat
  BY <1>4, NeededFor
<1>8. KeptBlocks(p, n) = KeptBlocks(q, n) /\ KeptBlocks(q, n) \in 0..Len(q.table)
  BY <1>1, <1>5, <1>7 DEF KeptBlocks, Lesser
<1>9. PICK k \in Nat : k = KeptBlocks(q, n)
  BY <1>1, <1>8
<1>10. SubSeq(q.table, 1, k) \in Seq(Blocks)
  <2>1. 1 \in Nat \ {0} /\ 1 <= k + 1 /\ k <= Len(q.table)
    BY <1>1, <1>8, <1>9
  <2> QED
    BY <1>1, <2>1, SubSeqFacts
<1>11. Lesser(p.published, BlocksNeededFor(n)) \in Nat
  BY <1>1, <1>5, <1>7 DEF Lesser
<1>12. c = [p EXCEPT !.table = SubSeq(q.table, 1, k),
                     !.published = Lesser(p.published, BlocksNeededFor(n))]
  BY <1>5, <1>6, <1>8, <1>9 DEF Truncated
<1>13. /\ c \in RequestType /\ c.computed = n /\ c.drafts = 0 /\ c.sched = 0
       /\ c.status = q.status /\ c.kvEpoch = q.kvEpoch
       /\ c.table = SubSeq(q.table, 1, k)
  BY <1>5, <1>10, <1>11, <1>12 DEF RequestType
<1> QED
  BY <1>4, <1>8, <1>9, <1>13 DEF c

LEMMA AdvancedFacts ==
  ASSUME NEW q \in RequestType
  PROVE  /\ Advanced(q) \in RequestType
         /\ Advanced(q).computed = q.computed + q.sched /\ Advanced(q).sched = 0
         /\ Advanced(q).table = q.table /\ Advanced(q).tokens = q.tokens
         /\ Advanced(q).drafts = q.drafts /\ Advanced(q).status = q.status
         /\ Advanced(q).kvEpoch = q.kvEpoch
<1>1. q.computed + q.sched \in Nat
  BY DEF RequestType
<1> QED
  BY <1>1 DEF Advanced, RequestType

LEMMA SampledFacts ==
  ASSUME NEW q \in RequestType, NEW t \in Tokens
  PROVE  /\ Sampled(q, t) \in RequestType
         /\ Sampled(q, t).computed = q.computed /\ Sampled(q, t).sched = q.sched
         /\ Sampled(q, t).table = q.table
         /\ Sampled(q, t).drafts = q.drafts /\ Sampled(q, t).status = q.status
         /\ Sampled(q, t).kvEpoch = q.kvEpoch
<1>1. Append(q.tokens, t) \in Seq(Tokens)
  BY AppendProperties DEF RequestType
<1> QED
  BY <1>1 DEF Sampled, RequestType

(***************************************************************************)
(* Pools.  Each operation of the block manager keeps a pool and a family R *)
(* of requests sound for each other: counts exact, free list exact, and    *)
(* the blocks beyond the computed tokens of a request private to it.       *)
(***************************************************************************)
TablesOf(R) == [r \in Requests |-> R[r].table]

Sound(P, R) ==
  /\ R \in [Requests -> RequestType]
  /\ P \in PoolOf(Seq(Tokens))
  /\ Exact(P, TablesOf(R))
  /\ Private(P, R)

Replaced(R, r, q) == [R EXCEPT ![r] = q]

\* Replacing one request replaces its table.
LEMMA ReplacedFacts ==
  ASSUME NEW R \in [Requests -> RequestType], NEW r \in Requests, NEW q \in RequestType
  PROVE  /\ Replaced(R, r, q) \in [Requests -> RequestType]
         /\ Replaced(R, r, q)[r] = q
         /\ \A s \in Requests : s # r => Replaced(R, r, q)[s] = R[s]
         /\ Changes(Requests, r, TablesOf(R), TablesOf(Replaced(R, r, q)))
         /\ TablesOf(R)[r] = R[r].table
         /\ TablesOf(Replaced(R, r, q))[r] = q.table
<1> DEFINE N == Replaced(R, r, q)
<1>1. /\ N \in [Requests -> RequestType] /\ N[r] = q
      /\ \A s \in Requests : s # r => N[s] = R[s]
  BY DEF Replaced
<1> HIDE DEF N
<1>2. \A M \in [Requests -> RequestType] : TablesOf(M) \in [Requests -> Seq(Blocks)]
  BY DEF TablesOf, RequestType
<1>3. \A s \in Requests : TablesOf(N)[s] = N[s].table /\ TablesOf(R)[s] = R[s].table
  BY DEF TablesOf
<1>4. Changes(Requests, r, TablesOf(R), TablesOf(N))
  BY <1>1, <1>2, <1>3, RequestsAssumption DEF Changes
<1> QED
  BY <1>1, <1>3, <1>4 DEF N

\* What soundness says.
LEMMA SoundFacts ==
  ASSUME NEW P, NEW R, Sound(P, R)
  PROVE  /\ R \in [Requests -> RequestType] /\ P \in PoolOf(Seq(Tokens))
         /\ IsFiniteSet(Requests) /\ TablesOf(R) \in [Requests -> Seq(Blocks)]
         /\ Exact(P, TablesOf(R))
         /\ \A r \in Requests : TablesOf(R)[r] = R[r].table /\ R[r].table \in Seq(Blocks)
         /\ P.free \subseteq Blocks /\ P.ref \in [Blocks -> Nat]
         /\ P.cache \in SUBSET (Seq(Tokens) \X Blocks)
BY RequestsAssumption DEF Sound, TablesOf, RequestType, PoolOf

\* A block in a table, and a cached block, have a reference.
LEMMA SoundSlot ==
  ASSUME NEW P, NEW R, Sound(P, R), NEW r \in Requests, NEW i \in DOMAIN R[r].table
  PROVE  /\ R[r].table[i] \in Blocks
         /\ P.ref[R[r].table[i]] \in Nat /\ P.ref[R[r].table[i]] > 0
<1>1. /\ IsFiniteSet(Requests) /\ TablesOf(R) \in [Requests -> Seq(Blocks)]
      /\ P \in PoolOf(Seq(Tokens)) /\ Exact(P, TablesOf(R))
      /\ TablesOf(R)[r] = R[r].table /\ R[r].table \in Seq(Blocks)
  BY SoundFacts
<1>2. R[r].table[i] \in Blocks
  BY <1>1, LenProperties
<1>3. PICK b \in Blocks : b = R[r].table[i]
  BY <1>2
<1>4. i \in DOMAIN TablesOf(R)[r] /\ TablesOf(R)[r][i] = b
  BY <1>1, <1>3
<1>5. P.ref[b] \in Nat /\ P.ref[b] > 0
  BY <1>1, <1>4, ExactFacts
<1> QED
  BY <1>3, <1>5

\* The blocks beyond the computed tokens stay private when no count grows
\* and no such block is new.
LEMMA PrivateKept ==
  ASSUME NEW P, NEW R, Sound(P, R),
         NEW Q \in PoolOf(Seq(Tokens)), NEW N \in [Requests -> RequestType],
         Exact(Q, TablesOf(N)),
         \A b \in Blocks : Q.ref[b] <= P.ref[b],
         \A r \in Requests : \A i \in DOMAIN N[r].table :
           i > N[r].computed \div BlockSize =>
             /\ i \in DOMAIN R[r].table /\ i > R[r].computed \div BlockSize
             /\ N[r].table[i] = R[r].table[i]
  PROVE  Sound(Q, N)
<1> SUFFICES ASSUME NEW r \in Requests, NEW i \in DOMAIN N[r].table,
                    i > N[r].computed \div BlockSize
             PROVE  Q.ref[N[r].table[i]] = 1
  BY DEF Sound, Private
<1> DEFINE b == N[r].table[i]
<1>1. /\ i \in DOMAIN R[r].table /\ i > R[r].computed \div BlockSize
      /\ b = R[r].table[i]
  OBVIOUS
<1> HIDE DEF b
<1>2. P.ref[b] = 1
  BY <1>1 DEF Sound, Private
<1>3. N[r].table \in Seq(Blocks) /\ TablesOf(N) \in [Requests -> Seq(Blocks)]
      /\ TablesOf(N)[r] = N[r].table
  BY DEF TablesOf, RequestType
<1>4. b \in Blocks /\ b = TablesOf(N)[r][i] /\ i \in DOMAIN TablesOf(N)[r]
  BY <1>3, LenProperties DEF b
<1>5. Q.ref[b] > 0 /\ Q.ref[b] \in Nat
  BY <1>3, <1>4, ExactFacts, RequestsAssumption
<1>6. Q.ref[b] <= 1
  BY <1>2, <1>4
<1> QED
  BY <1>5, <1>6 DEF b

\* Evicting unused copies.
LEMMA SoundEvict ==
  ASSUME NEW P, NEW R, Sound(P, R), NEW n, NEW V \in Victims(P, n)
  PROVE  Sound(EvictUnused(P, V), R)
<1>1. V \in SUBSET P.cache
  BY DEF Victims, Evictable
<1>2. /\ R \in [Requests -> RequestType] /\ P \in PoolOf(Seq(Tokens))
      /\ IsFiniteSet(Requests) /\ TablesOf(R) \in [Requests -> Seq(Blocks)]
      /\ Exact(P, TablesOf(R))
  BY SoundFacts
<1>3. /\ EvictUnused(P, V) \in PoolOf(Seq(Tokens))
      /\ Exact(EvictUnused(P, V), TablesOf(R))
      /\ \A b \in Blocks : EvictUnused(P, V).ref[b] <= P.ref[b]
  BY <1>1, <1>2, EvictExact
<1> QED
  BY <1>2, <1>3, PrivateKept

\* A request's record changes but not its table, and its computed tokens do
\* not go back.
LEMMA SoundSame ==
  ASSUME NEW P, NEW R, Sound(P, R), NEW r \in Requests, NEW q \in RequestType,
         q.table = R[r].table, q.computed >= R[r].computed
  PROVE  Sound(P, Replaced(R, r, q))
<1> DEFINE N == Replaced(R, r, q)
<1>1. /\ R \in [Requests -> RequestType] /\ P \in PoolOf(Seq(Tokens))
      /\ Exact(P, TablesOf(R))
  BY SoundFacts
<1>2. /\ N \in [Requests -> RequestType] /\ N[r] = q
      /\ \A s \in Requests : s # r => N[s] = R[s]
  BY <1>1, ReplacedFacts
<1> HIDE DEF N
<1>3. TablesOf(N) = TablesOf(R)
  BY <1>2 DEF TablesOf
<1>4. R[r].computed \div BlockSize <= q.computed \div BlockSize
      /\ R[r].computed \div BlockSize \in Nat /\ q.computed \div BlockSize \in Nat
  <2>1. R[r].computed \in Nat /\ q.computed \in Nat
    BY <1>1 DEF RequestType
  <2> QED
    BY <2>1, DivMonotonic, DivBound
<1>5. ASSUME NEW s \in Requests, NEW i \in DOMAIN N[s].table,
             i > N[s].computed \div BlockSize
      PROVE  P.ref[N[s].table[i]] = 1
  <2>1. CASE s = r
    <3>0. R[r].table \in Seq(Blocks) /\ N[s].table = R[r].table
      BY <1>2, <2>1, SoundFacts
    <3>1. i \in DOMAIN R[r].table /\ N[s].table[i] = R[r].table[i] /\ i \in Nat
      BY <3>0, LenProperties
    <3>2. i > R[r].computed \div BlockSize
      BY <1>2, <1>4, <1>5, <2>1, <3>1
    <3> QED
      BY <3>1, <3>2 DEF Sound, Private
  <2>2. CASE s # r
    BY <1>2, <1>5, <2>2 DEF Sound, Private
  <2> QED
    BY <2>1, <2>2
<1> QED
  BY <1>1, <1>2, <1>3, <1>5 DEF Sound, Private, N

\* A request without a table gets cached blocks, all of them computed.
LEMMA SoundAttach ==
  ASSUME NEW P, NEW R, Sound(P, R), NEW r \in Requests, NEW q \in RequestType,
         R[r].table = << >>, q.computed = Len(q.table) * BlockSize, CachedBlocks(P, q.table)
  PROVE  Sound(AttachPool(P, q.table), Replaced(R, r, q))
<1> DEFINE N == Replaced(R, r, q)
           Q == AttachPool(P, q.table)
<1>1. /\ R \in [Requests -> RequestType] /\ P \in PoolOf(Seq(Tokens))
      /\ IsFiniteSet(Requests) /\ TablesOf(R) \in [Requests -> Seq(Blocks)]
      /\ Exact(P, TablesOf(R))
      /\ q.table \in Seq(Blocks)
  BY SoundFacts DEF RequestType
<1>2. /\ N \in [Requests -> RequestType] /\ N[r] = q
      /\ \A s \in Requests : s # r => N[s] = R[s]
      /\ Changes(Requests, r, TablesOf(R), TablesOf(N))
      /\ TablesOf(R)[r] = << >> /\ TablesOf(N)[r] = q.table
  BY <1>1, ReplacedFacts, ZenonT(60)
<1> HIDE DEF N
<1>3. Bare(TablesOf(R)[r]) /\ InUse(P, TablesOf(N)[r])
  BY <1>2 DEF Bare, InUse, CachedBlocks
<1>4. Q = AttachPool(P, TablesOf(N)[r])
  BY <1>2
<1> HIDE DEF Q
<1>5. /\ Q \in PoolOf(Seq(Tokens)) /\ Exact(Q, TablesOf(N))
      /\ \A b \in Blocks :
           (\A i \in DOMAIN TablesOf(N)[r] : TablesOf(N)[r][i] # b) => Q.ref[b] = P.ref[b]
  <2> DEFINE T == TablesOf(R)
             U == TablesOf(N)
  <2>1. /\ Changes(Requests, r, T, U) /\ Bare(T[r]) /\ InUse(P, U[r]) /\ Exact(P, T)
        /\ P \in PoolOf(Seq(Tokens)) /\ Q = AttachPool(P, U[r])
    BY <1>1, <1>2, <1>3, <1>4
  <2> HIDE DEF T, U
  <2>2. /\ Q \in PoolOf(Seq(Tokens)) /\ Exact(Q, U)
        /\ \A b \in Blocks : (\A i \in DOMAIN U[r] : U[r][i] # b) => Q.ref[b] = P.ref[b]
    BY <2>1, AttachExact
  <2> QED
    BY <2>2 DEF U
<1>6. ASSUME NEW s \in Requests, NEW i \in DOMAIN N[s].table,
             i > N[s].computed \div BlockSize
      PROVE  Q.ref[N[s].table[i]] = 1
  <2>1. CASE s = r
    <3>1. i \in 1..Len(q.table) /\ Len(q.table) \in Nat
      BY <1>1, <1>2, <2>1, LenProperties
    <3>2. q.computed \div BlockSize = Len(q.table)
      BY <3>1, DivExact
    <3> QED
      BY <1>2, <1>6, <2>1, <3>1, <3>2
  <2>2. CASE s # r
    <3>1. /\ N[s] = R[s] /\ R[s].table \in Seq(Blocks) /\ TablesOf(R)[s] = R[s].table
      BY <1>2, <2>2, SoundFacts
    <3>2. PICK b \in Blocks : b = R[s].table[i]
      BY <3>1, LenProperties
    <3>3. P.ref[b] = 1
      BY <1>6, <3>1, <3>2 DEF Sound, Private
    <3>4. i \in DOMAIN TablesOf(R)[s] /\ TablesOf(R)[s][i] = b
      BY <3>1, <3>2
    <3>5. \A e \in P.cache : e[2] # b
      BY <1>1, <3>3, <3>4, TwoReferences
    <3>6. \A j \in DOMAIN q.table : q.table[j] # b
      <4> SUFFICES ASSUME NEW j \in DOMAIN q.table, q.table[j] = b
                   PROVE  FALSE
        OBVIOUS
      <4>1. PICK h : <<h, b>> \in P.cache
        BY DEF CachedBlocks
      <4> QED
        BY <3>5, <4>1
    <3>7. Q.ref[b] = P.ref[b]
      BY <1>2, <1>5, <3>6
    <3> QED
      BY <3>1, <3>2, <3>3, <3>7
  <2> QED
    BY <2>1, <2>2
<1> QED
  BY <1>2, <1>5, <1>6 DEF Sound, Private, N, Q

\* Part of a request's table is given back; its computed tokens do not go
\* back unless nothing is kept.
LEMMA SoundCut ==
  ASSUME NEW P, NEW R, Sound(P, R), NEW r \in Requests, NEW q \in RequestType,
         NEW k \in 0..Len(R[r].table), q.table = SubSeq(R[r].table, 1, k),
         k = 0 \/ q.computed >= R[r].computed
  PROVE  Sound(Deallocate(P, SubSeq(R[r].table, k + 1, Len(R[r].table))), Replaced(R, r, q))
<1> DEFINE N == Replaced(R, r, q)
           t == R[r].table
           d == SubSeq(t, k + 1, Len(t))
           Q == Deallocate(P, d)
<1>1. /\ R \in [Requests -> RequestType] /\ P \in PoolOf(Seq(Tokens))
      /\ Exact(P, TablesOf(R))
      /\ t \in Seq(Blocks) /\ Len(t) \in Nat
  BY SoundFacts, LenProperties
<1>2. /\ N \in [Requests -> RequestType] /\ N[r] = q
      /\ \A s \in Requests : s # r => N[s] = R[s]
      /\ Changes(Requests, r, TablesOf(R), TablesOf(N))
      /\ TablesOf(R)[r] = t /\ TablesOf(N)[r] = q.table
  BY <1>1, ReplacedFacts
<1> HIDE DEF N, t
<1>3. k \in 0..Len(t) /\ q.table = SubSeq(t, 1, k)
  BY DEF t
<1>4. d \in Seq(Blocks)
  BY <1>1, <1>3, OccSplit
<1>5. Splits(TablesOf(R)[r], TablesOf(N)[r], d)
  <2>1. \A b : Occ(t, b) = Occ(SubSeq(t, 1, k), b) + Occ(d, b)
    BY <1>1, <1>3, OccSplit
  <2> QED
    BY <1>2, <1>3, <2>1 DEF Splits
<1> HIDE DEF d
<1>6. /\ Q \in PoolOf(Seq(Tokens)) /\ Exact(Q, TablesOf(N))
      /\ \A b \in Blocks : Q.ref[b] <= P.ref[b]
  BY <1>1, <1>2, <1>4, <1>5, DeallocateExact
<1> HIDE DEF Q
<1>7. ASSUME NEW s \in Requests, NEW i \in DOMAIN N[s].table,
             i > N[s].computed \div BlockSize
      PROVE  /\ i \in DOMAIN R[s].table /\ i > R[s].computed \div BlockSize
             /\ N[s].table[i] = R[s].table[i]
  <2>1. CASE s # r
    BY <1>2, <1>7, <2>1
  <2>2. CASE s = r
    <3>1. /\ DOMAIN SubSeq(t, 1, k) = 1..k - 1 + 1 /\ DOMAIN t = 1..Len(t)
          /\ \A j \in 1..k - 1 + 1 : SubSeq(t, 1, k)[j] = t[1 + j - 1]
      <4>1. 1 \in Nat \ {0} /\ k \in Nat /\ 1 <= k + 1 /\ k <= Len(t)
        BY <1>1, <1>3
      <4> QED
        BY <1>1, <4>1, SubSeqFacts, LenProperties
    <3>2. k \in Nat /\ k <= Len(t)
      BY <1>1, <1>3
    <3>3. i \in 1..k /\ N[s].table[i] = t[i] /\ i \in 1..Len(t)
      BY <1>1, <1>2, <1>3, <2>2, <3>1, <3>2
    <3>4. q.computed >= R[r].computed
      BY <3>3
    <3>5. R[r].computed \div BlockSize <= q.computed \div BlockSize
          /\ R[r].computed \div BlockSize \in Nat /\ q.computed \div BlockSize \in Nat
      <4>1. R[r].computed \in Nat /\ q.computed \in Nat
        BY <1>1 DEF RequestType
      <4> QED
        BY <3>4, <4>1, DivMonotonic, DivBound
    <3>6. i > q.computed \div BlockSize /\ i \in Nat
      BY <1>2, <1>7, <2>2, <3>3
    <3>7. i > R[r].computed \div BlockSize
      BY <3>5, <3>6
    <3> QED
      BY <2>2, <3>1, <3>3, <3>7 DEF t
  <2> QED
    BY <2>1, <2>2
<1>8. Sound(Q, N)
  BY <1>2, <1>6, <1>7, PrivateKept
<1> QED
  BY <1>8 DEF Q, N, d, t

\* A request's whole table is given back.
LEMMA SoundDeallocate ==
  ASSUME NEW P, NEW R, Sound(P, R), NEW r \in Requests, NEW q \in RequestType,
         q.table = << >>
  PROVE  Sound(Deallocate(P, R[r].table), Replaced(R, r, q))
<1> DEFINE t == R[r].table
<1>1. t \in Seq(Blocks) /\ Len(t) \in Nat
  BY SoundFacts, LenProperties
<1>2. SubSeq(t, 0 + 1, Len(t)) = t
  BY <1>1, SubSeqFull
<1>3. SubSeq(t, 1, 0) = << >>
  BY <1>1, SubSeqEmpty
<1>4. 0 \in 0..Len(R[r].table)
  BY <1>1
<1>5. Sound(Deallocate(P, SubSeq(R[r].table, 0 + 1, Len(R[r].table))), Replaced(R, r, q))
  BY <1>3, <1>4, SoundCut
<1> QED
  BY <1>2, <1>5

\* Publishing the full blocks of a request.
LEMMA SoundPublish ==
  ASSUME NEW P, NEW R, Sound(P, R), NEW r \in Requests
  PROVE  Sound(PublishPool(P, R[r]), R)
<1> DEFINE q == R[r]
           E == NewCopies(q) \ P.cache
           Q == PublishPool(P, q)
<1>1. /\ R \in [Requests -> RequestType] /\ P \in PoolOf(Seq(Tokens))
      /\ IsFiniteSet(Requests) /\ TablesOf(R) \in [Requests -> Seq(Blocks)]
      /\ Exact(P, TablesOf(R)) /\ q \in RequestType
  BY SoundFacts
<1>2. /\ NewCopies(q) \in SUBSET (Seq(Tokens) \X Blocks)
      /\ IsFiniteSet(NewCopies(q))
      /\ \A e \in NewCopies(q) : \E i \in DOMAIN q.table :
           e[2] = q.table[i] /\ i <= q.computed \div BlockSize
  BY <1>1, NewCopiesFacts
<1>3. E \in SUBSET (Seq(Tokens) \X Blocks) /\ IsFiniteSet(E) /\ E \intersect P.cache = {}
  BY <1>2, FS_Subset
<1>4. \A e \in E : \E i \in DOMAIN q.table : e[2] = q.table[i] /\ i <= q.computed \div BlockSize
  BY <1>2
<1>5. Q = AddCopies(P, E)
  BY DEF PublishPool
<1> HIDE DEF E
<1>6. Publishable(Seq(Tokens), P, E)
  BY <1>3, <1>4, SoundSlot DEF Publishable
<1>7. /\ Q \in PoolOf(Seq(Tokens)) /\ Exact(Q, TablesOf(R))
      /\ \A b \in Blocks : (\A e \in E : e[2] # b) => Q.ref[b] = P.ref[b]
  BY <1>1, <1>5, <1>6, PublishExact
<1> HIDE DEF Q
<1>8. ASSUME NEW s \in Requests, NEW i \in DOMAIN R[s].table,
             i > R[s].computed \div BlockSize
      PROVE  Q.ref[R[s].table[i]] = 1
  <2>1. PICK b \in Blocks : b = R[s].table[i]
    BY SoundSlot
  <2>2. P.ref[b] = 1
    BY <1>8, <2>1 DEF Sound, Private
  <2>3. i \in DOMAIN TablesOf(R)[s] /\ TablesOf(R)[s][i] = b
    BY <2>1 DEF TablesOf
  <2>4. /\ \A e \in P.cache : e[2] # b
        /\ \A p \in Requests : \A j \in DOMAIN TablesOf(R)[p] :
             TablesOf(R)[p][j] = b => p = s /\ j = i
    <3> HIDE DEF q
    <3> QED
      BY <1>1, <2>2, <2>3, TwoReferences
  <2>5. \A e \in E : e[2] # b
    <3> SUFFICES ASSUME NEW e \in E, e[2] = b
                 PROVE  FALSE
      OBVIOUS
    <3>1. PICK j \in DOMAIN q.table : b = q.table[j] /\ j <= q.computed \div BlockSize
      BY <1>4
    <3>2. TablesOf(R)[r] = q.table
      BY DEF TablesOf
    <3>3. r = s /\ j = i
      BY <2>4, <3>1, <3>2
    <3>4. i \in Nat /\ q.computed \div BlockSize \in Nat
      <4>1. q.table \in Seq(Blocks) /\ q.computed \in Nat
        BY <1>1 DEF RequestType
      <4> QED
        <5>1. DOMAIN q.table = 1..Len(q.table) /\ Len(q.table) \in Nat
          BY <4>1, LenProperties
        <5>2. q.computed \div BlockSize \in Nat
          BY <4>1, DivBound
        <5> QED
          BY <3>1, <3>3, <5>1, <5>2
    <3> QED
      BY <1>8, <3>1, <3>3, <3>4
  <2> QED
    BY <1>7, <2>1, <2>2, <2>5
<1> QED
  BY <1>1, <1>7, <1>8 DEF Sound, Private, Q

\* A request's table grows by fresh blocks.
LEMMA SoundAlloc ==
  ASSUME NEW P, NEW R, Sound(P, R), NEW r \in Requests, NEW q \in RequestType,
         NEW g, FreshBlocks(P, g), Grown(R[r].table, g, q.table),
         q.computed = R[r].computed
  PROVE  Sound(AllocBlocks(P, g), Replaced(R, r, q))
<1> DEFINE N == Replaced(R, r, q)
           Q == AllocBlocks(P, g)
<1>1. /\ R \in [Requests -> RequestType] /\ P \in PoolOf(Seq(Tokens))
      /\ IsFiniteSet(Requests) /\ TablesOf(R) \in [Requests -> Seq(Blocks)]
      /\ Exact(P, TablesOf(R))
  BY SoundFacts
<1>2. /\ N \in [Requests -> RequestType] /\ N[r] = q
      /\ \A s \in Requests : s # r => N[s] = R[s]
      /\ Changes(Requests, r, TablesOf(R), TablesOf(N))
      /\ TablesOf(R)[r] = R[r].table /\ TablesOf(N)[r] = q.table
  BY <1>1, ReplacedFacts, ZenonT(60)
<1> HIDE DEF N
<1>3. Grown(TablesOf(R)[r], g, TablesOf(N)[r])
  BY <1>2
<1>4. /\ Q \in PoolOf(Seq(Tokens)) /\ Exact(Q, TablesOf(N))
      /\ \A b \in Range(g) : Q.ref[b] = 1
      /\ \A b \in Blocks : b \notin Range(g) => Q.ref[b] = P.ref[b]
  BY <1>1, <1>2, <1>3, AllocExact
<1> HIDE DEF Q
<1>0. /\ g \in Seq(Blocks) /\ Range(g) \subseteq P.free
      /\ q.table = R[r].table \o g
  BY DEF FreshBlocks, Grown
<1>5. ASSUME NEW s \in Requests, NEW i \in DOMAIN R[s].table,
             i > R[s].computed \div BlockSize
      PROVE  Q.ref[R[s].table[i]] = 1
  <2>1. R[s].table[i] \in Blocks /\ P.ref[R[s].table[i]] = 1
    BY <1>5, SoundSlot DEF Sound, Private
  <2>2. R[s].table[i] \notin P.free
    BY <1>1, <2>1 DEF Exact
  <2> QED
    BY <1>0, <1>4, <2>1, <2>2
<1>6. ASSUME NEW s \in Requests, NEW i \in DOMAIN N[s].table,
             i > N[s].computed \div BlockSize
      PROVE  Q.ref[N[s].table[i]] = 1
  <2>1. CASE s # r
    BY <1>2, <1>5, <1>6, <2>1
  <2>2. CASE s = r
    <3>1. R[r].table \in Seq(Blocks)
      BY SoundFacts
    <3>2. /\ Len(R[r].table) \in Nat /\ DOMAIN R[r].table = 1..Len(R[r].table)
          /\ Len(g) \in Nat /\ DOMAIN g = 1..Len(g)
          /\ DOMAIN (R[r].table \o g) = 1..Len(R[r].table) + Len(g)
          /\ \A j \in 1..Len(R[r].table) + Len(g) :
               (R[r].table \o g)[j] = IF j <= Len(R[r].table) THEN R[r].table[j]
                                                              ELSE g[j - Len(R[r].table)]
      BY <1>0, <3>1, ConcatProperties, LenProperties
    <3>3. i \in 1..Len(R[r].table) + Len(g) /\ N[s].table[i] = (R[r].table \o g)[i]
      BY <1>0, <1>2, <2>2, <3>2
    <3>4. CASE i <= Len(R[r].table)
      <4>1. i \in DOMAIN R[r].table /\ N[s].table[i] = R[r].table[i]
        BY <3>2, <3>3, <3>4
      <4>2. i > R[r].computed \div BlockSize
        BY <1>2, <1>6, <2>2
      <4> QED
        BY <1>5, <4>1, <4>2
    <3>5. CASE i > Len(R[r].table)
      <4>1. i - Len(R[r].table) \in DOMAIN g /\ N[s].table[i] = g[i - Len(R[r].table)]
        BY <3>2, <3>3, <3>5
      <4> QED
        BY <1>4, <4>1 DEF Range
    <3> QED
      BY <3>2, <3>3, <3>4, <3>5
  <2> QED
    BY <2>1, <2>2
<1> QED
  BY <1>2, <1>4, <1>6 DEF Sound, Private, N, Q

\* The requests S are released.
LEMMA SoundRelease ==
  ASSUME NEW P, NEW R, Sound(P, R), NEW S \in SUBSET Requests, NEW q \in RequestType,
         q.table = << >>
  PROVE  Sound(DeallocateAll(P, [r \in S |-> R[r].table]),
               [r \in Requests |-> IF r \in S THEN q ELSE R[r]])
<1> DEFINE N == [r \in Requests |-> IF r \in S THEN q ELSE R[r]]
           D == [r \in S |-> R[r].table]
           Q == DeallocateAll(P, D)
           U == [r \in Requests |-> IF r \in S THEN << >> ELSE TablesOf(R)[r]]
<1>1. /\ R \in [Requests -> RequestType] /\ P \in PoolOf(Seq(Tokens))
      /\ IsFiniteSet(Requests) /\ TablesOf(R) \in [Requests -> Seq(Blocks)]
      /\ Exact(P, TablesOf(R))
      /\ \A r \in Requests : TablesOf(R)[r] = R[r].table
  BY SoundFacts
<1>2. N \in [Requests -> RequestType]
  BY <1>1
<1>3. TablesOf(N) = U
  BY <1>1 DEF TablesOf
<1>4. D = [r \in S |-> TablesOf(R)[r]]
  BY <1>1
<1>5. Released(Requests, S, TablesOf(R), D, TablesOf(N))
  BY <1>3, <1>4 DEF Released
<1>6. Q \in PoolOf(Seq(Tokens)) /\ Exact(Q, TablesOf(N)) /\ \A b \in Blocks : Q.ref[b] <= P.ref[b]
  <2> HIDE DEF D, N, U
  <2> QED
    BY <1>1, <1>5, DeallocateAllExact
<1>7. \A r \in Requests : N[r] = (IF r \in S THEN q ELSE R[r])
  OBVIOUS
<1>8. << >> \in Seq(Blocks) /\ DOMAIN << >> = {}
  BY EmptySeq
<1> HIDE DEF N, Q
<1>9. \A r \in Requests : \A i \in DOMAIN N[r].table :
        i > N[r].computed \div BlockSize =>
          /\ i \in DOMAIN R[r].table /\ i > R[r].computed \div BlockSize
          /\ N[r].table[i] = R[r].table[i]
  BY <1>7, <1>8
<1>10. Sound(Q, N)
  BY <1>2, <1>6, <1>9, PrivateKept
<1> QED
  BY <1>10 DEF Q, N, D

\* The pool is rebuilt and no request keeps a table.
LEMMA SoundReset ==
  ASSUME NEW R \in [Requests -> RequestType], \A r \in Requests : R[r].table = << >>
  PROVE  Sound(EmptyPool, R)
<1>1. /\ EmptyPool.free = Blocks /\ EmptyPool.ref = [b \in Blocks |-> 0] /\ EmptyPool.cache = {}
      /\ EmptyPool \in PoolOf(Seq(Tokens))
  BY DEF EmptyPool, PoolOf
<1>2. IsFiniteSet({}) /\ Cardinality({}) = 0
  BY FS_EmptySet
<1>3. DOMAIN << >> = {}
  OBVIOUS
<1>4. ASSUME NEW b \in Blocks
      PROVE  Held(TablesOf(R), b) = 0 /\ Copies({}, b) = 0
  <2>1. Slots(TablesOf(R), b) = {}
    <3>1. TablesOf(R) \in [Requests -> Seq(Blocks)]
      BY DEF TablesOf, RequestType
    <3>2. \A s : s \in Slots(TablesOf(R), b) <=> \E r \in Requests : s \in Own(r, TablesOf(R)[r], b)
      BY <3>1, SlotsDef
    <3>3. \A r \in Requests : Own(r, TablesOf(R)[r], b) = {}
      BY <1>3 DEF Own, TablesOf
    <3> QED
      BY <3>2, <3>3
  <2>2. CopiesOf({}, b) = {}
    BY DEF CopiesOf
  <2> QED
    BY <1>2, <2>1, <2>2 DEF Held, Copies
<1>5. Exact(EmptyPool, TablesOf(R))
  BY <1>1, <1>2, <1>4 DEF Exact
<1> QED
  BY <1>1, <1>3, <1>5 DEF Sound, Private

(***************************************************************************)
(* The invariant.                                                          *)
(***************************************************************************)

\* The types of everything but the pool and the requests.
OtherTypes ==
  /\ epoch \in Nat
  /\ DOMAIN kv = Blocks
  /\ waiting \in Seq(Requests) /\ running \in Seq(Requests) /\ deferred \in Seq(Requests)
  /\ todo \in Seq(Requests) /\ batch \in Seq(Requests)
  /\ budget \in Nat /\ passes \in Nat
  /\ pc \in {"idle", "pass", "logits", "verify", "forward", "commit", "return"}
  /\ raised \in {"no", "pool", "passes"}
  /\ registry \subseteq Requests
  /\ weights \in Nat /\ asleep \in BOOLEAN /\ fatal \in BOOLEAN

\* The invariant in the form the steps below use.
LEMMA Parts ==
  IInv <=> OtherTypes /\ Sound(pool, req) /\ RequestsOK /\ StepOK /\ QueuesOK
<1>1. TypeOK <=> OtherTypes /\ pool \in PoolOf(Seq(Tokens)) /\ req \in [Requests -> RequestType]
  BY DEF TypeOK, OtherTypes, PoolType, PoolOf
<1>2. ASSUME pool \in PoolOf(Seq(Tokens)), req \in [Requests -> RequestType]
      PROVE  PoolOK <=> Exact(pool, TablesOf(req)) /\ Private(pool, req)
  <2>1. Tables = TablesOf(req)
    BY DEF Tables, TablesOf
  <2> QED
    BY <2>1 DEF PoolOK, RefExact, FreeExact, Exact
<1> QED
  BY <1>1, <1>2 DEF IInv, Sound

LEMMA PartsPrimed ==
  OtherTypes' /\ Sound(pool', req') /\ RequestsOK' /\ StepOK' /\ QueuesOK' => IInv'
<1> SUFFICES ASSUME OtherTypes', Sound(pool', req')
             PROVE  TypeOK' /\ PoolOK'
  BY DEF IInv
<1>1. TypeOK'
  BY DEF TypeOK, OtherTypes, PoolType, PoolOf, Sound
<1>2. Tables' = TablesOf(req')
  BY DEF Tables, TablesOf
<1>3. PoolOK'
  BY <1>2 DEF PoolOK, RefExact, FreeExact, Exact, Sound
<1> QED
  BY <1>1, <1>3

\* A step that changes one request and keeps the epoch.
LEMMA OneRequest ==
  ASSUME RequestsOK, req \in [Requests -> RequestType], NEW r \in Requests,
         NEW q, RequestOK(q, epoch), req' = Replaced(req, r, q), epoch' = epoch
  PROVE  RequestsOK'
BY DEF RequestsOK, Replaced

\* The engine starts in the invariant.
LEMMA InitInvariant == Init => IInv
<1> SUFFICES ASSUME Init PROVE IInv
  OBVIOUS
<1>1. /\ NoRequest \in RequestType /\ NoRequest.table = << >> /\ NoRequest.drafts = 0
      /\ NoRequest.status = "absent"
  BY EmptySeq DEF NoRequest, RequestType, ROOT_HASH
<1>2. req \in [Requests -> RequestType] /\ \A r \in Requests : req[r] = NoRequest
  BY <1>1 DEF Init
<1>3. Sound(pool, req)
  BY <1>1, <1>2, SoundReset DEF Init
<1>4. OtherTypes
  BY EmptyQueue DEF Init, OtherTypes
<1>5. RequestsOK
  BY <1>1, <1>2 DEF RequestsOK, RequestOK
<1>6. StepOK
  BY EmptyQueue DEF Init, StepOK, PassesSuffice
<1>7. QueuesOK
  BY <1>1, <1>2, EmptyQueue DEF Init, QueuesOK
<1> QED
  BY <1>3, <1>4, <1>5, <1>6, <1>7, Parts

(***************************************************************************)
(* Requests enter, continue and leave.                                     *)
(***************************************************************************)
LEMMA AddRequestStep ==
  ASSUME IInv, NEW r \in Requests, NEW p \in TokenLists(PromptLengths), NEW m \in MaxTokens,
         NEW h \in Holds, AddRequest(r, p, m, h)
  PROVE  IInv'
<1> DEFINE q == [NoRequest EXCEPT !.status = "waiting", !.tokens = p, !.nPrompt = Len(p),
                                  !.maxNew = m, !.hold = h]
<1>1. OtherTypes /\ Sound(pool, req) /\ RequestsOK /\ StepOK /\ QueuesOK
  BY Parts
<1>2. p \in Seq(Tokens) /\ Len(p) \in Nat /\ m \in Nat /\ h \in BOOLEAN
  BY InputsAssumption DEF TokenLists
<1>3. /\ q \in RequestType /\ q.status = "waiting" /\ q.drafts = 0 /\ q.table = << >>
      /\ q.sched = 0 /\ q.computed = 0 /\ q.tokens = p /\ Attached(q, << >>).table = << >>
  BY <1>2, EmptySeq DEF NoRequest, RequestType, ROOT_HASH, Attached
<1>4. PICK a \in IF PrefixCaching THEN Attachments(pool, q) ELSE {<< >>} :
        pool' = AttachPool(pool, a) /\ req' = [req EXCEPT ![r] = Attached(q, a)]
  BY DEF AddRequest
<1>5. req[r].status = "absent" /\ req[r].table = << >>
  BY <1>1 DEF AddRequest, RequestsOK, RequestOK
<1>6. /\ Attached(q, a) \in RequestType
      /\ Attached(q, a).table = a /\ Attached(q, a).computed = Len(a) * BlockSize
      /\ Attached(q, a).drafts = 0 /\ Attached(q, a).status = "waiting"
      /\ CachedBlocks(pool, a)
  <2> HIDE DEF q
  <2>1. CASE a = << >>
    BY <1>3, <2>1, AttachedNone DEF CachedBlocks
  <2>2. CASE a \in Attachments(pool, q)
    BY <1>3, <2>2, AttachedFacts
  <2> QED
    BY <1>4, <2>1, <2>2
<1> DEFINE w == Attached(q, a)
<1> HIDE DEF w, q
<1>7. req' = Replaced(req, r, w)
  BY <1>4 DEF w, Replaced
<1>8. Sound(pool', req')
  <2>1. /\ w \in RequestType /\ w.computed = Len(w.table) * BlockSize
        /\ CachedBlocks(pool, w.table) /\ pool' = AttachPool(pool, w.table)
    BY <1>4, <1>6 DEF w
  <2> QED
    BY <1>1, <1>5, <1>7, <2>1, SoundAttach
<1>9. RequestsOK'
  <2>1. RequestOK(w, epoch)
    BY <1>6 DEF RequestOK, w
  <2>2. req \in [Requests -> RequestType] /\ epoch' = epoch
    BY <1>1, SoundFacts DEF AddRequest
  <2> QED
    BY <1>1, <1>7, <2>1, <2>2, OneRequest
<1>10. /\ waiting' = Append(waiting, r) /\ registry' = registry \union {r} /\ pc = "idle"
       /\ UNCHANGED <<epoch, kv, running, stepVars, weights, asleep, fatal>>
  BY DEF AddRequest
<1>11. /\ waiting \in Seq(Requests) /\ IsInjective(waiting) /\ r \notin Members(waiting)
       /\ r \notin Members(running) /\ deferred = << >> /\ batch = << >> /\ todo = << >>
  BY <1>1, <1>5, <1>10 DEF OtherTypes, QueuesOK, StepOK
<1>12. /\ waiting' \in Seq(Requests) /\ Members(waiting') = Members(waiting) \union {r}
       /\ IsInjective(waiting')
  BY <1>10, <1>11, AppendQueue
<1>13. OtherTypes'
  BY <1>1, <1>10, <1>12 DEF OtherTypes, stepVars
<1>14. StepOK'
  BY <1>1, <1>10, <1>11, EmptyQueue DEF StepOK, stepVars, PassesSuffice
<1>15. QueuesOK'
  <2>1. \A s \in Requests : s # r => req'[s] = req[s]
    BY <1>1, <1>6, <1>7, ReplacedFacts, SoundFacts, ZenonT(60) DEF w
  <2>2. req'[r].status = "waiting"
    BY <1>1, <1>6, <1>7, ReplacedFacts, SoundFacts DEF w
  <2> QED
    BY <1>1, <1>10, <1>11, <1>12, <2>1, <2>2, EmptyQueue DEF QueuesOK, stepVars
<1> QED
  BY <1>8, <1>9, <1>13, <1>14, <1>15, PartsPrimed

LEMMA ResumeRequestStep ==
  ASSUME IInv, NEW r \in Requests, NEW s \in TokenLists(SuffixLengths), NEW m \in MaxTokens,
         NEW h \in Holds, ResumeRequest(r, s, m, h)
  PROVE  IInv'
<1> DEFINE q == [req[r] EXCEPT !.status = "waiting", !.tokens = @ \o s,
                               !.nPrompt = Len(req[r].tokens) + Len(s),
                               !.maxNew = m, !.hold = h]
<1>1. OtherTypes /\ Sound(pool, req) /\ RequestsOK /\ StepOK /\ QueuesOK
  BY Parts
<1>2. s \in Seq(Tokens) /\ Len(s) \in Nat /\ m \in Nat /\ h \in BOOLEAN
  BY InputsAssumption DEF TokenLists
<1>3. req \in [Requests -> RequestType] /\ req[r] \in RequestType
  BY <1>1, SoundFacts
<1>4. /\ req[r].tokens \in Seq(Tokens) /\ Len(req[r].tokens) + Len(s) \in Nat
      /\ req[r].tokens \o s \in Seq(Tokens)
  BY <1>2, <1>3, ConcatProperties, LenProperties DEF RequestType
<1>5. /\ q \in RequestType /\ q.status = "waiting" /\ q.table = req[r].table
      /\ q.computed = req[r].computed /\ q.drafts = req[r].drafts
  BY <1>2, <1>3, <1>4 DEF RequestType
<1>6. req' = Replaced(req, r, q)
  BY DEF ResumeRequest, Replaced
<1> HIDE DEF q
<1>7. /\ waiting' = Append(waiting, r) /\ req[r].status = "paused" /\ r \in registry /\ pc = "idle"
      /\ UNCHANGED <<poolVars, running, stepVars, engineVars>>
  BY DEF ResumeRequest
<1>8. Sound(pool', req')
  <2>1. q.computed >= req[r].computed /\ pool' = pool
    BY <1>3, <1>5, <1>7 DEF RequestType, poolVars
  <2> QED
    BY <1>1, <1>5, <1>6, <2>1, SoundSame
<1>9. RequestsOK'
  <2>1. RequestOK(q, epoch)
    BY <1>1, <1>5, <1>7 DEF RequestsOK, RequestOK
  <2> QED
    BY <1>1, <1>3, <1>6, <1>7, <2>1, OneRequest DEF poolVars
<1>10. /\ waiting \in Seq(Requests) /\ IsInjective(waiting) /\ r \notin Members(waiting)
       /\ r \notin Members(running) /\ deferred = << >> /\ batch = << >> /\ todo = << >>
  BY <1>1, <1>7 DEF OtherTypes, QueuesOK, StepOK
<1>11. /\ waiting' \in Seq(Requests) /\ Members(waiting') = Members(waiting) \union {r}
       /\ IsInjective(waiting')
  BY <1>7, <1>10, AppendQueue
<1>12. OtherTypes'
  BY <1>1, <1>7, <1>11 DEF OtherTypes, stepVars, poolVars, engineVars
<1>13. StepOK'
  BY <1>1, <1>7, <1>10, EmptyQueue DEF StepOK, stepVars, PassesSuffice
<1>14. QueuesOK'
  <2>1. (\A x \in Requests : x # r => req'[x] = req[x]) /\ req'[r] = q
    BY <1>3, <1>5, <1>6, ReplacedFacts
  <2> QED
    BY <1>1, <1>5, <1>7, <1>10, <1>11, <2>1, EmptyQueue DEF QueuesOK, stepVars, engineVars
<1> QED
  BY <1>8, <1>9, <1>12, <1>13, <1>14, PartsPrimed

\* release of the requests S: what Release leaves.
LEMMA ReleaseFacts ==
  ASSUME IInv, NEW S \in SUBSET Requests, Release(S), epoch' = epoch
  PROVE  /\ Sound(pool', req') /\ RequestsOK' /\ DOMAIN kv' = Blocks
         /\ registry' = registry \ S
         /\ \A r \in Requests : /\ r \in S => req'[r].status = "gone" /\ req'[r].table = << >>
                                /\ r \notin S => req'[r] = req[r]
<1>1. Sound(pool, req) /\ RequestsOK
  BY Parts
<1>2. /\ Gone \in RequestType /\ Gone.table = << >> /\ Gone.status = "gone" /\ Gone.drafts = 0
  BY EmptySeq DEF Gone, NoRequest, RequestType, ROOT_HASH
<1>3. Sound(pool', req')
  BY <1>1, <1>2, SoundRelease DEF Release
<1>4. \A r \in Requests : req'[r] = (IF r \in S THEN Gone ELSE req[r])
  BY DEF Release
<1>5. RequestsOK'
  BY <1>1, <1>2, <1>4 DEF RequestsOK, RequestOK
<1> QED
  BY <1>2, <1>3, <1>4, <1>5 DEF Release, Scrub

LEMMA FinishRequestStep ==
  ASSUME IInv, NEW r \in Requests, FinishRequest(r)
  PROVE  IInv'
<1>1. OtherTypes /\ StepOK /\ QueuesOK
  BY Parts
<1>2. /\ Release({r}) /\ pc = "idle"
      /\ waiting' = Without(waiting, r) /\ running' = Without(running, r)
      /\ UNCHANGED <<epoch, stepVars, weights, asleep, fatal>>
  BY DEF FinishRequest
<1>3. /\ Sound(pool', req') /\ RequestsOK' /\ DOMAIN kv' = Blocks
      /\ registry' = registry \ {r}
      /\ req'[r].status = "gone" /\ req'[r].table = << >>
      /\ \A x \in Requests : x # r => req'[x] = req[x]
  <2>1. {r} \in SUBSET Requests /\ epoch' = epoch
    BY <1>2
  <2> QED
    BY <1>2, <2>1, ReleaseFacts
<1>4. waiting \in Seq(Requests) /\ running \in Seq(Requests)
      /\ IsInjective(waiting) /\ IsInjective(running)
      /\ deferred = << >> /\ todo = << >> /\ batch = << >>
  BY <1>1, <1>2 DEF OtherTypes, QueuesOK, StepOK
<1>5. /\ waiting' \in Seq(Requests) /\ Members(waiting') = Members(waiting) \ {r}
      /\ IsInjective(waiting')
      /\ running' \in Seq(Requests) /\ Members(running') = Members(running) \ {r}
      /\ IsInjective(running')
  BY <1>2, <1>4, WithoutQueue
<1>6. OtherTypes'
  BY <1>1, <1>2, <1>3, <1>5 DEF OtherTypes, stepVars
<1>7. StepOK'
  BY <1>1, <1>2, <1>4, EmptyQueue DEF StepOK, stepVars, PassesSuffice
<1>8. QueuesOK'
  BY <1>1, <1>2, <1>3, <1>4, <1>5, EmptyQueue DEF QueuesOK, stepVars
<1> QED
  BY <1>3, <1>6, <1>7, <1>8, PartsPrimed

LEMMA AbortGenerationStep ==
  ASSUME IInv, AbortGeneration
  PROVE  IInv'
<1> DEFINE S == Members(waiting) \union Members(running)
<1>1. OtherTypes /\ StepOK /\ QueuesOK
  BY Parts
<1>2. /\ Release(S) /\ pc = "idle" /\ waiting' = << >> /\ running' = << >>
      /\ UNCHANGED <<epoch, stepVars, weights, asleep, fatal>>
  BY DEF AbortGeneration
<1>3. S \in SUBSET Requests
  BY <1>1, MembersType DEF OtherTypes
<1>4. \A x \in Requests : x \in S <=> x \in Members(waiting) \/ x \in Members(running)
  OBVIOUS
<1> HIDE DEF S
<1>5. /\ Sound(pool', req') /\ RequestsOK' /\ DOMAIN kv' = Blocks
      /\ registry' = registry \ S
      /\ \A r \in Requests : /\ r \in S => req'[r].status = "gone" /\ req'[r].table = << >>
                             /\ r \notin S => req'[r] = req[r]
  BY <1>2, <1>3, ReleaseFacts
<1>6. deferred = << >> /\ todo = << >> /\ batch = << >>
  BY <1>1, <1>2 DEF StepOK
<1>7. OtherTypes'
  BY <1>1, <1>2, <1>5, EmptyQueue DEF OtherTypes, stepVars
<1>8. StepOK'
  BY <1>1, <1>2, <1>6, EmptyQueue DEF StepOK, stepVars, PassesSuffice
<1>9. QueuesOK'
  BY <1>1, <1>2, <1>4, <1>5, <1>6, EmptyQueue DEF QueuesOK, stepVars
<1> QED
  BY <1>5, <1>7, <1>8, <1>9, PartsPrimed

(***************************************************************************)
(* A step.                                                                 *)
(***************************************************************************)
LEMMA StartStepStep ==
  ASSUME IInv, StartStep
  PROVE  IInv'
<1>1. OtherTypes /\ Sound(pool, req) /\ RequestsOK /\ StepOK /\ QueuesOK
  BY Parts
<1>2. /\ pc = "idle" /\ pc' = "pass" /\ todo' = running /\ batch' = << >> /\ deferred' = << >>
      /\ budget' = MaxBatchedTokens /\ passes' = PassBound /\ raised' = "no"
      /\ UNCHANGED <<poolVars, req, waiting, running, engineVars>>
  BY DEF StartStep, StartSchedule
<1>3. deferred = << >>
  BY <1>1, <1>2 DEF StepOK
<1>4. PassBound \in Nat /\ PassBound > Len(running)
  BY <1>1, LimitsAssumption, LenProperties DEF PassBound, OtherTypes
<1>5. OtherTypes'
  BY <1>1, <1>2, <1>4, EmptyQueue, LimitsAssumption DEF OtherTypes, poolVars, engineVars
<1>6. Sound(pool', req') /\ RequestsOK'
  BY <1>1, <1>2 DEF poolVars, RequestsOK
<1>7. StepOK'
  BY <1>2, <1>4, EmptyQueue DEF StepOK, PassesSuffice
<1>8. QueuesOK'
  BY <1>1, <1>2, <1>3 DEF QueuesOK, engineVars
<1> QED
  BY <1>5, <1>6, <1>7, <1>8, PartsPrimed

\* The blocks a request grows by are a sequence of distinct free blocks, long
\* enough for the tokens it is given.
LEMMA GrowthFacts ==
  ASSUME NEW q \in RequestType, NEW n \in Nat, n > 0, NEW P \in PoolOf(Seq(Tokens)),
         NEW g \in Fresh(P, Growth(q, n))
  PROVE  /\ FreshBlocks(P, g) /\ q.table \o g \in Seq(Blocks)
         /\ Len(q.table \o g) >= BlocksNeededFor(q.computed + n)
         /\ q.table \o g # << >>
<1>1. /\ q.table \in Seq(Blocks) /\ Len(q.table) \in Nat /\ q.computed \in Nat
      /\ q.computed + n \in Nat /\ q.computed + n > 0
  BY LenProperties DEF RequestType
<1>2. BlocksNeededFor(q.computed + n) \in Nat /\ BlocksNeededFor(q.computed + n) > 0
  BY <1>1, NeededFor
<1>3. PICK k \in Nat : k = Greater(0, BlocksNeededFor(q.computed + n) - Len(q.table))
  BY <1>1, <1>2 DEF Greater
<1>4. g \in [1..k -> P.free] /\ IsInjective(g) /\ P.free \subseteq Blocks
  BY <1>3 DEF Fresh, Growth, PoolOf
<1>5. g \in Seq(Blocks) /\ Len(g) = k
  BY <1>4
<1>6. FreshBlocks(P, g)
  BY <1>4, <1>5 DEF FreshBlocks, Range
<1>7. q.table \o g \in Seq(Blocks) /\ Len(q.table \o g) = Len(q.table) + k
  BY <1>1, <1>5, ConcatProperties
<1>8. Len(q.table) + k >= BlocksNeededFor(q.computed + n)
  BY <1>1, <1>2, <1>3 DEF Greater
<1>9. q.table \o g # << >>
  BY <1>1, <1>2, <1>7, <1>8, EmptySeq
<1> QED
  BY <1>6, <1>7, <1>8, <1>9

\* No block that the span writes is shared.
LEMMA NothingShared ==
  ASSUME NEW P, NEW R, Sound(P, R), NEW r \in Requests, NEW n \in Nat, n > 0,
         Len(R[r].table) >= BlocksNeededFor(R[r].computed + n)
  PROVE  SharedSpan(P, R[r].table, R[r].computed, n) = {}
<1>1. /\ R[r].table \in Seq(Blocks) /\ Len(R[r].table) \in Nat /\ R[r].computed \in Nat
      /\ DOMAIN R[r].table = 1..Len(R[r].table)
  BY SoundFacts, LenProperties DEF RequestType
<1>2. /\ BlockIndex(R[r].computed + 1) = R[r].computed \div BlockSize + 1
      /\ BlockIndex(R[r].computed + n) \in Int
      /\ BlocksNeededFor(R[r].computed + n) = BlockIndex(R[r].computed + n)
  BY <1>1, SpanBlocks
<1>3. PICK d \in Nat : d = R[r].computed \div BlockSize
  BY <1>1, DivBound
<1>4. SUFFICES ASSUME NEW i \in BlockIndex(R[r].computed + 1)..BlockIndex(R[r].computed + n)
               PROVE  P.ref[R[r].table[i]] = 1
  BY DEF SharedSpan
<1>5. i \in DOMAIN R[r].table /\ i > R[r].computed \div BlockSize
  BY <1>1, <1>2, <1>3
<1> QED
  BY <1>5 DEF Sound, Private

\* Reserve: request r, considered as q, gets n tokens.
LEMMA ReserveFacts ==
  ASSUME epoch \in Nat, req \in [Requests -> RequestType], NEW r \in Requests,
         NEW q \in RequestType, NEW n \in Nat, n > 0,
         NEW P, Sound(P, Replaced(req, r, q)), Reserve(r, q, n, P)
  PROVE  /\ \E t \in Seq(Blocks) : t # << >> /\ req' = Replaced(req, r, Scheduled(q, t, n))
         /\ Sound(pool', req') /\ DOMAIN kv' = Blocks
         /\ batch' = Append(batch, r) /\ budget' = budget - n
<1>1. PICK g \in Fresh(P, Growth(q, n)) :
        LET t  == q.table \o g
            P1 == AllocBlocks(P, g)
        IN \E c \in Fresh(P1, SharedSpan(P1, t, q.computed, n)) :
             /\ pool' = CowPool(P1, t, c)
             /\ kv' = CowPages(Scrub(kv, P.free), t, c)
             /\ req' = Replaced(req, r, Scheduled(q, CowTable(t, c), n))
             /\ batch' = Append(batch, r) /\ budget' = budget - n
  BY DEF Reserve, Replaced, Scheduled
<1> DEFINE t == q.table \o g
           P1 == AllocBlocks(P, g)
           w == Scheduled(q, t, n)
<1>2. /\ FreshBlocks(P, g) /\ t \in Seq(Blocks) /\ t # << >>
      /\ Len(t) >= BlocksNeededFor(q.computed + n)
  BY GrowthFacts, SoundFacts
<1>3. PICK c \in Fresh(P1, SharedSpan(P1, t, q.computed, n)) :
             /\ pool' = CowPool(P1, t, c)
             /\ kv' = CowPages(Scrub(kv, P.free), t, c)
             /\ req' = Replaced(req, r, Scheduled(q, CowTable(t, c), n))
             /\ batch' = Append(batch, r) /\ budget' = budget - n
  BY <1>1
<1>4. Grown(q.table, g, t)
  BY DEF Grown
<1> HIDE DEF t, P1
<1>5. w \in RequestType /\ w.table = t /\ w.computed = q.computed
  BY <1>2, ScheduledFacts
<1> HIDE DEF w
<1> DEFINE R == Replaced(req, r, q)
<1>6. R[r] = q /\ Replaced(R, r, w) = Replaced(req, r, w) /\ Replaced(R, r, w)[r] = w
  BY DEF Replaced
<1>7. Sound(P1, Replaced(req, r, w))
  <2> HIDE DEF R
  <2>1. Grown(R[r].table, g, w.table) /\ w.computed = R[r].computed /\ Sound(P, R)
    BY <1>4, <1>5, <1>6 DEF R
  <2> QED
    BY <1>2, <1>5, <1>6, <2>1, SoundAlloc DEF P1
<1>8. SharedSpan(P1, t, q.computed, n) = {}
  <2> DEFINE N == Replaced(req, r, w)
  <2>1. N[r].table = t /\ N[r].computed = q.computed /\ Sound(P1, N)
    BY <1>5, <1>6, <1>7
  <2> HIDE DEF N
  <2> QED
    BY <1>2, <2>1, NothingShared
<1>9. DOMAIN c = {}
  BY <1>3, <1>8 DEF Fresh
<1>10. P1 \in PoolOf(Seq(Tokens))
  BY <1>7, SoundFacts
<1>11. CowPool(P1, t, c) = P1 /\ CowTable(t, c) = t
  BY <1>2, <1>9, <1>10, CowNone
<1>12. pool' = P1 /\ req' = Replaced(req, r, w)
  BY <1>3, <1>11 DEF w
<1>13. DOMAIN kv' = Blocks
  BY <1>3 DEF CowPages
<1> QED
  BY <1>2, <1>3, <1>7, <1>12, <1>13 DEF w

\* The tokens a request can be given never exceed the budget.
LEMMA AllocatableFacts ==
  ASSUME NEW P \in PoolOf(Seq(Tokens)), NEW q \in RequestType, budget \in Nat
  PROVE  /\ MaxAllocatable(P, q, Want(q)) \in Nat
         /\ MaxAllocatable(P, q, Want(q)) <= budget
<1>1. /\ q.table \in Seq(Blocks) /\ Len(q.table) \in Nat /\ q.computed \in Nat
      /\ Len(q.tokens) \in Nat
  BY LenProperties DEF RequestType
<1>2. Cardinality(P.free) \in Nat
  <2>1. P.free \in SUBSET Blocks
    BY DEF PoolOf
  <2>2. IsFiniteSet(P.free)
    BY <2>1, BlocksAssumption, FS_Subset
  <2> QED
    BY <2>2, FS_CardinalityType
<1>3. PICK x \in Nat : x = Len(q.table) + Cardinality(P.free)
  BY <1>1, <1>2
<1>4. PICK y \in Int : y = x * BlockSize - q.computed
  BY <1>1, BlockSizeAssumption
<1>5. PICK u \in Nat : u = Uncomputed(q)
  BY <1>1 DEF Uncomputed, Greater
<1> QED
  BY <1>3, <1>4, <1>5 DEF MaxAllocatable, Want, Greater, Lesser

\* _maybe_attach_spec_drafts drafts only for a request with one token left
\* to compute.
LEMMA DraftedFacts ==
  ASSUME NEW q \in RequestType, RequestOK(q, epoch), budget \in Nat, NEW p \in Drafted(q)
  PROVE  /\ p \in RequestType /\ p.table = q.table /\ p.computed = q.computed
         /\ p.status = q.status /\ p.sched = q.sched /\ p.kvEpoch = q.kvEpoch
         /\ p.drafts \in Nat
         /\ p.drafts > 0 => Len(p.tokens) = p.computed + 1 + p.drafts
<1>1. CASE p = q
  BY <1>1 DEF RequestOK, RequestType
<1>2. CASE p # q
  <2>1. PICK D \in {[1..k -> Tokens] : k \in 1..MaxDraft(q)} :
          \E d \in D : p = WithDrafts(q, d)
    BY <1>2 DEF Drafted
  <2>2. PICK k \in 1..MaxDraft(q) : \E d \in [1..k -> Tokens] : p = WithDrafts(q, d)
    BY <2>1
  <2>3. PICK d \in [1..k -> Tokens] : p = WithDrafts(q, d)
    BY <2>2
  <2>4. /\ q.drafts = 0 /\ Uncomputed(q) = 1 /\ k \in Nat /\ k > 0
    BY <2>2, NumSpecAssumption DEF MaxDraft
  <2>5. d \in Seq(Tokens) /\ Len(d) = k
    BY <2>3, <2>4
  <2>6. Len(q.tokens) = q.computed + 1 /\ q.computed \in Nat /\ Len(q.tokens) \in Nat
    BY <2>4, LenProperties DEF Uncomputed, Greater, RequestType
  <2>7. /\ WithDrafts(q, d) \in RequestType
        /\ WithDrafts(q, d).drafts = Len(d)
        /\ Len(WithDrafts(q, d).tokens) = Len(q.tokens) + Len(d)
        /\ WithDrafts(q, d).table = q.table /\ WithDrafts(q, d).computed = q.computed
        /\ WithDrafts(q, d).status = q.status /\ WithDrafts(q, d).sched = q.sched
        /\ WithDrafts(q, d).kvEpoch = q.kvEpoch
    BY <2>5, WithDraftsFacts
  <2>8. Len(p.tokens) = p.computed + 1 + p.drafts
    BY <2>3, <2>4, <2>5, <2>6, <2>7
  <2> QED
    BY <2>3, <2>4, <2>5, <2>7, <2>8
<1> QED
  BY <1>1, <1>2

\* A request gets n tokens in a pass.
LEMMA ReservedRequest ==
  ASSUME IInv, pc = "pass", NEW r \in Requests, r \in registry, NEW q \in RequestType,
         q.drafts > 0 => Len(q.tokens) = q.computed + 1 + q.drafts,
         NEW n \in Nat, n > 0, NEW P, Sound(P, Replaced(req, r, q)), Reserve(r, q, n, P),
         n <= budget, epoch' = epoch, pc' = pc, todo' \in Seq(Requests),
         raised' = raised, registry' = registry
  PROVE  /\ Sound(pool', req') /\ RequestsOK' /\ StepOK' /\ DOMAIN kv' = Blocks
         /\ batch' \in Seq(Requests) /\ budget' \in Nat
         /\ req'[r].status = "running" /\ \A x \in Requests : x # r => req'[x] = req[x]
<1>1. OtherTypes /\ Sound(pool, req) /\ RequestsOK /\ StepOK /\ QueuesOK
  BY Parts
<1>2. epoch \in Nat /\ req \in [Requests -> RequestType] /\ batch \in Seq(Requests) /\ budget \in Nat
  BY <1>1, SoundFacts DEF OtherTypes
<1>3. /\ \E t \in Seq(Blocks) : t # << >> /\ req' = Replaced(req, r, Scheduled(q, t, n))
      /\ Sound(pool', req') /\ DOMAIN kv' = Blocks
      /\ batch' = Append(batch, r) /\ budget' = budget - n
  BY <1>2, ReserveFacts
<1>4. PICK t \in Seq(Blocks) : t # << >> /\ req' = Replaced(req, r, Scheduled(q, t, n))
  BY <1>3
<1> DEFINE w == Scheduled(q, t, n)
<1>5. /\ w \in RequestType /\ w.table = t /\ w.kvEpoch = epoch /\ w.sched = n
      /\ w.status = "running" /\ w.tokens = q.tokens /\ w.drafts = q.drafts
      /\ w.computed = q.computed
  BY <1>2, ScheduledFacts
<1> HIDE DEF w
<1>6. RequestOK(w, epoch)
  BY <1>4, <1>5 DEF RequestOK
<1>7. req' = Replaced(req, r, w)
  BY <1>4 DEF w
<1>8. RequestsOK'
  BY <1>1, <1>2, <1>6, <1>7, OneRequest
<1>9. req'[r] = w /\ \A x \in Requests : x # r => req'[x] = req[x]
  BY <1>2, <1>5, <1>7, ReplacedFacts
<1>10. /\ batch' \in Seq(Requests) /\ Members(batch') = Members(batch) \union {r}
       /\ Len(batch') > 0 /\ Members(batch) \subseteq Requests
  BY <1>2, <1>3, AppendQueue, MembersType, LenProperties
<1>11. batch' # << >>
  BY <1>10, EmptySeq
<1>12. StepOK'
  BY <1>1, <1>4, <1>5, <1>9, <1>10, <1>11 DEF StepOK, PassesSuffice
<1>13. budget' \in Nat
  BY <1>2, <1>3
<1> QED
  BY <1>3, <1>5, <1>8, <1>9, <1>10, <1>12, <1>13

LEMMA ConsiderRunningStep ==
  ASSUME IInv, ConsiderRunning, UNCHANGED engineVars
  PROVE  IInv'
<1> DEFINE r == Head(todo)
<1>1. OtherTypes /\ Sound(pool, req) /\ RequestsOK /\ StepOK /\ QueuesOK
  BY Parts
<1>2. /\ pc = "pass" /\ todo # << >> /\ todo' = Tail(todo)
      /\ UNCHANGED <<epoch, waiting, running, deferred, passes, pc, raised, engineVars>>
  BY DEF ConsiderRunning
<1>3. /\ todo \in Seq(Requests) /\ budget \in Nat /\ epoch \in Nat
      /\ req \in [Requests -> RequestType]
  BY <1>1, SoundFacts DEF OtherTypes
<1>4. r \in Requests /\ r \in Members(todo)
  BY <1>2, <1>3, NonemptyQueue
<1>5. req[r] \in RequestType /\ req[r].status = "running" /\ r \in registry
      /\ RequestOK(req[r], epoch)
  BY <1>1, <1>3, <1>4 DEF QueuesOK, RequestsOK
<1>6. todo' \in Seq(Requests) /\ Members(todo') \subseteq Members(todo)
  <2>1. todo' \in Seq(Requests) /\ Len(todo') = Len(todo) - 1
        /\ \A i \in 1..Len(todo') : todo'[i] = todo[i + 1]
    BY <1>2, <1>3, HeadTailProperties
  <2>2. Len(todo) \in Nat /\ Len(todo') \in Nat
    BY <1>3, <2>1, LenProperties
  <2> QED
    BY <1>3, <2>1, <2>2, MembersType
<1>7. PICK p \in Drafted(req[r]) :
        \E V \in Victims(pool, Shortfall(pool, p, Want(p))) :
          LET P == EvictUnused(pool, V)
              m == MaxAllocatable(P, p, Want(p))
              fits == p.drafts = 0 \/ m = 1 + p.drafts
              q == IF fits THEN p ELSE StripSpecDrafts(p)
              n == IF fits THEN m ELSE Lesser(m, 1)
          IN \/ /\ n = 0
                /\ pool' = P
                /\ kv' = Scrub(kv, P.free)
                /\ req' = [req EXCEPT ![r] = q]
                /\ UNCHANGED <<batch, budget>>
             \/ /\ n > 0
                /\ Reserve(r, q, n, P)
  BY DEF ConsiderRunning
<1>8. PICK V \in Victims(pool, Shortfall(pool, p, Want(p))) :
          LET P == EvictUnused(pool, V)
              m == MaxAllocatable(P, p, Want(p))
              fits == p.drafts = 0 \/ m = 1 + p.drafts
              q == IF fits THEN p ELSE StripSpecDrafts(p)
              n == IF fits THEN m ELSE Lesser(m, 1)
          IN \/ /\ n = 0
                /\ pool' = P
                /\ kv' = Scrub(kv, P.free)
                /\ req' = [req EXCEPT ![r] = q]
                /\ UNCHANGED <<batch, budget>>
             \/ /\ n > 0
                /\ Reserve(r, q, n, P)
  BY <1>7
<1> DEFINE P == EvictUnused(pool, V)
           m == MaxAllocatable(P, p, Want(p))
           fits == p.drafts = 0 \/ m = 1 + p.drafts
           q == IF fits THEN p ELSE StripSpecDrafts(p)
           n == IF fits THEN m ELSE Lesser(m, 1)
<1>9. \/ n = 0 /\ pool' = P /\ kv' = Scrub(kv, P.free) /\ req' = Replaced(req, r, q)
         /\ UNCHANGED <<batch, budget>>
      \/ n > 0 /\ Reserve(r, q, n, P)
  BY <1>8 DEF Replaced
<1> HIDE DEF r
<1>10. /\ p \in RequestType /\ p.table = req[r].table /\ p.computed = req[r].computed
       /\ p.status = "running" /\ p.sched = req[r].sched /\ p.kvEpoch = req[r].kvEpoch
       /\ p.drafts \in Nat /\ p.computed \in Nat
       /\ p.drafts > 0 => Len(p.tokens) = p.computed + 1 + p.drafts
  <2>1. p \in Drafted(req[r])
    BY <1>7
  <2>2. /\ p \in RequestType /\ p.table = req[r].table /\ p.computed = req[r].computed
        /\ p.status = req[r].status /\ p.sched = req[r].sched /\ p.kvEpoch = req[r].kvEpoch
        /\ p.drafts \in Nat
        /\ p.drafts > 0 => Len(p.tokens) = p.computed + 1 + p.drafts
    BY <1>3, <1>5, <2>1, DraftedFacts
  <2> QED
    BY <1>5, <2>2 DEF RequestType
<1>11. Sound(P, req) /\ P \in PoolOf(Seq(Tokens))
  BY <1>1, SoundEvict, SoundFacts
<1>12. m \in Nat /\ m <= budget
  <2> HIDE DEF P
  <2> QED
    BY <1>3, <1>10, <1>11, AllocatableFacts
<1> HIDE DEF P, m
<1>13. n \in Nat /\ n <= budget
  BY <1>3, <1>12 DEF Lesser
<1>14. /\ q \in RequestType /\ q.table = req[r].table /\ q.computed = req[r].computed
       /\ q.status = "running" /\ q.sched = req[r].sched /\ q.kvEpoch = req[r].kvEpoch
       /\ q.drafts > 0 => Len(q.tokens) = q.computed + 1 + q.drafts
       /\ n = 0 => q.drafts = 0
  <2>1. CASE fits
    BY <1>10, <1>12, <2>1
  <2>2. CASE ~fits
    <3>1. p.drafts <= Len(p.tokens)
      BY <1>10, <2>2
    <3>2. q = StripSpecDrafts(p)
      BY <2>2
    <3> HIDE DEF q
    <3> QED
      BY <1>10, <3>1, <3>2, StripFacts
  <2> QED
    BY <2>1, <2>2
<1> HIDE DEF n, q
<1>15. Sound(P, Replaced(req, r, q))
  <2>1. q.computed >= req[r].computed
    BY <1>10, <1>14
  <2> QED
    BY <1>4, <1>11, <1>14, <2>1, SoundSame
<1>16. CASE n = 0
  <2>1. /\ pool' = P /\ kv' = Scrub(kv, P.free) /\ req' = Replaced(req, r, q)
        /\ UNCHANGED <<batch, budget>>
    BY <1>9, <1>16
  <2>2. req'[r] = q /\ \A x \in Requests : x # r => req'[x] = req[x]
    BY <1>3, <1>4, <1>14, <2>1, ReplacedFacts
  <2>3. RequestsOK'
    <3>1. RequestOK(q, epoch)
      BY <1>5, <1>14, <1>16 DEF RequestOK
    <3> QED
      BY <1>1, <1>2, <1>3, <1>4, <2>1, <3>1, OneRequest
  <2>4. OtherTypes'
    BY <1>1, <1>2, <1>6, <2>1 DEF OtherTypes, engineVars, Scrub
  <2>5. StepOK'
    <3>1. Members(batch) \subseteq Requests
      BY <1>1, MembersType DEF OtherTypes
    <3> QED
      BY <1>1, <1>2, <1>14, <2>1, <2>2, <3>1 DEF StepOK, PassesSuffice, engineVars
  <2>6. QueuesOK'
    BY <1>1, <1>2, <1>4, <1>5, <1>6, <1>14, <2>2 DEF QueuesOK, engineVars
  <2> QED
    BY <1>15, <2>1, <2>3, <2>4, <2>5, <2>6, PartsPrimed
<1>17. CASE n # 0
  <2>1. n > 0 /\ Reserve(r, q, n, P)
    BY <1>9, <1>13, <1>17
  <2>2. /\ Sound(pool', req') /\ RequestsOK' /\ StepOK' /\ DOMAIN kv' = Blocks
        /\ batch' \in Seq(Requests) /\ budget' \in Nat
        /\ req'[r].status = "running" /\ \A x \in Requests : x # r => req'[x] = req[x]
    BY <1>2, <1>4, <1>5, <1>6, <1>13, <1>14, <1>15, <2>1, ReservedRequest DEF engineVars
  <2>3. OtherTypes'
    BY <1>1, <1>2, <1>6, <2>2 DEF OtherTypes, engineVars
  <2>4. QueuesOK'
    BY <1>1, <1>2, <1>4, <1>5, <1>6, <2>2 DEF QueuesOK, engineVars
  <2> QED
    BY <2>2, <2>3, <2>4, PartsPrimed
<1> QED
  BY <1>16, <1>17

\* A waiting request before it is given tokens: with what it may have found
\* in the prefix cache.
LEMMA ReattachFacts ==
  ASSUME IInv, NEW r \in Requests, req[r].status = "waiting",
         NEW a \in (IF Reattaches(req[r]) THEN Attachments(pool, req[r]) ELSE {<< >>}), NEW q,
         q = (IF Reattaches(req[r]) THEN Attached(req[r], a) ELSE req[r])
  PROVE  /\ q \in RequestType /\ q.status = "waiting" /\ RequestOK(q, epoch)
         /\ Sound(AttachPool(pool, a), Replaced(req, r, q))
         /\ a = << >> \/ q.table = a
<1>1. Sound(pool, req) /\ RequestsOK
  BY Parts
<1>2. /\ req \in [Requests -> RequestType] /\ req[r] \in RequestType
      /\ pool \in PoolOf(Seq(Tokens)) /\ RequestOK(req[r], epoch)
  BY <1>1, SoundFacts DEF RequestsOK
<1>3. CASE Reattaches(req[r])
  <2>1. req[r].table = << >> /\ req[r].drafts = 0
    BY <1>2, <1>3 DEF Reattaches, RequestOK, RequestType
  <2>2. /\ a \in Seq(Blocks) /\ CachedBlocks(pool, a) /\ q \in RequestType
        /\ q.table = a /\ q.computed = Len(a) * BlockSize
        /\ q.drafts = 0 /\ q.status = "waiting"
    BY <1>2, <1>3, <2>1, AttachedFacts
  <2>3. Sound(AttachPool(pool, q.table), Replaced(req, r, q))
    BY <1>1, <2>1, <2>2, SoundAttach
  <2>4. RequestOK(q, epoch)
    BY <2>2 DEF RequestOK
  <2> QED
    BY <2>2, <2>3, <2>4
<1>4. CASE ~Reattaches(req[r])
  <2>1. a = << >> /\ q = req[r]
    BY <1>4
  <2>2. AttachPool(pool, a) = pool /\ Replaced(req, r, q) = req
    BY <1>2, <2>1, AttachNothing DEF Replaced
  <2> QED
    BY <1>1, <1>2, <2>1, <2>2
<1> QED
  BY <1>3, <1>4

\* What becomes of it when no memory is left for a single token.
LEMMA DetachFacts ==
  ASSUME NEW P, NEW r \in Requests, NEW q \in RequestType, req \in [Requests -> RequestType],
         Sound(P, Replaced(req, r, q)), NEW a, a = << >> \/ q.table = a,
         q.status = "waiting", RequestOK(q, epoch),
         NEW w, w = (IF a # << >> THEN Cold(q) ELSE q)
  PROVE  /\ w \in RequestType /\ w.status = "waiting" /\ RequestOK(w, epoch)
         /\ Sound(Deallocate(P, a), Replaced(req, r, w))
<1> DEFINE R == Replaced(req, r, q)
<1>1. R[r] = q /\ Replaced(R, r, w) = Replaced(req, r, w)
  BY DEF Replaced
<1> HIDE DEF R
<1>2. CASE a = << >>
  <2>1. w = q
    BY <1>2
  <2>2. Deallocate(P, a) = P
    BY <1>2, DeallocateNothing, SoundFacts
  <2> QED
    BY <2>1, <2>2
<1>3. CASE a # << >>
  <2>1. w = Cold(q)
    BY <1>3
  <2>2. /\ w \in RequestType /\ w.table = << >> /\ w.drafts = 0 /\ w.status = "waiting"
    BY <2>1, ColdFacts
  <2>3. Sound(P, R) /\ R[r].table = a
    BY <1>1, <1>3 DEF R
  <2>4. Sound(Deallocate(P, a), Replaced(R, r, w))
    BY <2>2, <2>3, SoundDeallocate
  <2>5. RequestOK(w, epoch)
    BY <2>2 DEF RequestOK
  <2> QED
    BY <1>1, <2>2, <2>4, <2>5
<1> QED
  BY <1>2, <1>3

LEMMA ConsiderWaitingStep ==
  ASSUME IInv, ConsiderWaiting, UNCHANGED engineVars
  PROVE  IInv'
<1> DEFINE r == Head(waiting)
           again == Reattaches(req[r])
<1>1. OtherTypes /\ Sound(pool, req) /\ RequestsOK /\ StepOK /\ QueuesOK
  BY Parts
<1>2. /\ pc = "pass" /\ todo = << >> /\ waiting # << >> /\ waiting' = Tail(waiting)
      /\ UNCHANGED <<epoch, todo, passes, pc, raised, engineVars>>
  BY DEF ConsiderWaiting
<1>3. /\ waiting \in Seq(Requests) /\ deferred \in Seq(Requests) /\ running \in Seq(Requests)
      /\ budget \in Nat /\ req \in [Requests -> RequestType]
      /\ IsInjective(waiting) /\ IsInjective(deferred) /\ IsInjective(running)
  BY <1>1, SoundFacts DEF OtherTypes, QueuesOK
<1>4. r \in Requests /\ r \in Members(waiting)
  BY <1>2, <1>3, NonemptyQueue
<1>5. /\ req[r].status = "waiting" /\ r \in registry
      /\ r \notin Members(deferred) /\ r \notin Members(running)
  BY <1>1, <1>4 DEF QueuesOK
<1>6. /\ waiting' \in Seq(Requests) /\ Members(waiting') = Members(waiting) \ {r}
      /\ IsInjective(waiting')
  BY <1>2, <1>3, TailQueue
<1>7. PICK a \in IF again THEN Attachments(pool, req[r]) ELSE {<< >>} :
        LET q == IF again THEN Attached(req[r], a) ELSE req[r]
            PA == AttachPool(pool, a)
        IN
        \E V \in Victims(PA, Shortfall(PA, q, Want(q))) :
          LET P == EvictUnused(PA, V)
              n == MaxAllocatable(P, q, Want(q))
              Detach == Deallocate(P, a)
          IN \/ /\ n = 0
                /\ pool' = Detach
                /\ kv' = Scrub(kv, Detach.free)
                /\ req' = [req EXCEPT ![r] = IF a # << >> THEN Cold(q) ELSE q]
                /\ deferred' = Append(deferred, r)
                /\ UNCHANGED <<running, batch, budget>>
             \/ /\ n > 0
                /\ Reserve(r, q, n, P)
                /\ running' = Append(running, r)
                /\ UNCHANGED deferred
  BY DEF ConsiderWaiting
<1> DEFINE q == IF again THEN Attached(req[r], a) ELSE req[r]
           PA == AttachPool(pool, a)
           w == IF a # << >> THEN Cold(q) ELSE q
<1>8. PICK V \in Victims(PA, Shortfall(PA, q, Want(q))) :
        LET P == EvictUnused(PA, V)
            n == MaxAllocatable(P, q, Want(q))
        IN \/ /\ n = 0
              /\ pool' = Deallocate(P, a)
              /\ kv' = Scrub(kv, Deallocate(P, a).free)
              /\ req' = Replaced(req, r, w)
              /\ deferred' = Append(deferred, r)
              /\ UNCHANGED <<running, batch, budget>>
           \/ /\ n > 0
              /\ Reserve(r, q, n, P)
              /\ running' = Append(running, r)
              /\ UNCHANGED deferred
  BY <1>7 DEF Replaced
<1> DEFINE P == EvictUnused(PA, V)
           n == MaxAllocatable(P, q, Want(q))
<1>9. \/ /\ n = 0
         /\ pool' = Deallocate(P, a) /\ kv' = Scrub(kv, Deallocate(P, a).free)
         /\ req' = Replaced(req, r, w) /\ deferred' = Append(deferred, r)
         /\ UNCHANGED <<running, batch, budget>>
      \/ /\ n > 0 /\ Reserve(r, q, n, P) /\ running' = Append(running, r)
         /\ UNCHANGED deferred
  BY <1>8
<1>10. /\ q \in RequestType /\ q.status = "waiting" /\ RequestOK(q, epoch)
       /\ Sound(PA, Replaced(req, r, q)) /\ (a = << >> \/ q.table = a)
  <2> HIDE DEF r, q
  <2>1. q = (IF Reattaches(req[r]) THEN Attached(req[r], a) ELSE req[r])
    BY DEF q
  <2> QED
    BY <1>4, <1>5, <1>7, <2>1, ReattachFacts
<1> HIDE DEF r, q, PA
<1>11. Sound(P, Replaced(req, r, q)) /\ P \in PoolOf(Seq(Tokens))
  BY <1>8, <1>10, SoundEvict, SoundFacts
<1> HIDE DEF P
<1>12. n \in Nat /\ n <= budget
  BY <1>3, <1>10, <1>11, AllocatableFacts
<1> HIDE DEF n
<1>13. CASE n = 0
  <2>1. /\ pool' = Deallocate(P, a) /\ kv' = Scrub(kv, Deallocate(P, a).free)
        /\ req' = Replaced(req, r, w) /\ deferred' = Append(deferred, r)
        /\ UNCHANGED <<running, batch, budget>>
    BY <1>9, <1>13
  <2>2. w = (IF a # << >> THEN Cold(q) ELSE q)
    OBVIOUS
  <2> HIDE DEF w
  <2>3. /\ w \in RequestType /\ w.status = "waiting" /\ RequestOK(w, epoch)
        /\ Sound(Deallocate(P, a), Replaced(req, r, w))
    BY <1>3, <1>4, <1>10, <1>11, <2>2, DetachFacts
  <2>4. req'[r] = w /\ \A x \in Requests : x # r => req'[x] = req[x]
    BY <1>3, <1>4, <2>1, <2>3, ReplacedFacts
  <2>5. RequestsOK'
    BY <1>1, <1>2, <1>3, <1>4, <2>1, <2>3, OneRequest
  <2>6. /\ deferred' \in Seq(Requests) /\ Members(deferred') = Members(deferred) \union {r}
        /\ IsInjective(deferred')
    BY <1>3, <1>4, <1>5, <2>1, AppendQueue
  <2>7. OtherTypes'
    BY <1>1, <1>2, <1>6, <2>1, <2>6 DEF OtherTypes, engineVars, Scrub
  <2>8. StepOK'
    <3>1. Members(batch) \subseteq Requests
      BY <1>1, MembersType DEF OtherTypes
    <3>2. r \notin Members(batch)
      BY <1>1, <1>2, <1>5 DEF StepOK
    <3> QED
      BY <1>1, <1>2, <2>1, <2>4, <3>1, <3>2 DEF StepOK, PassesSuffice, engineVars
  <2>9. QueuesOK'
    BY <1>1, <1>2, <1>4, <1>5, <1>6, <2>1, <2>3, <2>4, <2>6 DEF QueuesOK, engineVars
  <2> QED
    BY <2>1, <2>3, <2>5, <2>7, <2>8, <2>9, PartsPrimed
<1>14. CASE n # 0
  <2>1. n > 0 /\ Reserve(r, q, n, P) /\ running' = Append(running, r) /\ UNCHANGED deferred
    BY <1>9, <1>12, <1>14
  <2>2. todo' \in Seq(Requests)
    BY <1>2, EmptyQueue
  <2>3. q.drafts > 0 => Len(q.tokens) = q.computed + 1 + q.drafts
    BY <1>10 DEF RequestOK
  <2>4. /\ Sound(pool', req') /\ RequestsOK' /\ StepOK' /\ DOMAIN kv' = Blocks
        /\ batch' \in Seq(Requests) /\ budget' \in Nat
        /\ req'[r].status = "running" /\ \A x \in Requests : x # r => req'[x] = req[x]
    BY <1>2, <1>4, <1>5, <1>10, <1>11, <1>12, <2>1, <2>2, <2>3, ReservedRequest DEF engineVars
  <2>5. /\ running' \in Seq(Requests) /\ Members(running') = Members(running) \union {r}
        /\ IsInjective(running')
    BY <1>3, <1>4, <1>5, <2>1, AppendQueue
  <2>6. OtherTypes'
    BY <1>1, <1>2, <1>6, <2>1, <2>2, <2>4, <2>5 DEF OtherTypes, engineVars
  <2>7. QueuesOK'
    BY <1>1, <1>2, <1>4, <1>5, <1>6, <2>1, <2>4, <2>5, EmptyQueue DEF QueuesOK, engineVars
  <2> QED
    BY <2>4, <2>6, <2>7, PartsPrimed
<1> QED
  BY <1>13, <1>14

\* The waiting queue after a pass.
LEMMA RequeuedFacts ==
  ASSUME IInv
  PROVE  /\ Requeued \in Seq(Requests) /\ IsInjective(Requeued)
         /\ Members(Requeued) = Members(deferred) \union Members(waiting)
<1>1. /\ waiting \in Seq(Requests) /\ deferred \in Seq(Requests) /\ IsInjective(waiting)
      /\ IsInjective(deferred) /\ Members(deferred) \intersect Members(waiting) = {}
  BY Parts DEF OtherTypes, QueuesOK
<1> QED
  BY <1>1, ConcatQueue DEF Requeued

LEMMA ReturnBatchStep ==
  ASSUME IInv, ReturnBatch, UNCHANGED engineVars
  PROVE  IInv'
<1>1. OtherTypes /\ Sound(pool, req) /\ RequestsOK /\ StepOK /\ QueuesOK
  BY Parts
<1>2. /\ pc = "pass" /\ batch # << >> /\ waiting' = Requeued /\ deferred' = << >> /\ todo' = << >>
      /\ pc' = (IF SpecPositions(req) # {} THEN "logits" ELSE "forward")
      /\ budget' = 0 /\ passes' = 0
      /\ UNCHANGED <<poolVars, req, running, batch, raised, engineVars>>
  BY DEF ReturnBatch, PassOver
<1>3. /\ waiting' \in Seq(Requests) /\ IsInjective(waiting')
      /\ Members(waiting') = Members(deferred) \union Members(waiting)
  BY <1>2, RequeuedFacts
<1>4. SpecPositions(req) = {} => RestPositions(req) # {}
  <2>1. batch \in Seq(Requests) /\ Len(batch) > 0 /\ Len(batch) \in Nat
    BY <1>1, <1>2, NonemptyQueue, LenProperties DEF OtherTypes
  <2>2. batch[1] \in Requests /\ batch[1] \in Members(batch) /\ 1 \in DOMAIN batch
    BY <2>1 DEF Members
  <2>3. req[batch[1]].sched > 0 /\ req[batch[1]] \in RequestType
    BY <1>1, <1>2, <2>2, SoundFacts DEF StepOK
  <2>4. req[batch[1]].drafts = 0 \/ req[batch[1]].drafts > 0
    BY <2>3 DEF RequestType
  <2> QED
    BY <2>2, <2>3, <2>4 DEF SpecPositions, RestPositions
<1>5. OtherTypes'
  BY <1>1, <1>2, <1>3, EmptyQueue DEF OtherTypes, poolVars, engineVars
<1>6. Sound(pool', req') /\ RequestsOK'
  BY <1>1, <1>2 DEF poolVars, RequestsOK
<1>7. StepOK'
  <2>1. (SpecPositions(req) # {})' = (SpecPositions(req) # {})
        /\ (RestPositions(req) # {})' = (RestPositions(req) # {})
    BY <1>2 DEF SpecPositions, RestPositions
  <2> QED
    BY <1>1, <1>2, <1>4, <2>1 DEF StepOK, PassesSuffice, engineVars
<1>8. QueuesOK'
  BY <1>1, <1>2, <1>3, EmptyQueue DEF QueuesOK, engineVars
<1> QED
  BY <1>5, <1>6, <1>7, <1>8, PartsPrimed

LEMMA GiveUpStep ==
  ASSUME IInv, GiveUp, UNCHANGED engineVars
  PROVE  IInv'
<1>1. OtherTypes /\ Sound(pool, req) /\ RequestsOK /\ StepOK /\ QueuesOK
  BY Parts
<1>2. /\ batch = << >> /\ waiting' = Requeued /\ deferred' = << >> /\ todo' = << >>
      /\ pc' = "idle" /\ raised' \in {"pool", "no"} /\ budget' = 0 /\ passes' = 0
      /\ UNCHANGED <<poolVars, req, running, batch, engineVars>>
  BY DEF GiveUp
<1>3. /\ waiting' \in Seq(Requests) /\ IsInjective(waiting')
      /\ Members(waiting') = Members(deferred) \union Members(waiting)
  BY <1>2, RequeuedFacts
<1>4. OtherTypes'
  BY <1>1, <1>2, <1>3, EmptyQueue DEF OtherTypes, poolVars, engineVars
<1>5. Sound(pool', req') /\ RequestsOK'
  BY <1>1, <1>2 DEF poolVars, RequestsOK
<1>6. StepOK'
  BY <1>2, EmptyQueue DEF StepOK, PassesSuffice
<1>7. QueuesOK'
  BY <1>1, <1>2, <1>3, EmptyQueue DEF QueuesOK, engineVars
<1> QED
  BY <1>4, <1>5, <1>6, <1>7, PartsPrimed

LEMMA PreemptStep ==
  ASSUME IInv, Preempt, UNCHANGED engineVars
  PROVE  IInv'
<1> DEFINE r == Last(running)
           q == [Cold(StripSpecDrafts(req[r])) EXCEPT !.status = "waiting"]
<1>1. OtherTypes /\ Sound(pool, req) /\ RequestsOK /\ StepOK /\ QueuesOK
  BY Parts
<1>2. /\ pc = "pass" /\ batch = << >> /\ running # << >>
      /\ req' = [req EXCEPT ![r] = [Cold(StripSpecDrafts(@)) EXCEPT !.status = "waiting"]]
      /\ pool' = Deallocate(pool, req[r].table) /\ kv' = Scrub(kv, pool'.free)
      /\ waiting' = <<r>> \o Requeued /\ running' = Front(running) /\ deferred' = << >>
      /\ passes' = passes - 1 /\ UNCHANGED <<epoch, batch, engineVars>>
  BY DEF Preempt, PassOver
<1>3. /\ running \in Seq(Requests) /\ IsInjective(running) /\ passes \in Nat
      /\ req \in [Requests -> RequestType] /\ Len(running) \in Nat
  BY <1>1, SoundFacts, LenProperties DEF OtherTypes, QueuesOK
<1>4. r \in Requests /\ r \in Members(running) /\ Len(running) > 0
  BY <1>2, <1>3, NonemptyQueue
<1>5. /\ req[r].status = "running" /\ r \in registry /\ r \notin Members(waiting)
      /\ r \notin Members(deferred) /\ req[r] \in RequestType /\ RequestOK(req[r], epoch)
  BY <1>1, <1>3, <1>4 DEF QueuesOK, RequestsOK
<1>6. passes > Len(running) /\ passes > 1
  BY <1>1, <1>2, <1>3, <1>4 DEF StepOK
<1>7. todo' = Front(running) /\ budget' = MaxBatchedTokens /\ UNCHANGED <<pc, raised>>
  BY <1>6 DEF Preempt
<1>8. /\ q \in RequestType /\ q.status = "waiting" /\ q.table = << >> /\ q.drafts = 0
      /\ q.computed = 0
  <2>1. req[r].drafts <= Len(req[r].tokens)
    <3>1. req[r].drafts \in Nat /\ Len(req[r].tokens) \in Nat /\ req[r].computed \in Nat
      BY <1>5, LenProperties DEF RequestType
    <3> QED
      BY <1>5, <3>1 DEF RequestOK
  <2>2. StripSpecDrafts(req[r]) \in RequestType
    BY <1>5, <2>1, StripFacts
  <2>3. PICK c \in RequestType : /\ c = Cold(StripSpecDrafts(req[r])) /\ c.table = << >>
                                 /\ c.drafts = 0 /\ c.computed = 0
    BY <2>2, ColdFacts
  <2> QED
    BY <2>3 DEF RequestType
<1>9. req' = Replaced(req, r, q)
  BY <1>2, <1>3, <1>4 DEF Replaced
<1> HIDE DEF q, r
<1>10. Sound(pool', req')
  <2>1. Sound(Deallocate(pool, req[r].table), Replaced(req, r, q))
    BY <1>1, <1>4, <1>8, SoundDeallocate
  <2> QED
    BY <1>2, <1>9, <2>1
<1>11. RequestsOK'
  <2>1. RequestOK(q, epoch)
    BY <1>8 DEF RequestOK
  <2> QED
    BY <1>1, <1>2, <1>3, <1>4, <1>9, <2>1, OneRequest
<1>12. req'[r] = q /\ \A x \in Requests : x # r => req'[x] = req[x]
  BY <1>3, <1>4, <1>8, <1>9, ReplacedFacts
<1>13. /\ running' \in Seq(Requests) /\ Len(running') = Len(running) - 1
       /\ Members(running') = Members(running) \ {r} /\ IsInjective(running')
  BY <1>2, <1>3, FrontQueue DEF r
<1>14. /\ waiting' \in Seq(Requests) /\ IsInjective(waiting')
       /\ Members(waiting') = {r} \union Members(deferred) \union Members(waiting)
  <2>1. /\ Requeued \in Seq(Requests) /\ IsInjective(Requeued)
        /\ Members(Requeued) = Members(deferred) \union Members(waiting)
    BY RequeuedFacts
  <2>2. <<r>> \in Seq(Requests) /\ Members(<<r>>) = {r} /\ IsInjective(<<r>>)
    BY <1>4 DEF Members, IsInjective
  <2>3. PICK u \in Seq(Requests) : u = <<r>>
    BY <2>2
  <2>4. waiting' = u \o Requeued
    BY <1>2, <2>3
  <2>5. Members(u) = {r} /\ IsInjective(u) /\ Members(u) \intersect Members(Requeued) = {}
    BY <1>5, <2>1, <2>2, <2>3
  <2>6. /\ u \o Requeued \in Seq(Requests) /\ IsInjective(u \o Requeued)
        /\ Members(u \o Requeued) = Members(u) \union Members(Requeued)
    BY <2>1, <2>5, ConcatQueue
  <2> QED
    BY <2>1, <2>4, <2>5, <2>6
<1>15. OtherTypes'
  BY <1>1, <1>2, <1>3, <1>6, <1>7, <1>13, <1>14, EmptyQueue, LimitsAssumption
  DEF OtherTypes, engineVars, Scrub
<1>16. StepOK'
  BY <1>1, <1>2, <1>3, <1>6, <1>7, <1>13, EmptyQueue DEF StepOK, PassesSuffice
<1>17. QueuesOK'
  BY <1>1, <1>2, <1>4, <1>5, <1>7, <1>8, <1>12, <1>13, <1>14, EmptyQueue DEF QueuesOK, engineVars
<1> QED
  BY <1>10, <1>11, <1>15, <1>16, <1>17, PartsPrimed

\* A forward changes pages only.
LEMMA ForwardStep ==
  ASSUME IInv, RunLogits \/ RunForward
  PROVE  IInv'
<1>1. OtherTypes /\ Sound(pool, req) /\ RequestsOK /\ StepOK /\ QueuesOK
  BY Parts
<1>2. /\ DOMAIN kv' = Blocks
      /\ UNCHANGED <<pool, epoch, req, waiting, running, deferred, todo, batch, budget, passes,
                     raised, engineVars>>
      /\ \/ pc = "logits" /\ pc' = "verify"
         \/ pc = "forward" /\ pc' = "commit"
  <2>1. CASE RunLogits
    BY <2>1 DEF RunLogits, Forward, Written
  <2>2. CASE RunForward
    BY <2>2 DEF RunForward, Forward, Written
  <2> QED
    BY <2>1, <2>2
<1>3. OtherTypes'
  BY <1>1, <1>2 DEF OtherTypes, engineVars
<1>4. Sound(pool', req') /\ RequestsOK'
  BY <1>1, <1>2 DEF RequestsOK
<1>5. StepOK'
  <2>1. (SpecPositions(req) # {})' = (SpecPositions(req) # {})
        /\ (RestPositions(req) # {})' = (RestPositions(req) # {})
    BY <1>2 DEF SpecPositions, RestPositions
  <2> QED
    BY <1>1, <1>2, <2>1 DEF StepOK, PassesSuffice, engineVars
<1>6. QueuesOK'
  BY <1>1, <1>2 DEF QueuesOK, engineVars
<1> QED
  BY <1>3, <1>4, <1>5, <1>6, PartsPrimed

LEMMA ForwardFailsStep ==
  ASSUME IInv, ForwardFails
  PROVE  IInv'
<1>1. OtherTypes /\ Sound(pool, req) /\ RequestsOK /\ StepOK /\ QueuesOK
  BY Parts
<1>2. /\ pc \in {"logits", "forward"} /\ pc' = "idle" /\ batch' = << >> /\ fatal' \in BOOLEAN
      /\ UNCHANGED <<pool, epoch, req, waiting, running, deferred, todo, budget, passes,
                     raised, registry, weights, asleep>>
  BY DEF ForwardFails
<1>3. DOMAIN kv' = Blocks
  BY DEF ForwardFails, Written
<1>4. OtherTypes'
  BY <1>1, <1>2, <1>3, EmptyQueue DEF OtherTypes
<1>5. Sound(pool', req') /\ RequestsOK'
  BY <1>1, <1>2 DEF RequestsOK
<1>6. StepOK'
  BY <1>1, <1>2, EmptyQueue DEF StepOK, PassesSuffice
<1>7. QueuesOK'
  BY <1>1, <1>2 DEF QueuesOK
<1> QED
  BY <1>4, <1>5, <1>6, <1>7, PartsPrimed

\* A request that finished gave its table back before the step returns.
LEMMA ReturnStep ==
  ASSUME IInv, Return
  PROVE  IInv'
<1> DEFINE S == {r \in Members(batch) : req[r].status = "finished"}
<1>1. OtherTypes /\ Sound(pool, req) /\ RequestsOK /\ StepOK /\ QueuesOK
  BY Parts
<1>2. /\ pc = "return" /\ registry' = registry \ S
      /\ req' = [r \in Requests |-> IF r \in S THEN Gone ELSE req[r]]
      /\ batch' = << >> /\ pc' = "idle"
      /\ UNCHANGED <<poolVars, waiting, running, deferred, todo, budget, passes, raised,
                     weights, asleep, fatal>>
  BY DEF Return
<1>3. /\ Gone \in RequestType /\ Gone.table = << >> /\ Gone.status = "gone" /\ Gone.drafts = 0
  BY EmptySeq DEF Gone, NoRequest, RequestType, ROOT_HASH
<1>4. req \in [Requests -> RequestType] /\ pool \in PoolOf(Seq(Tokens))
  BY <1>1, SoundFacts
<1>5. \A r \in Requests : r \in S => req[r].status = "finished" /\ req[r].table = << >>
  BY <1>1 DEF RequestsOK, RequestOK
<1> HIDE DEF S
<1>6. /\ req' \in [Requests -> RequestType]
      /\ \A r \in Requests : /\ req'[r] = (IF r \in S THEN Gone ELSE req[r])
                             /\ req'[r].table = req[r].table
  BY <1>2, <1>3, <1>4, <1>5
<1>7. Sound(pool', req')
  <2>1. TablesOf(req') = TablesOf(req) /\ pool' = pool
    BY <1>2, <1>6 DEF TablesOf, poolVars
  <2>2. Private(pool, req')
    <3> SUFFICES ASSUME NEW r \in Requests, NEW i \in DOMAIN req'[r].table,
                        i > req'[r].computed \div BlockSize
                 PROVE  pool.ref[req'[r].table[i]] = 1
      BY DEF Private
    <3>1. r \notin S
      BY <1>3, <1>6
    <3>2. req'[r] = req[r]
      BY <1>6, <3>1
    <3> QED
      BY <1>1, <3>2 DEF Sound, Private
  <2> QED
    BY <1>1, <1>6, <2>1, <2>2 DEF Sound
<1>8. RequestsOK'
  BY <1>1, <1>2, <1>3, <1>6 DEF RequestsOK, RequestOK, poolVars
<1>9. OtherTypes'
  BY <1>1, <1>2, EmptyQueue DEF OtherTypes, poolVars
<1>10. StepOK'
  BY <1>1, <1>2, EmptyQueue DEF StepOK, PassesSuffice
<1>11. QueuesOK'
  BY <1>1, <1>2, <1>3, <1>5, <1>6 DEF QueuesOK
<1> QED
  BY <1>7, <1>8, <1>9, <1>10, <1>11, PartsPrimed

(***************************************************************************)
(* Weight updates, sleep and wake-up.                                      *)
(***************************************************************************)
\* No request keeps a table or drafts through an invalidation.
LEMMA ColdEverywhere ==
  ASSUME IInv
  PROVE  /\ AllCold \in [Requests -> RequestType] /\ Parked(AllCold) \in [Requests -> RequestType]
         /\ \A r \in Requests :
              /\ AllCold[r].table = << >> /\ AllCold[r].drafts = 0
              /\ AllCold[r].status = req[r].status
              /\ Parked(AllCold)[r].table = << >> /\ Parked(AllCold)[r].drafts = 0
              /\ Parked(AllCold)[r].status = (IF r \in registry THEN "paused" ELSE req[r].status)
<1>1. Sound(pool, req) /\ RequestsOK /\ QueuesOK
  BY Parts
<1>2. req \in [Requests -> RequestType]
  BY <1>1, SoundFacts
<1>3. ASSUME NEW r \in Requests, r \notin registry
      PROVE  req[r].table = << >> /\ req[r].drafts = 0
  BY <1>1, <1>2, <1>3 DEF QueuesOK, RequestsOK, RequestOK, RequestType
<1>4. \A r \in Requests : /\ Cold(req[r]) \in RequestType /\ Cold(req[r]).table = << >>
                          /\ Cold(req[r]).drafts = 0 /\ Cold(req[r]).status = req[r].status
  BY <1>2, ColdFacts
<1>5. /\ AllCold \in [Requests -> RequestType]
      /\ \A r \in Requests : /\ AllCold[r].table = << >> /\ AllCold[r].drafts = 0
                             /\ AllCold[r].status = req[r].status
  BY <1>2, <1>3, <1>4 DEF AllCold
<1>6. \A r \in Requests : /\ Cold(AllCold[r]) \in RequestType /\ Cold(AllCold[r]).table = << >>
                          /\ Cold(AllCold[r]).drafts = 0
  BY <1>5, ColdFacts
<1> DEFINE K(r) == [Cold(AllCold[r]) EXCEPT !.status = "paused"]
<1>7. \A r \in Requests : /\ K(r) \in RequestType /\ K(r).table = << >>
                          /\ K(r).drafts = 0 /\ K(r).status = "paused"
  <2> SUFFICES ASSUME NEW r \in Requests
               PROVE  /\ K(r) \in RequestType /\ K(r).table = << >>
                      /\ K(r).drafts = 0 /\ K(r).status = "paused"
    OBVIOUS
  <2>1. PICK c \in RequestType : c = Cold(AllCold[r]) /\ c.table = << >> /\ c.drafts = 0
    BY <1>6
  <2> QED
    BY <2>1 DEF RequestType
<1>8. Parked(AllCold) = [r \in Requests |-> IF r \in registry THEN K(r) ELSE AllCold[r]]
  BY DEF Parked
<1> HIDE DEF K
<1> QED
  BY <1>5, <1>7, <1>8

\* The pool is reset and every request is cold.
LEMMA ResetStep ==
  ASSUME IInv, pc = "idle", NEW n \in Nat, ResetPool(n), UNCHANGED <<stepVars, registry>>,
         \/ req' = Parked(AllCold) /\ waiting' = << >> /\ running' = << >>
         \/ req' = AllCold /\ UNCHANGED <<waiting, running>>,
         weights' \in Nat, asleep' \in BOOLEAN, fatal' \in BOOLEAN
  PROVE  IInv'
<1>1. OtherTypes /\ StepOK /\ QueuesOK
  BY Parts
<1>2. pool' = EmptyPool /\ epoch' = epoch + n /\ DOMAIN kv' = Blocks
  BY DEF ResetPool, Scrub
<1>3. /\ req' \in [Requests -> RequestType]
      /\ \A r \in Requests : req'[r].table = << >> /\ req'[r].drafts = 0
  BY ColdEverywhere
<1>4. deferred = << >> /\ batch = << >> /\ todo = << >>
  BY <1>1 DEF StepOK
<1>5. Sound(pool', req')
  BY <1>2, <1>3, SoundReset
<1>6. RequestsOK'
  BY <1>3 DEF RequestsOK, RequestOK
<1>7. OtherTypes'
  <2>1. waiting' \in Seq(Requests) /\ running' \in Seq(Requests)
    BY <1>1, EmptyQueue DEF OtherTypes
  <2>2. epoch' \in Nat
    BY <1>1, <1>2 DEF OtherTypes
  <2> QED
    BY <1>1, <1>2, <2>1, <2>2 DEF OtherTypes, stepVars
<1>8. StepOK'
  BY <1>1, <1>4, EmptyQueue DEF StepOK, PassesSuffice, stepVars
<1>9. QueuesOK'
  <2>1. CASE req' = Parked(AllCold) /\ waiting' = << >> /\ running' = << >>
    <3>1. \A r \in Requests :
            req'[r].status = (IF r \in registry THEN "paused" ELSE req[r].status)
      BY <2>1, ColdEverywhere
    <3> QED
      BY <1>1, <1>3, <1>4, <2>1, <3>1, EmptyQueue DEF QueuesOK, stepVars
  <2>2. CASE req' = AllCold /\ UNCHANGED <<waiting, running>>
    <3>1. \A r \in Requests : req'[r].status = req[r].status
      BY <2>2, ColdEverywhere
    <3> QED
      BY <1>1, <1>3, <1>4, <2>2, <3>1 DEF QueuesOK, stepVars
  <2> QED
    BY <2>1, <2>2
<1> QED
  BY <1>5, <1>6, <1>7, <1>8, <1>9, PartsPrimed

LEMMA UpdateWeightsStep ==
  ASSUME IInv, UpdateWeights
  PROVE  IInv'
<1>1. /\ weights \in Nat /\ asleep \in BOOLEAN /\ fatal \in BOOLEAN
  BY Parts DEF OtherTypes
<1>2. /\ pc = "idle" /\ ResetPool(1) /\ weights' = weights + 1
      /\ UNCHANGED <<stepVars, registry, asleep, fatal>>
      /\ \/ req' = Parked(AllCold) /\ waiting' = << >> /\ running' = << >>
         \/ req' = AllCold /\ UNCHANGED <<waiting, running>>
  BY DEF UpdateWeights
<1>3. weights' \in Nat /\ asleep' \in BOOLEAN /\ fatal' \in BOOLEAN
  BY <1>1, <1>2
<1> QED
  BY <1>2, <1>3, ResetStep

LEMMA SleepStep ==
  ASSUME IInv, Sleep
  PROVE  IInv'
<1>1. /\ weights \in Nat /\ fatal \in BOOLEAN
  BY Parts DEF OtherTypes
<1>2. /\ pc = "idle" /\ ResetPool(2) /\ asleep' = TRUE
      /\ UNCHANGED <<stepVars, registry, weights, fatal>>
      /\ req' = Parked(AllCold) /\ waiting' = << >> /\ running' = << >>
  BY DEF Sleep
<1>3. weights' \in Nat /\ asleep' \in BOOLEAN /\ fatal' \in BOOLEAN
  BY <1>1, <1>2
<1> QED
  BY <1>2, <1>3, ResetStep

LEMMA WakeUpStep ==
  ASSUME IInv, WakeUp
  PROVE  IInv'
<1>1. OtherTypes /\ Sound(pool, req) /\ RequestsOK /\ StepOK /\ QueuesOK
  BY Parts
<1>2. /\ DOMAIN kv' = Blocks /\ asleep' = FALSE
      /\ UNCHANGED <<pool, epoch, schedVars, registry, weights, fatal>>
  BY DEF WakeUp, Scrub
<1>3. OtherTypes'
  BY <1>1, <1>2 DEF OtherTypes, schedVars, stepVars
<1>4. Sound(pool', req') /\ RequestsOK'
  BY <1>1, <1>2 DEF RequestsOK, schedVars
<1>5. StepOK' /\ QueuesOK'
  BY <1>1, <1>2 DEF StepOK, PassesSuffice, SpecPositions, RestPositions, QueuesOK, schedVars, stepVars
<1> QED
  BY <1>3, <1>4, <1>5, PartsPrimed

LEMMA ResetPrefixCacheStep ==
  ASSUME IInv, ResetPrefixCache
  PROVE  IInv'
<1>1. OtherTypes /\ Sound(pool, req) /\ RequestsOK /\ StepOK /\ QueuesOK
  BY Parts
<1>2. DOMAIN kv' = Blocks /\ UNCHANGED <<epoch, schedVars, engineVars>>
  BY DEF ResetPrefixCache, Scrub
<1>3. PICK V \in Victims(pool, Cardinality(pool.cache)) : pool' = EvictUnused(pool, V)
  BY DEF ResetPrefixCache
<1>4. Sound(EvictUnused(pool, V), req)
  BY <1>1, SoundEvict
<1>5. Sound(pool', req') /\ RequestsOK'
  BY <1>1, <1>2, <1>3, <1>4 DEF RequestsOK, schedVars
<1>6. OtherTypes'
  BY <1>1, <1>2 DEF OtherTypes, schedVars, stepVars, engineVars
<1>7. StepOK' /\ QueuesOK'
  BY <1>1, <1>2
  DEF StepOK, PassesSuffice, SpecPositions, RestPositions, QueuesOK, schedVars, stepVars, engineVars
<1> QED
  BY <1>5, <1>6, <1>7, PartsPrimed

(***************************************************************************)
(* Verification and commit.                                                *)
(***************************************************************************)
\* _complete_if_done: a request whose tokens of this step are accounted for
\* goes on, is paused with its KV, or finishes and gives it back.
LEMMA SettleStep ==
  ASSUME IInv, pc \in {"verify", "commit"}, NEW r \in Requests, req[r].status = "running",
         NEW q \in RequestType, q.drafts = 0, q.sched = 0, q.computed > 0,
         q.table # << >> => q.kvEpoch = epoch,
         NEW P, Sound(P, Replaced(req, r, q)),
         NEW o \in {"running", "paused", "finished"}, Settle(r, q, P, o),
         pc' = AfterVerify(req') \/ pc' = AfterCommit(req'),
         UNCHANGED <<epoch, waiting, deferred, todo, batch, budget, passes, raised, engineVars>>
  PROVE  IInv'
<1> DEFINE w == [q EXCEPT !.status = o, !.table = IF o = "finished" THEN << >> ELSE @]
           R == Replaced(req, r, q)
<1>1. OtherTypes /\ Sound(pool, req) /\ RequestsOK /\ StepOK /\ QueuesOK
  BY Parts
<1>2. /\ req \in [Requests -> RequestType] /\ running \in Seq(Requests) /\ IsInjective(running)
      /\ r \in registry /\ deferred = << >> /\ todo = << >>
  BY <1>1, SoundFacts DEF OtherTypes, QueuesOK, StepOK
<1>3. /\ w \in RequestType /\ w.status = o /\ w.drafts = 0 /\ w.sched = 0 /\ w.computed = q.computed
      /\ w.kvEpoch = q.kvEpoch /\ w.table = (IF o = "finished" THEN << >> ELSE q.table)
  BY EmptySeq DEF RequestType
<1>4. /\ req' = Replaced(req, r, w) /\ kv' = Scrub(kv, pool'.free)
      /\ pool' = (IF o = "finished" THEN Deallocate(P, q.table) ELSE P)
      /\ running' = (IF o = "running" THEN running ELSE Without(running, r))
  BY DEF Settle, Replaced
<1> HIDE DEF w
<1>5. R[r] = q /\ Replaced(R, r, w) = Replaced(req, r, w)
  BY <1>2 DEF Replaced
<1>6. Sound(pool', req')
  <2>1. Sound(P, R)
    OBVIOUS
  <2> HIDE DEF R
  <2>2. CASE o = "finished"
    <3>1. w.table = << >>
      BY <1>3, <2>2
    <3>2. Sound(Deallocate(P, R[r].table), Replaced(R, r, w))
      BY <1>3, <2>1, <3>1, SoundDeallocate
    <3> QED
      BY <1>4, <1>5, <2>2, <3>2
  <2>3. CASE o # "finished"
    <3>1. w.table = R[r].table /\ w.computed >= R[r].computed
      BY <1>3, <1>5, <2>3 DEF RequestType
    <3>2. Sound(P, Replaced(R, r, w))
      BY <1>3, <2>1, <3>1, SoundSame
    <3> QED
      BY <1>4, <1>5, <2>3, <3>2
  <2> QED
    BY <2>2, <2>3
<1>7. RequestsOK'
  <2>1. RequestOK(w, epoch)
    BY <1>3 DEF RequestOK
  <2> QED
    BY <1>1, <1>2, <1>4, <2>1, OneRequest
<1>8. req'[r] = w /\ \A x \in Requests : x # r => req'[x] = req[x]
  BY <1>2, <1>3, <1>4, ReplacedFacts
<1>9. /\ running' \in Seq(Requests) /\ IsInjective(running')
      /\ Members(running') = (IF o = "running" THEN Members(running) ELSE Members(running) \ {r})
  BY <1>2, <1>4, WithoutQueue
<1>10. /\ pc' \in {"verify", "forward", "commit", "return"}
       /\ pc' = "verify" => SpecPositions(req') # {}
       /\ pc' \in {"forward", "commit"} => RestPositions(req') # {}
  BY DEF AfterVerify, AfterCommit
<1>11. OtherTypes'
  BY <1>1, <1>4, <1>9, <1>10 DEF OtherTypes, engineVars, Scrub
<1>12. StepOK'
  <2>1. SpecPositions(req)' = SpecPositions(req') /\ RestPositions(req)' = RestPositions(req')
    BY DEF SpecPositions, RestPositions
  <2>2. Members(batch) \subseteq Requests
    BY <1>1, MembersType DEF OtherTypes
  <2> QED
    BY <1>1, <1>2, <1>3, <1>8, <1>10, <2>1, <2>2 DEF StepOK, PassesSuffice, engineVars
<1>13. QueuesOK'
  BY <1>1, <1>2, <1>3, <1>8, <1>9, EmptyQueue DEF QueuesOK, engineVars
<1> QED
  BY <1>6, <1>7, <1>11, <1>12, <1>13, PartsPrimed

\* publish_full_blocks of a request that is considered as c.
LEMMA PublishedSound ==
  ASSUME NEW P, NEW r \in Requests, NEW c \in RequestType,
         Sound(P, Replaced(req, r, c)), req \in [Requests -> RequestType],
         NEW q \in RequestType, q.table = c.table, q.computed = c.computed
  PROVE  Sound(PublishPool(P, c), Replaced(req, r, q))
<1> DEFINE R == Replaced(req, r, c)
<1>1. R[r] = c /\ Replaced(R, r, q) = Replaced(req, r, q) /\ Sound(P, R)
  BY DEF Replaced
<1> HIDE DEF R
<1>2. Sound(PublishPool(P, R[r]), R)
  BY <1>1, SoundPublish
<1>3. q.table = R[r].table /\ q.computed >= R[r].computed
  BY <1>1 DEF RequestType
<1>4. Sound(PublishPool(P, R[r]), Replaced(R, r, q))
  BY <1>2, <1>3, SoundSame
<1> QED
  BY <1>1, <1>4

\* How a turn may end.
LEMMA OutcomesType == \A q : Outcomes(q) \subseteq {"running", "paused", "finished"}
  BY DEF Outcomes

LEMMA VerifySpecStep ==
  ASSUME IInv, VerifySpec
  PROVE  IInv'
<1> DEFINE i == First(SpecPositions(req))
           r == batch[i]
           q == req[r]
<1>1. OtherTypes /\ Sound(pool, req) /\ RequestsOK /\ StepOK /\ QueuesOK
  BY Parts
<1>2. /\ pc = "verify" /\ pc' = AfterVerify(req')
      /\ UNCHANGED <<epoch, waiting, deferred, todo, batch, budget, passes, raised, engineVars>>
  BY DEF VerifySpec
<1>3. batch \in Seq(Requests) /\ req \in [Requests -> RequestType]
  BY <1>1, SoundFacts DEF OtherTypes
<1>4. i \in SpecPositions(req)
  <2>1. SpecPositions(req) \in SUBSET Nat /\ SpecPositions(req) # {}
    BY <1>1, <1>2, <1>3 DEF StepOK, SpecPositions
  <2> QED
    BY <2>1, FirstIsLeast
<1> HIDE DEF i
<1>5. r \in Requests /\ r \in Members(batch) /\ q.drafts > 0 /\ q \in RequestType
  BY <1>3, <1>4 DEF SpecPositions, Members
<1>6. /\ q.status = "running" /\ q.table # << >> /\ q.kvEpoch = epoch
      /\ Len(q.tokens) = q.computed + 1 + q.drafts
  BY <1>1, <1>5 DEF StepOK, RequestsOK, RequestOK
<1>7. PICK e \in Emissions(Drafts(q), Room(q)) :
        LET c == CommitSpec(q, e)
            P == TruncatePool(pool, q, c.computed)
        IN  \E o \in Outcomes(c) : Settle(r, Published(c), PublishPool(P, c), o)
  BY DEF VerifySpec, i
<1> DEFINE c == CommitSpec(q, e)
           P == TruncatePool(pool, q, c.computed)
<1>8. PICK o \in Outcomes(c) : Settle(r, Published(c), PublishPool(P, c), o)
  BY <1>7
<1> HIDE DEF r
<1>9. e \in Seq(Tokens) /\ Len(e) > 0
  <2>1. e \in TokenLists(1..Lesser(Len(Drafts(q)) + 1, Room(q)))
    BY <1>7 DEF Emissions
  <2>2. PICK D \in {[1..k -> Tokens] : k \in 1..Lesser(Len(Drafts(q)) + 1, Room(q))} : e \in D
    BY <2>1 DEF TokenLists
  <2>3. PICK k \in 1..Lesser(Len(Drafts(q)) + 1, Room(q)) : e \in [1..k -> Tokens]
    BY <2>2
  <2> QED
    BY <2>3
<1>10. /\ c \in RequestType
       /\ c.computed \in Nat /\ c.computed >= q.computed /\ c.computed > 0 /\ c.drafts = 0
       /\ c.sched = 0 /\ c.status = q.status /\ c.kvEpoch = q.kvEpoch
       /\ KeptBlocks(q, c.computed) \in 0..Len(q.table)
       /\ c.table = SubSeq(q.table, 1, KeptBlocks(q, c.computed))
  BY <1>5, <1>6, <1>9, CommitSpecFacts
<1> HIDE DEF c
<1>11. Sound(P, Replaced(req, r, c))
  <2> DEFINE k == KeptBlocks(q, c.computed)
  <2>1. Sound(Deallocate(pool, SubSeq(req[r].table, k + 1, Len(req[r].table))), Replaced(req, r, c))
    <3>1. k \in 0..Len(req[r].table) /\ c.table = SubSeq(req[r].table, 1, k)
          /\ c.computed >= req[r].computed
      BY <1>10
    <3> HIDE DEF k
    <3> QED
      BY <1>1, <1>5, <1>10, <3>1, SoundCut
  <2> QED
    BY <2>1 DEF TruncatePool
<1> HIDE DEF P
<1>12. PICK p \in RequestType :
         /\ p = Published(c) /\ p.table = c.table /\ p.computed = c.computed /\ p.drafts = 0
         /\ p.sched = 0 /\ p.kvEpoch = c.kvEpoch
  BY <1>10, PublishedFacts
<1>13. Sound(PublishPool(P, c), Replaced(req, r, p))
  BY <1>3, <1>5, <1>10, <1>11, <1>12, PublishedSound
<1>14. o \in {"running", "paused", "finished"}
  BY <1>8, OutcomesType
<1>15. p.computed > 0 /\ p.kvEpoch = epoch /\ Settle(r, p, PublishPool(P, c), o)
  BY <1>6, <1>8, <1>10, <1>12
<1>16. p.drafts = 0 /\ p.sched = 0 /\ req[r].status = "running" /\ pc \in {"verify", "commit"}
  BY <1>2, <1>6, <1>12
<1> QED
  BY <1>2, <1>5, <1>13, <1>14, <1>15, <1>16, SettleStep

LEMMA PostprocessStep ==
  ASSUME IInv, Postprocess
  PROVE  IInv'
<1> DEFINE i == First(RestPositions(req))
           r == batch[i]
           c == Advanced(req[r])
           q == Published(c)
           P == PublishPool(pool, c)
<1>1. OtherTypes /\ Sound(pool, req) /\ RequestsOK /\ StepOK /\ QueuesOK
  BY Parts
<1>2. /\ pc = "commit" /\ pc' = AfterCommit(req')
      /\ UNCHANGED <<epoch, waiting, deferred, todo, batch, budget, passes, raised, engineVars>>
  BY DEF Postprocess
<1>3. batch \in Seq(Requests) /\ req \in [Requests -> RequestType]
  BY <1>1, SoundFacts DEF OtherTypes
<1>4. i \in RestPositions(req)
  <2>1. RestPositions(req) \in SUBSET Nat /\ RestPositions(req) # {}
    BY <1>1, <1>2, <1>3 DEF StepOK, RestPositions
  <2> QED
    BY <2>1, FirstIsLeast
<1> HIDE DEF i
<1>5. /\ r \in Requests /\ r \in Members(batch) /\ req[r].drafts = 0 /\ req[r].sched > 0
      /\ req[r] \in RequestType
  BY <1>3, <1>4 DEF RestPositions, Members
<1>6. req[r].status = "running" /\ (req[r].table # << >> => req[r].kvEpoch = epoch)
  BY <1>1, <1>5 DEF StepOK, RequestsOK, RequestOK
<1>7. \/ Settle(r, q, P, "running")
      \/ \E t \in Tokens : \E o \in Outcomes(Sampled(q, t)) : Settle(r, Sampled(q, t), P, o)
  BY DEF Postprocess, i
<1> HIDE DEF r
<1>8. /\ c \in RequestType /\ c.computed = req[r].computed + req[r].sched /\ c.sched = 0
      /\ c.table = req[r].table /\ c.drafts = 0 /\ c.kvEpoch = req[r].kvEpoch
  BY <1>5, AdvancedFacts
<1>9. c.computed > 0 /\ c.computed >= req[r].computed
  BY <1>5, <1>8, SMTT(20) DEF RequestType
<1> HIDE DEF c
<1>10. Sound(pool, Replaced(req, r, c))
  BY <1>1, <1>5, <1>8, <1>9, SoundSame
<1>11. /\ q \in RequestType /\ q.table = c.table /\ q.computed = c.computed /\ q.drafts = 0
       /\ q.sched = 0 /\ q.kvEpoch = c.kvEpoch
  BY <1>8, PublishedFacts
<1> HIDE DEF q
<1>12. ASSUME NEW s \in RequestType, s.table = c.table, s.computed = c.computed, s.drafts = 0,
              s.sched = 0, s.kvEpoch = c.kvEpoch,
              NEW o \in {"running", "paused", "finished"}, Settle(r, s, P, o)
       PROVE  IInv'
  <2>1. Sound(P, Replaced(req, r, s))
    BY <1>3, <1>5, <1>8, <1>10, <1>12, PublishedSound
  <2> HIDE DEF P
  <2>2. s.computed > 0 /\ (s.table # << >> => s.kvEpoch = epoch) /\ pc \in {"verify", "commit"}
    BY <1>2, <1>6, <1>8, <1>9, <1>12
  <2> QED
    BY <1>2, <1>5, <1>6, <1>12, <2>1, <2>2, SettleStep
<1>13. CASE Settle(r, q, P, "running")
  BY <1>11, <1>12, <1>13
<1>14. ASSUME NEW t \in Tokens, NEW o \in Outcomes(Sampled(q, t)), Settle(r, Sampled(q, t), P, o)
       PROVE  IInv'
  <2>1. PICK s \in RequestType :
          /\ s = Sampled(q, t) /\ s.table = c.table /\ s.computed = c.computed /\ s.drafts = 0
          /\ s.sched = 0 /\ s.kvEpoch = c.kvEpoch
    BY <1>11, SampledFacts
  <2>2. o \in {"running", "paused", "finished"} /\ Settle(r, s, P, o)
    BY <1>14, <2>1, OutcomesType
  <2> QED
    BY <1>12, <2>1, <2>2
<1> QED
  BY <1>7, <1>13, <1>14

(***************************************************************************)
(* The theorems.                                                           *)
(***************************************************************************)
\* Every step of the engine, and every stutter, keeps the invariant.
LEMMA NextInvariant == IInv /\ [Next]_vars => IInv'
<1> SUFFICES ASSUME IInv, [Next]_vars PROVE IInv'
  OBVIOUS
<1>1. CASE UNCHANGED vars
  <2>1. OtherTypes /\ Sound(pool, req) /\ RequestsOK /\ StepOK /\ QueuesOK
    BY Parts
  <2>2. UNCHANGED <<pool, epoch, kv, req, waiting, running, deferred, todo, batch, budget,
                    passes, pc, raised, registry, weights, asleep, fatal>>
    BY <1>1 DEF vars, poolVars, schedVars, stepVars
  <2>3. OtherTypes' /\ Sound(pool', req') /\ RequestsOK' /\ QueuesOK'
    BY <2>1, <2>2 DEF OtherTypes, RequestsOK, QueuesOK
  <2>4. StepOK'
    BY <2>1, <2>2 DEF StepOK, PassesSuffice, SpecPositions, RestPositions
  <2> QED
    BY <2>3, <2>4, PartsPrimed
<1>2. ASSUME NEW r \in Requests, NEW m \in MaxTokens, NEW h \in Holds,
             NEW p \in TokenLists(PromptLengths), AddRequest(r, p, m, h)
      PROVE  IInv'
  BY <1>2, AddRequestStep
<1>3. ASSUME NEW r \in Requests, NEW m \in MaxTokens, NEW h \in Holds,
             NEW s \in TokenLists(SuffixLengths), ResumeRequest(r, s, m, h)
      PROVE  IInv'
  BY <1>3, ResumeRequestStep
<1>4. ASSUME NEW r \in Requests, FinishRequest(r)
      PROVE  IInv'
  BY <1>4, FinishRequestStep
<1>5. CASE AbortGeneration
  BY <1>5, AbortGenerationStep
<1>6. CASE Step
  <2>1. CASE StartStep
    BY <2>1, StartStepStep
  <2>2. CASE Schedule
    <3>1. UNCHANGED engineVars
      BY <2>2 DEF Schedule
    <3> QED
      BY <2>2, <3>1, ConsiderRunningStep, ConsiderWaitingStep, ReturnBatchStep, PreemptStep,
         GiveUpStep DEF Schedule
  <2>3. CASE RunLogits \/ RunForward
    BY <2>3, ForwardStep
  <2>4. CASE VerifySpec
    BY <2>4, VerifySpecStep
  <2>5. CASE Postprocess
    BY <2>5, PostprocessStep
  <2>6. CASE Return
    BY <2>6, ReturnStep
  <2> QED
    BY <1>6, <2>1, <2>2, <2>3, <2>4, <2>5, <2>6 DEF Step
<1>7. CASE ForwardFails
  BY <1>7, ForwardFailsStep
<1>8. CASE UpdateWeights
  BY <1>8, UpdateWeightsStep
<1>9. CASE Sleep
  BY <1>9, SleepStep
<1>10. CASE WakeUp
  BY <1>10, WakeUpStep
<1>11. CASE ResetPrefixCache
  BY <1>11, ResetPrefixCacheStep
<1> QED
  BY <1>1, <1>2, <1>3, <1>4, <1>5, <1>6, <1>7, <1>8, <1>9, <1>10, <1>11 DEF Next

\* The inductive invariant holds in every state of every behaviour of the
\* engine, with or without failing forwards and updates.
THEOREM Invariance == Spec => []IInv
<1> QED
  BY InitInvariant, NextInvariant, PTL DEF Spec

\* Every variable keeps its type; _decref never underflows a count.
THEOREM TypeCorrect == Spec => []TypeOK
<1>1. IInv => TypeOK
  BY DEF IInv
<1> QED
  BY <1>1, Invariance, PTL

\* A block's reference count is the number of table slots and cached copies
\* that name it.
THEOREM ReferenceCountsExact == Spec => []RefExact
<1>1. IInv => RefExact
  BY DEF IInv, PoolOK
<1> QED
  BY <1>1, Invariance, PTL

\* The free list is exactly the unreferenced blocks: no block is handed out
\* while something uses it, and none leaks.
THEOREM FreeListExact == Spec => []FreeExact
<1>1. IInv => FreeExact
  BY DEF IInv, PoolOK
<1> QED
  BY <1>1, Invariance, PTL

\* What the next tokens of a live request are written to is its own.
THEOREM WritesArePrivate == Spec => []WriteSpanPrivate
<1>1. IInv => WriteSpanPrivate
  BY DEF IInv, PoolOK, Private, WriteSpanPrivate
<1> QED
  BY <1>1, Invariance, PTL

\* schedule() never runs out of passes.
THEOREM PassesAlwaysSuffice == Spec => []PassesSuffice
<1>1. IInv => PassesSuffice
  BY DEF IInv, StepOK
<1> QED
  BY <1>1, Invariance, PTL

\* resume_request never meets a stale table.
THEOREM HeldTablesAreResumable == Spec => []HeldTablesResumable
<1>1. IInv => HeldTablesResumable
  <2> SUFFICES ASSUME IInv, NEW r \in registry, req[r].status = "paused", req[r].table # << >>
               PROVE  req[r].kvEpoch = epoch /\ req[r].computed # 0
    BY DEF HeldTablesResumable, StaleTable
  <2>1. r \in Requests
    BY DEF IInv, TypeOK
  <2>2. req[r].kvEpoch = epoch /\ req[r].computed > 0
    BY <2>1 DEF IInv, RequestsOK, RequestOK
  <2> QED
    BY <2>2
<1> QED
  BY <1>1, Invariance, PTL

\* Between steps a request is queued once, where its status says, or not at
\* all.
THEOREM QueuesAreExact == Spec => []QueuesExact
<1> DEFINE At(s, r) == {i \in DOMAIN s : s[i] = r}
           Places(r) == At(waiting, r) \union {-i : i \in At(running, r)}
<1>1. ASSUME NEW s \in Seq(Requests), IsInjective(s), NEW r
      PROVE  /\ r \in Members(s) => \E k \in Nat : At(s, r) = {k}
             /\ r \notin Members(s) => At(s, r) = {}
  BY <1>1 DEF Members, IsInjective
<1>2. IInv => QueuesExact
  <2> SUFFICES ASSUME IInv, pc = "idle", NEW r \in Requests
               PROVE  /\ req[r].status = "waiting" =>
                           Cardinality(Places(r)) = 1 /\ r \in Members(waiting)
                      /\ req[r].status = "running" =>
                           Cardinality(Places(r)) = 1 /\ r \in Members(running)
                      /\ ~(req[r].status \in {"waiting", "running"}) =>
                           Cardinality(Places(r)) = 0
                      /\ ~(r \in registry) => req[r].table = << >>
    BY DEF QueuesExact
  <2>1. /\ waiting \in Seq(Requests) /\ running \in Seq(Requests) /\ deferred = << >>
        /\ IsInjective(waiting) /\ IsInjective(running)
    BY DEF IInv, TypeOK, StepOK, QueuesOK
  <2>2. /\ req[r].status = "waiting" <=> r \in Members(waiting)
        /\ req[r].status = "running" <=> r \in Members(running)
        /\ r \notin registry => req[r].table = << >>
    BY <2>1, EmptyQueue DEF IInv, QueuesOK
  <2>3. /\ r \in Members(waiting) => \E k \in Nat : At(waiting, r) = {k}
        /\ r \notin Members(waiting) => At(waiting, r) = {}
        /\ r \in Members(running) => \E k \in Nat : At(running, r) = {k}
        /\ r \notin Members(running) => At(running, r) = {}
    BY <1>1, <2>1
  <2> HIDE DEF At
  <2>4. CASE req[r].status = "waiting"
    <3>1. PICK k \in Nat : At(waiting, r) = {k}
      BY <2>2, <2>3, <2>4
    <3>2. At(running, r) = {}
      BY <2>2, <2>3, <2>4
    <3>3. Places(r) = {k}
      BY <3>1, <3>2
    <3> QED
      BY <2>2, <2>4, <3>3, FS_Singleton
  <2>5. CASE req[r].status = "running"
    <3>1. PICK k \in Nat : At(running, r) = {k}
      BY <2>2, <2>3, <2>5
    <3>2. At(waiting, r) = {}
      BY <2>2, <2>3, <2>5
    <3>3. Places(r) = {-k}
      BY <3>1, <3>2
    <3> QED
      BY <2>2, <2>5, <3>3, FS_Singleton
  <2>6. CASE ~(req[r].status \in {"waiting", "running"})
    <3>1. Places(r) = {}
      BY <2>2, <2>3, <2>6
    <3> QED
      BY <2>2, <2>6, <3>1, FS_EmptySet
  <2> QED
    BY <2>4, <2>5, <2>6
<1> QED
  BY <1>2, Invariance, PTL
=============================================================================
