------------------------- MODULE BlockManagerProofs -------------------------
(***************************************************************************)
(* What the operations of BlockManager do to the count of references.      *)
(*                                                                         *)
(* R is the set of requests and T the family of their block tables.  The   *)
(* pool P is exact for T when every reference count is the number of table *)
(* slots and cached copies of the block, and the free list is the set of   *)
(* blocks with none.  Each operation that changes a table is shown to keep *)
(* the pool exact for the changed family.                                  *)
(***************************************************************************)
EXTENDS BlockManager, FiniteSetTheorems, SequenceTheorems, TLAPS

PoolOf(H) ==
  [free : SUBSET Blocks, ref : [Blocks -> Nat], cache : SUBSET (H \X Blocks)]

Exact(P, T) ==
  /\ IsFiniteSet(P.cache)
  /\ \A b \in Blocks : P.ref[b] = Held(T, b) + Copies(P.cache, b)
  /\ P.free = {b \in Blocks : P.ref[b] = 0}

(***************************************************************************)
(* Counting.                                                               *)
(***************************************************************************)
\* The occurrences of a block in a table are finitely many.
LEMMA OccNat ==
  ASSUME NEW t \in Seq(Blocks), NEW b
  PROVE  /\ IsFiniteSet({i \in DOMAIN t : t[i] = b})
         /\ Occ(t, b) \in Nat
         /\ (\E i \in DOMAIN t : t[i] = b) <=> Occ(t, b) > 0
<1>1. IsFiniteSet(DOMAIN t)
  BY LenProperties, FS_Interval
<1>2. IsFiniteSet({i \in DOMAIN t : t[i] = b})
  BY <1>1, FS_Subset
<1> QED
  BY <1>2, FS_CardinalityType, FS_EmptySet DEF Occ

\* The slots of block b in the table t of request r.
Own(r, t, b) == {<<r, i>> : i \in {j \in DOMAIN t : t[j] = b}}

\* A slot of block b is a request and a position of its table that holds b.
LEMMA SlotsDef ==
  ASSUME NEW R, NEW T \in [R -> Seq(Blocks)], NEW b
  PROVE  \A s : s \in Slots(T, b) <=> \E r \in R : s \in Own(r, T[r], b)
BY DEF Slots, Own

\* They are as many as the occurrences of b, and name the request.
LEMMA OwnSlots ==
  ASSUME NEW t \in Seq(Blocks), NEW b, NEW r
  PROVE  /\ IsFiniteSet(Own(r, t, b))
         /\ Cardinality(Own(r, t, b)) = Occ(t, b)
<1> DEFINE I == {j \in DOMAIN t : t[j] = b}
           f == [i \in I |-> <<r, i>>]
<1>1. f \in Bijection(I, Own(r, t, b))
  BY DEF Bijection, Injection, Surjection, IsInjective, Own
<1>2. IsFiniteSet(I)
  BY OccNat
<1> QED
  BY <1>1, <1>2, FS_Bijection DEF ExistsBijection, Occ

\* A slot belongs to one request.
LEMMA OwnDisjoint ==
  ASSUME NEW r, NEW q, NEW t, NEW u, NEW b, r # q
  PROVE  Own(r, t, b) \intersect Own(q, u, b) = {}
BY DEF Own

\* A finite family of tables has finitely many slots.
LEMMA SlotsFinite ==
  ASSUME NEW R, IsFiniteSet(R), NEW T \in [R -> Seq(Blocks)], NEW b
  PROVE  IsFiniteSet(Slots(T, b)) /\ Held(T, b) \in Nat
<1> DEFINE All == {Own(r, T[r], b) : r \in R}
           f == [r \in R |-> Own(r, T[r], b)]
<1>1. f \in Surjection(R, All)
  <2>1. f \in [R -> All]
    OBVIOUS
  <2>2. \A S \in All : \E r \in R : f[r] = S
    OBVIOUS
  <2> HIDE DEF f, All
  <2> QED
    BY <2>1, <2>2 DEF Surjection
<1>2. \A S \in All : IsFiniteSet(S)
  <2>1. \A r \in R : IsFiniteSet(Own(r, T[r], b))
    BY OwnSlots
  <2> QED
    BY <2>1
<1>3. Slots(T, b) = UNION All
  BY DEF Slots, Own
<1> HIDE DEF f, All
<1>4. IsFiniteSet(All)
  BY <1>1, FS_Surjection
<1>5. IsFiniteSet(UNION All)
  BY <1>2, <1>4, FS_UNION
<1> QED
  BY <1>3, <1>5, FS_CardinalityType DEF Held

\* The families T and U differ at most in the table of r.
Changes(R, r, T, U) ==
  /\ IsFiniteSet(R) /\ r \in R
  /\ T \in [R -> Seq(Blocks)] /\ U \in [R -> Seq(Blocks)]
  /\ \A q \in R : q # r => U[q] = T[q]

\* Replacing one table changes the count by what it loses and what it gains.
LEMMA HeldUpdate ==
  ASSUME NEW R, NEW r, NEW T, NEW U, Changes(R, r, T, U), NEW b
  PROVE  /\ Held(U, b) = Held(T, b) - Occ(T[r], b) + Occ(U[r], b)
         /\ Occ(T[r], b) <= Held(T, b)
<1> DEFINE Rest == Slots(T, b) \ Own(r, T[r], b)
<1>0. /\ IsFiniteSet(R) /\ r \in R
      /\ T \in [R -> Seq(Blocks)] /\ U \in [R -> Seq(Blocks)]
      /\ \A q \in R : q # r => U[q] = T[q]
  BY DEF Changes
<1> USE <1>0
<1>1. T[r] \in Seq(Blocks) /\ U[r] \in Seq(Blocks)
  OBVIOUS
<1>2. \A s \in Rest : \E q \in R : q # r /\ s \in Own(q, T[q], b)
  BY SlotsDef
<1>3. \A q \in R : q # r => Own(q, T[q], b) \subseteq Rest
  BY SlotsDef, OwnDisjoint
<1> HIDE DEF Rest
<1>4. Slots(T, b) = Rest \union Own(r, T[r], b)
  BY SlotsDef DEF Rest
<1>5. Slots(U, b) = Rest \union Own(r, U[r], b)
  <2>1. \A s \in Slots(U, b) : s \in Rest \union Own(r, U[r], b)
    <3>1. \A q \in R : q # r => Own(q, U[q], b) = Own(q, T[q], b)
      OBVIOUS
    <3>2. \A s \in Slots(U, b) : \E q \in R : s \in Own(q, U[q], b)
      BY SlotsDef
    <3> QED
      BY <1>3, <3>1, <3>2
  <2>2. \A s \in Rest : s \in Slots(U, b)
    BY <1>2, SlotsDef
  <2>3. \A s \in Own(r, U[r], b) : s \in Slots(U, b)
    BY SlotsDef
  <2> QED
    BY <2>1, <2>2, <2>3
<1>6. Rest \intersect Own(r, T[r], b) = {} /\ Rest \intersect Own(r, U[r], b) = {}
  BY <1>2, OwnDisjoint
<1>7. IsFiniteSet(Rest)
  BY SlotsFinite, FS_Difference DEF Rest
<1>8. Cardinality(Rest) \in Nat /\ Occ(U[r], b) \in Nat /\ Occ(T[r], b) \in Nat
  BY <1>1, <1>7, FS_CardinalityType, OccNat
<1>9. ASSUME NEW t \in Seq(Blocks), NEW V \in [R -> Seq(Blocks)], V[r] = t,
             Slots(V, b) = Rest \union Own(r, t, b), Rest \intersect Own(r, t, b) = {}
      PROVE  Held(V, b) = Cardinality(Rest) + Occ(t, b)
  <2>1. IsFiniteSet(Own(r, t, b)) /\ Cardinality(Own(r, t, b)) = Occ(t, b)
    BY OwnSlots
  <2>2. Cardinality(Rest \union Own(r, t, b)) =
          Cardinality(Rest) + Cardinality(Own(r, t, b)) - Cardinality(Rest \intersect Own(r, t, b))
    BY <1>7, <2>1, FS_Union
  <2>3. Cardinality(Rest \intersect Own(r, t, b)) = 0
    BY <1>9, FS_EmptySet
  <2>4. Occ(t, b) \in Nat
    BY OccNat
  <2> QED
    BY <1>8, <1>9, <2>1, <2>2, <2>3, <2>4 DEF Held
<1>10. Held(T, b) = Cardinality(Rest) + Occ(T[r], b)
  BY <1>1, <1>4, <1>6, <1>9
<1>11. Held(U, b) = Cardinality(Rest) + Occ(U[r], b)
  BY <1>1, <1>5, <1>6, <1>9
<1> QED
  BY <1>8, <1>10, <1>11

LEMMA HeldChange ==
  ASSUME NEW R, NEW r, NEW T, NEW U, Changes(R, r, T, U), NEW b
  PROVE  /\ Held(U, b) = Held(T, b) - Occ(T[r], b) + Occ(U[r], b)
         /\ Held(T, b) \in Nat /\ Held(U, b) \in Nat
         /\ Occ(T[r], b) \in Nat /\ Occ(U[r], b) \in Nat
         /\ T[r] \in Seq(Blocks) /\ U[r] \in Seq(Blocks)
<1>1. /\ IsFiniteSet(R) /\ T \in [R -> Seq(Blocks)] /\ U \in [R -> Seq(Blocks)]
      /\ T[r] \in Seq(Blocks) /\ U[r] \in Seq(Blocks)
  BY DEF Changes
<1>2. Held(U, b) = Held(T, b) - Occ(T[r], b) + Occ(U[r], b)
  BY HeldUpdate
<1> QED
  BY <1>1, <1>2, SlotsFinite, OccNat

\* Occurrences add up over concatenation.
LEMMA OccConcat ==
  ASSUME NEW s \in Seq(Blocks), NEW t \in Seq(Blocks), NEW b
  PROVE  Occ(s \o t, b) = Occ(s, b) + Occ(t, b)
<1> DEFINE A == {i \in DOMAIN s : s[i] = b}
           I == {i \in DOMAIN t : t[i] = b}
           B == {i \in 1 + Len(s)..Len(t) + Len(s) : t[i - Len(s)] = b}
           f == [i \in I |-> i + Len(s)]
<1>1. /\ Len(s) \in Nat /\ Len(t) \in Nat
      /\ DOMAIN s = 1..Len(s) /\ DOMAIN t = 1..Len(t)
      /\ DOMAIN (s \o t) = 1..Len(s) + Len(t)
      /\ \A i \in 1..Len(s) + Len(t) :
           (s \o t)[i] = IF i <= Len(s) THEN s[i] ELSE t[i - Len(s)]
  BY ConcatProperties, LenProperties
<1>2. {i \in DOMAIN (s \o t) : (s \o t)[i] = b} = A \union B
  BY <1>1
<1>3. A \intersect B = {}
  BY <1>1
<1>4. f \in Bijection(I, B)
  <2>1. f \in [I -> B] /\ IsInjective(f)
    BY <1>1 DEF IsInjective
  <2>2. ASSUME NEW j \in B PROVE \E i \in I : f[i] = j
    <3>1. j - Len(s) \in I /\ f[j - Len(s)] = j
      BY <1>1
    <3> QED
      BY <3>1
  <2> QED
    BY <2>1, <2>2 DEF Bijection, Injection, Surjection
<1>5. IsFiniteSet(A) /\ IsFiniteSet(I)
  BY OccNat
<1>6. IsFiniteSet(B) /\ Cardinality(B) = Cardinality(I)
  BY <1>4, <1>5, FS_Bijection DEF ExistsBijection
<1>7. Cardinality(A \union B) = Cardinality(A) + Cardinality(B) - Cardinality(A \intersect B)
  BY <1>5, <1>6, FS_Union
<1>8. Cardinality(A \intersect B) = 0
  BY <1>3, FS_EmptySet
<1>9. Cardinality(A) = Occ(s, b) /\ Cardinality(I) = Occ(t, b)
  BY DEF Occ
<1>10. Occ(s, b) \in Nat /\ Occ(t, b) \in Nat
  BY OccNat
<1>11. Occ(s \o t, b) = Cardinality(A \union B)
  BY <1>2 DEF Occ
<1> HIDE DEF A, B, I
<1> QED
  BY <1>6, <1>7, <1>8, <1>9, <1>10, <1>11

\* Cutting a table in two splits its occurrences.
LEMMA OccSplit ==
  ASSUME NEW t \in Seq(Blocks), NEW k \in 0..Len(t), NEW b
  PROVE  /\ SubSeq(t, 1, k) \in Seq(Blocks)
         /\ SubSeq(t, k + 1, Len(t)) \in Seq(Blocks)
         /\ Occ(t, b) = Occ(SubSeq(t, 1, k), b) + Occ(SubSeq(t, k + 1, Len(t)), b)
<1>1. Len(t) \in Nat /\ \A i \in 1..Len(t) : t[i] \in Blocks
  BY LenProperties
<1>2. SubSeq(t, 1, k) \in Seq(Blocks) /\ SubSeq(t, k + 1, Len(t)) \in Seq(Blocks)
  <2>1. \A i \in 1..k : t[i] \in Blocks
    BY <1>1
  <2>2. \A i \in k + 1..Len(t) : t[i] \in Blocks
    BY <1>1
  <2>3. k \in Int /\ k + 1 \in Int /\ Len(t) \in Int
    BY <1>1
  <2> QED
    BY <2>1, <2>2, <2>3, SubSeqProperties
<1>3. SubSeq(t, 1, k) \o SubSeq(t, k + 1, Len(t)) = t
  <2>1. 1 \in 1..Len(t) + 1 /\ k \in 1 - 1..Len(t) /\ Len(t) \in k..Len(t)
    BY <1>1
  <2>2. SubSeq(t, 1, k) \o SubSeq(t, k + 1, Len(t)) = SubSeq(t, 1, Len(t))
    BY <2>1, ConcatAdjacentSubSeq
  <2> QED
    BY <2>2, SubSeqFull
<1>4. Occ(SubSeq(t, 1, k) \o SubSeq(t, k + 1, Len(t)), b) =
        Occ(SubSeq(t, 1, k), b) + Occ(SubSeq(t, k + 1, Len(t)), b)
  BY <1>2, OccConcat
<1> QED
  BY <1>2, <1>3, <1>4

\* An empty table has no occurrences.
LEMMA OccEmpty ==
  ASSUME NEW b
  PROVE  Occ(<< >>, b) = 0
<1>1. {i \in DOMAIN << >> : << >>[i] = b} = {}
  OBVIOUS
<1> QED
  BY <1>1, FS_EmptySet DEF Occ

\* A table of distinct blocks has each of them once.
LEMMA OccInjective ==
  ASSUME NEW g \in Seq(Blocks), IsInjective(g), NEW b
  PROVE  Occ(g, b) = IF b \in Range(g) THEN 1 ELSE 0
<1> DEFINE I == {i \in DOMAIN g : g[i] = b}
<1>1. CASE b \in Range(g)
  <2>1. PICK i \in DOMAIN g : g[i] = b
    BY <1>1 DEF Range
  <2>2. I = {i}
    BY <2>1 DEF IsInjective
  <2> QED
    BY <1>1, <2>2, FS_Singleton DEF Occ
<1>2. CASE b \notin Range(g)
  <2>1. I = {}
    BY <1>2 DEF Range
  <2> QED
    BY <1>2, <2>1, FS_EmptySet DEF Occ
<1> QED
  BY <1>1, <1>2

\* Cached copies of a block in finite sets of copies.
LEMMA CopiesNat ==
  ASSUME NEW E, IsFiniteSet(E), NEW b
  PROVE  /\ IsFiniteSet(CopiesOf(E, b))
         /\ Copies(E, b) \in Nat
         /\ (\E e \in E : e[2] = b) <=> Copies(E, b) > 0
<1>1. IsFiniteSet(CopiesOf(E, b))
  BY FS_Subset DEF CopiesOf
<1>2. (\E e \in E : e[2] = b) <=> CopiesOf(E, b) # {}
  BY DEF CopiesOf
<1>3. Copies(E, b) \in Nat
  BY <1>1, FS_CardinalityType DEF Copies
<1>4. CopiesOf(E, b) # {} <=> Copies(E, b) # 0
  BY <1>1, FS_EmptySet DEF Copies
<1> QED
  BY <1>1, <1>2, <1>3, <1>4

LEMMA CopiesUnion ==
  ASSUME NEW E, IsFiniteSet(E), NEW F, IsFiniteSet(F), E \intersect F = {}, NEW b
  PROVE  Copies(E \union F, b) = Copies(E, b) + Copies(F, b)
<1> DEFINE X == CopiesOf(E, b)
           Y == CopiesOf(F, b)
<1>1. CopiesOf(E \union F, b) = X \union Y
  BY DEF CopiesOf
<1>2. X \intersect Y = {}
  BY DEF CopiesOf
<1>3. IsFiniteSet(X) /\ IsFiniteSet(Y)
  BY CopiesNat
<1>4. Copies(E, b) = Cardinality(X) /\ Copies(F, b) = Cardinality(Y)
  BY DEF Copies
<1>5. Copies(E \union F, b) = Cardinality(X \union Y)
  BY <1>1, Zenon DEF Copies
<1> HIDE DEF X, Y
<1>6. Cardinality(X \union Y) = Cardinality(X) + Cardinality(Y) - Cardinality(X \intersect Y)
  BY <1>3, FS_Union
<1>7. Cardinality(X) \in Nat /\ Cardinality(Y) \in Nat
  BY <1>3, FS_CardinalityType
<1>8. Cardinality(X \intersect Y) = 0
  BY <1>2, FS_EmptySet
<1> QED
  BY <1>4, <1>5, <1>6, <1>7, <1>8

(***************************************************************************)
(* Operations on an exact pool.                                            *)
(***************************************************************************)
\* From tables T and P's cache to tables U and cache C, block b loses or
\* gains n[b] references.
Loses(P, T, C, U, n) ==
  \A b \in Blocks :
    /\ Held(T, b) \in Nat /\ Held(U, b) \in Nat
    /\ Held(U, b) + Copies(C, b) + n[b] = Held(T, b) + Copies(P.cache, b)
Gains(P, T, C, U, n) ==
  \A b \in Blocks :
    /\ Held(T, b) \in Nat /\ Held(U, b) \in Nat
    /\ Held(U, b) + Copies(C, b) = Held(T, b) + Copies(P.cache, b) + n[b]
    /\ n[b] > 0 => P.ref[b] > 0

\* References given up by tables or by the cache: blocks whose last one goes
\* return to the free list, and no count goes below zero.
LEMMA DecrefExact ==
  ASSUME NEW H, NEW P \in PoolOf(H), NEW T, Exact(P, T), NEW U,
         NEW C \in SUBSET (H \X Blocks), IsFiniteSet(C), NEW n \in [Blocks -> Nat],
         Loses(P, T, C, U, n)
  PROVE  LET Q == Decref(Caching(P, C), n)
         IN  Q \in PoolOf(H) /\ Exact(Q, U) /\ Q.cache = C
<1> DEFINE Q == Decref(Caching(P, C), n)
<1>1. \A b \in Blocks : Copies(C, b) \in Nat /\ Copies(P.cache, b) \in Nat /\ n[b] \in Nat
  <2>1. IsFiniteSet(P.cache)
    BY DEF Exact
  <2> QED
    BY <2>1, CopiesNat
<1>2. /\ P = [free |-> P.free, ref |-> P.ref, cache |-> P.cache]
      /\ P.free \in SUBSET Blocks /\ P.ref \in [Blocks -> Nat]
  BY DEF PoolOf
<1>3. \A b \in Blocks : P.ref[b] - n[b] = Held(U, b) + Copies(C, b) /\ Held(U, b) \in Nat
  <2>1. \A b \in Blocks : P.ref[b] = Held(T, b) + Copies(P.cache, b)
    BY DEF Exact
  <2> QED
    BY <1>1, <2>1 DEF Loses
<1>4. /\ Q = [free |-> Q.free, ref |-> Q.ref, cache |-> Q.cache]
      /\ Q.cache = C
      /\ Q.ref = [b \in Blocks |-> P.ref[b] - n[b]]
      /\ Q.free = P.free \union {b \in Blocks : n[b] > 0 /\ P.ref[b] = n[b]}
  BY DEF Decref, Caching
<1> HIDE DEF Q
<1>5. Q.ref \in [Blocks -> Nat]
  BY <1>1, <1>3, <1>4
<1>6. Q.free = {b \in Blocks : Q.ref[b] = 0}
  <2>1. P.free = {b \in Blocks : P.ref[b] = 0}
    BY DEF Exact
  <2>2. \A b \in Blocks : P.ref[b] \in Nat /\ n[b] \in Nat /\ P.ref[b] - n[b] >= 0
    BY <1>1, <1>2, <1>3
  <2>3. \A b \in Blocks : Q.ref[b] = P.ref[b] - n[b]
    BY <1>4
  <2>4. \A b \in Q.free : b \in Blocks /\ Q.ref[b] = 0
    BY <1>4, <2>1, <2>2, <2>3
  <2>5. ASSUME NEW b \in Blocks, Q.ref[b] = 0
        PROVE  b \in Q.free
    <3>1. P.ref[b] = n[b] /\ n[b] \in Nat
      <4>1. P.ref[b] \in Nat /\ n[b] \in Nat
        BY <2>2
      <4>2. P.ref[b] - n[b] = 0
        BY <2>3, <2>5
      <4> QED
        BY <4>1, <4>2
    <3>2. CASE n[b] = 0
      BY <1>4, <2>1, <3>1, <3>2
    <3>3. CASE n[b] > 0
      BY <1>4, <3>1, <3>3
    <3> QED
      BY <3>1, <3>2, <3>3
  <2> QED
    BY <2>4, <2>5
<1>7. Q \in PoolOf(H)
  BY <1>4, <1>5, <1>6 DEF PoolOf
<1> QED
  BY <1>3, <1>4, <1>6, <1>7 DEF Exact, Q

\* References gained by blocks that already have one: the free list stays.
LEMMA IncrefExact ==
  ASSUME NEW H, NEW P \in PoolOf(H), NEW T, Exact(P, T), NEW U,
         NEW C \in SUBSET (H \X Blocks), IsFiniteSet(C), NEW n \in [Blocks -> Nat],
         Gains(P, T, C, U, n)
  PROVE  LET Q == Incref(Caching(P, C), n)
         IN  Q \in PoolOf(H) /\ Exact(Q, U) /\ Q.cache = C /\ Q.free = P.free
<1> DEFINE Q == Incref(Caching(P, C), n)
<1>1. \A b \in Blocks : Copies(C, b) \in Nat /\ Copies(P.cache, b) \in Nat /\ n[b] \in Nat
  <2>1. IsFiniteSet(P.cache)
    BY DEF Exact
  <2> QED
    BY <2>1, CopiesNat
<1>2. /\ P = [free |-> P.free, ref |-> P.ref, cache |-> P.cache]
      /\ P.free \in SUBSET Blocks /\ P.ref \in [Blocks -> Nat]
  BY DEF PoolOf
<1>3. \A b \in Blocks : P.ref[b] + n[b] = Held(U, b) + Copies(C, b) /\ (n[b] > 0 => P.ref[b] > 0)
  <2>1. \A b \in Blocks : P.ref[b] = Held(T, b) + Copies(P.cache, b)
    BY DEF Exact
  <2> QED
    BY <1>1, <2>1 DEF Gains
<1>4. /\ Q = [free |-> Q.free, ref |-> Q.ref, cache |-> Q.cache]
      /\ Q.cache = C
      /\ Q.ref = [b \in Blocks |-> P.ref[b] + n[b]]
      /\ Q.free = P.free
  BY DEF Incref, Caching
<1> HIDE DEF Q
<1>5. Q.ref \in [Blocks -> Nat]
  BY <1>2, <1>4
<1>6. Q.free = {b \in Blocks : Q.ref[b] = 0}
  <2>1. P.free = {b \in Blocks : P.ref[b] = 0}
    BY DEF Exact
  <2>2. \A b \in Blocks : P.ref[b] \in Nat /\ n[b] \in Nat
    BY <1>2
  <2> QED
    BY <1>3, <1>4, <2>1, <2>2
<1>7. Q \in PoolOf(H)
  BY <1>2, <1>4, <1>5 DEF PoolOf
<1> QED
  BY <1>3, <1>4, <1>6, <1>7 DEF Exact, Q

\* The facts an exact pool gives about one block.
LEMMA ExactFacts ==
  ASSUME NEW R, IsFiniteSet(R), NEW T \in [R -> Seq(Blocks)],
         NEW H, NEW P \in PoolOf(H), Exact(P, T), NEW b \in Blocks
  PROVE  /\ P.ref[b] \in Nat /\ Held(T, b) \in Nat /\ Copies(P.cache, b) \in Nat
         /\ P.ref[b] = Held(T, b) + Copies(P.cache, b)
         /\ b \in P.free <=> P.ref[b] = 0
         /\ \A r \in R : \A i \in DOMAIN T[r] : T[r][i] = b => P.ref[b] > 0
         /\ \A e \in P.cache : e[2] = b => P.ref[b] > 0
<1>1. P.ref[b] \in Nat
  BY DEF PoolOf
<1>2. Held(T, b) \in Nat
  BY SlotsFinite
<1>3. Copies(P.cache, b) \in Nat
  BY CopiesNat DEF Exact
<1>4. P.ref[b] = Held(T, b) + Copies(P.cache, b) /\ (b \in P.free <=> P.ref[b] = 0)
  BY DEF Exact
<1>5. ASSUME NEW r \in R, NEW i \in DOMAIN T[r], T[r][i] = b
      PROVE  P.ref[b] > 0
  <2>1. T[r] \in Seq(Blocks)
    OBVIOUS
  <2>2. Occ(T[r], b) > 0 /\ Occ(T[r], b) \in Nat
    BY <1>5, <2>1, OccNat
  <2>3. Occ(T[r], b) <= Held(T, b)
    <3>1. Changes(R, r, T, T)
      BY DEF Changes
    <3> QED
      BY <3>1, HeldUpdate
  <2> QED
    BY <1>2, <1>3, <1>4, <2>2, <2>3
<1>6. ASSUME NEW e \in P.cache, e[2] = b
      PROVE  P.ref[b] > 0
  <2>1. IsFiniteSet(P.cache)
    BY DEF Exact
  <2>2. Copies(P.cache, b) > 0
    BY <1>6, <2>1, CopiesNat
  <2> QED
    BY <1>2, <1>3, <1>4, <2>2
<1> QED
  BY <1>1, <1>2, <1>3, <1>4, <1>5, <1>6

\* A slot and a cached copy of a block, or two slots of it, are two references.
LEMMA TwoReferences ==
  ASSUME NEW R, IsFiniteSet(R), NEW T \in [R -> Seq(Blocks)],
         NEW H, NEW P \in PoolOf(H), Exact(P, T), NEW b \in Blocks,
         NEW r \in R, NEW i \in DOMAIN T[r], T[r][i] = b, P.ref[b] = 1
  PROVE  /\ \A e \in P.cache : e[2] # b
         /\ \A q \in R : \A j \in DOMAIN T[q] : T[q][j] = b => q = r /\ j = i
<1>1. /\ P.ref[b] \in Nat /\ Held(T, b) \in Nat /\ Copies(P.cache, b) \in Nat
      /\ P.ref[b] = Held(T, b) + Copies(P.cache, b)
  BY ExactFacts
<1>2. IsFiniteSet(Slots(T, b)) /\ Held(T, b) = Cardinality(Slots(T, b))
  BY SlotsFinite DEF Held
<1>3. ASSUME NEW q \in R, NEW j \in DOMAIN T[q], T[q][j] = b
      PROVE  <<q, j>> \in Slots(T, b)
  BY <1>3, SlotsDef DEF Own
<1>4. <<r, i>> \in Slots(T, b)
  BY <1>3
<1>5. Held(T, b) # 0
  BY <1>2, <1>4, FS_EmptySet
<1>6. Held(T, b) = 1 /\ Copies(P.cache, b) = 0
  BY <1>1, <1>5
<1>7. \A e \in P.cache : e[2] # b
  <2>1. IsFiniteSet(P.cache)
    BY DEF Exact
  <2> QED
    BY <1>6, <2>1, CopiesNat
<1>8. ASSUME NEW q \in R, NEW j \in DOMAIN T[q], T[q][j] = b
      PROVE  q = r /\ j = i
  <2>1. PICK s : Slots(T, b) = {s}
    BY <1>2, <1>6, FS_Singleton
  <2> QED
    BY <1>3, <1>4, <1>8, <2>1
<1> QED
  BY <1>7, <1>8

\* Table t holds the blocks of tables u and d together.
Splits(t, u, d) == \A b \in Blocks : Occ(t, b) = Occ(u, b) + Occ(d, b)

\* deallocate and truncate_kv: request r keeps only part of its table.
LEMMA DeallocateExact ==
  ASSUME NEW R, NEW r, NEW T, NEW U, Changes(R, r, T, U),
         NEW d \in Seq(Blocks), Splits(T[r], U[r], d),
         NEW H, NEW P \in PoolOf(H), Exact(P, T)
  PROVE  LET Q == Deallocate(P, d)
         IN  /\ Q \in PoolOf(H) /\ Exact(Q, U) /\ Q.cache = P.cache
             /\ \A b \in Blocks : Q.ref[b] <= P.ref[b]
<1> DEFINE n == [b \in Blocks |-> Occ(d, b)]
           Q == Deallocate(P, d)
<1>1. n \in [Blocks -> Nat]
  BY OccNat
<1>3. IsFiniteSet(P.cache) /\ P.cache \in SUBSET (H \X Blocks)
  BY DEF Exact, PoolOf
<1>2. Loses(P, T, P.cache, U, n)
  <2> SUFFICES ASSUME NEW b \in Blocks
               PROVE  /\ Held(T, b) \in Nat /\ Held(U, b) \in Nat
                      /\ Held(U, b) + Copies(P.cache, b) + Occ(d, b) =
                           Held(T, b) + Copies(P.cache, b)
    BY DEF Loses
  <2>1. Copies(P.cache, b) \in Nat /\ Occ(d, b) \in Nat /\ Occ(T[r], b) = Occ(U[r], b) + Occ(d, b)
    BY <1>3, CopiesNat, OccNat DEF Splits
  <2>2. /\ Held(U, b) = Held(T, b) - Occ(T[r], b) + Occ(U[r], b)
        /\ Held(T, b) \in Nat /\ Held(U, b) \in Nat
        /\ Occ(T[r], b) \in Nat /\ Occ(U[r], b) \in Nat
    BY HeldChange
  <2> QED
    BY <2>1, <2>2
<1>4. Q = Decref(Caching(P, P.cache), n)
  BY DEF Deallocate, Decref, Caching
<1>5. Q.ref = [b \in Blocks |-> P.ref[b] - n[b]]
  BY DEF Deallocate, Decref
<1> HIDE DEF n, Q
<1>6. Q \in PoolOf(H) /\ Exact(Q, U) /\ Q.cache = P.cache
  BY <1>1, <1>2, <1>3, <1>4, DecrefExact
<1>7. \A b \in Blocks : Q.ref[b] <= P.ref[b]
  BY <1>1, <1>5 DEF PoolOf
<1> QED
  BY <1>6, <1>7 DEF Q

\* _evict_unused: the copies dropped lose the cache's reference.
LEMMA EvictExact ==
  ASSUME NEW R, IsFiniteSet(R), NEW T \in [R -> Seq(Blocks)],
         NEW H, NEW P \in PoolOf(H), Exact(P, T), NEW V \in SUBSET P.cache
  PROVE  LET Q == EvictUnused(P, V)
         IN  /\ Q \in PoolOf(H) /\ Exact(Q, T) /\ Q.cache = P.cache \ V
             /\ \A b \in Blocks : Q.ref[b] <= P.ref[b]
<1> DEFINE n == [b \in Blocks |-> Copies(V, b)]
           C == P.cache \ V
           Q == EvictUnused(P, V)
<1>1. IsFiniteSet(P.cache) /\ P.cache \in SUBSET (H \X Blocks)
  BY DEF Exact, PoolOf
<1>2. IsFiniteSet(V) /\ IsFiniteSet(C) /\ C \in SUBSET (H \X Blocks)
  BY <1>1, FS_Subset
<1>3. n \in [Blocks -> Nat]
  BY <1>2, CopiesNat
<1>4. C \union V = P.cache /\ C \intersect V = {}
  OBVIOUS
<1>5. Q = Decref(Caching(P, C), n)
  BY DEF EvictUnused
<1>6. Q.ref = [b \in Blocks |-> P.ref[b] - n[b]]
  BY DEF EvictUnused, Decref, Caching
<1>7. \A b \in Blocks : n[b] = Copies(V, b)
  OBVIOUS
<1> HIDE DEF n, C, Q
<1>8. Loses(P, T, C, T, n)
  <2> SUFFICES ASSUME NEW b \in Blocks
               PROVE  /\ Held(T, b) \in Nat
                      /\ Held(T, b) + Copies(C, b) + n[b] = Held(T, b) + Copies(P.cache, b)
    BY DEF Loses
  <2>1. Held(T, b) \in Nat /\ Copies(C, b) \in Nat /\ Copies(V, b) \in Nat
    BY <1>2, SlotsFinite, CopiesNat
  <2>2. Copies(C \union V, b) = Copies(C, b) + Copies(V, b)
    BY <1>2, <1>4, CopiesUnion
  <2>3. Copies(C \union V, b) = Copies(P.cache, b)
    BY <1>4
  <2> QED
    BY <1>7, <2>1, <2>2, <2>3
<1>9. Q \in PoolOf(H) /\ Exact(Q, T) /\ Q.cache = C
  BY <1>2, <1>3, <1>5, <1>8, DecrefExact
<1>10. \A b \in Blocks : Q.ref[b] <= P.ref[b]
  BY <1>3, <1>6 DEF PoolOf
<1> QED
  BY <1>9, <1>10 DEF Q, C

\* An empty table, and a table of blocks that all have a reference.
Bare(t) == t = << >>
InUse(P, t) == \A i \in DOMAIN t : P.ref[t[i]] > 0

\* attach_cached_prefix: an empty table gets blocks that are in use.
LEMMA AttachExact ==
  ASSUME NEW R, NEW r, NEW T, NEW U, Changes(R, r, T, U),
         Bare(T[r]), NEW H, NEW P \in PoolOf(H), Exact(P, T), InUse(P, U[r])
  PROVE  LET Q == AttachPool(P, U[r])
         IN  /\ Q \in PoolOf(H) /\ Exact(Q, U) /\ Q.cache = P.cache /\ Q.free = P.free
             /\ \A b \in Blocks : (\A i \in DOMAIN U[r] : U[r][i] # b) => Q.ref[b] = P.ref[b]
<1> DEFINE n == [b \in Blocks |-> Occ(U[r], b)]
           Q == AttachPool(P, U[r])
<1>1. U[r] \in Seq(Blocks) /\ T[r] \in Seq(Blocks)
  BY DEF Changes
<1>2. n \in [Blocks -> Nat] /\ \A b \in Blocks : n[b] = Occ(U[r], b)
  BY <1>1, OccNat
<1>3. IsFiniteSet(P.cache) /\ P.cache \in SUBSET (H \X Blocks)
  BY DEF Exact, PoolOf
<1>4. Q = Incref(Caching(P, P.cache), n)
  BY DEF AttachPool, Incref, Caching
<1>5. Q.ref = [b \in Blocks |-> P.ref[b] + n[b]]
  BY DEF AttachPool, Incref
<1> HIDE DEF n, Q
<1>6. Gains(P, T, P.cache, U, n)
  <2> SUFFICES ASSUME NEW b \in Blocks
               PROVE  /\ Held(T, b) \in Nat /\ Held(U, b) \in Nat
                      /\ Held(U, b) + Copies(P.cache, b) = Held(T, b) + Copies(P.cache, b) + n[b]
                      /\ n[b] > 0 => P.ref[b] > 0
    BY DEF Gains
  <2>1. Copies(P.cache, b) \in Nat
    BY <1>3, CopiesNat
  <2>2. /\ Held(U, b) = Held(T, b) - Occ(T[r], b) + Occ(U[r], b)
        /\ Held(T, b) \in Nat /\ Held(U, b) \in Nat
    BY HeldChange
  <2>3. Occ(T[r], b) = 0
    BY OccEmpty DEF Bare
  <2>4. Occ(U[r], b) \in Nat /\ (Occ(U[r], b) > 0 => \E i \in DOMAIN U[r] : U[r][i] = b)
    BY <1>1, OccNat
  <2>5. n[b] = Occ(U[r], b)
    BY <1>2
  <2>6. Occ(U[r], b) > 0 => P.ref[b] > 0
    BY <2>4 DEF InUse
  <2> QED
    BY <2>1, <2>2, <2>3, <2>4, <2>5, <2>6
<1>7. Q \in PoolOf(H) /\ Exact(Q, U) /\ Q.cache = P.cache /\ Q.free = P.free
  BY <1>2, <1>3, <1>4, <1>6, IncrefExact
<1>8. ASSUME NEW b \in Blocks, \A i \in DOMAIN U[r] : U[r][i] # b
      PROVE  Q.ref[b] = P.ref[b]
  <2>1. Occ(U[r], b) = 0
    <3>1. Occ(U[r], b) \in Nat /\ ~(Occ(U[r], b) > 0)
      BY <1>1, <1>8, OccNat
    <3> QED
      BY <3>1
  <2>2. n[b] = 0 /\ P.ref[b] \in Nat
    BY <1>2, <2>1 DEF PoolOf
  <2> QED
    BY <1>5, <2>2
<1> QED
  BY <1>7, <1>8 DEF Q

\* The tables of the requests S are D, and U is T without them.
Released(R, S, T, D, U) ==
  /\ S \in SUBSET R
  /\ D = [r \in S |-> T[r]]
  /\ U = [r \in R |-> IF r \in S THEN << >> ELSE T[r]]

\* release of the requests S: all their tables are given back.
LEMMA DeallocateAllExact ==
  ASSUME NEW R, IsFiniteSet(R), NEW T \in [R -> Seq(Blocks)], NEW S, NEW D, NEW U,
         Released(R, S, T, D, U),
         NEW H, NEW P \in PoolOf(H), Exact(P, T)
  PROVE  LET Q == DeallocateAll(P, D)
         IN  /\ Q \in PoolOf(H) /\ Exact(Q, U) /\ Q.cache = P.cache
             /\ \A b \in Blocks : Q.ref[b] <= P.ref[b]
<1> DEFINE n == [b \in Blocks |-> Held(D, b)]
           Q == DeallocateAll(P, D)
<1>0. S \in SUBSET R
  BY DEF Released
<1>1. /\ D \in [S -> Seq(Blocks)] /\ U \in [R -> Seq(Blocks)]
      /\ \A r \in S : D[r] = T[r] /\ U[r] = << >>
      /\ \A r \in R : r \notin S => U[r] = T[r]
  BY DEF Released
<1>2. IsFiniteSet(S)
  BY <1>0, FS_Subset
<1>3. Q = Decref(Caching(P, P.cache), n)
  BY DEF DeallocateAll, Decref, Caching
<1>4. Q.ref = [b \in Blocks |-> P.ref[b] - n[b]]
  BY DEF DeallocateAll, Decref
<1>5. \A b \in Blocks : n[b] = Held(D, b)
  OBVIOUS
<1>6. n = [b \in Blocks |-> n[b]]
  OBVIOUS
<1> HIDE DEF n, Q
<1>7. n \in [Blocks -> Nat]
  BY <1>1, <1>2, <1>5, <1>6, SlotsFinite
<1>8. IsFiniteSet(P.cache) /\ P.cache \in SUBSET (H \X Blocks)
  BY DEF Exact, PoolOf
<1>9. ASSUME NEW b \in Blocks
      PROVE  /\ Held(T, b) \in Nat /\ Held(U, b) \in Nat /\ Held(D, b) \in Nat
             /\ Held(T, b) = Held(U, b) + Held(D, b)
  <2>1. /\ \A s : s \in Slots(D, b) <=> \E r \in S : s \in Own(r, D[r], b)
        /\ \A s : s \in Slots(U, b) <=> \E r \in R : s \in Own(r, U[r], b)
        /\ \A s : s \in Slots(T, b) <=> \E r \in R : s \in Own(r, T[r], b)
    BY <1>1, SlotsDef
  <2>2. \A r \in S : Own(r, U[r], b) = {}
    BY <1>1 DEF Own
  <2>3. Slots(T, b) = Slots(U, b) \union Slots(D, b)
    BY <1>0, <1>1, <2>1, <2>2, ZenonT(60)
  <2>4. Slots(U, b) \intersect Slots(D, b) = {}
    <3> SUFFICES ASSUME NEW s \in Slots(U, b), s \in Slots(D, b)
                 PROVE  FALSE
      OBVIOUS
    <3>1. PICK r \in R : s \in Own(r, U[r], b)
      BY <2>1
    <3>2. PICK q \in S : s \in Own(q, D[q], b)
      BY <2>1
    <3>3. r \notin S
      BY <2>2, <3>1
    <3>4. r # q
      BY <3>2, <3>3
    <3> QED
      BY <3>1, <3>2, <3>4, OwnDisjoint
  <2>5. IsFiniteSet(Slots(U, b)) /\ Held(U, b) \in Nat
    BY <1>1, SlotsFinite
  <2>6. IsFiniteSet(Slots(D, b)) /\ Held(D, b) \in Nat
    BY <1>1, <1>2, SlotsFinite
  <2>7. Held(T, b) \in Nat
    BY SlotsFinite
  <2>8. Cardinality(Slots(U, b) \union Slots(D, b)) =
          Held(U, b) + Held(D, b) - Cardinality(Slots(U, b) \intersect Slots(D, b))
    BY <2>5, <2>6, FS_Union DEF Held
  <2>9. Cardinality(Slots(U, b) \intersect Slots(D, b)) = 0
    BY <2>4, FS_EmptySet
  <2>10. Held(T, b) = Cardinality(Slots(U, b) \union Slots(D, b))
    BY <2>3, Zenon DEF Held
  <2> QED
    BY <2>5, <2>6, <2>7, <2>8, <2>9, <2>10
<1>10. Loses(P, T, P.cache, U, n)
  <2> SUFFICES ASSUME NEW b \in Blocks
               PROVE  /\ Held(T, b) \in Nat /\ Held(U, b) \in Nat
                      /\ Held(U, b) + Copies(P.cache, b) + n[b] = Held(T, b) + Copies(P.cache, b)
    BY DEF Loses
  <2>1. Copies(P.cache, b) \in Nat /\ n[b] = Held(D, b)
    BY <1>5, <1>8, CopiesNat
  <2> QED
    BY <1>9, <2>1
<1>11. Q \in PoolOf(H) /\ Exact(Q, U) /\ Q.cache = P.cache
  BY <1>3, <1>7, <1>8, <1>10, DecrefExact
<1>12. \A b \in Blocks : Q.ref[b] <= P.ref[b]
  BY <1>4, <1>7 DEF PoolOf
<1> QED
  BY <1>11, <1>12 DEF Q

\* New copies, of blocks that have a reference.
Publishable(H, P, E) ==
  /\ E \in SUBSET (H \X Blocks) /\ IsFiniteSet(E)
  /\ E \intersect P.cache = {}
  /\ \A e \in E : P.ref[e[2]] > 0

\* publish_full_blocks: the new copies E take one reference each.
LEMMA PublishExact ==
  ASSUME NEW R, IsFiniteSet(R), NEW T \in [R -> Seq(Blocks)],
         NEW H, NEW P \in PoolOf(H), Exact(P, T), NEW E, Publishable(H, P, E)
  PROVE  LET Q == AddCopies(P, E)
         IN  /\ Q \in PoolOf(H) /\ Exact(Q, T) /\ Q.free = P.free
             /\ \A b \in Blocks : (\A e \in E : e[2] # b) => Q.ref[b] = P.ref[b]
<1> DEFINE n == [b \in Blocks |-> Copies(E, b)]
           C == P.cache \union E
           Q == Incref(Caching(P, C), n)
<1>0. /\ E \in SUBSET (H \X Blocks) /\ IsFiniteSet(E) /\ E \intersect P.cache = {}
      /\ \A e \in E : P.ref[e[2]] > 0
  BY DEF Publishable
<1>1. IsFiniteSet(P.cache) /\ P.cache \in SUBSET (H \X Blocks)
  BY DEF Exact, PoolOf
<1>2. IsFiniteSet(C) /\ C \in SUBSET (H \X Blocks)
  BY <1>0, <1>1, FS_Union
<1>3. n \in [Blocks -> Nat] /\ \A b \in Blocks : n[b] = Copies(E, b)
  BY <1>0, CopiesNat
<1>4. \A b \in Blocks : Copies(C, b) = Copies(P.cache, b) + Copies(E, b)
  BY <1>0, <1>1, CopiesUnion
<1>5. Q.ref = [b \in Blocks |-> P.ref[b] + n[b]]
  BY DEF Incref, Caching
<1> HIDE DEF n, C
<1>6. Gains(P, T, C, T, n)
  <2> SUFFICES ASSUME NEW b \in Blocks
               PROVE  /\ Held(T, b) \in Nat
                      /\ Held(T, b) + Copies(C, b) = Held(T, b) + Copies(P.cache, b) + n[b]
                      /\ n[b] > 0 => P.ref[b] > 0
    BY DEF Gains
  <2>1. Held(T, b) \in Nat /\ Copies(P.cache, b) \in Nat /\ Copies(E, b) \in Nat
    BY <1>0, <1>1, SlotsFinite, CopiesNat
  <2>2. n[b] = Copies(E, b) /\ Copies(C, b) = Copies(P.cache, b) + Copies(E, b)
    BY <1>3, <1>4
  <2>3. Copies(E, b) > 0 => \E e \in E : e[2] = b
    BY <1>0, CopiesNat
  <2>4. Copies(E, b) > 0 => P.ref[b] > 0
    BY <1>0, <2>3
  <2> QED
    BY <2>1, <2>2, <2>4
<1>7. Q \in PoolOf(H) /\ Exact(Q, T) /\ Q.free = P.free
  BY <1>2, <1>3, <1>6, IncrefExact
<1>8. ASSUME NEW b \in Blocks, \A e \in E : e[2] # b
      PROVE  Q.ref[b] = P.ref[b]
  <2>1. Copies(E, b) \in Nat /\ ~(Copies(E, b) > 0)
    BY <1>0, <1>8, CopiesNat
  <2>2. n[b] = 0 /\ P.ref[b] \in Nat
    BY <1>3, <2>1 DEF PoolOf
  <2> QED
    BY <1>5, <2>2
<1> QED
  BY <1>7, <1>8 DEF AddCopies, n, C

\* Table u is table t with the blocks g added.
Grown(t, g, u) == u = t \o g

\* Distinct free blocks.
FreshBlocks(P, g) == g \in Seq(Blocks) /\ IsInjective(g) /\ Range(g) \subseteq P.free

\* allocate_for_tokens: r's table grows by the fresh blocks g.
LEMMA AllocExact ==
  ASSUME NEW R, NEW r, NEW T, NEW U, Changes(R, r, T, U),
         NEW H, NEW P \in PoolOf(H), Exact(P, T),
         NEW g, FreshBlocks(P, g),
         Grown(T[r], g, U[r])
  PROVE  LET Q == AllocBlocks(P, g)
         IN  /\ Q \in PoolOf(H) /\ Exact(Q, U) /\ Q.cache = P.cache
             /\ \A b \in Range(g) : Q.ref[b] = 1
             /\ \A b \in Blocks : b \notin Range(g) => Q.ref[b] = P.ref[b]
<1> DEFINE Q == AllocBlocks(P, g)
<1>0. g \in Seq(Blocks) /\ IsInjective(g) /\ Range(g) \subseteq P.free
  BY DEF FreshBlocks
<1> USE <1>0
<1>1. /\ P.free = {b \in Blocks : P.ref[b] = 0}
      /\ IsFiniteSet(P.cache)
      /\ P.ref \in [Blocks -> Nat] /\ P.cache \in SUBSET (H \X Blocks)
  BY DEF Exact, PoolOf
<1>2. /\ Q.free = P.free \ Range(g) /\ Q.cache = P.cache
      /\ Q.ref = [b \in Blocks |-> IF b \in Range(g) THEN 1 ELSE P.ref[b]]
      /\ Q = [free |-> Q.free, ref |-> Q.ref, cache |-> Q.cache]
  BY DEF AllocBlocks
<1> HIDE DEF Q
<1>3. Q.ref \in [Blocks -> Nat]
  BY <1>1, <1>2
<1>4. Q \in PoolOf(H)
  BY <1>1, <1>2, <1>3 DEF PoolOf
<1>5. /\ \A b \in Range(g) : Q.ref[b] = 1
      /\ \A b \in Blocks : b \notin Range(g) => Q.ref[b] = P.ref[b]
  BY <1>1, <1>2
<1>6. Q.free = {b \in Blocks : Q.ref[b] = 0}
  BY <1>1, <1>2, <1>5
<1>7. ASSUME NEW b \in Blocks
      PROVE  Q.ref[b] = Held(U, b) + Copies(P.cache, b)
  <2>1. /\ Held(U, b) = Held(T, b) - Occ(T[r], b) + Occ(U[r], b)
        /\ Held(T, b) \in Nat /\ Held(U, b) \in Nat
        /\ Occ(T[r], b) \in Nat /\ Occ(U[r], b) \in Nat
        /\ T[r] \in Seq(Blocks)
    BY HeldChange
  <2>2. Occ(U[r], b) = Occ(T[r], b) + Occ(g, b)
    BY <2>1, OccConcat DEF Grown
  <2>3. Occ(g, b) = IF b \in Range(g) THEN 1 ELSE 0
    BY OccInjective
  <2>4. Copies(P.cache, b) \in Nat /\ P.ref[b] = Held(T, b) + Copies(P.cache, b)
    BY <1>1, CopiesNat DEF Exact
  <2>5. CASE b \in Range(g)
    <3>1. P.ref[b] = 0 /\ Q.ref[b] = 1
      BY <1>1, <1>5, <2>5
    <3> QED
      BY <2>1, <2>2, <2>3, <2>4, <2>5, <3>1
  <2>6. CASE b \notin Range(g)
    <3>1. Q.ref[b] = P.ref[b]
      BY <1>5, <2>6
    <3> QED
      BY <2>1, <2>2, <2>3, <2>4, <2>6, <3>1
  <2> QED
    BY <2>5, <2>6
<1>8. Exact(Q, U)
  BY <1>1, <1>2, <1>6, <1>7 DEF Exact
<1> QED
  BY <1>2, <1>4, <1>5, <1>8 DEF Q

\* _cow_if_shared copies nothing when no block of the span is shared.
LEMMA CowNone ==
  ASSUME NEW H, NEW P \in PoolOf(H), NEW t \in Seq(Blocks), NEW c, DOMAIN c = {}
  PROVE  CowPool(P, t, c) = P /\ CowTable(t, c) = t
<1>1. Range(c) = {}
  BY DEF Range
<1>2. /\ P = [free |-> P.free, ref |-> P.ref, cache |-> P.cache]
      /\ P.free \in SUBSET Blocks /\ P.ref \in [Blocks -> Nat]
  BY DEF PoolOf
<1>3. AllocBlocks(P, c) = P
  <2>1. [b \in Blocks |-> IF b \in Range(c) THEN 1 ELSE P.ref[b]] = P.ref
    BY <1>1, <1>2
  <2>2. P.free \ Range(c) = P.free
    BY <1>1
  <2> QED
    BY <1>2, <2>1, <2>2 DEF AllocBlocks
<1> DEFINE n == [b \in Blocks |-> Cardinality({i \in DOMAIN c : t[i] = b})]
<1>4. \A b \in Blocks : n[b] = 0
  <2>1. \A b \in Blocks : {i \in DOMAIN c : t[i] = b} = {}
    OBVIOUS
  <2> QED
    BY <2>1, FS_EmptySet
<1> HIDE DEF n
<1>5. Decref(P, n) = P
  <2>1. [b \in Blocks |-> P.ref[b] - n[b]] = P.ref
    BY <1>2, <1>4
  <2>2. P.free \union {b \in Blocks : n[b] > 0 /\ P.ref[b] = n[b]} = P.free
    BY <1>4
  <2> QED
    BY <1>2, <2>1, <2>2 DEF Decref
<1>6. CowPool(P, t, c) = P
  BY <1>3, <1>5 DEF CowPool, n
<1>7. CowTable(t, c) = t
  BY LenProperties DEF CowTable
<1> QED
  BY <1>6, <1>7

(***************************************************************************)
(* Positions, blocks and prefixes.                                         *)
(***************************************************************************)
\* The block of the next token is the one after the full blocks.
LEMMA DivStep ==
  ASSUME NEW x \in Nat
  PROVE  (x + BlockSize) \div BlockSize = x \div BlockSize + 1
BY BlockSizeAssumption

LEMMA DivMonotonic ==
  ASSUME NEW x \in Nat, NEW y \in Nat, x <= y
  PROVE  x \div BlockSize <= y \div BlockSize
BY BlockSizeAssumption

LEMMA DivExact ==
  ASSUME NEW n \in Nat
  PROVE  n * BlockSize \in Nat /\ (n * BlockSize) \div BlockSize = n
BY BlockSizeAssumption

LEMMA NeededFor ==
  ASSUME NEW x \in Nat
  PROVE  /\ BlocksNeededFor(x) \in Nat
         /\ x > 0 => BlocksNeededFor(x) = BlockIndex(x) /\ BlockIndex(x) > 0
<1>1. CASE x = 0
  BY <1>1, BlockSizeAssumption DEF BlocksNeededFor
<1>2. CASE x > 0
  <2>1. x - 1 \in Nat /\ x + BlockSize - 1 = (x - 1) + BlockSize
    BY <1>2, BlockSizeAssumption
  <2>2. ((x - 1) + BlockSize) \div BlockSize = (x - 1) \div BlockSize + 1
    BY <2>1, DivStep
  <2>3. (x - 1) \div BlockSize \in Nat
    BY <2>1, BlockSizeAssumption
  <2> QED
    BY <1>2, <2>1, <2>2, <2>3 DEF BlocksNeededFor, BlockIndex
<1> QED
  BY <1>1, <1>2

\* A position of a table's slots lies in one of them.
LEMMA SlotOf ==
  ASSUME NEW p \in Nat, p > 0, NEW t \in Seq(Blocks), BlockIndex(p) <= Len(t)
  PROVE  BlockIndex(p) \in DOMAIN t /\ t[BlockIndex(p)] \in Blocks
<1>1. p - 1 \in Nat /\ (p - 1) \div BlockSize \in Nat
  BY BlockSizeAssumption
<1>2. BlockIndex(p) \in Nat /\ BlockIndex(p) > 0
  BY <1>1 DEF BlockIndex
<1> HIDE DEF BlockIndex
<1>3. DOMAIN t = 1..Len(t) /\ Len(t) \in Nat
  BY LenProperties
<1>4. BlockIndex(p) \in DOMAIN t
  BY <1>2, <1>3
<1> QED
  BY <1>4, ElementOfSeq, LenProperties

\* Positions in the same slot and at the same offset are the same.
LEMMA PositionsApart ==
  ASSUME NEW p \in Nat, p > 0, NEW s \in Nat, s > 0,
         BlockIndex(p) = BlockIndex(s), Offset(p) = Offset(s)
  PROVE  p = s
<1>1. \A x, y \in Nat : x \div BlockSize = y \div BlockSize /\ x % BlockSize = y % BlockSize
                          => x = y
  BY BlockSizeAssumption
<1>2. p - 1 \in Nat /\ s - 1 \in Nat
  OBVIOUS
<1>3. (p - 1) \div BlockSize \in Nat /\ (s - 1) \div BlockSize \in Nat
  BY <1>2, BlockSizeAssumption
<1>4. (p - 1) \div BlockSize = (s - 1) \div BlockSize
  BY <1>3 DEF BlockIndex
<1>5. (p - 1) % BlockSize \in Nat /\ (s - 1) % BlockSize \in Nat
  BY <1>2, BlockSizeAssumption
<1>6. (p - 1) % BlockSize = (s - 1) % BlockSize
  BY <1>5 DEF Offset
<1>7. p - 1 = s - 1
  BY <1>1, <1>2, <1>4, <1>6
<1> QED
  BY <1>7

LEMMA OffsetType ==
  ASSUME NEW p \in Nat, p > 0
  PROVE  Offset(p) \in Offsets
BY BlockSizeAssumption DEF Offset, Offsets

\* Sequences that agree up to n have the same prefixes up to n.
LEMMA SamePrefixes ==
  ASSUME NEW S, NEW s \in Seq(S), NEW t \in Seq(S), NEW n \in Nat,
         \A i \in 1..n : s[i] = t[i]
  PROVE  \A p \in 1..n : SubSeq(s, 1, p) = SubSeq(t, 1, p)
OBVIOUS

\* A later position is in the same block or a later one.
LEMMA LaterIndex ==
  ASSUME NEW p \in Nat, p > 0, NEW n \in Nat, p <= n
  PROVE  BlockIndex(p) <= BlockIndex(n)
<1>1. p - 1 \in Nat /\ n - 1 \in Nat /\ p - 1 <= n - 1
  OBVIOUS
<1>2. (p - 1) \div BlockSize <= (n - 1) \div BlockSize
  BY <1>1, DivMonotonic
<1>3. (p - 1) \div BlockSize \in Nat /\ (n - 1) \div BlockSize \in Nat
  BY <1>1, BlockSizeAssumption
<1> QED
  BY <1>2, <1>3 DEF BlockIndex

\* The position at offset o of block n + 1.
LEMMA SlotPosition ==
  ASSUME NEW n \in Nat, NEW o \in Offsets
  PROVE  BlockIndex(n * BlockSize + o) = n + 1 /\ Offset(n * BlockSize + o) = o
<1>1. o \in 1..BlockSize
  BY DEF Offsets
<1>2. (n * BlockSize + o - 1) \div BlockSize = n
  BY <1>1, BlockSizeAssumption
<1>3. (n * BlockSize + o - 1) % BlockSize = o - 1
  BY <1>1, BlockSizeAssumption
<1> QED
  BY <1>1, <1>2, <1>3, BlockSizeAssumption DEF BlockIndex, Offset

\* A position and its place in its block.
LEMMA PositionSplit ==
  ASSUME NEW p \in Nat, p > 0
  PROVE  /\ BlockIndex(p) \in Nat \ {0}
         /\ BlockIndex(p) * BlockSize - BlockSize + Offset(p) = p
         /\ \A n \in Nat : p <= n * BlockSize => BlockIndex(p) <= n
<1> DEFINE x == p - 1
<1>1. x \in Nat /\ p = x + 1
  OBVIOUS
<1>2. BlockIndex(p) = x \div BlockSize + 1 /\ Offset(p) = (x % BlockSize) + 1
  BY DEF BlockIndex, Offset
<1> HIDE DEF x
<1>3. x \div BlockSize \in Nat /\ x % BlockSize = x - BlockSize * (x \div BlockSize)
  BY <1>1, BlockSizeAssumption
<1>4. BlockIndex(p) * BlockSize - BlockSize + Offset(p) = p
  <2> DEFINE y == x \div BlockSize
  <2>1. y \in Nat /\ BlockIndex(p) = y + 1 /\ Offset(p) = x - BlockSize * y + 1
    BY <1>2, <1>3
  <2> HIDE DEF y
  <2>2. (y + 1) * BlockSize - BlockSize + (x - BlockSize * y + 1) = x + 1
    BY <1>1, <2>1, BlockSizeAssumption
  <2> QED
    BY <1>1, <2>1, <2>2
<1>5. ASSUME NEW n \in Nat, p <= n * BlockSize
      PROVE  x \div BlockSize + 1 <= n
  BY <1>1, <1>5, BlockSizeAssumption
<1> QED
  BY <1>2, <1>3, <1>4, <1>5

LEMMA SubSeqJoin ==
  ASSUME NEW S, NEW s \in Seq(S), NEW m \in Nat, NEW n \in Nat, m <= n, n <= Len(s)
  PROVE  SubSeq(s, 1, m) \o SubSeq(s, m + 1, n) = SubSeq(s, 1, n)
OBVIOUS

LEMMA SubSeqTwice ==
  ASSUME NEW S, NEW s \in Seq(S), NEW m \in Nat, NEW n \in Nat, m <= n, n <= Len(s)
  PROVE  Len(SubSeq(s, 1, n)) = n /\ SubSeq(SubSeq(s, 1, n), 1, m) = SubSeq(s, 1, m)
OBVIOUS
=============================================================================
