--------------------------- MODULE OffloadProofs ---------------------------
(***************************************************************************)
(* Proofs about sessions whose KV moves between the pool and the host.     *)
(* The first part is about the pool and the requests, the second about the *)
(* host stores; the last puts them together, one lemma per operation of    *)
(* the managers and of the owner thread.                                   *)
(***************************************************************************)
EXTENDS OffloadInvariants, BlockManagerProofs, WellFoundedInduction

(***************************************************************************)
(* Requests and the pool.                                                  *)
(***************************************************************************)
\* How many blocks n tokens need.
LEMMA BlocksFor ==
  ASSUME NEW n \in Nat
  PROVE  /\ BlocksNeededFor(n) \in Nat
         /\ n <= BlocksNeededFor(n) * BlockSize
         /\ BlocksNeededFor(n) * BlockSize < n + BlockSize
         /\ n = 0 <=> BlocksNeededFor(n) = 0
<1> DEFINE B == BlockSize
           d == (n + B - 1) \div B
<1>1. B \in Nat \ {0}
  BY BlockSizeAssumption
<1>2. d \in Int /\ d * B <= n + B - 1 /\ n + B - 1 < d * B + B
  <2>1. \A a \in Nat, b \in Nat \ {0} : a \div b \in Int /\ (a \div b) * b <= a /\ a < (a \div b) * b + b
    OBVIOUS
  <2>2. n + B - 1 \in Nat
    BY <1>1
  <2> HIDE DEF B
  <2> QED
    BY <1>1, <2>1, <2>2
<1>3. d >= 0
  <2>1. CASE d < 0
    <3>1. d <= -1
      BY <1>2, <2>1
    <3>2. d * B <= (-1) * B
      BY <1>1, <1>2, <3>1
    <3> HIDE DEF d, B
    <3> QED
      BY <1>1, <1>2, <3>2
  <2> QED
    BY <1>2, <2>1
<1>4. d = 0 <=> n = 0
  <2>1. ASSUME n = 0, d # 0 PROVE FALSE
    <3>1. d >= 1
      BY <1>2, <1>3, <2>1
    <3>2. d * B >= B
      BY <1>1, <1>2, <3>1
    <3> HIDE DEF d, B
    <3> QED
      BY <1>1, <1>2, <2>1, <3>2
  <2>2. ASSUME d = 0, n # 0 PROVE FALSE
    <3> HIDE DEF d, B
    <3> QED
      BY <1>1, <1>2, <2>2
  <2> QED
    BY <2>1, <2>2
<1>5. BlocksNeededFor(n) = d
  BY DEF BlocksNeededFor
<1> HIDE DEF d, B
<1> QED
  BY <1>1, <1>2, <1>3, <1>4, <1>5 DEF B

\* An empty table is the table of a request with nothing computed.
LEMMA EmptyTable ==
  ASSUME NEW c, IsRequest(c), Placed(c)
  PROVE  /\ c.table = << >> <=> c.computed = 0
         /\ c.res = "cpu" => c.table = << >> /\ c.computed = 0 /\ c.st = "parked"
         /\ Len(c.table) = BlocksNeededFor(c.computed)
<1>1. c.table \in Seq(Blocks) /\ c.computed \in Nat
  BY DEF IsRequest
<1>2. c.table = << >> <=> Len(c.table) = 0
  BY <1>1, EmptySeq, LenProperties
<1> QED
  BY <1>1, <1>2, BlocksFor DEF Placed

LEMMA NoReqPlaced ==
  IsRequest(NoReq) /\ Placed(NoReq) /\ NoReq.table = << >>
<1>1. << >> \in TokenLists /\ << >> \in Seq(Blocks) /\ ROOT_HASH \in TokenLists
  BY DEF TokenLists, ROOT_HASH
<1>2. IsRequest(NoReq)
  BY <1>1 DEF NoReq, IsRequest
<1>3. Len(NoReq.table) = BlocksNeededFor(NoReq.computed)
  BY BlocksFor DEF NoReq
<1> QED
  BY <1>2, <1>3 DEF Placed, NoReq

LEMMA TablesType ==
  ASSUME NEW Q, Requests(Q)
  PROVE  Tables(Q) \in [Sessions -> Seq(Blocks)] /\ IsFiniteSet(Sessions)
         /\ \A r \in Sessions : Tables(Q)[r] = Q[r].table
BY ResidencyAssumption DEF Tables, Requests, IsRequest

LEMMA RequestsUpdate ==
  ASSUME NEW Q, Requests(Q), NEW r \in Sessions, NEW c, IsRequest(c), Placed(c)
  PROVE  /\ Requests([Q EXCEPT ![r] = c])
         /\ Changes(Sessions, r, Tables(Q), Tables([Q EXCEPT ![r] = c]))
         /\ Tables(Q)[r] = Q[r].table /\ Tables([Q EXCEPT ![r] = c])[r] = c.table
<1>1. Requests([Q EXCEPT ![r] = c])
  BY DEF Requests
<1> QED
  BY <1>1, TablesType DEF Changes, Requests

LEMMA PoolTypes == PoolType = PoolOf(TokenLists)
BY DEF PoolType, PoolOf

LEMMA CountedExact ==
  ASSUME NEW P, NEW T
  PROVE  Counted(P, T) <=> Exact(P, T)
BY DEF Counted, Exact

\* The parts of a sound pool, requests included.
LEMMA SeatsFacts ==
  ASSUME NEW P, NEW Q, Seats(P, Q)
  PROVE  /\ Requests(Q)
         /\ P \in PoolOf(TokenLists) /\ Exact(P, Tables(Q)) /\ NoneShared(P)
         /\ IsFiniteSet(Sessions) /\ Tables(Q) \in [Sessions -> Seq(Blocks)]
BY PoolTypes, CountedExact, TablesType DEF Seats

\* A pool whose counts are not higher, for requests one of which is replaced.
LEMMA SeatsReplaced ==
  ASSUME NEW P, NEW Q, Seats(P, Q), NEW r \in Sessions, NEW c, IsRequest(c), Placed(c),
         NEW O \in PoolOf(TokenLists), Exact(O, Tables([Q EXCEPT ![r] = c])), NoneShared(O)
  PROVE  Seats(O, [Q EXCEPT ![r] = c])
<1>1. Requests([Q EXCEPT ![r] = c])
  BY SeatsFacts, RequestsUpdate
<1> QED
  BY <1>1, PoolTypes, CountedExact DEF Seats

LEMMA FewerShared ==
  ASSUME NEW P \in PoolOf(TokenLists), NoneShared(P), NEW O \in PoolOf(TokenLists),
         O.cache \subseteq P.cache, \A b \in Blocks : O.ref[b] <= P.ref[b]
  PROVE  NoneShared(O)
<1>1. \A b \in Blocks : P.ref[b] \in Nat /\ O.ref[b] \in Nat
  BY DEF PoolOf
<1> QED
  BY <1>1 DEF NoneShared

\* Evictions of cached copies nobody uses.
LEMMA EvictSeats ==
  ASSUME NEW P, NEW Q, Seats(P, Q), NEW n, NEW V \in Victims(P, n)
  PROVE  LET O == EvictUnused(P, V)
         IN  /\ Seats(O, Q) /\ O.cache \subseteq P.cache /\ \A b \in Blocks : O.ref[b] <= P.ref[b]
<1>1. V \in SUBSET P.cache
  BY DEF Victims, Evictable
<1> DEFINE O == EvictUnused(P, V)
<1>2. /\ O \in PoolOf(TokenLists) /\ Exact(O, Tables(Q)) /\ O.cache = P.cache \ V
      /\ \A b \in Blocks : O.ref[b] <= P.ref[b]
  BY <1>1, SeatsFacts, EvictExact
<1> HIDE DEF O
<1>3. NoneShared(O)
  BY <1>2, SeatsFacts, FewerShared
<1>4. Seats(O, Q)
  BY <1>2, <1>3, SeatsFacts, PoolTypes, CountedExact DEF Seats
<1> QED
  BY <1>2, <1>4 DEF O

LEMMA ReclaimSeats ==
  ASSUME NEW P, NEW Q, Seats(P, Q), NEW goal, NEW O \in Reclaims(P, goal)
  PROVE  Seats(O, Q) /\ O.cache \subseteq P.cache /\ \A b \in Blocks : O.ref[b] <= P.ref[b]
BY EvictSeats DEF Reclaims

\* A request changes and keeps its table.
LEMMA KeepSeats ==
  ASSUME NEW P, NEW Q, Seats(P, Q), NEW r \in Sessions, NEW c, IsRequest(c), Placed(c),
         c.table = Q[r].table
  PROVE  Seats(P, [Q EXCEPT ![r] = c])
<1>1. Tables([Q EXCEPT ![r] = c]) = Tables(Q)
  BY SeatsFacts DEF Tables, Requests
<1> QED
  BY <1>1, SeatsFacts, SeatsReplaced

\* deallocate: a request gives up its table.
LEMMA DeallocateSeats ==
  ASSUME NEW P, NEW Q, Seats(P, Q), NEW r \in Sessions, NEW c, IsRequest(c), Placed(c),
         c.table = << >>
  PROVE  LET O == Deallocate(P, Q[r].table)
         IN  /\ Seats(O, [Q EXCEPT ![r] = c]) /\ O.cache = P.cache
             /\ \A b \in Blocks : O.ref[b] <= P.ref[b]
<1> DEFINE O == Deallocate(P, Q[r].table)
           U == Tables([Q EXCEPT ![r] = c])
<1>1. /\ Changes(Sessions, r, Tables(Q), U) /\ Tables(Q)[r] = Q[r].table /\ U[r] = << >>
      /\ Q[r].table \in Seq(Blocks)
  <2>1. Requests(Q)
    BY SeatsFacts
  <2>2. Q[r].table \in Seq(Blocks)
    BY <2>1 DEF Requests, IsRequest
  <2> QED
    BY <2>1, <2>2, RequestsUpdate
<1>2. Splits(Tables(Q)[r], U[r], Q[r].table)
  <2>1. \A b \in Blocks : Occ(Q[r].table, b) \in Nat
    BY <1>1, OccNat
  <2> QED
    BY <1>1, <2>1, OccEmpty DEF Splits
<1> HIDE DEF U
<1>3. /\ O \in PoolOf(TokenLists) /\ Exact(O, U) /\ O.cache = P.cache
      /\ \A b \in Blocks : O.ref[b] <= P.ref[b]
  BY <1>1, <1>2, SeatsFacts, DeallocateExact
<1> HIDE DEF O
<1>4. NoneShared(O)
  BY <1>3, SeatsFacts, FewerShared
<1>5. Seats(O, [Q EXCEPT ![r] = c])
  BY <1>3, <1>4, SeatsReplaced DEF U
<1> QED
  BY <1>3, <1>5 DEF O

\* finish_request for the requests S.
LEMMA FinishSeats ==
  ASSUME NEW P, NEW Q, Seats(P, Q), NEW S \in SUBSET Sessions
  PROVE  LET O == DeallocateAll(P, [r \in S |-> Q[r].table])
         IN  /\ Seats(O, [r \in Sessions |-> IF r \in S THEN NoReq ELSE Q[r]])
             /\ O.cache = P.cache /\ \A b \in Blocks : O.ref[b] <= P.ref[b]
<1> DEFINE D == [r \in S |-> Q[r].table]
           O == DeallocateAll(P, D)
           N == [r \in Sessions |-> IF r \in S THEN NoReq ELSE Q[r]]
<1>1. Requests(N)
  BY SeatsFacts, NoReqPlaced DEF Requests
<1>2. Released(Sessions, S, Tables(Q), D, Tables(N))
  <2>1. D = [r \in S |-> Tables(Q)[r]]
    BY SeatsFacts DEF Tables
  <2>2. Tables(N) = [r \in Sessions |-> IF r \in S THEN << >> ELSE Tables(Q)[r]]
    BY NoReqPlaced DEF Tables
  <2> QED
    BY <2>1, <2>2 DEF Released
<1> HIDE DEF D, N
<1>3. /\ O \in PoolOf(TokenLists) /\ Exact(O, Tables(N)) /\ O.cache = P.cache
      /\ \A b \in Blocks : O.ref[b] <= P.ref[b]
  BY <1>2, SeatsFacts, DeallocateAllExact
<1> HIDE DEF O
<1>4. NoneShared(O)
  BY <1>3, SeatsFacts, FewerShared
<1>5. Seats(O, N)
  BY <1>1, <1>3, <1>4, PoolTypes, CountedExact DEF Seats
<1> QED
  BY <1>3, <1>5 DEF O, N, D

(***************************************************************************)
(* Occurrences in a function that need not be a sequence.                  *)
(***************************************************************************)
\* A finite family of blocks.
Family(f) == IsFiniteSet(DOMAIN f) /\ \A i \in DOMAIN f : f[i] \in Blocks

LEMMA OccFamily ==
  ASSUME NEW f, Family(f), NEW b
  PROVE  /\ IsFiniteSet({i \in DOMAIN f : f[i] = b}) /\ Occ(f, b) \in Nat
         /\ b \in Range(f) <=> Occ(f, b) > 0
<1>1. IsFiniteSet({i \in DOMAIN f : f[i] = b})
  BY FS_Subset DEF Family
<1>2. Occ(f, b) \in Nat /\ (Occ(f, b) = 0 <=> {i \in DOMAIN f : f[i] = b} = {})
  BY <1>1, FS_CardinalityType, FS_EmptySet DEF Occ
<1> QED
  BY <1>1, <1>2 DEF Range

\* A family cut in two.
Cut(f, u, v) ==
  /\ DOMAIN u \union DOMAIN v = DOMAIN f /\ DOMAIN u \intersect DOMAIN v = {}
  /\ \A i \in DOMAIN u : u[i] = f[i]
  /\ \A i \in DOMAIN v : v[i] = f[i]

LEMMA OccCut ==
  ASSUME NEW f, Family(f), NEW u, NEW v, Cut(f, u, v), NEW b
  PROVE  Occ(f, b) = Occ(u, b) + Occ(v, b) /\ Occ(u, b) \in Nat /\ Occ(v, b) \in Nat
<1> DEFINE F == {i \in DOMAIN f : f[i] = b}
           U == {i \in DOMAIN u : u[i] = b}
           V == {i \in DOMAIN v : v[i] = b}
<1>1. IsFiniteSet(F)
  BY OccFamily
<1>2. F = U \union V /\ U \intersect V = {}
  BY DEF Cut
<1>3. IsFiniteSet(U) /\ IsFiniteSet(V)
  BY <1>1, <1>2, FS_Subset
<1> HIDE DEF F, U, V
<1>4. Cardinality(U \union V) = Cardinality(U) + Cardinality(V) - Cardinality(U \intersect V)
  BY <1>3, FS_Union
<1>5. Cardinality(F) = Cardinality(U) + Cardinality(V)
  <2>1. Cardinality(U) \in Nat /\ Cardinality(V) \in Nat
    BY <1>3, FS_CardinalityType
  <2>2. Cardinality(U \intersect V) = 0
    BY <1>2, FS_EmptySet
  <2> QED
    BY <1>2, <1>4, <2>1, <2>2
<1> QED
  BY <1>3, <1>5, FS_CardinalityType DEF Occ, F, U, V

\* A family written out as a sequence.
Lists(s, f) ==
  /\ s \in Seq(Blocks) /\ Range(s) = Range(f)
  /\ \A b : Occ(s, b) = Occ(f, b)
  /\ IsInjective(f) => IsInjective(s)

LEMMA Listing ==
  ASSUME NEW f, Family(f)
  PROVE  \E s : Lists(s, f)
<1> DEFINE n == Cardinality(DOMAIN f)
<1>1. n \in Nat /\ ExistsBijection(1..n, DOMAIN f)
  BY FS_CardinalityType DEF Family
<1>2. PICK e : e \in Bijection(1..n, DOMAIN f)
  BY <1>1 DEF ExistsBijection
<1>3. /\ e \in [1..n -> DOMAIN f]
      /\ \A i, j \in 1..n : e[i] = e[j] => i = j
      /\ \A d \in DOMAIN f : \E i \in 1..n : e[i] = d
  BY <1>2 DEF Bijection, Injection, Surjection, IsInjective
<1> DEFINE s == [i \in 1..n |-> f[e[i]]]
<1>4. \A i \in 1..n : s[i] = f[e[i]] /\ e[i] \in DOMAIN f
  BY <1>3
<1>5. s \in Seq(Blocks) /\ DOMAIN s = 1..n
  <2>1. \A i \in 1..n : s[i] \in Blocks
    BY <1>4 DEF Family
  <2> QED
    BY <1>1, <2>1
<1> HIDE DEF n, s
<1>6. Range(s) = Range(f)
  BY <1>3, <1>4, <1>5 DEF Range
<1>7. IsInjective(f) => IsInjective(s)
  BY <1>3, <1>4, <1>5 DEF IsInjective
<1>8. ASSUME NEW b
      PROVE  Occ(s, b) = Occ(f, b)
  <2> DEFINE S == {i \in DOMAIN s : s[i] = b}
             F == {i \in DOMAIN f : f[i] = b}
             g == [i \in S |-> e[i]]
  <2>1. g \in [S -> F]
    BY <1>4, <1>5
  <2>2. \A i, j \in S : g[i] = g[j] => i = j
    BY <1>3, <1>5
  <2>3. \A d \in F : \E i \in S : g[i] = d
    BY <1>3, <1>4, <1>5
  <2>4. g \in Bijection(S, F)
    BY <2>1, <2>2, <2>3 DEF Bijection, Injection, Surjection, IsInjective
  <2>5. ExistsBijection(S, F)
    BY <2>4 DEF ExistsBijection
  <2>6. IsFiniteSet(S)
    BY <1>5, OccNat
  <2> HIDE DEF S, F
  <2> QED
    BY <2>5, <2>6, FS_Bijection DEF Occ, S, F
<1> QED
  BY <1>5, <1>6, <1>7, <1>8 DEF Lists

(***************************************************************************)
(* A restore: cached blocks are pinned, copies nobody uses make room, and  *)
(* fresh blocks take what comes back from the host.                        *)
(***************************************************************************)
Counts(P, T) == P \in PoolOf(TokenLists) /\ Exact(P, T) /\ NoneShared(P)
LEMMA SeatsCounts ==
  ASSUME NEW P, NEW Q
  PROVE  Seats(P, Q) <=> Requests(Q) /\ Counts(P, Tables(Q))
BY PoolTypes, CountedExact DEF Seats, Counts

\* The tables of Q with s for session r.
With(Q, r, s) == [x \in Sessions |-> IF x = r THEN s ELSE Q[x].table]
Withs(Q, r, s, t) ==
  /\ Changes(Sessions, r, With(Q, r, s), With(Q, r, t))
  /\ With(Q, r, s)[r] = s /\ With(Q, r, t)[r] = t
  /\ With(Q, r, s) \in [Sessions -> Seq(Blocks)]
LEMMA WithChanges ==
  ASSUME NEW Q, Requests(Q), NEW r \in Sessions, NEW s, s \in Seq(Blocks), NEW t, t \in Seq(Blocks)
  PROVE  Withs(Q, r, s, t)
<1>1. \A x \in Sessions : Q[x].table \in Seq(Blocks)
  BY DEF Requests, IsRequest
<1> QED
  BY <1>1, ResidencyAssumption DEF With, Withs, Changes
LEMMA WithTables ==
  ASSUME NEW Q, Requests(Q), NEW r \in Sessions
  PROVE  /\ Tables(Q) = With(Q, r, Q[r].table)
         /\ \A c : Tables([Q EXCEPT ![r] = c]) = With(Q, r, c.table)
BY DEF With, Tables, Requests

LEMMA CountsSame ==
  ASSUME NEW Q, Requests(Q), NEW r \in Sessions, NEW s \in Seq(Blocks), NEW t \in Seq(Blocks),
         \A b \in Blocks : Occ(s, b) = Occ(t, b), NEW P, Counts(P, With(Q, r, s))
  PROVE  Counts(P, With(Q, r, t))
<1>1. ASSUME NEW b \in Blocks
      PROVE  Held(With(Q, r, t), b) = Held(With(Q, r, s), b)
  <2>1. /\ Held(With(Q, r, t), b) = Held(With(Q, r, s), b) - Occ(s, b) + Occ(t, b)
        /\ Held(With(Q, r, s), b) \in Nat /\ Occ(s, b) \in Nat
    <3>1. Withs(Q, r, s, t)
      BY WithChanges
    <3> DEFINE T == With(Q, r, s)
               U == With(Q, r, t)
    <3>2. Changes(Sessions, r, T, U) /\ T[r] = s /\ U[r] = t
      BY <3>1 DEF Withs
    <3> HIDE DEF T, U
    <3>3. /\ Held(U, b) = Held(T, b) - Occ(T[r], b) + Occ(U[r], b)
          /\ Held(T, b) \in Nat /\ Occ(T[r], b) \in Nat
      BY <3>2, HeldChange
    <3> QED
      BY <3>2, <3>3 DEF T, U
  <2> QED
    BY <2>1
<1> QED
  BY <1>1 DEF Counts, Exact

\* Cached blocks, for some of n positions.
Reuses(P, h, n) ==
  /\ DOMAIN h \subseteq 1..n
  /\ \A i \in DOMAIN h : h[i] \in Blocks /\ P.ref[h[i]] > 0
  /\ ~PrefixCaching => DOMAIN h = {}
LEMMA ReusesFamily ==
  ASSUME NEW P, NEW h, NEW n \in Nat, Reuses(P, h, n)
  PROVE  Family(h)
<1>1. IsFiniteSet(1..n)
  BY FS_Interval
<1>2. IsFiniteSet(DOMAIN h)
  BY <1>1, FS_Subset DEF Reuses
<1> QED
  BY <1>2 DEF Reuses, Family

LEMMA PinCounts ==
  ASSUME NEW P, NEW Q, Seats(P, Q), NEW r \in Sessions, Bare(Q[r].table),
         NEW n \in Nat, NEW h, Reuses(P, h, n), NEW s, Lists(s, h)
  PROVE  Counts(Pinned(P, h), With(Q, r, s)) /\ Pinned(P, h).cache = P.cache
<1> DEFINE O == AttachPool(P, s)
<1>1. Requests(Q) /\ Counts(P, Tables(Q)) /\ Q[r].table = << >>
  BY SeatsCounts DEF Bare
<1>2. << >> \in Seq(Blocks) /\ s \in Seq(Blocks)
  BY DEF Lists
<1>3. /\ Changes(Sessions, r, With(Q, r, << >>), With(Q, r, s)) /\ With(Q, r, s)[r] = s
      /\ Bare(With(Q, r, << >>)[r]) /\ Tables(Q) = With(Q, r, << >>)
  <2>1. Withs(Q, r, << >>, s)
    BY <1>1, <1>2, WithChanges
  <2> QED
    BY <1>1, <2>1, WithTables DEF Bare, Withs
<1>4. InUse(P, s)
  <2>1. \A i \in DOMAIN s : s[i] \in Range(h)
    BY DEF Lists, Range
  <2> QED
    BY <2>1 DEF InUse, Reuses, Range
<1>5. O \in PoolOf(TokenLists) /\ Exact(O, With(Q, r, s)) /\ O.cache = P.cache
  BY <1>1, <1>3, <1>4, AttachExact DEF Counts
<1>6. Pinned(P, h) = O
  BY DEF Pinned, AttachPool, Lists
<1>7. NoneShared(O)
  <2> SUFFICES ASSUME ~PrefixCaching
               PROVE  \A b \in Blocks : O.ref[b] <= 1
    BY <1>1, <1>5 DEF NoneShared, Counts
  <2>1. \A b \in Blocks : P.ref[b] \in Nat /\ P.ref[b] <= 1
    BY <1>1 DEF Counts, NoneShared, PoolOf
  <2>2. \A b \in Blocks : Occ(h, b) = 0
    <3>1. DOMAIN h = {}
      BY DEF Reuses
    <3> QED
      BY <3>1, FS_EmptySet DEF Occ
  <2>3. \A b \in Blocks : O.ref[b] = P.ref[b] + Occ(h, b)
    BY <1>6 DEF Pinned, Incref
  <2> QED
    BY <2>1, <2>2, <2>3
<1> QED
  BY <1>5, <1>6, <1>7 DEF Counts

LEMMA ReclaimCounts ==
  ASSUME NEW P, NEW Q, Requests(Q), NEW r \in Sessions, NEW s \in Seq(Blocks),
         Counts(P, With(Q, r, s)), NEW goal, NEW O \in Reclaims(P, goal)
  PROVE  /\ Counts(O, With(Q, r, s)) /\ O.cache \subseteq P.cache
         /\ \A b \in Blocks : O.ref[b] <= P.ref[b]
<1>1. PICK V \in Victims(P, goal - FreeBlocks(P)) : O = EvictUnused(P, V)
  BY DEF Reclaims
<1>2. V \in SUBSET P.cache
  BY DEF Victims, Evictable
<1>3. /\ O \in PoolOf(TokenLists) /\ Exact(O, With(Q, r, s)) /\ O.cache = P.cache \ V
      /\ \A b \in Blocks : O.ref[b] <= P.ref[b]
  <2>1. Withs(Q, r, s, s)
    BY WithChanges
  <2> QED
    BY <1>1, <1>2, <2>1, EvictExact, ResidencyAssumption DEF Counts, Withs
<1> QED
  BY <1>3, FewerShared DEF Counts

\* begin_restore fails: the pins are released.
LEMMA UnpinSeats ==
  ASSUME NEW P, NEW Q, Seats(P, Q), NEW r \in Sessions, Bare(Q[r].table),
         NEW n \in Nat, NEW h, Reuses(P, h, n), NEW goal, NEW R \in Reclaims(Pinned(P, h), goal)
  PROVE  Seats(Unpinned(R, h), Q) /\ Unpinned(R, h).cache \subseteq P.cache
<1>1. PICK s : Lists(s, h)
  BY ReusesFamily, Listing
<1>2. Requests(Q) /\ s \in Seq(Blocks) /\ Q[r].table = << >> /\ << >> \in Seq(Blocks)
  BY <1>1, SeatsCounts DEF Lists, Bare
<1>3. Counts(Pinned(P, h), With(Q, r, s)) /\ Pinned(P, h).cache = P.cache
  BY <1>1, PinCounts
<1>4. Counts(R, With(Q, r, s)) /\ R.cache \subseteq P.cache
  BY <1>2, <1>3, ReclaimCounts
<1>5. /\ Changes(Sessions, r, With(Q, r, s), With(Q, r, << >>)) /\ With(Q, r, s)[r] = s
      /\ With(Q, r, << >>)[r] = << >> /\ Tables(Q) = With(Q, r, << >>)
  <2>1. Withs(Q, r, s, << >>)
    BY <1>2, WithChanges
  <2> QED
    BY <1>2, <2>1, WithTables DEF Withs
<1>6. Splits(s, << >>, s)
  <2>1. \A b \in Blocks : Occ(s, b) \in Nat
    BY <1>2, OccNat
  <2> QED
    BY <2>1, OccEmpty DEF Splits
<1> DEFINE O == Deallocate(R, s)
<1>7. /\ O \in PoolOf(TokenLists) /\ Exact(O, Tables(Q)) /\ O.cache = R.cache
      /\ \A b \in Blocks : O.ref[b] <= R.ref[b]
  BY <1>2, <1>4, <1>5, <1>6, DeallocateExact DEF Counts
<1>8. Unpinned(R, h) = O
  BY <1>1 DEF Unpinned, Deallocate, Lists
<1>9. NoneShared(O)
  BY <1>4, <1>7, FewerShared DEF Counts
<1> QED
  BY <1>2, <1>4, <1>7, <1>8, <1>9, SeatsCounts DEF Counts

\* The table of a restore.
Mixed(h, g, n) == [i \in 1..n |-> IF i \in DOMAIN h THEN h[i] ELSE g[i]]

\* The blocks g that a restore writes are nobody else's.
Apart(P, R, Q, n, h, g) ==
  /\ R.cache \subseteq P.cache
  /\ \A i \in 1..n \ DOMAIN h :
       /\ g[i] \in R.free
       /\ \A x \in Sessions : \A j \in DOMAIN Q[x].table : Q[x].table[j] # g[i]
       /\ \A e \in R.cache : e[2] # g[i]
       /\ \A j \in DOMAIN h : h[j] # g[i]

\* begin_restore succeeds.
LEMMA RestoreSeats ==
  ASSUME NEW P, NEW Q, Seats(P, Q), NEW r \in Sessions, Bare(Q[r].table),
         NEW n \in Nat, NEW h, Reuses(P, h, n), NEW goal, NEW R \in Reclaims(Pinned(P, h), goal),
         NEW g \in Fresh(R, 1..n \ DOMAIN h),
         NEW c, IsRequest(c), Placed(c), c.table = Mixed(h, g, n)
  PROVE  Seats(AllocBlocks(R, g), [Q EXCEPT ![r] = c]) /\ Apart(P, R, Q, n, h, g)
<1>1. PICK s : Lists(s, h)
  BY ReusesFamily, Listing
<1>2. Requests(Q) /\ s \in Seq(Blocks) /\ Q[r].table = << >> /\ << >> \in Seq(Blocks)
  BY <1>1, SeatsCounts DEF Lists, Bare
<1>3. Counts(Pinned(P, h), With(Q, r, s)) /\ Pinned(P, h).cache = P.cache
  BY <1>1, PinCounts
<1>4. Counts(R, With(Q, r, s)) /\ R.cache \subseteq P.cache
  BY <1>2, <1>3, ReclaimCounts
<1>5. /\ g \in [1..n \ DOMAIN h -> R.free] /\ IsInjective(g) /\ R.free \subseteq Blocks
  BY <1>4 DEF Fresh, Counts, PoolOf
<1>6. Family(g)
  <2>1. IsFiniteSet(1..n)
    BY FS_Interval
  <2>2. IsFiniteSet(1..n \ DOMAIN h)
    BY <2>1, FS_Difference
  <2> QED
    BY <1>5, <2>2 DEF Family
<1>7. PICK f : Lists(f, g)
  BY <1>6, Listing
<1>8. f \in Seq(Blocks) /\ s \o f \in Seq(Blocks)
  BY <1>2, <1>7 DEF Lists
<1>9. FreshBlocks(R, f)
  BY <1>5, <1>7 DEF FreshBlocks, Lists, Range
<1>10. /\ Changes(Sessions, r, With(Q, r, s), With(Q, r, s \o f)) /\ With(Q, r, s)[r] = s
       /\ With(Q, r, s \o f)[r] = s \o f /\ With(Q, r, s) \in [Sessions -> Seq(Blocks)]
  <2>1. Withs(Q, r, s, s \o f)
    BY <1>2, <1>8, WithChanges
  <2> QED
    BY <2>1 DEF Withs
<1> DEFINE O == AllocBlocks(R, f)
<1>11. /\ O \in PoolOf(TokenLists) /\ Exact(O, With(Q, r, s \o f)) /\ O.cache = R.cache
       /\ \A b \in Range(f) : O.ref[b] = 1
       /\ \A b \in Blocks : b \notin Range(f) => O.ref[b] = R.ref[b]
  <2>1. Grown(With(Q, r, s)[r], f, With(Q, r, s \o f)[r])
    BY <1>10 DEF Grown
  <2> QED
    <3>1. R \in PoolOf(TokenLists) /\ Exact(R, With(Q, r, s))
      BY <1>4 DEF Counts
    <3> DEFINE T == With(Q, r, s)
               U == With(Q, r, s \o f)
    <3>2. Changes(Sessions, r, T, U) /\ Grown(T[r], f, U[r]) /\ Exact(R, T)
      BY <1>10, <2>1, <3>1
    <3> HIDE DEF T, U
    <3>3. /\ AllocBlocks(R, f) \in PoolOf(TokenLists) /\ Exact(AllocBlocks(R, f), U)
          /\ AllocBlocks(R, f).cache = R.cache
          /\ \A b \in Range(f) : AllocBlocks(R, f).ref[b] = 1
          /\ \A b \in Blocks : b \notin Range(f) => AllocBlocks(R, f).ref[b] = R.ref[b]
      BY <1>9, <3>1, <3>2, AllocExact
    <3> QED
      BY <3>3 DEF U
<1>12. AllocBlocks(R, g) = O
  BY <1>7 DEF AllocBlocks, Lists
<1> HIDE DEF O
<1>13. Counts(O, With(Q, r, s \o f))
  <2>1. NoneShared(O)
    BY <1>4, <1>11 DEF NoneShared, Counts
  <2> QED
    BY <1>11, <2>1 DEF Counts
<1>14. c.table \in Seq(Blocks)
  BY DEF IsRequest
<1>15. \A b \in Blocks : Occ(s \o f, b) = Occ(c.table, b)
  <2> TAKE b \in Blocks
  <2>1. Cut(c.table, h, g)
    BY <1>5 DEF Cut, Mixed, Reuses
  <2>2. Family(c.table)
    <3>1. DOMAIN c.table = 1..n /\ IsFiniteSet(1..n)
      BY FS_Interval DEF Mixed
    <3> QED
      BY <1>5, <3>1 DEF Family, Mixed, Reuses
  <2>3. Occ(c.table, b) = Occ(h, b) + Occ(g, b)
    BY <2>1, <2>2, OccCut
  <2>4. Occ(s \o f, b) = Occ(s, b) + Occ(f, b)
    BY <1>2, <1>8, OccConcat
  <2> QED
    BY <1>1, <1>7, <2>3, <2>4 DEF Lists
<1>16. Counts(O, With(Q, r, c.table))
  BY <1>2, <1>8, <1>13, <1>14, <1>15, CountsSame
<1>17. Seats(O, [Q EXCEPT ![r] = c])
  <2>1. Tables([Q EXCEPT ![r] = c]) = With(Q, r, c.table)
    BY <1>2, WithTables
  <2>2. Requests([Q EXCEPT ![r] = c])
    BY <1>2, RequestsUpdate
  <2> QED
    BY <1>16, <2>1, <2>2, SeatsCounts
<1>18. ASSUME NEW i \in 1..n \ DOMAIN h
       PROVE  /\ g[i] \in R.free
              /\ \A x \in Sessions : \A j \in DOMAIN Q[x].table : Q[x].table[j] # g[i]
              /\ \A e \in R.cache : e[2] # g[i]
              /\ \A j \in DOMAIN h : h[j] # g[i]
  <2>1. g[i] \in R.free /\ g[i] \in Blocks
    BY <1>5
  <2>2. /\ \A x \in Sessions : \A j \in DOMAIN With(Q, r, s)[x] : With(Q, r, s)[x][j] # g[i]
        /\ \A e \in R.cache : e[2] # g[i]
    <3>1. R.ref[g[i]] = 0
      BY <1>4, <2>1 DEF Counts, Exact
    <3> QED
      <4>1. IsFiniteSet(Sessions) /\ R \in PoolOf(TokenLists) /\ Exact(R, With(Q, r, s))
        BY <1>4, ResidencyAssumption DEF Counts
      <4> HIDE DEF Counts
      <4>2. /\ \A x \in Sessions : \A j \in DOMAIN With(Q, r, s)[x] :
                 With(Q, r, s)[x][j] = g[i] => R.ref[g[i]] > 0
            /\ \A e \in R.cache : e[2] = g[i] => R.ref[g[i]] > 0
        BY <1>10, <2>1, <4>1, ExactFacts
      <4> QED
        BY <3>1, <4>2
  <2>3. \A x \in Sessions : \A j \in DOMAIN Q[x].table : Q[x].table[j] # g[i]
    BY <1>2, <2>2 DEF With
  <2>4. \A j \in DOMAIN h : h[j] # g[i]
    <3>1. \A j \in DOMAIN s : s[j] # g[i]
      BY <1>10, <2>2
    <3>2. g[i] \notin Range(h)
      BY <1>1, <3>1 DEF Lists, Range
    <3> QED
      BY <3>2 DEF Range
  <2> QED
    BY <2>1, <2>2, <2>3, <2>4
<1>19. Apart(P, R, Q, n, h, g)
  BY <1>4, <1>18 DEF Apart
<1> QED
  BY <1>12, <1>17, <1>19

(***************************************************************************)
(* The stages of a turn.                                                   *)
(***************************************************************************)
LEMMA BlocksForMultiple ==
  ASSUME NEW k \in Nat
  PROVE  BlocksNeededFor(k * BlockSize) = k /\ k * BlockSize \in Nat
<1> DEFINE B == BlockSize
           d == BlocksNeededFor(k * B)
<1>1. B \in Nat \ {0}
  BY BlockSizeAssumption
<1>2. k * B \in Nat
  BY <1>1
<1>3. d \in Nat /\ k * B <= d * B /\ d * B < k * B + B
  BY <1>2, BlocksFor
<1> HIDE DEF B, d
<1>4. ~(d < k)
  <2> SUFFICES ASSUME d + 1 <= k PROVE FALSE
    BY <1>3
  <2>1. (d + 1) * B <= k * B
    BY <1>1, <1>3
  <2> QED
    BY <1>1, <1>2, <1>3, <2>1
<1>5. ~(k < d)
  <2> SUFFICES ASSUME k + 1 <= d PROVE FALSE
    BY <1>3
  <2>1. (k + 1) * B <= d * B
    BY <1>1, <1>3
  <2> QED
    BY <1>1, <1>2, <1>3, <2>1
<1> QED
  BY <1>2, <1>3, <1>4, <1>5 DEF B, d

LEMMA BlocksForMonotone ==
  ASSUME NEW m \in Nat, NEW n \in Nat, m <= n
  PROVE  BlocksNeededFor(m) <= BlocksNeededFor(n)
<1> DEFINE B == BlockSize
           d == BlocksNeededFor(m)
           e == BlocksNeededFor(n)
<1>1. B \in Nat \ {0}
  BY BlockSizeAssumption
<1>2. d \in Nat /\ d * B < m + B /\ e \in Nat /\ n <= e * B
  BY BlocksFor
<1> HIDE DEF B, d, e
<1>3. ~(e < d)
  <2> SUFFICES ASSUME e + 1 <= d PROVE FALSE
    BY <1>2
  <2>1. (e + 1) * B <= d * B
    BY <1>1, <1>2
  <2> QED
    BY <1>1, <1>2, <2>1
<1> QED
  BY <1>2, <1>3 DEF d, e

\* attach_cached_prefix: what is attached is cached, block by block.
LEMMA AttachingFacts ==
  ASSUME NEW P \in PoolOf(TokenLists), NEW c, IsRequest(c), c.computed < Len(c.tokens),
         NEW t \in Attaching(P, c)
  PROVE  /\ t \in Seq(Blocks) /\ Reuses(P, t, Len(t)) /\ Len(t) * BlockSize < Len(c.tokens)
         /\ \A i \in 1..Len(t) : <<PrefixHash(c, i), t[i]>> \in P.cache
<1>1. c.tokens \in Seq(Tokens) /\ Len(c.tokens) \in Nat /\ Len(c.tokens) > 0
  BY LenProperties DEF IsRequest, TokenLists
<1>2. CASE ~PrefixCaching
  <2>1. t = << >>
    BY <1>2 DEF Attaching
  <2>2. << >> \in Seq(Blocks) /\ Len(<< >>) = 0 /\ DOMAIN << >> = {}
    OBVIOUS
  <2> QED
    BY <1>1, <2>1, <2>2, BlockSizeAssumption DEF Reuses
<1>3. CASE PrefixCaching
  <2>1. PICK k \in LongestHit(P, c) :
             t \in {u \in [1..k -> Blocks] : \A i \in 1..k : u[i] \in Lookup(P, PrefixHash(c, i))}
    BY <1>3 DEF Attaching, Attachments
  <2>2. MaxCached(c) \in Nat /\ MaxCached(c) * BlockSize <= Len(c.tokens) - 1
    <3>1. \A a \in Nat, b \in Nat \ {0} : a \div b \in Nat /\ (a \div b) * b <= a
      OBVIOUS
    <3>2. Len(c.tokens) - 1 \in Nat
      BY <1>1
    <3> QED
      BY <3>1, <3>2, BlockSizeAssumption DEF MaxCached
  <2>3. k \in Nat /\ k <= MaxCached(c)
    BY <2>2 DEF LongestHit
  <2>4. t \in [1..k -> Blocks] /\ \A i \in 1..k : t[i] \in Lookup(P, PrefixHash(c, i))
    BY <2>1
  <2>5. t \in Seq(Blocks) /\ Len(t) = k /\ DOMAIN t = 1..k
    BY <2>3, <2>4
  <2>6. \A i \in 1..k : P.ref[t[i]] > 0 /\ <<PrefixHash(c, i), t[i]>> \in P.cache
    BY <2>4 DEF Lookup
  <2>7. k * BlockSize <= MaxCached(c) * BlockSize
    BY <2>2, <2>3, BlockSizeAssumption
  <2>8. k * BlockSize < Len(c.tokens)
    <3>1. k * BlockSize \in Nat /\ MaxCached(c) * BlockSize \in Nat
      BY <2>2, <2>3, BlockSizeAssumption
    <3> QED
      BY <1>1, <2>2, <2>7, <3>1
  <2> QED
    BY <1>3, <2>4, <2>5, <2>6, <2>8 DEF Reuses
<1> QED
  BY <1>2, <1>3

LEMMA AttachedRequest ==
  ASSUME NEW c, IsRequest(c), c.st # "gone", c.res # "cpu", c.computed < Len(c.tokens),
         NEW t \in Seq(Blocks), Len(t) * BlockSize < Len(c.tokens)
  PROVE  /\ IsRequest(Attached(c, t)) /\ Placed(Attached(c, t)) /\ Attached(c, t).table = t
         /\ Attached(c, t).computed = Len(t) * BlockSize /\ Attached(c, t).tokens = c.tokens
         /\ Attached(c, t).st = c.st /\ Attached(c, t).res = c.res
         /\ Attached(c, t).published = Len(t) /\ Attached(c, t).parent = PrefixHash(c, Len(t))
<1> DEFINE a == Attached(c, t)
<1>1. /\ DOMAIN a = DOMAIN c /\ a.table = t /\ a.computed = Len(t) * BlockSize
      /\ a.tokens = c.tokens /\ a.st = c.st /\ a.res = c.res /\ a.snap = c.snap
      /\ a.published = Len(t) /\ a.parent = PrefixHash(c, Len(t))
  BY DEF IsRequest, Attached
<1>2. Len(t) \in Nat /\ Len(t) * BlockSize \in Nat
  BY BlocksForMultiple
<1>3. PrefixHash(c, Len(t)) \in TokenLists
  <2>1. c.tokens \in Seq(Tokens)
    BY DEF IsRequest, TokenLists
  <2> QED
    BY <1>2, <2>1, SubSeqProperties DEF PrefixHash, TokenLists
<1>4. IsRequest(a)
  BY <1>1, <1>2, <1>3 DEF IsRequest
<1>5. Placed(a)
  BY <1>1, <1>2, BlocksForMultiple DEF Placed
<1> QED
  BY <1>1, <1>4, <1>5

LEMMA AttachSeats ==
  ASSUME NEW P, NEW Q, Seats(P, Q), NEW r \in Sessions, Bare(Q[r].table),
         NEW c, IsRequest(c), c.st # "gone", c.res # "cpu", c.computed < Len(c.tokens),
         NEW t \in Attaching(P, c)
  PROVE  Seats(AttachPool(P, t), [Q EXCEPT ![r] = Attached(c, t)]) /\ AttachPool(P, t).cache = P.cache
<1>1. P \in PoolOf(TokenLists) /\ Requests(Q)
  BY SeatsFacts
<1>2. t \in Seq(Blocks) /\ Reuses(P, t, Len(t)) /\ Len(t) * BlockSize < Len(c.tokens)
  BY <1>1, AttachingFacts
<1>3. IsRequest(Attached(c, t)) /\ Placed(Attached(c, t)) /\ Attached(c, t).table = t
  BY <1>2, AttachedRequest
<1>4. Lists(t, t)
  BY <1>2 DEF Lists
<1>5. Counts(Pinned(P, t), With(Q, r, t)) /\ Pinned(P, t).cache = P.cache
  BY <1>2, <1>4, PinCounts
<1>6. Pinned(P, t) = AttachPool(P, t)
  BY DEF Pinned, AttachPool
<1>7. Tables([Q EXCEPT ![r] = Attached(c, t)]) = With(Q, r, t)
  BY <1>1, <1>3, WithTables
<1>8. Requests([Q EXCEPT ![r] = Attached(c, t)])
  BY <1>1, <1>3, RequestsUpdate
<1> QED
  BY <1>5, <1>6, <1>7, <1>8, SeatsCounts

\* allocate_for_tokens: fresh blocks at the end of the table.
LEMMA GrowCounts ==
  ASSUME NEW P, NEW Q, Requests(Q), NEW r \in Sessions, NEW s, s \in Seq(Blocks),
         Counts(P, With(Q, r, s)), NEW m \in Nat, NEW g \in Fresh(P, 1..m)
  PROVE  LET O == AllocBlocks(P, g)
         IN  /\ g \in Seq(Blocks) /\ Len(g) = m /\ s \o g \in Seq(Blocks) /\ Range(g) \subseteq P.free
             /\ Counts(O, With(Q, r, s \o g)) /\ O.cache = P.cache
             /\ \A b \in Range(g) : O.ref[b] = 1
             /\ \A b \in Blocks : b \notin Range(g) => O.ref[b] = P.ref[b]
<1> DEFINE O == AllocBlocks(P, g)
           T == With(Q, r, s)
           U == With(Q, r, s \o g)
<1>1. P \in PoolOf(TokenLists) /\ Exact(P, T) /\ NoneShared(P) /\ P.free \subseteq Blocks
  BY DEF Counts, PoolOf
<1>2. g \in [1..m -> P.free] /\ IsInjective(g)
  BY DEF Fresh
<1>3. g \in Seq(Blocks) /\ Len(g) = m /\ s \o g \in Seq(Blocks) /\ Range(g) \subseteq P.free
  <2>1. g \in [1..m -> Blocks]
    BY <1>1, <1>2
  <2>2. g \in Seq(Blocks) /\ Len(g) = m
    BY <2>1
  <2> QED
    BY <1>2, <2>2 DEF Range
<1>4. Changes(Sessions, r, T, U) /\ Grown(T[r], g, U[r])
  <2>1. Withs(Q, r, s, s \o g)
    BY <1>3, WithChanges
  <2> QED
    BY <2>1 DEF Withs, Grown
<1>5. FreshBlocks(P, g)
  BY <1>2, <1>3 DEF FreshBlocks
<1> HIDE DEF T, U
<1>6. /\ O \in PoolOf(TokenLists) /\ Exact(O, U) /\ O.cache = P.cache
      /\ \A b \in Range(g) : O.ref[b] = 1
      /\ \A b \in Blocks : b \notin Range(g) => O.ref[b] = P.ref[b]
  BY <1>1, <1>4, <1>5, AllocExact
<1> HIDE DEF O
<1>7. NoneShared(O)
  BY <1>1, <1>6 DEF NoneShared
<1>8. Counts(O, U)
  BY <1>6, <1>7 DEF Counts
<1> QED
  BY <1>3, <1>6, <1>8 DEF O, U

\* _cow_if_shared: some blocks of a table are replaced by fresh ones.
LEMMA CowCounts ==
  ASSUME NEW P, NEW Q, Requests(Q), NEW r \in Sessions, NEW s, s \in Seq(Blocks),
         Counts(P, With(Q, r, s)), NEW I \in SUBSET DOMAIN s, NEW w \in Fresh(P, I),
         ~PrefixCaching => I = {}
  PROVE  LET O == CowPool(P, s, w)
         IN  /\ CowTable(s, w) \in Seq(Blocks) /\ Len(CowTable(s, w)) = Len(s)
             /\ Counts(O, With(Q, r, CowTable(s, w))) /\ O.cache = P.cache
             /\ \A i \in I : O.ref[w[i]] = 1
             /\ \A b \in Blocks : b \notin Range(w) => O.ref[b] <= P.ref[b]
<1> DEFINE t == CowTable(s, w)
           D == [i \in I |-> s[i]]
           K == [i \in DOMAIN s \ I |-> s[i]]
<1>1. P \in PoolOf(TokenLists) /\ Exact(P, With(Q, r, s)) /\ NoneShared(P) /\ P.free \subseteq Blocks
  BY DEF Counts, PoolOf
<1>2. w \in [I -> P.free] /\ IsInjective(w) /\ DOMAIN w = I
  BY DEF Fresh
<1>3. DOMAIN s = 1..Len(s) /\ Len(s) \in Nat /\ \A i \in DOMAIN s : s[i] \in Blocks
  BY LenProperties
<1>4. t \in Seq(Blocks) /\ Len(t) = Len(s) /\ DOMAIN t = DOMAIN s
  <2>1. \A i \in 1..Len(s) : t[i] \in Blocks
    BY <1>1, <1>2, <1>3 DEF CowTable
  <2>2. DOMAIN t = 1..Len(s) /\ t = [i \in 1..Len(s) |-> t[i]]
    BY <1>3 DEF CowTable
  <2> HIDE DEF t
  <2>3. t \in [1..Len(s) -> Blocks]
    BY <2>1, <2>2
  <2> QED
    BY <1>3, <2>3
<1>5. Family(w) /\ Family(D) /\ Family(s) /\ Family(t)
  <2>1. IsFiniteSet(DOMAIN s)
    BY <1>3, FS_Interval
  <2>2. IsFiniteSet(I)
    BY <2>1, FS_Subset
  <2>3. \A i \in DOMAIN t : t[i] \in Blocks
    BY <1>4, LenProperties
  <2> HIDE DEF t
  <2> QED
    BY <1>1, <1>2, <1>3, <1>4, <2>1, <2>2, <2>3 DEF Family
<1>6. PICK f : Lists(f, w)
  BY <1>5, Listing
<1>7. PICK d : Lists(d, D)
  BY <1>5, Listing
<1>8. f \in Seq(Blocks) /\ s \o f \in Seq(Blocks) /\ d \in Seq(Blocks)
  BY <1>6, <1>7 DEF Lists
<1> DEFINE A == AllocBlocks(P, f)
           O == Deallocate(A, d)
           S0 == With(Q, r, s)
           S1 == With(Q, r, s \o f)
           S2 == With(Q, r, t)
<1>9. FreshBlocks(P, f)
  BY <1>2, <1>6 DEF FreshBlocks, Lists, Range
<1>10. /\ Changes(Sessions, r, S0, S1) /\ Grown(S0[r], f, S1[r])
       /\ Changes(Sessions, r, S1, S2) /\ S1[r] = s \o f /\ S2[r] = t
  <2>1. Withs(Q, r, s, s \o f)
    BY <1>8, WithChanges
  <2>2. Withs(Q, r, s \o f, t)
    BY <1>4, <1>8, WithChanges
  <2> QED
    BY <2>1, <2>2 DEF Withs, Grown
<1>11. Splits(S1[r], S2[r], d)
  <2> SUFFICES ASSUME NEW b \in Blocks
               PROVE  Occ(s \o f, b) = Occ(t, b) + Occ(d, b)
    BY <1>10 DEF Splits
  <2>1. Occ(s \o f, b) = Occ(s, b) + Occ(f, b)
    BY <1>8, OccConcat
  <2>2. Cut(s, D, K) /\ Cut(t, w, K)
    BY <1>2, <1>3, <1>4 DEF Cut, CowTable
  <2> HIDE DEF D, K, t
  <2>3. /\ Occ(s, b) = Occ(D, b) + Occ(K, b) /\ Occ(D, b) \in Nat /\ Occ(K, b) \in Nat
        /\ Occ(t, b) = Occ(w, b) + Occ(K, b) /\ Occ(w, b) \in Nat
    BY <1>5, <2>2, OccCut
  <2>4. Occ(f, b) = Occ(w, b) /\ Occ(d, b) = Occ(D, b)
    BY <1>6, <1>7 DEF Lists
  <2> QED
    BY <2>1, <2>3, <2>4
<1>20. Exact(P, S0)
  BY <1>1
<1> HIDE DEF S0, S1, S2, t, D, K
<1>12. /\ A \in PoolOf(TokenLists) /\ Exact(A, S1) /\ A.cache = P.cache
       /\ \A b \in Range(f) : A.ref[b] = 1
       /\ \A b \in Blocks : b \notin Range(f) => A.ref[b] = P.ref[b]
  <2>1. P \in PoolOf(TokenLists) /\ Changes(Sessions, r, S0, S1) /\ Grown(S0[r], f, S1[r])
    BY <1>1, <1>10
  <2> QED
    BY <1>9, <1>20, <2>1, AllocExact
<1> HIDE DEF A
<1>13. /\ O \in PoolOf(TokenLists) /\ Exact(O, S2) /\ O.cache = A.cache
       /\ \A b \in Blocks : O.ref[b] <= A.ref[b]
  BY <1>8, <1>10, <1>11, <1>12, DeallocateExact
<1>14. CowPool(P, s, w) = O
  <2>1. AllocBlocks(P, w) = A
    BY <1>6 DEF AllocBlocks, Lists, A
  <2>2. \A b \in Blocks : Cardinality({i \in DOMAIN w : s[i] = b}) = Occ(d, b)
    <3> TAKE b \in Blocks
    <3>1. {i \in DOMAIN w : s[i] = b} = {i \in DOMAIN D : D[i] = b}
      BY <1>2 DEF D
    <3> QED
      BY <1>7, <3>1 DEF Lists, Occ
  <2> QED
    BY <2>1, <2>2 DEF CowPool, Deallocate
<1>15. Range(f) = Range(w)
  BY <1>6 DEF Lists
<1>16. \A i \in I : O.ref[w[i]] = 1
  <2> TAKE i \in I
  <2>1. w[i] \in Blocks /\ w[i] \in Range(f) /\ P.ref[w[i]] = 0
    BY <1>1, <1>2, <1>15 DEF Range, Exact
  <2>2. \A j \in DOMAIN s : s[j] # w[i]
    <3>1. S0 \in [Sessions -> Seq(Blocks)] /\ S0[r] = s /\ Exact(P, S0)
      <4>1. Withs(Q, r, s, s)
        BY WithChanges
      <4> QED
        BY <1>1, <4>1 DEF Withs, S0
    <3> QED
      BY <1>1, <2>1, <3>1, ExactFacts, ResidencyAssumption
  <2>3. Occ(d, w[i]) = 0
    <3>1. w[i] \notin Range(d)
      BY <1>7, <2>2 DEF Lists, Range, D
    <3>2. Family(d)
      <4>1. DOMAIN d = 1..Len(d) /\ Len(d) \in Nat /\ \A j \in DOMAIN d : d[j] \in Blocks
        BY <1>8, LenProperties
      <4> QED
        BY <4>1, FS_Interval DEF Family
    <3>3. Occ(d, w[i]) \in Nat /\ ~(Occ(d, w[i]) > 0)
      BY <3>1, <3>2, OccFamily
    <3> QED
      BY <3>3
  <2>4. O.ref[w[i]] = A.ref[w[i]] - Occ(d, w[i])
    BY <2>1 DEF Deallocate, Decref
  <2> QED
    BY <1>12, <2>1, <2>3, <2>4
<1> HIDE DEF O
<1>17. NoneShared(O)
  <2> SUFFICES ASSUME ~PrefixCaching
               PROVE  P.cache = {} /\ \A b \in Blocks : O.ref[b] <= 1
    BY <1>12, <1>13 DEF NoneShared
  <2>1. \A b \in Blocks : b \notin Range(w)
    BY <1>2 DEF Range
  <2>2. \A b \in Blocks : O.ref[b] \in Nat /\ O.ref[b] <= A.ref[b] /\ A.ref[b] \in Nat /\ A.ref[b] <= 1
    BY <1>1, <1>12, <1>13, <1>15, <2>1 DEF NoneShared, PoolOf
  <2> QED
    BY <1>1, <2>2 DEF NoneShared
<1>18. Counts(O, S2)
  BY <1>13, <1>17 DEF Counts
<1>19. \A b \in Blocks : b \notin Range(w) => O.ref[b] <= P.ref[b]
  BY <1>12, <1>13, <1>15
<1> QED
  BY <1>4, <1>12, <1>13, <1>14, <1>16, <1>18, <1>19 DEF t, S2

\* The full blocks of a request are written and hashed.
LEMMA FullBlocksBound ==
  ASSUME NEW c, IsRequest(c)
  PROVE  /\ FullBlocks(c) \in Nat /\ FullBlocks(c) <= Len(c.table)
         /\ \A i \in Nat : i <= FullBlocks(c) => i * BlockSize <= Len(c.tokens) /\ i * BlockSize <= c.computed
<1>1. Len(c.table) \in Nat /\ Len(c.tokens) \in Nat /\ c.computed \in Nat
  BY LenProperties DEF IsRequest, TokenLists
<1>2. \A a \in Nat, b \in Nat \ {0} : a \div b \in Nat /\ (a \div b) * b <= a
  OBVIOUS
<1> DEFINE x == c.computed \div BlockSize
           y == Len(c.tokens) \div BlockSize
<1>3. x \in Nat /\ y \in Nat /\ x * BlockSize <= c.computed /\ y * BlockSize <= Len(c.tokens)
  BY <1>1, <1>2, BlockSizeAssumption
<1>4. /\ FullBlocks(c) \in Nat /\ FullBlocks(c) <= Len(c.table)
      /\ FullBlocks(c) <= x /\ FullBlocks(c) <= y
  BY <1>1, <1>3 DEF FullBlocks, Lesser
<1> HIDE DEF x, y
<1>5. ASSUME NEW i \in Nat, i <= FullBlocks(c)
      PROVE  i * BlockSize <= Len(c.tokens) /\ i * BlockSize <= c.computed
  <2>1. i <= x /\ i <= y
    BY <1>3, <1>4, <1>5
  <2>2. \A a \in Nat, b \in Nat, d \in Nat : a <= b => a * d <= b * d
    OBVIOUS
  <2>3. i * BlockSize <= x * BlockSize /\ i * BlockSize <= y * BlockSize
    BY <1>3, <2>1, <2>2, BlockSizeAssumption
  <2>4. i * BlockSize \in Nat /\ x * BlockSize \in Nat /\ y * BlockSize \in Nat
    BY <1>3, BlockSizeAssumption
  <2> QED
    BY <1>1, <1>3, <2>3, <2>4
<1> QED
  BY <1>4, <1>5

\* publish_full_blocks: copies of blocks the request holds.
LEMMA PublishCounts ==
  ASSUME NEW P, NEW Q, Requests(Q), NEW r \in Sessions, NEW c, IsRequest(c),
         Counts(P, With(Q, r, c.table))
  PROVE  /\ Counts(PublishPool(P, c), With(Q, r, c.table))
         /\ PublishPool(P, c).cache = P.cache \union NewCopies(c)
         /\ NewCopies(c) \in SUBSET (TokenLists \X Blocks)
         /\ ~PrefixCaching => PublishPool(P, c).cache = P.cache
<1> DEFINE T == With(Q, r, c.table)
           E == NewCopies(c) \ P.cache
           O == AddCopies(P, E)
<1>1. P \in PoolOf(TokenLists) /\ Exact(P, T) /\ NoneShared(P)
  BY DEF Counts
<1>2. c.table \in Seq(Blocks) /\ c.published \in Nat /\ c.tokens \in Seq(Tokens)
      /\ c.parent \in Seq(Tokens) /\ c.computed \in Nat
  BY DEF IsRequest, TokenLists
<1>3. T \in [Sessions -> Seq(Blocks)] /\ T[r] = c.table
  <2>1. Withs(Q, r, c.table, c.table)
    BY <1>2, WithChanges
  <2> QED
    BY <2>1 DEF Withs
<1>4. Len(c.table) \in Nat /\ Len(c.tokens) \in Nat /\ DOMAIN c.table = 1..Len(c.table)
      /\ \A i \in 1..Len(c.table) : c.table[i] \in Blocks
  BY <1>2, LenProperties
<1>5. FullBlocks(c) \in Nat /\ FullBlocks(c) <= Len(c.table)
  BY FullBlocksBound
<1>6. ASSUME NEW i \in c.published + 1 .. FullBlocks(c)
      PROVE  i \in 1..Len(c.table) /\ PublishHash(c, i) \in TokenLists
  <2>1. i \in Nat /\ i \in 1..Len(c.table) /\ i <= FullBlocks(c)
    BY <1>2, <1>4, <1>5
  <2>2. c.published * BlockSize + 1 \in Int /\ i * BlockSize \in Int
    BY <1>2, <2>1, BlockSizeAssumption
  <2>3. SubSeq(c.tokens, c.published * BlockSize + 1, i * BlockSize) \in Seq(Tokens)
    <3>1. i * BlockSize <= Len(c.tokens)
      BY <1>5, <2>1, FullBlocksBound
    <3>2. c.published * BlockSize \in Nat
      BY <1>2, BlockSizeAssumption
    <3>3. \A j \in 1..Len(c.tokens) : c.tokens[j] \in Tokens
      BY <1>2, LenProperties
    <3>4. \A j \in c.published * BlockSize + 1 .. i * BlockSize : c.tokens[j] \in Tokens
      <4> TAKE j \in c.published * BlockSize + 1 .. i * BlockSize
      <4>1. j \in 1..Len(c.tokens)
        BY <1>4, <2>2, <3>1, <3>2
      <4> QED
        BY <3>3, <4>1
    <3> QED
      BY <2>2, <3>4, SubSeqProperties
  <2> QED
    BY <1>2, <2>1, <2>3 DEF PublishHash, BlockHash, TokenLists
<1>7. \A e \in NewCopies(c) : \E i \in c.published + 1 .. FullBlocks(c) :
        e = <<PublishHash(c, i), c.table[i]>>
  BY DEF NewCopies
<1>8. NewCopies(c) \in SUBSET (TokenLists \X Blocks)
  BY <1>4, <1>6, <1>7
<1>9. IsFiniteSet(NewCopies(c))
  <2>1. IsFiniteSet(c.published + 1 .. FullBlocks(c))
    <3>1. c.published + 1 \in Int /\ FullBlocks(c) \in Int
      BY <1>2, <1>5
    <3> QED
      BY <3>1, FS_Interval
  <2> DEFINE f == [i \in c.published + 1 .. FullBlocks(c) |-> <<PublishHash(c, i), c.table[i]>>]
             F == {f[i] : i \in c.published + 1 .. FullBlocks(c)}
  <2>2. f \in Surjection(c.published + 1 .. FullBlocks(c), F)
    BY DEF Surjection
  <2>3. IsFiniteSet(F)
    BY <2>1, <2>2, FS_Surjection
  <2>4. NewCopies(c) \subseteq F
    BY <1>7
  <2> HIDE DEF F
  <2> QED
    BY <2>3, <2>4, FS_Subset
<1>10. Publishable(TokenLists, P, E)
  <2>1. IsFiniteSet(E)
    BY <1>9, FS_Subset
  <2>2. ASSUME NEW e \in E
        PROVE  P.ref[e[2]] > 0
    <3>1. PICK i \in c.published + 1 .. FullBlocks(c) : e = <<PublishHash(c, i), c.table[i]>>
      BY <1>7
    <3>2. i \in 1..Len(c.table) /\ e[2] = c.table[i]
      BY <1>6, <3>1
    <3> DEFINE b == c.table[i]
    <3>3. b \in Blocks /\ i \in DOMAIN T[r] /\ T[r][i] = b
      BY <1>3, <1>4, <3>2
    <3> HIDE DEF T, b
    <3>4. \A x \in Sessions : \A j \in DOMAIN T[x] : T[x][j] = b => P.ref[b] > 0
      BY <1>1, <1>3, <3>3, ExactFacts, ResidencyAssumption
    <3>5. P.ref[b] > 0
      BY <3>3, <3>4
    <3> QED
      BY <3>2, <3>5 DEF b
  <2> QED
    BY <1>8, <2>1, <2>2 DEF Publishable
<1> HIDE DEF T
<1>11. O \in PoolOf(TokenLists) /\ Exact(O, T) /\ O.cache = P.cache \union E
  <2>1. O \in PoolOf(TokenLists) /\ Exact(O, T)
    BY <1>1, <1>3, <1>10, PublishExact, ResidencyAssumption
  <2> QED
    BY <2>1 DEF AddCopies, Caching, Incref
<1>12. PublishPool(P, c) = O
  BY DEF PublishPool
<1>13. ~PrefixCaching => O.cache = P.cache /\ \A b \in Blocks : O.ref[b] = P.ref[b]
  <2> SUFFICES ASSUME ~PrefixCaching
               PROVE  O.cache = P.cache /\ \A b \in Blocks : O.ref[b] = P.ref[b]
    OBVIOUS
  <2>1. E = {}
    BY DEF NewCopies
  <2>2. \A b \in Blocks : Copies(E, b) = 0
    BY <2>1, FS_EmptySet DEF Copies, CopiesOf
  <2>3. \A b \in Blocks : P.ref[b] \in Nat
    BY <1>1 DEF PoolOf
  <2>4. \A b \in Blocks : O.ref[b] = P.ref[b] + Copies(E, b)
    BY DEF AddCopies, Caching, Incref
  <2> HIDE DEF O, E
  <2>5. \A b \in Blocks : O.ref[b] = P.ref[b]
    BY <2>2, <2>3, <2>4
  <2> QED
    BY <1>11, <2>1, <2>5
<1> HIDE DEF O
<1>14. Counts(O, T)
  BY <1>1, <1>11, <1>13 DEF Counts, NoneShared
<1> QED
  BY <1>8, <1>11, <1>12, <1>13, <1>14 DEF T, O

\* A turn of c in P, by what it attached, evicted, allocated and copied.
TurnRequest(c, t) == IF t = c.table THEN c ELSE Attached(c, t)
TurnAttached(P, c, t) == IF t = c.table THEN P ELSE AttachPool(P, t)
TurnTokens(a) == Len(a.tokens) - a.computed
TurnDone(a, s, w) == [a EXCEPT !.table = CowTable(s, w), !.computed = Len(a.tokens)]
TurnFrom(P, c, tok, T, t, V, g, w) ==
  LET a  == TurnRequest(c, t)
      PA == TurnAttached(P, c, t)
      n  == TurnTokens(a)
      PE == EvictUnused(PA, V)
      PG == AllocBlocks(PE, g)
      s  == a.table \o g
      d  == TurnDone(a, s, w)
  IN  /\ t \in Reattached(P, c) /\ V \in Victims(PA, Shortfall(PA, a, n))
      /\ g \in Fresh(PE, Growth(a, n)) /\ w \in Fresh(PG, SharedSpan(PG, s, a.computed, n))
      /\ T = [pool |-> PublishPool(CowPool(PG, s, w), d),
              q    |-> [Published(d) EXCEPT !.tokens = Append(@, tok)],
              kv   |-> Computed(CowPages(kv, s, w), d.table, a.tokens, a.computed, Len(a.tokens))]

LEMMA TurnParts ==
  ASSUME NEW P, NEW c, NEW tok, NEW T \in Turns(P, c, tok)
  PROVE  \E t, V, g, w : TurnFrom(P, c, tok, T, t, V, g, w)
<1> DEFINE a(t)     == TurnRequest(c, t)
           PA(t)    == TurnAttached(P, c, t)
           n(t)     == TurnTokens(a(t))
           I(t)     == Growth(a(t), n(t))
           s(t, g)  == a(t).table \o [i \in I(t) |-> g[i]]
           d(t, g, w) == TurnDone(a(t), s(t, g), w)
           X(t, E, g, w) ==
             [pool |-> PublishPool(CowPool(AllocBlocks(E, g), s(t, g), w), d(t, g, w)),
              q    |-> [Published(d(t, g, w)) EXCEPT !.tokens = Append(@, tok)],
              kv   |-> Computed(CowPages(kv, s(t, g), w), d(t, g, w).table, a(t).tokens,
                                a(t).computed, Len(a(t).tokens))]
           W(t, E, g) == Fresh(AllocBlocks(E, g), SharedSpan(AllocBlocks(E, g), s(t, g), a(t).computed, n(t)))
           L3(t, E, g) == {X(t, E, g, w) : w \in W(t, E, g)}
           L2(t, E) == IF n(t) > MaxAllocatable(E, a(t), n(t)) THEN {}
                       ELSE UNION {L3(t, E, g) : g \in Fresh(E, I(t))}
           Ev(t)    == {EvictUnused(PA(t), V) : V \in Victims(PA(t), Shortfall(PA(t), a(t), n(t)))}
           L1(t)    == UNION {L2(t, E) : E \in Ev(t)}
<1>1. Turns(P, c, tok) = UNION {L1(t) : t \in Reattached(P, c)}
  BY DEF Turns, TurnRequest, TurnAttached, TurnTokens, TurnDone
<1>2. PICK t \in Reattached(P, c) : T \in L1(t)
  <2> HIDE DEF L1
  <2> QED
    BY <1>1
<1>3. PICK V \in Victims(PA(t), Shortfall(PA(t), a(t), n(t))) : T \in L2(t, EvictUnused(PA(t), V))
  <2> HIDE DEF L2, PA, a, n
  <2> QED
    BY <1>2
<1> DEFINE E == EvictUnused(PA(t), V)
<1>8. T \in L2(t, E)
  BY <1>3
<1>4. PICK g \in Fresh(E, I(t)) : T \in L3(t, E, g)
  <2> HIDE DEF L3, E, I, a, n
  <2>1. T \in UNION {L3(t, E, g) : g \in Fresh(E, I(t))}
    BY <1>8
  <2> QED
    BY <2>1
<1>5. PICK w \in W(t, E, g) : T = X(t, E, g, w)
  <2> HIDE DEF X, W, E
  <2> QED
    BY <1>4
<1>6. [i \in I(t) |-> g[i]] = g
  <2> HIDE DEF I, E
  <2> QED
    BY <1>4 DEF Fresh
<1>7. TurnFrom(P, c, tok, T, t, V, g, w)
  BY <1>2, <1>3, <1>4, <1>5, <1>6 DEF TurnFrom
<1> QED
  BY <1>7

\* What the stages of a turn of r leave behind: how the pool counts, and whose the blocks
\* are that the turn is about to write.
TurnStart(Q, r, a) ==
  /\ IsRequest(a) /\ Placed(a) /\ a.st = "active" /\ a.res # "cpu"
  /\ a.tokens = Q[r].tokens /\ a.computed < Len(a.tokens)
TurnGrown(P, Q, r, a, PE, g) ==
  LET s == a.table \o g
      O == AllocBlocks(PE, g)
  IN  /\ Counts(PE, With(Q, r, a.table)) /\ PE.cache \subseteq P.cache
      /\ g \in Seq(Blocks) /\ s \in Seq(Blocks) /\ Range(g) \subseteq PE.free
      /\ Len(s) = BlocksNeededFor(Len(a.tokens))
      /\ Counts(O, With(Q, r, s)) /\ O.cache = PE.cache
TurnOwn(Q, r, a, PG, s, w) ==
  LET O == CowPool(PG, s, w)
      d == TurnDone(a, s, w)
  IN  /\ d.table \in Seq(Blocks) /\ Len(d.table) = Len(s)
      /\ Counts(O, With(Q, r, d.table)) /\ O.cache = PG.cache
      /\ \A i \in BlockIndex(a.computed + 1)..BlockIndex(Len(a.tokens)) :
           i \in DOMAIN s /\ O.ref[d.table[i]] = 1

LEMMA TurnStarts ==
  ASSUME NEW P, NEW Q, Seats(P, Q), NEW r \in Sessions, Q[r].st = "active",
         NEW t \in Reattached(P, Q[r])
  PROVE  LET a == TurnRequest(Q[r], t)
         IN  /\ TurnStart(Q, r, a)
             /\ Seats(TurnAttached(P, Q[r], t), [Q EXCEPT ![r] = a])
             /\ TurnAttached(P, Q[r], t).cache = P.cache
<1> DEFINE c == Q[r]
<1>1. Requests(Q) /\ IsRequest(c) /\ Placed(c) /\ c.st = "active" /\ c.res # "cpu" /\ c.computed < Len(c.tokens)
  BY DEF Seats, Requests, Placed
<1>2. CASE t = c.table
  <2>1. Seats(P, [Q EXCEPT ![r] = c])
    <3>1. c.table = Q[r].table
      OBVIOUS
    <3> HIDE DEF c
    <3> QED
      BY <1>1, <3>1, KeepSeats
  <2> QED
    BY <1>1, <1>2, <2>1 DEF TurnRequest, TurnAttached, TurnStart
<1>3. CASE t # c.table
  <2>1. c.table = << >> /\ t \in Attaching(P, c)
    BY <1>3 DEF Reattached
  <2>2. Seats(AttachPool(P, t), [Q EXCEPT ![r] = Attached(c, t)]) /\ AttachPool(P, t).cache = P.cache
    <3>1. Bare(Q[r].table)
      BY <2>1 DEF Bare
    <3>2. IsRequest(c) /\ c.st # "gone" /\ c.res # "cpu" /\ c.computed < Len(c.tokens)
      BY <1>1
    <3> HIDE DEF c
    <3> QED
      BY <2>1, <3>1, <3>2, AttachSeats
  <2>3. P \in PoolOf(TokenLists)
    BY SeatsFacts
  <2>4. t \in Seq(Blocks) /\ Len(t) * BlockSize < Len(c.tokens)
    <3> HIDE DEF c
    <3> QED
      BY <1>1, <2>1, <2>3, AttachingFacts
  <2>5. TurnStart(Q, r, Attached(c, t))
    <3> DEFINE a == Attached(c, t)
    <3>1. /\ IsRequest(a) /\ Placed(a) /\ a.tokens = c.tokens /\ a.st = c.st /\ a.res = c.res
      <4>1. c.st # "gone"
        BY <1>1
      <4> HIDE DEF c
      <4> QED
        BY <1>1, <2>4, <4>1, AttachedRequest
    <3> HIDE DEF a
    <3>2. a.computed < Len(a.tokens)
      BY <3>1, <1>1 DEF Placed
    <3> QED
      BY <1>1, <3>1, <3>2 DEF TurnStart, a
  <2> QED
    BY <1>3, <2>2, <2>5 DEF TurnRequest, TurnAttached
<1> QED
  BY <1>2, <1>3

Grows(P, Q, r, s, m, g) ==
  Requests(Q) /\ s \in Seq(Blocks) /\ Counts(P, With(Q, r, s)) /\ m \in Nat /\ g \in Fresh(P, 1..m)
Grew(P, Q, r, s, m, g) ==
  LET O == AllocBlocks(P, g)
  IN  /\ g \in Seq(Blocks) /\ Len(g) = m /\ s \o g \in Seq(Blocks) /\ Range(g) \subseteq P.free
      /\ Counts(O, With(Q, r, s \o g)) /\ O.cache = P.cache

LEMMA GrewFacts ==
  ASSUME NEW P, NEW Q, NEW r \in Sessions, NEW s, NEW m, NEW g, Grows(P, Q, r, s, m, g)
  PROVE  Grew(P, Q, r, s, m, g)
<1>1. Requests(Q) /\ s \in Seq(Blocks) /\ Counts(P, With(Q, r, s)) /\ m \in Nat /\ g \in Fresh(P, 1..m)
  BY DEF Grows
<1> QED
  BY <1>1, GrowCounts DEF Grew

LEMMA TurnGrows ==
  ASSUME NEW P, NEW Q, Seats(P, Q), NEW r \in Sessions, NEW a, TurnStart(Q, r, a),
         NEW PA, Seats(PA, [Q EXCEPT ![r] = a]), PA.cache = P.cache,
         NEW n, NEW V \in Victims(PA, n), NEW g \in Fresh(EvictUnused(PA, V), Growth(a, TurnTokens(a)))
  PROVE  TurnGrown(P, Q, r, a, EvictUnused(PA, V), g)
<1> DEFINE E == EvictUnused(PA, V)
           U == [Q EXCEPT ![r] = a]
           need == BlocksNeededFor(Len(a.tokens))
           m == need - Len(a.table)
<1>1. Seats(E, U) /\ E.cache \subseteq P.cache
  BY EvictSeats
<1>2. Requests(Q) /\ IsRequest(a) /\ a.computed \in Nat /\ a.table \in Seq(Blocks) /\ Len(a.tokens) \in Nat
      /\ Len(a.table) = BlocksNeededFor(a.computed) /\ a.computed < Len(a.tokens)
  BY LenProperties DEF Seats, TurnStart, IsRequest, Placed, TokenLists
<1>3. need \in Nat /\ Len(a.table) \in Nat /\ Len(a.table) <= need
  <2>1. BlocksNeededFor(a.computed) <= need
    BY <1>2, BlocksForMonotone
  <2> QED
    BY <1>2, <2>1, BlocksFor, LenProperties
<1>4. Growth(a, TurnTokens(a)) = 1..m
  <2>1. a.computed + TurnTokens(a) = Len(a.tokens)
    BY <1>2 DEF TurnTokens
  <2>2. Greater(0, m) = m
    <3>1. m \in Nat
      <4> HIDE DEF need
      <4> QED
        BY <1>3
    <3> HIDE DEF m
    <3> QED
      BY <3>1 DEF Greater
  <2> QED
    BY <2>1, <2>2 DEF Growth
<1>5. Counts(E, With(Q, r, a.table))
  <2>1. Counts(E, Tables(U))
    <3> HIDE DEF E, U
    <3> QED
      BY <1>1, SeatsCounts
  <2>2. Tables(U) = With(Q, r, a.table)
    BY <1>2, WithTables
  <2> QED
    BY <2>1, <2>2
<1>6. m \in Nat
  <2> HIDE DEF need
  <2> QED
    BY <1>3
<1> DEFINE O == AllocBlocks(E, g)
<1>7. /\ g \in Seq(Blocks) /\ Len(g) = m /\ a.table \o g \in Seq(Blocks) /\ Range(g) \subseteq E.free
      /\ Counts(O, With(Q, r, a.table \o g)) /\ O.cache = E.cache
  <2>1. g \in Fresh(E, 1..m)
    BY <1>4
  <2>2. Requests(Q) /\ a.table \in Seq(Blocks)
    BY <1>2
  <2> DEFINE s == a.table
  <2> HIDE DEF E, m, s
  <2>3. s \in Seq(Blocks) /\ Counts(E, With(Q, r, s))
    BY <1>5, <2>2 DEF s
  <2>4. Grows(E, Q, r, s, m, g)
    BY <1>6, <2>1, <2>2, <2>3 DEF Grows
  <2>5. Grew(E, Q, r, s, m, g)
    BY <2>4, GrewFacts
  <2> QED
    BY <2>5 DEF s, Grew
<1>8. Len(a.table \o g) = need
  <2>1. Len(a.table \o g) = Len(a.table) + Len(g)
    BY <1>2, <1>7, ConcatProperties
  <2> HIDE DEF need, E
  <2> QED
    BY <1>3, <1>7, <2>1
<1> QED
  BY <1>1, <1>5, <1>7, <1>8 DEF TurnGrown

Copied(P, Q, r, s, I, w) ==
  Requests(Q) /\ s \in Seq(Blocks) /\ Counts(P, With(Q, r, s)) /\ I \in SUBSET DOMAIN s
    /\ w \in Fresh(P, I) /\ (~PrefixCaching => I = {})
CopiedOut(P, Q, r, s, I, w) ==
  LET O == CowPool(P, s, w)
  IN  /\ CowTable(s, w) \in Seq(Blocks) /\ Len(CowTable(s, w)) = Len(s)
      /\ Counts(O, With(Q, r, CowTable(s, w))) /\ O.cache = P.cache
      /\ \A i \in I : O.ref[w[i]] = 1
      /\ \A b \in Blocks : b \notin Range(w) => O.ref[b] <= P.ref[b]

LEMMA CopiedOutFacts ==
  ASSUME NEW P, NEW Q, NEW r \in Sessions, NEW s, NEW I, NEW w, Copied(P, Q, r, s, I, w)
  PROVE  CopiedOut(P, Q, r, s, I, w)
<1>1. Requests(Q) /\ s \in Seq(Blocks) /\ Counts(P, With(Q, r, s)) /\ I \in SUBSET DOMAIN s
      /\ w \in Fresh(P, I) /\ (~PrefixCaching => I = {})
  BY DEF Copied
<1> QED
  BY <1>1, CowCounts DEF CopiedOut

LEMMA TurnOwns ==
  ASSUME NEW P, NEW Q, Requests(Q), NEW r \in Sessions, NEW a, TurnStart(Q, r, a),
         NEW PE, NEW g, TurnGrown(P, Q, r, a, PE, g),
         NEW w \in Fresh(AllocBlocks(PE, g), SharedSpan(AllocBlocks(PE, g), a.table \o g, a.computed, TurnTokens(a)))
  PROVE  TurnOwn(Q, r, a, AllocBlocks(PE, g), a.table \o g, w)
<1> DEFINE PG == AllocBlocks(PE, g)
           s == a.table \o g
           len == Len(a.tokens)
           I == SharedSpan(PG, s, a.computed, TurnTokens(a))
           W == BlockIndex(a.computed + 1)..BlockIndex(len)
<1>1. /\ s \in Seq(Blocks) /\ Len(s) = BlocksNeededFor(len) /\ Counts(PG, With(Q, r, s))
  BY DEF TurnGrown
<1>2. a.computed \in Nat /\ len \in Nat /\ a.computed < len
  BY LenProperties DEF TurnStart, IsRequest, TokenLists
<1>3. W \subseteq DOMAIN s
  <2>1. BlockIndex(len) = Len(s) /\ BlockIndex(a.computed + 1) \in Nat \ {0}
    <3>1. a.computed + 1 \in Nat /\ a.computed + 1 > 0 /\ len > 0
      BY <1>2
    <3>2. BlocksNeededFor(len) = BlockIndex(len)
      <4> HIDE DEF len
      <4> QED
        BY <1>2, <3>1, NeededFor
    <3>3. BlockIndex(a.computed + 1) \in Nat \ {0}
      <4>1. BlocksNeededFor(a.computed + 1) \in Nat /\ BlocksNeededFor(a.computed + 1) = BlockIndex(a.computed + 1)
            /\ BlockIndex(a.computed + 1) > 0
        BY <3>1, NeededFor
      <4> QED
        BY <4>1
    <3> HIDE DEF len
    <3> QED
      BY <1>1, <3>2, <3>3
  <2>2. DOMAIN s = 1..Len(s) /\ Len(s) \in Nat
    BY <1>1, LenProperties
  <2> HIDE DEF s, len
  <2> QED
    BY <2>1, <2>2
<1>4. I = IF PrefixCaching THEN {i \in W : PG.ref[s[i]] > 1} ELSE {}
  <2>1. a.computed + TurnTokens(a) = len
    BY <1>2 DEF TurnTokens
  <2> HIDE DEF PG, s
  <2> QED
    BY <2>1 DEF SharedSpan
<1>5. CopiedOut(PG, Q, r, s, I, w)
  <2>1. I \in SUBSET DOMAIN s
    <3> HIDE DEF W, PG, s, I
    <3> QED
      BY <1>3, <1>4
  <2>2. Copied(PG, Q, r, s, I, w)
    <3>1. w \in Fresh(PG, I)
      OBVIOUS
    <3>2. ~PrefixCaching => I = {}
      <4> HIDE DEF I, PG, s, W
      <4> QED
        BY <1>4
    <3> HIDE DEF W, PG, s, I
    <3> QED
      BY <1>1, <2>1, <3>1, <3>2 DEF Copied
  <2> HIDE DEF W, PG, s, I
  <2> QED
    BY <2>2, CopiedOutFacts
<1> DEFINE O == CowPool(PG, s, w)
           t == CowTable(s, w)
<1>6. /\ t \in Seq(Blocks) /\ Len(t) = Len(s) /\ Counts(O, With(Q, r, t)) /\ O.cache = PG.cache
      /\ \A i \in I : O.ref[w[i]] = 1
      /\ \A b \in Blocks : b \notin Range(w) => O.ref[b] <= PG.ref[b]
  <2> HIDE DEF PG, s, I
  <2> QED
    BY <1>5 DEF CopiedOut
<1>7. DOMAIN w = I /\ \A i \in I : w[i] \in PG.free
  BY DEF Fresh
<1>8. ASSUME NEW i \in W PROVE i \in DOMAIN s /\ O.ref[t[i]] = 1
  <2>1. i \in DOMAIN s /\ i \in DOMAIN t /\ s[i] \in Blocks /\ t[i] \in Blocks
    <3>1. DOMAIN s = 1..Len(s) /\ DOMAIN t = 1..Len(t)
      BY <1>1, <1>6, LenProperties
    <3>2. i \in DOMAIN s /\ i \in DOMAIN t
      <4> HIDE DEF s, t, W
      <4> QED
        BY <1>3, <1>6, <3>1
    <3>3. \A x \in Seq(Blocks) : \A j \in DOMAIN x : x[j] \in Blocks
      OBVIOUS
    <3> HIDE DEF s, t, W
    <3> QED
      BY <1>1, <1>6, <3>2, <3>3
  <2>2. t[i] = IF i \in I THEN w[i] ELSE s[i]
    <3> HIDE DEF s, I
    <3> QED
      BY <1>7, <2>1 DEF CowTable
  <2>3. CASE i \in I
    <3> HIDE DEF s, I, O, t
    <3> QED
      BY <1>6, <2>1, <2>2, <2>3
  <2>4. CASE i \notin I
    <3>1. O \in PoolOf(TokenLists) /\ Exact(O, With(Q, r, t)) /\ PG \in PoolOf(TokenLists) /\ NoneShared(PG)
      <4> HIDE DEF O, t, PG, s
      <4> QED
        BY <1>1, <1>6 DEF Counts
    <3>2. O.ref[t[i]] > 0
      <4>1. IsFiniteSet(Sessions)
        BY ResidencyAssumption
      <4>2. With(Q, r, t) \in [Sessions -> Seq(Blocks)] /\ With(Q, r, t)[r] = t
        <5> HIDE DEF t
        <5> QED
          BY <1>6 DEF With, Requests, IsRequest
      <4>3. O.ref[t[i]] # 0 /\ O.ref[t[i]] \in Nat
        <5> DEFINE T == With(Q, r, t)
        <5>1. T[r][i] = t[i] /\ i \in DOMAIN T[r]
          <6> HIDE DEF t
          <6> QED
            BY <2>1, <4>2
        <5>2. T \in [Sessions -> Seq(Blocks)] /\ Exact(O, T)
          BY <3>1, <4>2
        <5> HIDE DEF t, O, T
        <5> QED
          BY <2>1, <3>1, <4>1, <5>1, <5>2, ExactFacts
      <4> HIDE DEF t, O
      <4> QED
        BY <4>3
    <3>3. t[i] \notin Range(w)
      <4> SUFFICES ASSUME NEW j \in I, w[j] = t[i] PROVE FALSE
        <5> HIDE DEF t, I
        <5> QED
          BY <1>7 DEF Range
      <4>1. t[i] \in PG.free /\ t[i] = s[i]
        <5> HIDE DEF t, I, PG, s
        <5> QED
          BY <1>7, <2>2, <2>4
      <4>2. PG.ref[s[i]] > 0
        <5> DEFINE T == With(Q, r, s)
        <5>1. T \in [Sessions -> Seq(Blocks)] /\ T[r] = s
          <6> HIDE DEF s
          <6> QED
            BY <1>1 DEF With, Requests, IsRequest
        <5>2. Exact(PG, T) /\ PG \in PoolOf(TokenLists) /\ IsFiniteSet(Sessions)
          <6> HIDE DEF PG, s
          <6> QED
            BY <1>1, ResidencyAssumption DEF Counts
        <5>3. T[r][i] = s[i] /\ i \in DOMAIN T[r]
          <6> HIDE DEF s
          <6> QED
            BY <2>1, <5>1
        <5> HIDE DEF PG, s, T
        <5> QED
          BY <2>1, <5>1, <5>2, <5>3, ExactFacts
      <4>3. PG.free = {b \in Blocks : PG.ref[b] = 0}
        <5> HIDE DEF PG, s
        <5> QED
          BY <1>1 DEF Counts, Exact
      <4> HIDE DEF PG, s, t
      <4> QED
        BY <2>1, <4>1, <4>2, <4>3
    <3>4. PG.ref[s[i]] <= 1 /\ PG.ref[s[i]] \in Nat
      <4>1. PG.ref[s[i]] \in Nat
        <5> HIDE DEF PG, s
        <5> QED
          BY <2>1, <3>1 DEF PoolOf
      <4> HIDE DEF PG, s, I, W
      <4> QED
        BY <1>4, <2>1, <2>4, <3>1, <4>1 DEF NoneShared
    <3>5. O.ref[t[i]] <= PG.ref[t[i]] /\ O.ref[t[i]] \in Nat
      <4> HIDE DEF PG, s, I, W, t, O
      <4> QED
        BY <1>6, <2>1, <3>1, <3>3 DEF PoolOf
    <3> HIDE DEF PG, s, I, W, t, O
    <3> QED
      BY <2>1, <2>2, <2>4, <3>2, <3>4, <3>5
  <2> QED
    BY <2>1, <2>3, <2>4
<1>9. TurnDone(a, s, w).table = t
  <2> HIDE DEF s
  <2> QED
    BY DEF TurnDone, TurnStart, IsRequest
<1>10. TurnOwn(Q, r, a, PG, s, w)
  <2> HIDE DEF PG, s, t, I
  <2> QED
    BY <1>6, <1>8, <1>9 DEF TurnOwn, t
<1> QED
  BY <1>10

\* The parts of a turn together.
TurnStages(P, Q, r, T, t, V, g, w) ==
  LET a  == TurnRequest(Q[r], t)
      PA == TurnAttached(P, Q[r], t)
      PE == EvictUnused(PA, V)
      PG == AllocBlocks(PE, g)
      s  == a.table \o g
  IN  /\ TurnStart(Q, r, a) /\ TurnGrown(P, Q, r, a, PE, g) /\ TurnOwn(Q, r, a, PG, s, w)
      /\ PA.cache = P.cache

LEMMA TurnStaged ==
  ASSUME NEW P, NEW Q, Seats(P, Q), NEW r \in Sessions, Q[r].st = "active",
         NEW tok, NEW T, NEW t, NEW V, NEW g, NEW w, TurnFrom(P, Q[r], tok, T, t, V, g, w)
  PROVE  TurnStages(P, Q, r, T, t, V, g, w)
<1> DEFINE a  == TurnRequest(Q[r], t)
           PA == TurnAttached(P, Q[r], t)
           PE == EvictUnused(PA, V)
<1>1. TurnStart(Q, r, a) /\ Seats(PA, [Q EXCEPT ![r] = a]) /\ PA.cache = P.cache
  <2>1. t \in Reattached(P, Q[r])
    BY DEF TurnFrom
  <2> QED
    BY <2>1, TurnStarts
<1>2. TurnGrown(P, Q, r, a, PE, g)
  <2>1. V \in Victims(PA, Shortfall(PA, a, TurnTokens(a))) /\ g \in Fresh(EvictUnused(PA, V), Growth(a, TurnTokens(a)))
    BY DEF TurnFrom
  <2> HIDE DEF a, PA
  <2> QED
    BY <1>1, <2>1, TurnGrows
<1>3. TurnOwn(Q, r, a, AllocBlocks(PE, g), a.table \o g, w)
  <2>1. w \in Fresh(AllocBlocks(PE, g), SharedSpan(AllocBlocks(PE, g), a.table \o g, a.computed, TurnTokens(a)))
    BY DEF TurnFrom
  <2>2. Requests(Q)
    BY DEF Seats
  <2> HIDE DEF a, PE
  <2> QED
    BY <1>1, <1>2, <2>1, <2>2, TurnOwns
<1> QED
  BY <1>1, <1>2, <1>3 DEF TurnStages

\* What a turn leaves of its request.
TurnResult(Q, r, tok, T, a, d) ==
  /\ IsRequest(d) /\ d.tokens = a.tokens /\ d.computed = Len(a.tokens)
  /\ IsRequest(T.q) /\ Placed([T.q EXCEPT !.st = "parked"]) /\ IsRequest([T.q EXCEPT !.st = "parked"])
  /\ T.q.table = d.table /\ T.q.tokens = Append(a.tokens, tok) /\ T.q.computed = Len(a.tokens)
  /\ T.q.st = "active" /\ T.q.res # "cpu"

LEMMA TurnResults ==
  ASSUME NEW Q, NEW r \in Sessions, NEW a, TurnStart(Q, r, a), NEW PG, NEW s, s \in Seq(Blocks),
         Len(s) = BlocksNeededFor(Len(a.tokens)), NEW w, TurnOwn(Q, r, a, PG, s, w),
         NEW tok \in Sampled, NEW T,
         T.q = [Published(TurnDone(a, s, w)) EXCEPT !.tokens = Append(@, tok)]
  PROVE  TurnResult(Q, r, tok, T, a, TurnDone(a, s, w))
<1> DEFINE d == TurnDone(a, s, w)
           e == Published(d)
<1>1. IsRequest(a) /\ a.st = "active" /\ a.res # "cpu" /\ Len(a.tokens) \in Nat /\ a.tokens \in TokenLists
  BY LenProperties DEF TurnStart, IsRequest, TokenLists
<1>2. d.table \in Seq(Blocks) /\ Len(d.table) = Len(s)
  BY DEF TurnOwn
<1>3. /\ DOMAIN d = DOMAIN a /\ d.tokens = a.tokens /\ d.computed = Len(a.tokens) /\ d.st = a.st /\ d.res = a.res
      /\ d.parent = a.parent /\ d.published = a.published /\ d.snap = a.snap
  BY <1>1 DEF TurnDone, IsRequest
<1>4. IsRequest(d)
  <2> HIDE DEF d
  <2> QED
    BY <1>1, <1>2, <1>3 DEF IsRequest
<1>5. FullBlocks(d) \in Nat /\ FullBlocks(d) * BlockSize <= Len(d.tokens)
  <2> HIDE DEF d
  <2> QED
    BY <1>4, FullBlocksBound
<1>6. /\ DOMAIN e = DOMAIN d /\ e.tokens = d.tokens /\ e.computed = d.computed /\ e.st = d.st /\ e.res = d.res
      /\ e.snap = d.snap /\ e.table = d.table /\ e.published \in Nat /\ e.parent \in TokenLists
  <2>1. PublishHash(d, FullBlocks(d)) \in TokenLists
    <3>1. d.parent \in TokenLists /\ d.tokens \in TokenLists /\ d.published \in Nat
      <4> HIDE DEF d
      <4> QED
        BY <1>4 DEF IsRequest
    <3>2. SubSeq(d.tokens, d.published * BlockSize + 1, FullBlocks(d) * BlockSize) \in TokenLists
      <4>1. d.published * BlockSize + 1 \in Nat \ {0} /\ FullBlocks(d) * BlockSize \in Nat
        <5>1. d.published * BlockSize \in Nat /\ FullBlocks(d) * BlockSize \in Nat
          <6> HIDE DEF d
          <6> QED
            BY <1>5, <3>1, DivExact
        <5> HIDE DEF d
        <5> QED
          BY <5>1
      <4>2. \A i \in d.published * BlockSize + 1 .. FullBlocks(d) * BlockSize : d.tokens[i] \in Tokens
        <5>1. d.tokens \in Seq(Tokens) /\ Len(d.tokens) \in Nat /\ \A j \in 1..Len(d.tokens) : d.tokens[j] \in Tokens
          <6> HIDE DEF d
          <6> QED
            BY <3>1, LenProperties DEF TokenLists
        <5> DEFINE u == d.published * BlockSize + 1
                   v == FullBlocks(d) * BlockSize
        <5>2. u..v \subseteq 1..Len(d.tokens)
          <6> HIDE DEF u, v, d
          <6>1. u \in Nat \ {0} /\ v \in Nat /\ v <= Len(d.tokens)
            BY <1>5, <4>1 DEF u, v
          <6> QED
            BY <6>1, <5>1
        <5> HIDE DEF d, u, v
        <5>3. \A i \in u..v : d.tokens[i] \in Tokens
          BY <5>1, <5>2
        <5> QED
          BY <5>3 DEF u, v
      <4> HIDE DEF d
      <4> QED
        BY <3>1, <4>1, <4>2, SubSeqProperties DEF TokenLists
    <3> HIDE DEF d
    <3> QED
      BY <3>1, <3>2, ConcatProperties DEF PublishHash, BlockHash, TokenLists
  <2> HIDE DEF d
  <2> QED
    BY <1>4, <1>5, <2>1 DEF Published, IsRequest
<1>7. tok \in Tokens /\ Append(a.tokens, tok) \in TokenLists /\ Len(Append(a.tokens, tok)) = Len(a.tokens) + 1
  <2>1. tok \in Tokens
    BY DEF Tokens
  <2> QED
    BY <1>1, <2>1, AppendProperties DEF TokenLists
<1> DEFINE f == T.q
           h == [f EXCEPT !.st = "parked"]
<1>8. /\ DOMAIN f = DOMAIN e /\ f.tokens = Append(e.tokens, tok) /\ f.computed = e.computed /\ f.st = e.st
      /\ f.res = e.res /\ f.snap = e.snap /\ f.table = e.table /\ f.published = e.published /\ f.parent = e.parent
  <2>1. "tokens" \in DOMAIN e
    <3> HIDE DEF e, d
    <3> QED
      BY <1>4, <1>6 DEF IsRequest
  <2> HIDE DEF e, f
  <2> QED
    BY <2>1 DEF f, e
<1>9. IsRequest(f)
  <2> HIDE DEF e, f, d
  <2> QED
    BY <1>1, <1>2, <1>3, <1>4, <1>6, <1>7, <1>8 DEF IsRequest
<1>10. /\ DOMAIN h = DOMAIN f /\ h.tokens = f.tokens /\ h.computed = f.computed /\ h.st = "parked"
       /\ h.res = f.res /\ h.snap = f.snap /\ h.table = f.table /\ h.published = f.published /\ h.parent = f.parent
  <2> HIDE DEF f
  <2> QED
    BY <1>9 DEF IsRequest
<1>11. IsRequest(h) /\ Placed(h)
  <2>1. IsRequest(h)
    <3> HIDE DEF f, h
    <3> QED
      BY <1>9, <1>10 DEF IsRequest
  <2>2. h.computed < Len(h.tokens) /\ h.res # "cpu" /\ Len(h.table) = BlocksNeededFor(h.computed)
    <3> HIDE DEF f, h, e, d
    <3> QED
      BY <1>1, <1>2, <1>3, <1>6, <1>7, <1>8, <1>10
  <2> HIDE DEF f, h
  <2> QED
    BY <1>10, <2>1, <2>2 DEF Placed
<1> HIDE DEF d, e, f, h
<1> QED
  BY <1>1, <1>3, <1>4, <1>6, <1>8, <1>9, <1>11 DEF TurnResult, d, f, h

\* A turn leaves its session seated: it parks with what it computed.
LEMMA TurnSeats ==
  ASSUME NEW P, NEW Q, Seats(P, Q), NEW r \in Sessions, Q[r].st = "active",
         NEW tok \in Sampled, NEW T, NEW t, NEW V, NEW g, NEW w, TurnFrom(P, Q[r], tok, T, t, V, g, w)
  PROVE  LET a == TurnRequest(Q[r], t)
         IN  /\ TurnResult(Q, r, tok, T, a, TurnDone(a, a.table \o g, w))
             /\ Seats(T.pool, [Q EXCEPT ![r] = [T.q EXCEPT !.st = "parked"]])
<1> DEFINE a  == TurnRequest(Q[r], t)
           PE == EvictUnused(TurnAttached(P, Q[r], t), V)
           PG == AllocBlocks(PE, g)
           s  == a.table \o g
           d  == TurnDone(a, s, w)
           PC == CowPool(PG, s, w)
           c  == [T.q EXCEPT !.st = "parked"]
<1>1. TurnStart(Q, r, a) /\ TurnGrown(P, Q, r, a, PE, g) /\ TurnOwn(Q, r, a, PG, s, w)
  <2>1. TurnStages(P, Q, r, T, t, V, g, w)
    BY TurnStaged
  <2> QED
    BY <2>1 DEF TurnStages
<1>2. T.pool = PublishPool(PC, d) /\ T.q = [Published(d) EXCEPT !.tokens = Append(@, tok)]
  BY DEF TurnFrom
<1>3. TurnResult(Q, r, tok, T, a, d)
  <2>1. s \in Seq(Blocks) /\ Len(s) = BlocksNeededFor(Len(a.tokens))
    BY <1>1 DEF TurnGrown
  <2>2. T.q = [Published(TurnDone(a, s, w)) EXCEPT !.tokens = Append(@, tok)]
    BY <1>2
  <2> HIDE DEF a, s, PG
  <2> QED
    BY <1>1, <2>1, <2>2, TurnResults
<1>4. Requests(Q)
  BY DEF Seats
<1>5. IsRequest(d) /\ IsRequest(c) /\ Placed(c) /\ c.table = d.table /\ c.table \in Seq(Blocks)
  <2>1. IsRequest(d) /\ IsRequest(c) /\ Placed(c) /\ T.q.table = d.table /\ DOMAIN c = DOMAIN T.q /\ c.table = T.q.table
    <3> HIDE DEF d
    <3> QED
      BY <1>3 DEF TurnResult, IsRequest
  <2> HIDE DEF d, c
  <2> QED
    BY <2>1 DEF IsRequest
<1>6. Counts(PC, With(Q, r, d.table))
  <2> HIDE DEF a, s, PG
  <2> QED
    BY <1>1 DEF TurnOwn
<1>7. Counts(T.pool, With(Q, r, c.table))
  <2> HIDE DEF d, PC, c
  <2>1. Counts(PublishPool(PC, d), With(Q, r, d.table))
    BY <1>4, <1>5, <1>6, PublishCounts
  <2> QED
    BY <1>2, <1>5, <2>1
<1>8. Requests([Q EXCEPT ![r] = c]) /\ Tables([Q EXCEPT ![r] = c]) = With(Q, r, c.table)
  <2> HIDE DEF c, d
  <2> QED
    BY <1>4, <1>5, RequestsUpdate, WithTables
<1>9. Seats(T.pool, [Q EXCEPT ![r] = c])
  <2> DEFINE U == [Q EXCEPT ![r] = c]
  <2> HIDE DEF c, U
  <2>1. Requests(U) /\ Counts(T.pool, Tables(U))
    BY <1>7, <1>8 DEF U
  <2> QED
    BY <2>1, SeatsCounts DEF U
<1> QED
  BY <1>3, <1>9

(***************************************************************************)
(* Sums over the host stores.                                              *)
(***************************************************************************)
\* A function into the naturals that can be summed, and the pairs its sum counts.
Summable(f) == IsFiniteSet(DOMAIN f) /\ \A x \in DOMAIN f : f[x] \in Nat
Spread(f) == UNION {{<<x, i>> : i \in 1..f[x]} : x \in DOMAIN f}

LEMMA SpreadMember ==
  ASSUME NEW f, NEW p
  PROVE  p \in Spread(f) <=> \E x \in DOMAIN f : \E i \in 1..f[x] : p = <<x, i>>
BY DEF Spread

LEMMA ColumnSize ==
  ASSUME NEW x, NEW n \in Nat
  PROVE  IsFiniteSet({<<x, i>> : i \in 1..n}) /\ Cardinality({<<x, i>> : i \in 1..n}) = n
<1> DEFINE C == {<<x, i>> : i \in 1..n}
           h == [i \in 1..n |-> <<x, i>>]
<1>1. h \in Bijection(1..n, C)
  BY DEF Bijection, Injection, Surjection, IsInjective
<1>2. ExistsBijection(1..n, C)
  BY <1>1 DEF ExistsBijection
<1>3. IsFiniteSet(C)
  <2> HIDE DEF C
  <2> QED
    BY <1>2, FS_NatBijection
<1>4. Cardinality(C) = n
  <2> HIDE DEF C
  <2> QED
    BY <1>2, FS_CountingElements
<1> QED
  BY <1>3, <1>4

LEMMA TotalNat ==
  ASSUME NEW f, Summable(f)
  PROVE  IsFiniteSet(Spread(f)) /\ Total(f) = Cardinality(Spread(f)) /\ Total(f) \in Nat
<1> DEFINE C(x) == {<<x, i>> : i \in 1..f[x]}
           S == {C(x) : x \in DOMAIN f}
           h == [x \in DOMAIN f |-> C(x)]
<1>1. h \in Surjection(DOMAIN f, S)
  BY DEF Surjection
<1>2. IsFiniteSet(S)
  <2> HIDE DEF S, h
  <2> QED
    BY <1>1, FS_Surjection DEF Summable
<1>3. \A T \in S : IsFiniteSet(T)
  <2> SUFFICES ASSUME NEW x \in DOMAIN f PROVE IsFiniteSet(C(x))
    OBVIOUS
  <2> QED
    BY ColumnSize DEF Summable
<1>4. IsFiniteSet(UNION S)
  <2> HIDE DEF S
  <2> QED
    BY <1>2, <1>3, FS_UNION
<1>5. Spread(f) = UNION S /\ Total(f) = Cardinality(Spread(f))
  BY DEF Spread, Total
<1> QED
  BY <1>4, <1>5, FS_CardinalityType

\* The domain of f falls apart into those of g and h.
Parts(f, g, h) ==
  /\ DOMAIN f = DOMAIN g \union DOMAIN h /\ DOMAIN g \intersect DOMAIN h = {}
  /\ \A x \in DOMAIN g : f[x] = g[x]
  /\ \A x \in DOMAIN h : f[x] = h[x]

LEMMA TotalParts ==
  ASSUME NEW f, NEW g, NEW h, Summable(f), Parts(f, g, h)
  PROVE  Total(f) = Total(g) + Total(h) /\ Total(g) \in Nat /\ Total(h) \in Nat
<1>1. Summable(g) /\ Summable(h)
  <2>1. DOMAIN g \in SUBSET DOMAIN f /\ DOMAIN h \in SUBSET DOMAIN f
    BY DEF Parts
  <2>2. IsFiniteSet(DOMAIN g) /\ IsFiniteSet(DOMAIN h)
    BY <2>1, FS_Subset DEF Summable
  <2> QED
    BY <2>2 DEF Summable, Parts
<1>2. Spread(f) = Spread(g) \union Spread(h)
  <2>1. \A p : p \in Spread(f) <=> p \in Spread(g) \/ p \in Spread(h)
    BY SpreadMember DEF Parts
  <2> QED
    BY <2>1
<1>3. Spread(g) \intersect Spread(h) = {}
  <2>1. ASSUME NEW p, p \in Spread(g), p \in Spread(h) PROVE FALSE
    <3>1. PICK x \in DOMAIN g : \E i \in 1..g[x] : p = <<x, i>>
      BY <2>1, SpreadMember
    <3>2. PICK y \in DOMAIN h : \E i \in 1..h[y] : p = <<y, i>>
      BY <2>1, SpreadMember
    <3> QED
      BY <3>1, <3>2 DEF Parts
  <2> QED
    BY <2>1
<1>4. /\ IsFiniteSet(Spread(g)) /\ Total(g) = Cardinality(Spread(g)) /\ Total(g) \in Nat
      /\ IsFiniteSet(Spread(h)) /\ Total(h) = Cardinality(Spread(h)) /\ Total(h) \in Nat
      /\ Total(f) = Cardinality(Spread(f))
  BY <1>1, TotalNat
<1>5. Cardinality(Spread(f)) = Cardinality(Spread(g)) + Cardinality(Spread(h)) - 0
  BY <1>2, <1>3, <1>4, FS_Union, FS_EmptySet
<1> QED
  BY <1>4, <1>5

LEMMA TotalOne ==
  ASSUME NEW f, NEW x, DOMAIN f = {x}, f[x] \in Nat
  PROVE  Total(f) = f[x]
<1>1. Spread(f) = {<<x, i>> : i \in 1..f[x]}
  BY DEF Spread
<1>2. Total(f) = Cardinality(Spread(f))
  BY DEF Total, Spread
<1> QED
  BY <1>1, <1>2, ColumnSize

LEMMA TotalNone ==
  ASSUME NEW f, DOMAIN f = {}
  PROVE  Total(f) = 0
<1>1. Spread(f) = {}
  BY DEF Spread
<1>2. Total(f) = Cardinality(Spread(f))
  BY DEF Total, Spread
<1> QED
  BY <1>1, <1>2, FS_EmptySet

Sized(X) == IsFiniteSet(X) /\ \A m \in X : m.n \in Nat

LEMMA SizeParts ==
  ASSUME NEW X, Sized(X), NEW Y \in SUBSET X
  PROVE  /\ SizeOf(X) \in Nat /\ SizeOf(Y) \in Nat /\ SizeOf(X \ Y) \in Nat
         /\ SizeOf(X) = SizeOf(Y) + SizeOf(X \ Y)
         /\ PinnedOf(X) \in Nat /\ PinnedOf(Y) \in Nat /\ PinnedOf(X \ Y) \in Nat
         /\ PinnedOf(X) = PinnedOf(Y) + PinnedOf(X \ Y)
<1>1. \A m \in X : m.n \in Nat /\ PinnedSize(m) \in Nat
  BY DEF Sized, PinnedSize
<1> DEFINE N(S) == [s \in S |-> s.n]
           K(S) == [s \in S |-> PinnedSize(s)]
<1>2. Summable(N(X)) /\ Summable(K(X))
  BY <1>1 DEF Summable, Sized
<1>3. Parts(N(X), N(Y), N(X \ Y)) /\ Parts(K(X), K(Y), K(X \ Y))
  BY DEF Parts
<1>4. SizeOf(X) = Total(N(X)) /\ SizeOf(Y) = Total(N(Y)) /\ SizeOf(X \ Y) = Total(N(X \ Y))
  BY DEF SizeOf
<1>5. PinnedOf(X) = Total(K(X)) /\ PinnedOf(Y) = Total(K(Y)) /\ PinnedOf(X \ Y) = Total(K(X \ Y))
  BY DEF PinnedOf
<1> HIDE DEF N, K
<1>6. Total(N(X)) = Total(N(Y)) + Total(N(X \ Y)) /\ Total(N(Y)) \in Nat /\ Total(N(X \ Y)) \in Nat
  BY <1>2, <1>3, TotalParts
<1>7. Total(K(X)) = Total(K(Y)) + Total(K(X \ Y)) /\ Total(K(Y)) \in Nat /\ Total(K(X \ Y)) \in Nat
  BY <1>2, <1>3, TotalParts
<1> QED
  BY <1>4, <1>5, <1>6, <1>7

LEMMA SizeOne ==
  ASSUME NEW m, m.n \in Nat
  PROVE  SizeOf({m}) = m.n /\ PinnedOf({m}) = PinnedSize(m) /\ PinnedSize(m) \in Nat /\ Sized({m})
<1>1. PinnedSize(m) \in Nat
  BY DEF PinnedSize
<1>2. Total([s \in {m} |-> s.n]) = m.n
  <2> DEFINE f == [s \in {m} |-> s.n]
  <2>1. DOMAIN f = {m} /\ f[m] = m.n
    OBVIOUS
  <2> HIDE DEF f
  <2>2. Total(f) = m.n
    BY <2>1, TotalOne
  <2> QED
    BY <2>2 DEF f
<1>3. Total([s \in {m} |-> PinnedSize(s)]) = PinnedSize(m)
  <2> DEFINE f == [s \in {m} |-> PinnedSize(s)]
  <2>1. DOMAIN f = {m} /\ f[m] = PinnedSize(m)
    OBVIOUS
  <2> HIDE DEF f
  <2>2. Total(f) = PinnedSize(m)
    BY <1>1, <2>1, TotalOne
  <2> QED
    BY <2>2 DEF f
<1> QED
  BY <1>1, <1>2, <1>3, FS_Singleton DEF SizeOf, PinnedOf, Sized

LEMMA SizeNone == SizeOf({}) = 0 /\ PinnedOf({}) = 0
<1>1. SizeOf({}) = 0
  <2> DEFINE f == [s \in {} |-> s.n]
  <2>1. DOMAIN f = {}
    OBVIOUS
  <2> HIDE DEF f
  <2> QED
    BY <2>1, TotalNone DEF SizeOf, f
<1>2. PinnedOf({}) = 0
  <2> DEFINE f == [s \in {} |-> PinnedSize(s)]
  <2>1. DOMAIN f = {}
    OBVIOUS
  <2> HIDE DEF f
  <2> QED
    BY <2>1, TotalNone DEF PinnedOf, f
<1> QED
  BY <1>1, <1>2

LEMMA SizeAdded ==
  ASSUME NEW X, Sized(X), NEW m, m \notin X, m.n \in Nat
  PROVE  /\ Sized(X \union {m}) /\ SizeOf(X) \in Nat /\ PinnedOf(X) \in Nat
         /\ SizeOf(X \union {m}) = SizeOf(X) + m.n
         /\ PinnedOf(X \union {m}) = PinnedOf(X) + PinnedSize(m) /\ PinnedSize(m) \in Nat
<1> DEFINE Y == X \union {m}
<1>1. Sized(Y)
  BY FS_AddElement DEF Sized
<1>2. {m} \in SUBSET Y /\ Y \ {m} = X
  OBVIOUS
<1>3. /\ SizeOf(Y) = SizeOf({m}) + SizeOf(Y \ {m}) /\ SizeOf(Y \ {m}) \in Nat
      /\ PinnedOf(Y) = PinnedOf({m}) + PinnedOf(Y \ {m}) /\ PinnedOf(Y \ {m}) \in Nat
  <2> HIDE DEF Y
  <2> QED
    BY <1>1, <1>2, SizeParts
<1>4. SizeOf({m}) = m.n /\ PinnedOf({m}) = PinnedSize(m) /\ PinnedSize(m) \in Nat
  BY SizeOne
<1> HIDE DEF Y
<1>6. /\ SizeOf(Y) = SizeOf({m}) + SizeOf(X) /\ SizeOf(X) \in Nat
      /\ PinnedOf(Y) = PinnedOf({m}) + PinnedOf(X) /\ PinnedOf(X) \in Nat
  BY ONLY <1>2, <1>3
<1>5. SizeOf(Y) = SizeOf(X) + m.n /\ PinnedOf(Y) = PinnedOf(X) + PinnedSize(m)
  BY <1>4, <1>6
<1> QED
  BY <1>1, <1>2, <1>3, <1>4, <1>5 DEF Y
\* Every set of naturals that is not empty has a least member.
LEMMA LeastNatural ==
  ASSUME NEW X \in SUBSET Nat, X # {}
  PROVE  \E i \in X : \A j \in X : i <= j
<1> DEFINE Less == {p \in Nat \X Nat : p[1] < p[2]}
<1>1. IsWellFoundedOn(Less, Nat)
  BY NatLessThanWellFounded, Zenon DEF OpToRel
<1>2. \A i, j \in Nat : ~(<<j, i>> \in Less) => i <= j
  OBVIOUS
<1> HIDE DEF Less
<1>3. \E i \in X : \A j \in X : ~(<<j, i>> \in Less)
  BY <1>1, WFMin
<1> QED
  BY <1>2, <1>3

\* A set of naturals that has 0 and every successor has them all.
LEMMA InductionOnNaturals ==
  ASSUME NEW X, 0 \in X, \A n \in Nat : n \in X => n + 1 \in X
  PROVE  Nat \subseteq X
<1> SUFFICES ASSUME Nat \ X # {}
             PROVE  FALSE
  OBVIOUS
<1>1. PICK i \in Nat \ X : \A j \in Nat \ X : i <= j
  BY LeastNatural
<1>2. i # 0 /\ i - 1 \in Nat
  BY <1>1
<1>3. i - 1 \in X
  BY <1>1, <1>2
<1>4. i - 1 + 1 \in X
  BY <1>2, <1>3
<1> QED
  BY <1>1, <1>4

\* What appending to a queue does to its elements.
LEMMA AppendFacts ==
  ASSUME NEW D, NEW s \in Seq(D), NEW x \in D
  PROVE  /\ Append(s, x) \in Seq(D) /\ Range(Append(s, x)) = Range(s) \union {x}
         /\ IsInjective(s) /\ x \notin Range(s) => IsInjective(Append(s, x))
<1>1. /\ Append(s, x) \in Seq(D) /\ Len(Append(s, x)) = Len(s) + 1
      /\ \A i \in 1..Len(s) : Append(s, x)[i] = s[i]
      /\ Append(s, x)[Len(s) + 1] = x
  BY AppendProperties
<1>2. DOMAIN s = 1..Len(s) /\ DOMAIN Append(s, x) = 1..Len(s) + 1 /\ Len(s) \in Nat
  BY <1>1, LenProperties
<1>3. Range(Append(s, x)) = Range(s) \union {x}
  BY <1>1, <1>2 DEF Range
<1>4. ASSUME IsInjective(s), x \notin Range(s) PROVE IsInjective(Append(s, x))
  BY <1>1, <1>2, <1>4 DEF Range, IsInjective
<1> QED
  BY <1>1, <1>3, <1>4

\* What filtering a sequence keeps.
LEMMA KeptFacts ==
  ASSUME NEW D, NEW s \in Seq(D), NEW S
  PROVE  /\ Kept(s, S) \in Seq(D) /\ Range(Kept(s, S)) = Range(s) \intersect S
         /\ IsInjective(s) => IsInjective(Kept(s, S))
<1> DEFINE Joined(t, i) == IF s[i] \in S THEN Append(t, s[i]) ELSE t
           Filters(f, n) == f = [i \in 0..n |-> IF i = 0 THEN << >> ELSE Joined(f[i - 1], i)]
           Seen(n) == {s[j] : j \in {k \in 1..n : s[k] \in S}}
           Value(t, n) == t \in Seq(D) /\ Range(t) = Seen(n) /\ (IsInjective(s) => IsInjective(t))
           X == {n \in Nat : n <= Len(s) => \E f : Filters(f, n) /\ Value(f[n], n)}
<1>1. Len(s) \in Nat /\ DOMAIN s = 1..Len(s) /\ \A i \in 1..Len(s) : s[i] \in D
  BY LenProperties
<1>2. 0 \in X
  <2> DEFINE f == [i \in 0..0 |-> << >>]
  <2>1. Filters(f, 0)
    OBVIOUS
  <2>2. Value(f[0], 0)
    BY DEF Range, IsInjective
  <2> QED
    BY <2>1, <2>2
<1>3. ASSUME NEW n \in Nat, n \in X
      PROVE  n + 1 \in X
  <2> SUFFICES ASSUME n + 1 <= Len(s)
               PROVE  \E f : Filters(f, n + 1) /\ Value(f[n + 1], n + 1)
    <3> HIDE DEF Filters, Value
    <3> QED
      OBVIOUS
  <2>1. PICK g : Filters(g, n) /\ Value(g[n], n)
    <3>1. n <= Len(s)
      BY <1>1
    <3> HIDE DEF Filters, Value
    <3> QED
      BY <1>3, <3>1
  <2> DEFINE t == Joined(g[n], n + 1)
             f == [i \in 0..n + 1 |-> IF i <= n THEN g[i] ELSE t]
  <2>2. f[n] = g[n] /\ f[n + 1] = t /\ \A i \in 0..n : f[i] = g[i]
    OBVIOUS
  <2>3. \A i \in 0..n : g[i] = IF i = 0 THEN << >> ELSE Joined(g[i - 1], i)
    <3> HIDE DEF Joined
    <3> QED
      BY <2>1
  <2>4. \A i \in 0..n + 1 : f[i] = IF i = 0 THEN << >> ELSE Joined(f[i - 1], i)
    <3> TAKE i \in 0..n + 1
    <3>1. CASE i \in 0..n
      <4>1. i # 0 => i - 1 \in 0..n
        BY <3>1
      <4> HIDE DEF Joined, f
      <4> QED
        BY <2>2, <2>3, <3>1, <4>1
    <3>2. CASE i = n + 1
      <4>1. i # 0 /\ i - 1 = n
        BY <3>2
      <4> HIDE DEF Joined, f
      <4>2. f[i] = Joined(g[n], n + 1)
        BY <2>2, <3>2
      <4> QED
        BY <2>2, <3>2, <4>1, <4>2
    <3> QED
      BY <3>1, <3>2
  <2>5. Filters(f, n + 1)
    <3>1. DOMAIN f = 0..n + 1 /\ f = [i \in 0..n + 1 |-> f[i]]
      OBVIOUS
    <3> HIDE DEF Joined, f
    <3> QED
      BY <2>4, <3>1
  <2>6. Value(t, n + 1)
    <3>1. n + 1 \in 1..Len(s) /\ s[n + 1] \in D
      BY <1>1
    <3>2. 1..n + 1 = 1..n \union {n + 1}
      OBVIOUS
    <3>3. CASE s[n + 1] \in S
      <4>1. /\ Append(g[n], s[n + 1]) \in Seq(D)
            /\ Range(Append(g[n], s[n + 1])) = Range(g[n]) \union {s[n + 1]}
            /\ IsInjective(s) => IsInjective(Append(g[n], s[n + 1]))
        <5>1. g[n] \in Seq(D) /\ Range(g[n]) = Seen(n) /\ (IsInjective(s) => IsInjective(g[n]))
          BY <2>1
        <5>2. IsInjective(s) => s[n + 1] \notin Seen(n)
          BY <1>1, <3>1 DEF IsInjective
        <5> HIDE DEF Seen
        <5> QED
          BY <5>1, <5>2, <3>1, AppendFacts
      <4>2. Seen(n + 1) = Seen(n) \union {s[n + 1]}
        BY <3>2, <3>3
      <4> HIDE DEF Seen
      <4> QED
        BY <2>1, <3>3, <4>1, <4>2
    <3>4. CASE s[n + 1] \notin S
      <4>1. Seen(n + 1) = Seen(n)
        BY <3>2, <3>4
      <4> HIDE DEF Seen
      <4> QED
        BY <2>1, <3>4, <4>1
    <3> QED
      BY <3>3, <3>4
  <2>7. Value(f[n + 1], n + 1)
    BY <2>2, <2>6
  <2> HIDE DEF f, t
  <2> QED
    BY <2>5, <2>7
<1>4. Len(s) \in X
  <2> HIDE DEF X
  <2>1. Nat \subseteq X
    BY <1>2, <1>3, InductionOnNaturals
  <2> QED
    BY <1>1, <2>1
<1>5. PICK f : Filters(f, Len(s)) /\ Value(f[Len(s)], Len(s))
  BY SMTT(60), <1>1, <1>4
<1>6. ASSUME NEW g, Filters(g, Len(s))
      PROVE  g[Len(s)] = f[Len(s)]
  <2> DEFINE Y == {n \in Nat : n <= Len(s) => g[n] = f[n]}
  <2> HIDE DEF Joined
  <2>1. 0 \in Y
    BY <1>1, <1>5, <1>6
  <2>2. ASSUME NEW n \in Nat, n \in Y
        PROVE  n + 1 \in Y
    <3> SUFFICES ASSUME n + 1 <= Len(s)
                 PROVE  g[n + 1] = f[n + 1]
      OBVIOUS
    <3>1. n + 1 \in 0..Len(s) /\ n + 1 # 0 /\ n + 1 - 1 = n /\ n <= Len(s)
      BY <1>1
    <3>2. g[n + 1] = Joined(g[n], n + 1) /\ f[n + 1] = Joined(f[n], n + 1)
      BY <1>5, <1>6, <3>1
    <3> QED
      BY <2>2, <3>1, <3>2
  <2>3. Nat \subseteq Y
    <3> HIDE DEF Y
    <3> QED
      BY <2>1, <2>2, InductionOnNaturals
  <2> QED
    BY <1>1, <2>3
<1>7. Kept(s, S) = (CHOOSE g : Filters(g, Len(s)))[Len(s)]
  BY DEF Kept
<1>8. Filters(CHOOSE g : Filters(g, Len(s)), Len(s))
  <2> HIDE DEF Filters
  <2> QED
    BY <1>5
<1>9. Kept(s, S) = f[Len(s)]
  <2> DEFINE g == CHOOSE h : Filters(h, Len(s))
  <2> HIDE DEF Filters, g
  <2> QED
    BY <1>6, <1>7, <1>8 DEF g
<1>10. Value(Kept(s, S), Len(s))
  BY <1>5, <1>9
<1>11. {s[j] : j \in {k \in 1..Len(s) : s[k] \in S}} = Range(s) \intersect S
  BY <1>1 DEF Range
<1> QED
  BY <1>10, <1>11

(***************************************************************************)
(* The books of the host store.                                            *)
(***************************************************************************)
LEMMA RangeFinite ==
  ASSUME NEW D, NEW s \in Seq(D)
  PROVE  IsFiniteSet(Range(s)) /\ Range(s) \subseteq D
<1>1. Len(s) \in Nat /\ DOMAIN s = 1..Len(s) /\ \A i \in 1..Len(s) : s[i] \in D
  BY LenProperties
<1>2. s \in Surjection(1..Len(s), Range(s))
  BY <1>1 DEF Surjection, Range
<1>3. IsFiniteSet(1..Len(s))
  <2>1. 1 \in Int /\ Len(s) \in Int
    BY <1>1
  <2> QED
    BY <2>1, FS_Interval
<1> QED
  BY <1>1, <1>2, <1>3, FS_Surjection DEF Range

LEMMA MetaSize ==
  ASSUME NEW m, IsMeta(m)
  PROVE  m.n \in Nat /\ PinnedSize(m) \in Nat /\ PinnedSize(m) <= m.n
<1>1. m.n \in Nat
  BY BlocksFor DEF IsMeta
<1> QED
  BY <1>1 DEF PinnedSize

\* The numbers in the books.
Numbers(S) ==
  /\ S.committed \in Nat /\ S.reserved \in Nat /\ S.pinned \in Nat /\ S.openPinned \in Nat
  /\ Sized(Snaps(S)) /\ Sized(S.open)

LEMMA BooksNumbers ==
  ASSUME NEW S, StoreTyped(S), StoreCounted(S)
  PROVE  Numbers(S)
<1>1. Snaps(S) = Range(S.snaps)
  BY DEF Snaps, Range
<1>2. IsFiniteSet(Snaps(S))
  BY <1>1, RangeFinite DEF StoreTyped
<1>3. Sized(Snaps(S)) /\ Sized(S.open)
  BY <1>2, MetaSize DEF Sized, StoreTyped
<1>4. SizeOf(Snaps(S)) \in Nat /\ SizeOf(S.open) \in Nat /\ PinnedOf(Snaps(S)) \in Nat /\ PinnedOf(S.open) \in Nat
  BY <1>3, SizeParts
<1> QED
  BY <1>3, <1>4 DEF Numbers, StoreCounted

LEMMA WithPinMeta ==
  ASSUME NEW S, NEW m, IsMeta(m), Numbers(S), S.pinned + S.openPinned <= PinnedMax
  PROVE  LET p == WithPin(S, m)
         IN  /\ IsMeta(p) /\ p.id = m.id /\ p.rid = m.rid /\ p.tokens = m.tokens /\ p.computed = m.computed
             /\ p.n = m.n /\ p.w = m.w /\ p.epoch = m.epoch /\ p.pages = m.pages
             /\ S.pinned + (S.openPinned + PinnedSize(p)) <= PinnedMax
<1> DEFINE p == WithPin(S, m)
<1>1. DOMAIN p = DOMAIN m /\ p.id = m.id /\ p.rid = m.rid /\ p.tokens = m.tokens /\ p.computed = m.computed
      /\ p.n = m.n /\ p.w = m.w /\ p.epoch = m.epoch /\ p.pages = m.pages /\ p.pin = Pins(S, m.n)
  BY DEF WithPin, IsMeta
<1>2. Pins(S, m.n) \in BOOLEAN
  BY DEF Pins
<1>3. IsMeta(p)
  <2> HIDE DEF p
  <2> QED
    BY <1>1, <1>2 DEF IsMeta
<1>4. S.pinned + (S.openPinned + PinnedSize(p)) <= PinnedMax
  <2>1. m.n \in Nat
    BY MetaSize
  <2>2. CASE Pins(S, m.n)
    <3>1. PinnedSize(p) = m.n
      <4> HIDE DEF p
      <4> QED
        BY <1>1, <2>2 DEF PinnedSize
    <3> HIDE DEF p
    <3> QED
      BY <2>1, <2>2, <3>1 DEF Pins, Numbers
  <2>3. CASE ~Pins(S, m.n)
    <3>1. PinnedSize(p) = 0
      <4> HIDE DEF p
      <4> QED
        BY <1>1, <2>3 DEF PinnedSize
    <3> HIDE DEF p
    <3> QED
      BY <2>1, <3>1 DEF Numbers
  <2> QED
    BY <2>2, <2>3
<1> QED
  BY <1>1, <1>3, <1>4

\* Nothing refers to id yet.
Unused(S, hold, id) == id \notin Ids(S) /\ id \notin {m.id : m \in S.open} /\ id # hold.id

\* reserve.
LEMMA ReserveBooks ==
  ASSUME NEW S, NEW hold, Books(S, hold), NEW m, IsMeta(m), Unused(S, hold, m.id),
         Owned(S, hold) + m.n <= CpuMax
  PROVE  LET R == Reserve(S, m)
         IN  /\ Books(R, hold) /\ R.snaps = S.snaps /\ R.open = S.open \union {WithPin(S, m)}
             /\ WithPin(S, m) \notin S.open
             /\ Owned(R, hold) = Owned(S, hold) + m.n
<1> DEFINE p == WithPin(S, m)
           R == Reserve(S, m)
<1>1. StoreTyped(S) /\ Distinct(S) /\ StoreCounted(S) /\ HoldOK(S, hold) /\ Numbers(S)
  BY BooksNumbers DEF Books
<1>2. /\ IsMeta(p) /\ p.id = m.id /\ p.n = m.n /\ S.pinned + (S.openPinned + PinnedSize(p)) <= PinnedMax
  BY <1>1, WithPinMeta DEF StoreCounted
<1>3. m.n \in Nat /\ PinnedSize(p) \in Nat
  BY <1>2, MetaSize
<1>4. p \notin S.open
  BY <1>2 DEF Unused
<1>5. /\ DOMAIN R = DOMAIN S /\ R.snaps = S.snaps /\ R.open = S.open \union {p} /\ R.committed = S.committed
      /\ R.reserved = S.reserved + m.n /\ R.pinned = S.pinned /\ R.openPinned = S.openPinned + PinnedSize(p)
  BY <1>1, <1>2 DEF Reserve, StoreTyped
<1> HIDE DEF p, R
<1>6. Snaps(R) = Snaps(S) /\ Ids(R) = Ids(S)
  BY <1>5 DEF Snaps, Ids
<1>7. Sized(S.open \union {p}) /\ SizeOf(R.open) = SizeOf(S.open) + m.n /\ PinnedOf(R.open) = PinnedOf(S.open) + PinnedSize(p)
  BY <1>1, <1>2, <1>3, <1>4, <1>5, SizeAdded DEF Numbers
<1>8. StoreTyped(R)
  BY <1>1, <1>2, <1>5, <1>6, <1>7 DEF StoreTyped, Sized
<1>9. Distinct(R)
  BY <1>1, <1>2, <1>5, <1>6 DEF Distinct, Unused
<1>10. StoreCounted(R)
  BY <1>1, <1>2, <1>5, <1>6, <1>7 DEF StoreCounted
<1>11. Owned(R, hold) = Owned(S, hold) + m.n
  BY <1>1, <1>3, <1>5, <1>6 DEF Owned, Numbers, HoldOK
<1>12. HoldOK(R, hold)
  BY <1>1, <1>2, <1>5, <1>6, <1>11 DEF HoldOK, Unused
<1> QED
  BY <1>4, <1>5, <1>8, <1>9, <1>10, <1>11, <1>12 DEF Books, R, p

\* abort.
LEMMA AbortBooks ==
  ASSUME NEW S, NEW hold, Books(S, hold), NEW X \in SUBSET S.open
  PROVE  LET R == Abort(S, X)
         IN  /\ Books(R, hold) /\ R.snaps = S.snaps /\ R.open = S.open \ X /\ Snaps(R) = Snaps(S)
<1> DEFINE R == Abort(S, X)
<1>1. StoreTyped(S) /\ Distinct(S) /\ StoreCounted(S) /\ HoldOK(S, hold) /\ Numbers(S)
  BY BooksNumbers DEF Books
<1>2. /\ DOMAIN R = DOMAIN S /\ R.snaps = S.snaps /\ R.open = S.open \ X /\ R.committed = S.committed
      /\ R.reserved = S.reserved - SizeOf(X) /\ R.pinned = S.pinned /\ R.openPinned = S.openPinned - PinnedOf(X)
  BY <1>1 DEF Abort, StoreTyped
<1>3. /\ SizeOf(S.open) = SizeOf(X) + SizeOf(S.open \ X) /\ SizeOf(X) \in Nat /\ SizeOf(S.open \ X) \in Nat
      /\ PinnedOf(S.open) = PinnedOf(X) + PinnedOf(S.open \ X) /\ PinnedOf(X) \in Nat /\ PinnedOf(S.open \ X) \in Nat
  BY <1>1, SizeParts DEF Numbers
<1>4. IsFiniteSet(S.open \ X)
  BY <1>1, FS_Subset DEF StoreTyped
<1> HIDE DEF R
<1>5. Snaps(R) = Snaps(S) /\ Ids(R) = Ids(S)
  BY <1>2 DEF Snaps, Ids
<1>6. StoreTyped(R)
  BY <1>1, <1>2, <1>4, <1>5 DEF StoreTyped
<1>7. Distinct(R)
  BY <1>1, <1>2, <1>5 DEF Distinct
<1>8. StoreCounted(R)
  <2>1. PinnedMax \in Int
    BY CpuStoreAssumption
  <2>2. R.reserved = SizeOf(R.open) /\ R.openPinned = PinnedOf(R.open)
    BY <1>1, <1>2, <1>3 DEF StoreCounted
  <2>3. R.pinned + R.openPinned <= PinnedMax
    BY <1>1, <1>2, <1>3, <2>1 DEF StoreCounted, Numbers
  <2> QED
    BY <1>1, <1>2, <1>5, <2>2, <2>3 DEF StoreCounted
<1>9. HoldOK(R, hold)
  <2>1. Owned(R, hold) <= Owned(S, hold) /\ Owned(R, hold) \in Int /\ Owned(S, hold) \in Int
    BY <1>1, <1>2, <1>3, <1>5 DEF Owned, Numbers, HoldOK
  <2>2. CpuMax \in Int
    BY CpuStoreAssumption
  <2>3. Owned(R, hold) <= CpuMax
    BY <1>1, <2>1, <2>2 DEF HoldOK
  <2> QED
    BY <1>1, <1>2, <1>5, <2>3 DEF HoldOK
<1> QED
  BY <1>2, <1>5, <1>6, <1>7, <1>8, <1>9 DEF Books, R

\* commit: the reservation m becomes a snapshot with these pages.
WithPages(m, pages) == [m EXCEPT !.pages = pages]
SameMeta(s, m) ==
  /\ IsMeta(s) /\ s.id = m.id /\ s.rid = m.rid /\ s.tokens = m.tokens /\ s.computed = m.computed
  /\ s.n = m.n /\ s.w = m.w /\ s.epoch = m.epoch

LEMMA CommitBooks ==
  ASSUME NEW S, NEW hold, Books(S, hold), NEW m \in S.open, NEW pages
  PROVE  LET R == Commit(S, m, pages)
             s == WithPages(m, pages)
         IN  /\ Books(R, hold) /\ Snaps(R) = Snaps(S) \union {s} /\ R.open = S.open \ {m}
             /\ SameMeta(s, m) /\ s.pages = pages /\ s \notin Snaps(S)
<1> DEFINE R == Commit(S, m, pages)
           s == WithPages(m, pages)
<1>1. StoreTyped(S) /\ Distinct(S) /\ StoreCounted(S) /\ HoldOK(S, hold) /\ Numbers(S) /\ IsMeta(m)
  BY BooksNumbers DEF Books, StoreTyped
<1>2. SameMeta(s, m) /\ s.pages = pages /\ s.pin = m.pin
  <2>1. /\ DOMAIN s = DOMAIN m /\ s.id = m.id /\ s.rid = m.rid /\ s.tokens = m.tokens /\ s.computed = m.computed
        /\ s.n = m.n /\ s.w = m.w /\ s.epoch = m.epoch /\ s.pin = m.pin /\ s.pages = pages
    BY <1>1 DEF WithPages, IsMeta
  <2> HIDE DEF s
  <2> QED
    BY <1>1, <2>1 DEF SameMeta, IsMeta
<1>3. m.n \in Nat /\ PinnedSize(m) \in Nat /\ PinnedSize(s) = PinnedSize(m) /\ s.n = m.n
  <2> HIDE DEF s
  <2>1. m.n \in Nat /\ PinnedSize(m) \in Nat
    BY <1>1, MetaSize
  <2> QED
    BY <1>2, <2>1 DEF SameMeta, PinnedSize
<1>4. /\ DOMAIN R = DOMAIN S /\ R.snaps = Append(S.snaps, s) /\ R.open = S.open \ {m}
      /\ R.committed = S.committed + m.n /\ R.reserved = S.reserved - m.n
      /\ R.pinned = S.pinned + PinnedSize(m) /\ R.openPinned = S.openPinned - PinnedSize(m)
  BY <1>1 DEF Commit, StoreTyped, WithPages
<1> HIDE DEF R, s
<1>5. s \notin Snaps(S) /\ s.id \notin Ids(S)
  BY <1>1, <1>2 DEF Distinct, SameMeta, Ids
<1>6. /\ Len(S.snaps) \in Nat /\ DOMAIN S.snaps = 1..Len(S.snaps) /\ DOMAIN R.snaps = 1..Len(S.snaps) + 1
      /\ \A i \in 1..Len(S.snaps) : R.snaps[i] = S.snaps[i]
      /\ R.snaps[Len(S.snaps) + 1] = s
  <2> DEFINE D == Snaps(S) \union {s}
  <2>1. S.snaps \in Seq(D) /\ s \in D
    BY <1>1 DEF StoreTyped
  <2> HIDE DEF D
  <2> QED
    BY <1>4, <2>1, AppendProperties, LenProperties
<1>7. Snaps(R) = Snaps(S) \union {s} /\ Ids(R) = Ids(S) \union {m.id}
  <2>1. Snaps(R) = Snaps(S) \union {s}
    BY <1>6 DEF Snaps
  <2> QED
    BY <1>2, <2>1 DEF Ids, SameMeta
<1>8. R.snaps \in Seq(Snaps(R))
  <2>1. S.snaps \in Seq(Snaps(R)) /\ s \in Snaps(R)
    BY <1>1, <1>7 DEF StoreTyped
  <2> QED
    BY <1>4, <2>1, AppendProperties
<1>9. StoreTyped(R)
  <2>1. IsFiniteSet(S.open \ {m})
    BY <1>1, FS_Subset DEF StoreTyped
  <2> QED
    BY <1>1, <1>2, <1>4, <1>7, <1>8, <2>1 DEF StoreTyped, SameMeta
<1>10. Distinct(R)
  <2>1. \A i \in 1..Len(S.snaps) : S.snaps[i].id # s.id
    BY <1>5, <1>6 DEF Ids, Snaps
  <2>2. \A i, j \in DOMAIN R.snaps : R.snaps[i].id = R.snaps[j].id => i = j
    <3> SUFFICES ASSUME NEW i \in DOMAIN R.snaps, NEW j \in DOMAIN R.snaps, R.snaps[i].id = R.snaps[j].id
                 PROVE  i = j
      OBVIOUS
    <3>1. /\ i \in 1..Len(S.snaps) \/ i = Len(S.snaps) + 1
          /\ j \in 1..Len(S.snaps) \/ j = Len(S.snaps) + 1
      BY <1>6
    <3>2. CASE i \in 1..Len(S.snaps) /\ j \in 1..Len(S.snaps)
      BY <1>1, <1>6, <3>2 DEF Distinct
    <3>3. CASE i = Len(S.snaps) + 1 \/ j = Len(S.snaps) + 1
      BY <1>6, <2>1, <3>1, <3>3
    <3> QED
      BY <3>1, <3>2, <3>3
  <2>3. \A o \in R.open : o.id \notin Ids(R)
    BY <1>1, <1>4, <1>7 DEF Distinct
  <2> QED
    BY <1>1, <1>4, <2>2, <2>3 DEF Distinct
<1>11. /\ SizeOf(Snaps(R)) = SizeOf(Snaps(S)) + m.n /\ PinnedOf(Snaps(R)) = PinnedOf(Snaps(S)) + PinnedSize(m)
  BY <1>1, <1>3, <1>5, <1>7, SizeAdded DEF Numbers
<1>12. /\ SizeOf(S.open) = m.n + SizeOf(R.open) /\ SizeOf(R.open) \in Nat
       /\ PinnedOf(S.open) = PinnedSize(m) + PinnedOf(R.open) /\ PinnedOf(R.open) \in Nat
  <2>1. /\ SizeOf(S.open) = SizeOf({m}) + SizeOf(S.open \ {m}) /\ SizeOf(S.open \ {m}) \in Nat
        /\ PinnedOf(S.open) = PinnedOf({m}) + PinnedOf(S.open \ {m}) /\ PinnedOf(S.open \ {m}) \in Nat
    BY <1>1, SizeParts DEF Numbers
  <2>2. SizeOf({m}) = m.n /\ PinnedOf({m}) = PinnedSize(m)
    BY <1>3, SizeOne
  <2> QED
    BY <1>4, <2>1, <2>2
<1>13. StoreCounted(R)
  <2>1. R.committed = SizeOf(Snaps(R)) /\ R.pinned = PinnedOf(Snaps(R))
    BY <1>1, <1>4, <1>11 DEF StoreCounted
  <2>2. R.reserved = SizeOf(R.open) /\ R.openPinned = PinnedOf(R.open)
    BY <1>1, <1>3, <1>4, <1>12 DEF StoreCounted
  <2>3. R.pinned + R.openPinned = S.pinned + S.openPinned
    BY <1>1, <1>3, <1>4 DEF Numbers
  <2> QED
    BY <1>1, <2>1, <2>2, <2>3 DEF StoreCounted
<1>14. HoldOK(R, hold)
  <2>1. hold.id # m.id
    BY <1>1 DEF HoldOK
  <2>2. Owned(R, hold) = Owned(S, hold)
    <3>1. hold.id \in Ids(R) <=> hold.id \in Ids(S)
      BY <1>7, <2>1
    <3>2. R.committed + R.reserved = S.committed + S.reserved
      BY <1>1, <1>3, <1>4 DEF Numbers
    <3> QED
      BY <3>1, <3>2 DEF Owned
  <2> QED
    BY <1>1, <1>2, <1>4, <1>7, <2>1, <2>2 DEF HoldOK, SameMeta
<1> QED
  BY <1>2, <1>4, <1>5, <1>7, <1>9, <1>10, <1>13, <1>14 DEF Books, R, s

LEMMA FunctionSeq ==
  ASSUME NEW R, NEW n \in Nat, NEW s \in [1..n -> R]
  PROVE  s \in Seq(R)
OBVIOUS

LEMMA InOwnRange ==
  ASSUME NEW D, NEW s \in Seq(D), NEW R, R = Range(s)
  PROVE  s \in Seq(R)
<1>1. Len(s) \in Nat /\ s \in [1..Len(s) -> D] /\ DOMAIN s = 1..Len(s)
  BY LenProperties
<1>2. \A i \in 1..Len(s) : s[i] \in R
  BY <1>1 DEF Range
<1>3. s \in [1..Len(s) -> R]
  BY <1>1, <1>2
<1>4. s \in Seq(R)
  BY <1>1, <1>3, FunctionSeq
<1>5. QED
  BY <1>4

\* delete.
LEMMA DeleteBooks ==
  ASSUME NEW S, NEW hold, Books(S, hold), NEW I
  PROVE  LET R == Delete(S, I)
             gone == {s \in Snaps(S) : s.id \in I}
         IN  /\ Books(R, hold) /\ Snaps(R) = Snaps(S) \ gone /\ R.open = S.open
             /\ SizeOf(Snaps(S)) = SizeOf(gone) + SizeOf(Snaps(R))
             /\ SizeOf(gone) \in Nat /\ SizeOf(Snaps(R)) \in Nat
<1> DEFINE R == Delete(S, I)
           gone == {s \in Snaps(S) : s.id \in I}
<1>1. StoreTyped(S) /\ Distinct(S) /\ StoreCounted(S) /\ HoldOK(S, hold) /\ Numbers(S)
  BY BooksNumbers DEF Books
<1>2. /\ DOMAIN R = DOMAIN S /\ R.snaps = Kept(S.snaps, Snaps(S) \ gone) /\ R.open = S.open
      /\ R.committed = S.committed - SizeOf(gone) /\ R.reserved = S.reserved
      /\ R.pinned = S.pinned - PinnedOf(gone) /\ R.openPinned = S.openPinned
  BY <1>1 DEF Delete, StoreTyped
<1>3. S.snaps \in Seq(Snaps(S)) /\ Range(S.snaps) = Snaps(S) /\ IsInjective(S.snaps)
  BY <1>1 DEF StoreTyped, Snaps, Range, Distinct, IsInjective
<1>4. gone \in SUBSET Snaps(S)
  OBVIOUS
<1> HIDE DEF R, gone
<1>5. R.snaps \in Seq(Snaps(S)) /\ Range(R.snaps) = Snaps(S) \ gone /\ IsInjective(R.snaps)
  <2>1. /\ Kept(S.snaps, Snaps(S) \ gone) \in Seq(Snaps(S))
        /\ Range(Kept(S.snaps, Snaps(S) \ gone)) = Range(S.snaps) \intersect (Snaps(S) \ gone)
        /\ IsInjective(Kept(S.snaps, Snaps(S) \ gone))
    BY <1>3, KeptFacts
  <2> QED
    BY <1>2, <1>3, <2>1
<1>6. Snaps(R) = Snaps(S) \ gone
  <2>1. Snaps(R) = Range(R.snaps)
    BY DEF Snaps, Range
  <2> QED
    BY <1>5, <2>1
<1>7. R.snaps \in Seq(Snaps(R))
  <2>1. Snaps(R) = Range(R.snaps)
    BY <1>5, <1>6
  <2> QED
    BY <1>5, <2>1, InOwnRange
<1>8. StoreTyped(R)
  BY <1>1, <1>2, <1>6, <1>7 DEF StoreTyped
<1>9. Distinct(R)
  <2>1. \A x, y \in Snaps(S) : x.id = y.id => x = y
    BY <1>1 DEF Distinct, Snaps
  <2>2. \A i \in DOMAIN R.snaps : R.snaps[i] \in Snaps(S)
    BY <1>5 DEF Range
  <2>3. \A i, j \in DOMAIN R.snaps : R.snaps[i].id = R.snaps[j].id => i = j
    BY <1>5, <2>1, <2>2 DEF IsInjective
  <2>4. Ids(R) \subseteq Ids(S)
    BY <1>6 DEF Ids
  <2> QED
    BY <1>1, <1>2, <2>3, <2>4 DEF Distinct
<1>10. /\ SizeOf(Snaps(S)) = SizeOf(gone) + SizeOf(Snaps(R)) /\ SizeOf(gone) \in Nat /\ SizeOf(Snaps(R)) \in Nat
       /\ PinnedOf(Snaps(S)) = PinnedOf(gone) + PinnedOf(Snaps(R)) /\ PinnedOf(gone) \in Nat /\ PinnedOf(Snaps(R)) \in Nat
  <2>1. Sized(Snaps(S))
    BY <1>1 DEF Numbers
  <2>2. /\ SizeOf(Snaps(S)) = SizeOf(gone) + SizeOf(Snaps(S) \ gone)
        /\ SizeOf(gone) \in Nat /\ SizeOf(Snaps(S) \ gone) \in Nat
        /\ PinnedOf(Snaps(S)) = PinnedOf(gone) + PinnedOf(Snaps(S) \ gone)
        /\ PinnedOf(gone) \in Nat /\ PinnedOf(Snaps(S) \ gone) \in Nat
    BY <1>4, <2>1, SizeParts
  <2> QED
    BY <1>6, <2>2
<1>11. StoreCounted(R)
  <2>1. R.committed = SizeOf(Snaps(R)) /\ R.pinned = PinnedOf(Snaps(R)) /\ R.pinned <= S.pinned
    BY <1>1, <1>2, <1>10 DEF StoreCounted, Numbers
  <2>2. PinnedMax \in Int
    BY CpuStoreAssumption
  <2>3. R.pinned + R.openPinned <= PinnedMax
    BY <1>1, <1>2, <1>10, <2>1, <2>2 DEF StoreCounted, Numbers
  <2> QED
    BY <1>1, <1>2, <2>1, <2>3 DEF StoreCounted
<1>12. HoldOK(R, hold)
  <2>1. hold.n \in Nat /\ S.committed \in Nat /\ S.reserved \in Nat /\ CpuMax \in Int
    BY <1>1, CpuStoreAssumption DEF HoldOK, Numbers
  <2>2. Ids(R) \subseteq Ids(S)
    BY <1>6 DEF Ids
  <2>3. hold.id \in Ids(S) /\ hold.id \notin Ids(R) => hold.n <= SizeOf(gone)
    <3> SUFFICES ASSUME hold.id \in Ids(S), hold.id \notin Ids(R) PROVE hold.n <= SizeOf(gone)
      OBVIOUS
    <3>1. PICK s \in Snaps(S) : s.id = hold.id
      BY DEF Ids
    <3>2. s \in gone /\ s.n = hold.n
      <4>1. s \notin Snaps(R)
        BY <3>1 DEF Ids
      <4> QED
        BY <1>1, <1>6, <3>1, <4>1 DEF HoldOK
    <3>3. Sized(gone) /\ {s} \in SUBSET gone
      <4>1. Sized(Snaps(S))
        BY <1>1 DEF Numbers
      <4> QED
        BY <1>4, <3>2, <4>1, FS_Subset DEF Sized
    <3>4. SizeOf(gone) = SizeOf({s}) + SizeOf(gone \ {s}) /\ SizeOf(gone \ {s}) \in Nat
      BY <3>3, SizeParts
    <3>5. SizeOf({s}) = s.n
      BY <3>2, <2>1, SizeOne
    <3> QED
      BY <2>1, <3>2, <3>4, <3>5
  <2>4. Owned(R, hold) <= Owned(S, hold) /\ Owned(R, hold) \in Int /\ Owned(S, hold) \in Int
    <3>1. CASE hold.id \in Ids(R)
      BY <1>2, <1>10, <2>1, <2>2, <3>1 DEF Owned
    <3>2. CASE hold.id \notin Ids(R) /\ hold.id \in Ids(S)
      BY <1>2, <1>10, <2>1, <2>3, <3>2 DEF Owned
    <3>3. CASE hold.id \notin Ids(S)
      BY <1>2, <1>10, <2>1, <2>2, <3>3 DEF Owned
    <3> QED
      BY <2>2, <3>1, <3>2, <3>3
  <2>5. Owned(R, hold) <= CpuMax
    BY <1>1, <2>1, <2>4 DEF HoldOK
  <2> QED
    BY <1>1, <1>2, <1>6, <2>5 DEF HoldOK
<1> QED
  BY <1>2, <1>6, <1>8, <1>9, <1>10, <1>11, <1>12 DEF Books, R, gone

\* A failed admission's buffer, taken and let go.
LEMMA HoldNone ==
  ASSUME NEW S, NEW hold, Books(S, hold)
  PROVE  Books(S, NoHold)
<1>1. StoreTyped(S) /\ Distinct(S) /\ StoreCounted(S) /\ HoldOK(S, hold) /\ Numbers(S)
  BY BooksNumbers DEF Books
<1>2. \A m \in Snaps(S) \union S.open : m.id # 0
  BY <1>1 DEF StoreTyped, IsMeta
<1>3. NoHold.id = 0 /\ NoHold.n = 0
  BY DEF NoHold
<1>4. Owned(S, NoHold) = S.committed + S.reserved
  BY <1>1, <1>3 DEF Owned, Numbers
<1>5. S.committed + S.reserved <= CpuMax
  <2>1. S.committed \in Nat /\ S.reserved \in Nat /\ hold.n \in Nat /\ CpuMax \in Int
    BY <1>1, CpuStoreAssumption DEF Numbers, HoldOK
  <2> QED
    BY <1>1, <2>1 DEF HoldOK, Owned
<1>6. HoldOK(S, NoHold)
  BY <1>2, <1>3, <1>4, <1>5 DEF HoldOK
<1> QED
  BY <1>1, <1>6 DEF Books

LEMMA HoldSnapshot ==
  ASSUME NEW S, NEW hold, Books(S, hold), NEW s \in Snaps(S)
  PROVE  Books(S, [id |-> s.id, n |-> s.n])
<1> DEFINE h == [id |-> s.id, n |-> s.n]
<1>1. StoreTyped(S) /\ Distinct(S) /\ StoreCounted(S) /\ HoldOK(S, NoHold) /\ Numbers(S)
  BY HoldNone, BooksNumbers DEF Books
<1>2. s.id \in Nat \ {0} /\ s.n \in Nat
  BY <1>1, MetaSize DEF StoreTyped, IsMeta
<1>3. h.id = s.id /\ h.n = s.n
  OBVIOUS
<1> HIDE DEF h
<1>4. \A x \in Snaps(S) : x.id = s.id => x = s
  BY <1>1 DEF Distinct, Snaps
<1>5. s.id \in Ids(S)
  BY DEF Ids
<1>6. h.id \notin {m.id : m \in S.open}
  BY <1>1, <1>3, <1>5 DEF Distinct
<1>7. Owned(S, h) = S.committed + S.reserved + 0 /\ NoHold.n = 0
  BY <1>3, <1>5 DEF Owned, NoHold
<1>8. Owned(S, h) <= CpuMax
  BY <1>1, <1>7 DEF HoldOK, Owned
<1>9. HoldOK(S, h)
  BY <1>2, <1>3, <1>4, <1>6, <1>8 DEF HoldOK
<1> QED
  BY <1>1, <1>9 DEF Books, h

\* invalidate_all.
LEMMA EmptyBooks ==
  ASSUME NEW S, DOMAIN S = {"snaps", "open", "committed", "reserved", "pinned", "openPinned"},
         S.snaps = << >>, S.open = {}, S.committed = 0, S.reserved = 0, S.pinned = 0, S.openPinned = 0
  PROVE  Books(S, NoHold) /\ Snaps(S) = {}
<1>1. Snaps(S) = {} /\ Ids(S) = {}
  BY DEF Snaps, Ids
<1>2. S.snaps \in Seq(Snaps(S))
  OBVIOUS
<1>3. StoreTyped(S)
  BY <1>1, <1>2, FS_EmptySet DEF StoreTyped
<1>4. Distinct(S)
  BY <1>1 DEF Distinct
<1>5. StoreCounted(S)
  BY <1>1, SizeNone, CpuStoreAssumption DEF StoreCounted
<1>6. HoldOK(S, NoHold)
  BY <1>1, CpuStoreAssumption DEF HoldOK, NoHold, Owned
<1> QED
  BY <1>1, <1>3, <1>4, <1>5, <1>6 DEF Books

LEMMA InvalidBooks ==
  ASSUME NEW S, NEW hold, Books(S, hold)
  PROVE  LET R == InvalidateStore(S)
         IN  Books(R, NoHold) /\ Snaps(R) = {} /\ R.open = {}
<1> DEFINE A == Abort(S, S.open)
           R == InvalidateStore(S)
<1>1. StoreTyped(S) /\ StoreCounted(S) /\ Numbers(S)
  BY BooksNumbers DEF Books
<1>2. SizeOf(S.open) \in Nat /\ PinnedOf(S.open) \in Nat
  BY <1>1, SizeParts DEF Numbers
<1>3. DOMAIN A = DOMAIN S /\ A.open = {} /\ A.reserved = 0 /\ A.openPinned = 0
  BY <1>1, <1>2 DEF Abort, StoreTyped, StoreCounted
<1>4. /\ DOMAIN R = DOMAIN S /\ R.snaps = << >> /\ R.open = {} /\ R.committed = 0 /\ R.reserved = 0
      /\ R.pinned = 0 /\ R.openPinned = 0
  <2> HIDE DEF A
  <2> QED
    BY <1>1, <1>3 DEF InvalidateStore, StoreTyped, A
<1> HIDE DEF R
<1>5. Books(R, NoHold) /\ Snaps(R) = {}
  BY <1>1, <1>4, EmptyBooks DEF StoreTyped
<1> QED
  BY <1>4, <1>5 DEF R

\* What SnapOfId finds.
LEMMA FoundById ==
  ASSUME NEW S, Distinct(S), NEW s \in Snaps(S)
  PROVE  SnapOfId(S, s.id) = s
<1>1. \A x \in Snaps(S) : x.id = s.id => x = s
  BY DEF Distinct, Snaps
<1> QED
  BY <1>1 DEF SnapOfId

(***************************************************************************)
(* The managers' state.                                                    *)
(***************************************************************************)
\* Everything but the pool and its pages is the same.
SameHost(Y, Z) ==
  /\ Y.q = Z.q /\ Y.store = Z.store /\ Y.snapOf = Z.snapOf /\ Y.group = Z.group /\ Y.pend = Z.pend
  /\ Y.use = Z.use /\ Y.unsettled = Z.unsettled
  /\ Y.blocks = Z.blocks /\ Y.man = Z.man /\ Y.lease = Z.lease

LEMMA HostedSame ==
  ASSUME NEW Y, NEW Z, SameHost(Y, Z), NEW hold, Hosted(Z, hold)
  PROVE  Hosted(Y, hold)
<1> USE DEF SameHost
<1>1. UsedBy(Y, Sessions) = UsedBy(Z, Sessions)
  BY DEF UsedBy
<1>2. CASE Tiered
  <2>1. Blocked(Z, hold)
    BY <1>2 DEF Hosted
  <2>2. NoSnapshots(Y)
    BY <2>1 DEF Blocked, NoSnapshots
  <2>3. Manifests(Y)
    BY <2>1 DEF Blocked, Manifests
  <2>4. LeaseHeld(Y)
    BY <2>1 DEF Blocked, LeaseHeld
  <2> QED
    BY <1>2, <2>1, <2>2, <2>3, <2>4 DEF Hosted, Blocked
<1>3. CASE ~Tiered
  <2>1. Snapped(Z, hold)
    BY <1>3 DEF Hosted
  <2>2. NoBlocks(Y) /\ Books(Y.store, hold)
    BY <2>1 DEF Snapped, NoBlocks
  <2>3. Linked(Y)
    BY <2>1 DEF Snapped, Linked
  <2>4. Settling(Y)
    BY <1>1, <2>1 DEF Snapped, Settling
  <2>5. Reserved(Y)
    BY <2>1 DEF Snapped, Reserved
  <2>6. GroupHeld(Y)
    BY <2>1 DEF Snapped, GroupHeld
  <2>7. SourceHeld(Y)
    BY <2>1 DEF Snapped, SourceHeld
  <2> QED
    BY <1>3, <2>2, <2>3, <2>4, <2>5, <2>6, <2>7 DEF Hosted, Snapped
<1> QED
  BY <1>2, <1>3

LEMMA PoolChanged ==
  ASSUME NEW Z, NEW hold, Good(Z, hold), NEW Y, Zone(Y), SameHost(Y, Z), Seats(Y.pool, Y.q)
  PROVE  Good(Y, hold)
BY HostedSame DEF Good, Seated

LEMMA ReclaimedGood ==
  ASSUME NEW Z, NEW hold, Good(Z, hold), NEW goal, NEW Y \in Reclaimed(Z, goal)
  PROVE  Good(Y, hold) /\ SameHost(Y, Z) /\ Y.kv = Z.kv /\ Y.pool \in Reclaims(Z.pool, goal)
<1>1. PICK P \in Reclaims(Z.pool, goal) : Y = [Z EXCEPT !.pool = P]
  BY DEF Reclaimed
<1>2. Zone(Y) /\ SameHost(Y, Z) /\ Y.kv = Z.kv /\ Y.pool = P
  BY <1>1 DEF Good, Zone, SameHost
<1>3. Seats(P, Z.q)
  BY <1>1, ReclaimSeats DEF Good, Seated
<1>4. Seats(Y.pool, Y.q)
  BY <1>2, <1>3 DEF SameHost
<1> QED
  BY <1>1, <1>2, <1>4, PoolChanged

\* The blocks of the restores that have not run yet.
UsesOK(U) == DOMAIN U = Sessions /\ \A r \in Sessions : U[r].n \in Nat

LEMMA UsedParts ==
  ASSUME NEW Z, UsesOK(Z.use), NEW S \in SUBSET Sessions
  PROVE  /\ UsedBy(Z, Sessions) = UsedBy(Z, S) + UsedBy(Z, Sessions \ S)
         /\ UsedBy(Z, S) \in Nat /\ UsedBy(Z, Sessions \ S) \in Nat /\ UsedBy(Z, Sessions) \in Nat
<1> DEFINE N(X) == [r \in X |-> Z.use[r].n]
<1>1. Summable(N(Sessions)) /\ Parts(N(Sessions), N(S), N(Sessions \ S))
  BY ResidencyAssumption DEF Summable, Parts, UsesOK
<1>2. UsedBy(Z, Sessions) = Total(N(Sessions)) /\ UsedBy(Z, S) = Total(N(S))
      /\ UsedBy(Z, Sessions \ S) = Total(N(Sessions \ S))
  BY DEF UsedBy
<1> HIDE DEF N
<1>3. Total(N(Sessions)) = Total(N(S)) + Total(N(Sessions \ S)) /\ Total(N(S)) \in Nat /\ Total(N(Sessions \ S)) \in Nat
  BY <1>1, TotalParts
<1> QED
  BY <1>2, <1>3

LEMMA UsedOne ==
  ASSUME NEW Z, NEW r \in Sessions, Z.use[r].n \in Nat
  PROVE  UsedBy(Z, {r}) = Z.use[r].n
<1> DEFINE f == [x \in {r} |-> Z.use[x].n]
<1>1. DOMAIN f = {r} /\ f[r] = Z.use[r].n
  OBVIOUS
<1>2. UsedBy(Z, {r}) = Total(f)
  BY DEF UsedBy
<1> HIDE DEF f
<1> QED
  BY <1>1, <1>2, TotalOne

LEMMA UsedSame ==
  ASSUME NEW Y, NEW Z, NEW S, \A r \in S : Y.use[r] = Z.use[r]
  PROVE  UsedBy(Y, S) = UsedBy(Z, S)
<1>1. [r \in S |-> Y.use[r].n] = [r \in S |-> Z.use[r].n]
  OBVIOUS
<1> QED
  BY <1>1 DEF UsedBy

LEMMA UsedNone ==
  ASSUME NEW Z, NEW S \in SUBSET Sessions, \A r \in S : Z.use[r].n = 0
  PROVE  UsedBy(Z, S) = 0
<1> DEFINE f == [r \in S |-> Z.use[r].n]
<1>1. Spread(f) = {}
  BY DEF Spread
<1>2. Total(f) = 0
  BY <1>1, FS_EmptySet DEF Total, Spread
<1> QED
  BY <1>2 DEF UsedBy

\* One session's use is replaced.
LEMMA UsedChange ==
  ASSUME NEW Y, NEW Z, UsesOK(Z.use), NEW r \in Sessions, NEW u, u.n \in Nat,
         Y.use = [Z.use EXCEPT ![r] = u]
  PROVE  UsesOK(Y.use) /\ UsedBy(Y, Sessions) = UsedBy(Z, Sessions) - Z.use[r].n + u.n
         /\ UsedBy(Z, Sessions) \in Nat
<1>1. UsesOK(Y.use) /\ Y.use[r] = u /\ \A x \in Sessions \ {r} : Y.use[x] = Z.use[x]
  BY DEF UsesOK
<1>2. {r} \in SUBSET Sessions
  OBVIOUS
<1>3. /\ UsedBy(Z, Sessions) = UsedBy(Z, {r}) + UsedBy(Z, Sessions \ {r})
      /\ UsedBy(Z, Sessions \ {r}) \in Nat /\ UsedBy(Z, Sessions) \in Nat
      /\ UsedBy(Y, Sessions) = UsedBy(Y, {r}) + UsedBy(Y, Sessions \ {r})
  BY <1>1, <1>2, UsedParts
<1>4. UsedBy(Y, Sessions \ {r}) = UsedBy(Z, Sessions \ {r})
  BY <1>1, UsedSame
<1>5. UsedBy(Z, {r}) = Z.use[r].n /\ UsedBy(Y, {r}) = u.n /\ Z.use[r].n \in Nat
  BY <1>1, UsedOne DEF UsesOK
<1> QED
  BY <1>1, <1>3, <1>4, <1>5

\* A new snapshot gets an id that nothing refers to.
LEMMA UsedIdsFinite ==
  ASSUME NEW Z, StoreTyped(Z.store)
  PROVE  IsFiniteSet(UsedIds(Z))
<1> DEFINE A == Snaps(Z.store)
           B == Z.store.open
<1>1. IsFiniteSet(A) /\ IsFiniteSet(B) /\ IsFiniteSet(Sessions)
  <2>1. A = Range(Z.store.snaps)
    BY DEF Snaps, Range
  <2> QED
    BY <2>1, RangeFinite, ResidencyAssumption DEF StoreTyped
<1>2. IsFiniteSet({m.id : m \in A})
  <2>1. [m \in A |-> m.id] \in Surjection(A, {m.id : m \in A})
    BY DEF Surjection
  <2> HIDE DEF A
  <2> QED
    BY <1>1, <2>1, FS_Surjection
<1>3. IsFiniteSet({m.id : m \in B})
  <2>1. [m \in B |-> m.id] \in Surjection(B, {m.id : m \in B})
    BY DEF Surjection
  <2> HIDE DEF B
  <2> QED
    BY <1>1, <2>1, FS_Surjection
<1>4. IsFiniteSet({Z.q[r].snap : r \in Sessions})
  <2>1. [r \in Sessions |-> Z.q[r].snap] \in Surjection(Sessions, {Z.q[r].snap : r \in Sessions})
    BY DEF Surjection
  <2> QED
    BY <1>1, <2>1, FS_Surjection
<1>5. IsFiniteSet({op.hold.id})
  BY FS_Singleton
<1> DEFINE U1 == {m.id : m \in A}
           U2 == {m.id : m \in B}
           U3 == {Z.q[r].snap : r \in Sessions}
           U4 == {op.hold.id}
<1>6. UsedIds(Z) = ((U1 \union U2) \union U3) \union U4
  BY DEF UsedIds, Ids
<1> HIDE DEF U1, U2, U3, U4
<1>7. IsFiniteSet(U1) /\ IsFiniteSet(U2) /\ IsFiniteSet(U3) /\ IsFiniteSet(U4)
  BY <1>2, <1>3, <1>4, <1>5 DEF U1, U2, U3, U4
<1>8. IsFiniteSet(U1 \union U2)
  BY <1>7, FS_Union
<1>9. IsFiniteSet((U1 \union U2) \union U3)
  BY <1>7, <1>8, FS_Union
<1> QED
  BY <1>6, <1>7, <1>9, FS_Union

LEMMA NextIdUnused ==
  ASSUME NEW Z, StoreTyped(Z.store)
  PROVE  NextId(Z) \in Nat \ {0} /\ Unused(Z.store, op.hold, NextId(Z))
<1> DEFINE U == UsedIds(Z)
           n == Cardinality(U)
           X == 1..n + 1 \ U
<1>1. IsFiniteSet(U) /\ n \in Nat
  BY UsedIdsFinite, FS_CardinalityType
<1>2. X # {}
  <2> HIDE DEF U, n
  <2> SUFFICES ASSUME X = {} PROVE FALSE
    OBVIOUS
  <2>1. 1..n + 1 \in SUBSET U
    OBVIOUS
  <2>2. Cardinality(1..n + 1) <= n
    BY <1>1, <2>1, FS_Subset DEF n
  <2>3. Cardinality(1..n + 1) = n + 1
    <3>1. 1 \in Int /\ n + 1 \in Int /\ (IF 1 > n + 1 THEN 0 ELSE (n + 1) - 1 + 1) = n + 1
      BY <1>1
    <3> QED
      BY <3>1, FS_Interval
  <2> QED
    BY <1>1, <2>2, <2>3
<1>3. X \in SUBSET Nat
  <2> HIDE DEF U, n
  <2> QED
    BY <1>1
<1>4. \E i \in X : \A j \in X : i <= j
  <2> HIDE DEF X
  <2> QED
    BY <1>2, <1>3, LeastNatural
<1>5. NextId(Z) \in X
  <2>1. NextId(Z) = CHOOSE x \in X : \A y \in X : x <= y
    BY DEF NextId, Min
  <2> HIDE DEF X
  <2> QED
    BY <1>4, <2>1
<1>6. NextId(Z) \in Nat \ {0} /\ NextId(Z) \notin U
  <2> HIDE DEF U, n
  <2> QED
    BY <1>1, <1>5
<1> QED
  BY <1>6 DEF UsedIds, Unused

(***************************************************************************)
(* Saving a snapshot.                                                      *)
(***************************************************************************)
SnapGood(Z, hold) == Zone(Z) /\ Seated(Z) /\ Snapped(Z, hold)
SameBlocks(Y, Z) == Y.blocks = Z.blocks /\ Y.man = Z.man /\ Y.lease = Z.lease

LEMMA GoodSnaps ==
  ASSUME ~Tiered, NEW Z, NEW hold
  PROVE  Good(Z, hold) <=> SnapGood(Z, hold)
BY DEF Good, SnapGood, Hosted

Idling(Y) == ~Y.pend.on /\ Y.pend.on \in BOOLEAN /\ DOMAIN Y.pend = {"on", "meta", "table", "pages"}

\* What CommitSave leaves, whoever the reservation m was for.
CommitFields(Y, Z, r, m, pages) ==
  /\ Y.store = Commit(Z.store, m, pages) /\ Y.group = Z.group \ {m} /\ Y.snapOf = [Z.snapOf EXCEPT ![r] = m.id]
  /\ Y.pool = Deallocate(Z.pool, Z.q[r].table) /\ Y.q = [Z.q EXCEPT ![r] = OffGpu(Z.q[r], m)]
  /\ Y.use = Z.use /\ Y.unsettled = Z.unsettled + m.n /\ SameBlocks(Y, Z) /\ Y.kv = Z.kv
Savable(Z, r, m) ==
  /\ m \in Z.store.open /\ m.rid = r /\ r \in Sessions /\ (Z.pend.on => m = Z.pend.meta)
  /\ Z.q[r].st = "parked" /\ Z.q[r].res # "cpu" /\ Z.q[r].tokens = m.tokens

LEMMA OffGpuRequest ==
  ASSUME NEW c, IsRequest(c), Placed(c), c.st = "parked", NEW m, m.id \in Nat
  PROVE  LET d == OffGpu(c, m)
         IN  /\ IsRequest(d) /\ Placed(d) /\ d.table = << >> /\ d.computed = 0 /\ d.published = 0
             /\ d.st = "parked" /\ d.res = "cpu" /\ d.snap = m.id /\ d.tokens = c.tokens /\ d.parent = c.parent
<1> DEFINE d == OffGpu(c, m)
<1>1. /\ DOMAIN d = DOMAIN c /\ d.table = << >> /\ d.computed = 0 /\ d.published = 0 /\ d.st = c.st
      /\ d.res = "cpu" /\ d.snap = m.id /\ d.tokens = c.tokens /\ d.parent = c.parent
  BY DEF OffGpu, IsRequest
<1> HIDE DEF d
<1>2. << >> \in Seq(Blocks) /\ Len(<< >>) = 0 /\ BlocksNeededFor(0) = 0
  BY BlocksFor
<1>3. IsRequest(d)
  BY <1>1, <1>2 DEF IsRequest
<1>4. Placed(d)
  <2>1. c.computed < Len(c.tokens) /\ c.computed \in Nat /\ Len(c.tokens) \in Nat
    BY LenProperties DEF IsRequest, Placed, TokenLists
  <2> QED
    BY <1>1, <1>2, <2>1 DEF Placed
<1> QED
  BY <1>1, <1>3, <1>4 DEF d

LEMMA CommitSaved ==
  ASSUME NEW Z, NEW hold, SnapGood(Z, hold), NEW r, NEW m, Savable(Z, r, m), NEW pages,
         NEW Y, Zone(Y), CommitFields(Y, Z, r, m, pages), Idling(Y)
  PROVE  SnapGood(Y, hold)
<1>1. /\ Seats(Z.pool, Z.q) /\ NoBlocks(Z) /\ Books(Z.store, hold) /\ Linked(Z) /\ Settling(Z) /\ Reserved(Z)
      /\ GroupHeld(Z) /\ SourceHeld(Z)
  BY DEF SnapGood, Snapped, Seated
<1>2. m \in Z.store.open /\ m.rid = r /\ r \in Sessions /\ Z.q[r].st = "parked" /\ Z.q[r].res # "cpu"
      /\ Z.q[r].tokens = m.tokens /\ IsMeta(m) /\ m.n \in Nat
  BY <1>1, MetaSize DEF Savable, Books, StoreTyped
<1> DEFINE s == WithPages(m, pages)
           d == OffGpu(Z.q[r], m)
<1>3. /\ Books(Y.store, hold) /\ Snaps(Y.store) = Snaps(Z.store) \union {s} /\ Y.store.open = Z.store.open \ {m}
      /\ SameMeta(s, m) /\ s.pages = pages /\ s \notin Snaps(Z.store)
  <2>1. LET R == Commit(Z.store, m, pages)
            x == WithPages(m, pages)
        IN  /\ Books(R, hold) /\ Snaps(R) = Snaps(Z.store) \union {x} /\ R.open = Z.store.open \ {m}
            /\ SameMeta(x, m) /\ x.pages = pages /\ x \notin Snaps(Z.store)
    BY <1>1, <1>2, CommitBooks
  <2> QED
    BY <2>1 DEF CommitFields
<1>4. /\ IsRequest(d) /\ Placed(d) /\ d.table = << >> /\ d.st = "parked" /\ d.res = "cpu" /\ d.snap = m.id
      /\ d.tokens = Z.q[r].tokens
  <2>1. IsRequest(Z.q[r]) /\ Placed(Z.q[r]) /\ m.id \in Nat
    BY <1>1, <1>2 DEF Seats, Requests, IsMeta
  <2> QED
    BY <1>2, <2>1, OffGpuRequest
<1> HIDE DEF s, d
<1>5. DOMAIN Z.q = Sessions /\ Y.q[r] = d /\ \A x \in Sessions : x # r => Y.q[x] = Z.q[x]
  BY <1>1, <1>2 DEF CommitFields, Seats, Requests, d
<1>6. Seats(Y.pool, Y.q)
  <2>1. LET O == Deallocate(Z.pool, Z.q[r].table)
        IN  Seats(O, [Z.q EXCEPT ![r] = d])
    BY <1>1, <1>2, <1>4, DeallocateSeats
  <2> QED
    BY <2>1 DEF CommitFields, d
<1>7. DOMAIN Z.snapOf = Sessions /\ Y.snapOf[r] = m.id /\ \A x \in Sessions : x # r => Y.snapOf[x] = Z.snapOf[x]
  BY <1>1, <1>2 DEF CommitFields, Linked
<1>8. Linked(Y)
  <2>1. Z.snapOf[r] = 0 /\ m.id # 0
    BY <1>1, <1>2 DEF Linked, IsMeta
  <2>2. \A x \in Snaps(Z.store) : x.rid \in Sessions /\ x.rid # r
    BY <1>1, <2>1 DEF Linked, Books, StoreTyped, IsMeta
  <2>3. s.rid = r /\ s.id = m.id /\ s.tokens = m.tokens
    BY <1>2, <1>3 DEF SameMeta
  <2>4. DOMAIN Y.snapOf = Sessions
    BY <1>7 DEF CommitFields
  <2>5. \A x \in Snaps(Y.store) : Y.snapOf[x.rid] = x.id /\ x.tokens = Y.q[x.rid].tokens
    <3> TAKE x \in Snaps(Y.store)
    <3>1. CASE x = s
      BY <1>2, <1>4, <1>5, <1>7, <2>3, <3>1
    <3>2. CASE x \in Snaps(Z.store)
      BY <1>1, <1>5, <1>7, <2>2, <3>2 DEF Linked
    <3> QED
      BY <1>3, <3>1, <3>2
  <2>6. \A x \in Sessions :
          /\ Y.q[x].res = "cpu" <=> Y.snapOf[x] # 0
          /\ Y.snapOf[x] # 0 => /\ \E o \in Snaps(Y.store) : o.rid = x /\ o.id = Y.snapOf[x]
                                /\ Y.q[x].snap = Y.snapOf[x]
    <3> TAKE x \in Sessions
    <3>1. CASE x = r
      BY <1>3, <1>4, <1>5, <1>7, <2>1, <2>3, <3>1
    <3>2. CASE x # r
      BY <1>1, <1>3, <1>5, <1>7, <3>2 DEF Linked
    <3> QED
      BY <3>1, <3>2
  <2> QED
    BY <2>4, <2>5, <2>6 DEF Linked
<1>9. Settling(Y)
  <2>1. SizeOf(Snaps(Y.store)) = SizeOf(Snaps(Z.store)) + m.n /\ SizeOf(Snaps(Z.store)) \in Nat
    <3>1. Sized(Snaps(Z.store)) /\ s.n = m.n
      BY <1>1, <1>3, BooksNumbers DEF Books, Numbers, SameMeta
    <3> QED
      BY <1>2, <1>3, <3>1, SizeAdded
  <2>2. UsedBy(Y, Sessions) = UsedBy(Z, Sessions) /\ UsedBy(Z, Sessions) \in Nat
    <3>1. \A x \in Sessions : Y.use[x] = Z.use[x]
      BY DEF CommitFields
    <3>2. UsedBy(Y, Sessions) = UsedBy(Z, Sessions)
      BY <3>1, UsedSame
    <3>3. UsesOK(Z.use) /\ Sessions \in SUBSET Sessions
      BY <1>1 DEF Settling, UsesOK
    <3>4. UsedBy(Z, Sessions) \in Nat
      BY <3>3, UsedParts
    <3> QED
      BY <3>2, <3>4
  <2>3. \A x \in Sessions : Y.q[x].st = Z.q[x].st
    BY <1>2, <1>4, <1>5
  <2> QED
    BY <1>1, <1>2, <2>1, <2>2, <2>3 DEF Settling, CommitFields
<1>10. Reserved(Y)
  <2>1. Z.store.open \ {m} = Z.group \ {m}
    BY <1>1 DEF Savable, Reserved
  <2> QED
    BY <1>3, <2>1 DEF Reserved, CommitFields, Idling
<1>11. GroupHeld(Y)
  <2>1. \A o \in Z.group : o.rid \in Sessions
    BY <1>1 DEF Reserved, Books, StoreTyped, IsMeta
  <2> SUFFICES ASSUME NEW o \in Z.group
               PROVE  LET c == Y.q[o.rid]
                      IN  /\ c.st = "parked" /\ c.tokens = o.tokens /\ (c.res # "cpu" => c.computed = o.computed)
    BY DEF GroupHeld, CommitFields
  <2>2. CASE o.rid = r
    BY <1>1, <1>4, <1>5, <2>2 DEF GroupHeld
  <2>3. CASE o.rid # r
    BY <1>1, <1>5, <2>1, <2>3 DEF GroupHeld
  <2> QED
    BY <2>2, <2>3
<1>12. SourceHeld(Y) /\ NoBlocks(Y)
  BY <1>1 DEF SourceHeld, Idling, NoBlocks, CommitFields, SameBlocks
<1> QED
  BY <1>3, <1>6, <1>8, <1>9, <1>10, <1>11, <1>12 DEF SnapGood, Snapped, Seated

\* What a step of the snapshot manager leaves alone.
SameSnaps(Y, Z) == Y.snapOf = Z.snapOf /\ Y.use = Z.use /\ Y.unsettled = Z.unsettled /\ SameBlocks(Y, Z)

LEMMA SettlingSame ==
  ASSUME NEW Z, Settling(Z), NEW Y, Y.use = Z.use, Y.unsettled = Z.unsettled,
         Snaps(Y.store) = Snaps(Z.store), \A x \in Sessions : Y.q[x].st = Z.q[x].st
  PROVE  Settling(Y)
<1>1. UsedBy(Y, Sessions) = UsedBy(Z, Sessions)
  <2>1. \A x \in Sessions : Y.use[x] = Z.use[x]
    OBVIOUS
  <2> QED
    BY <2>1, UsedSame
<1> QED
  BY <1>1 DEF Settling

\* abort: reservations are given up.
Aborts(Y, Z, X) ==
  /\ Y.store = Abort(Z.store, X) /\ Y.pool = Z.pool /\ Y.q = Z.q /\ Y.kv = Z.kv /\ SameSnaps(Y, Z)

LEMMA AbortedGood ==
  ASSUME NEW Z, NEW hold, SnapGood(Z, hold), NEW X \in SUBSET Z.store.open,
         NEW Y, Zone(Y), Aborts(Y, Z, X), Reserved(Y), SourceHeld(Y), Y.group \subseteq Z.group
  PROVE  SnapGood(Y, hold)
<1>1. /\ Seats(Z.pool, Z.q) /\ NoBlocks(Z) /\ Books(Z.store, hold) /\ Linked(Z) /\ Settling(Z) /\ GroupHeld(Z)
  BY DEF SnapGood, Snapped, Seated
<1>2. Books(Y.store, hold) /\ Snaps(Y.store) = Snaps(Z.store)
  <2>1. LET R == Abort(Z.store, X)
        IN  Books(R, hold) /\ Snaps(R) = Snaps(Z.store)
    BY <1>1, AbortBooks
  <2> QED
    BY <2>1 DEF Aborts
<1>3. Seats(Y.pool, Y.q) /\ NoBlocks(Y)
  BY <1>1 DEF Aborts, SameSnaps, SameBlocks, NoBlocks
<1>4. Linked(Y)
  BY <1>1, <1>2 DEF Linked, Aborts, SameSnaps
<1>5. Settling(Y)
  <2>1. Y.use = Z.use /\ Y.unsettled = Z.unsettled /\ \A x \in Sessions : Y.q[x].st = Z.q[x].st
    BY DEF Aborts, SameSnaps
  <2> QED
    BY <1>1, <1>2, <2>1, SettlingSame
<1>6. GroupHeld(Y)
  BY <1>1 DEF GroupHeld, Aborts
<1> QED
  BY <1>2, <1>3, <1>4, <1>5, <1>6 DEF SnapGood, Snapped, Seated

LEMMA GroupAborted ==
  ASSUME NEW Z, NEW hold, SnapGood(Z, hold), NEW X \in SUBSET Z.group,
         NEW Y, Zone(Y), Aborts(Y, Z, X), Y.group = Z.group \ X, Y.pend = Z.pend
  PROVE  SnapGood(Y, hold)
<1>1. Books(Z.store, hold) /\ Reserved(Z) /\ SourceHeld(Z)
  BY DEF SnapGood, Snapped
<1>2. X \in SUBSET Z.store.open /\ Y.store.open = Z.store.open \ X
  <2>1. X \in SUBSET Z.store.open
    BY <1>1 DEF Reserved
  <2>2. LET R == Abort(Z.store, X) IN R.open = Z.store.open \ X
    BY <1>1, <2>1, AbortBooks
  <2> QED
    BY <2>1, <2>2 DEF Aborts
<1>3. Reserved(Y)
  BY <1>1, <1>2 DEF Reserved
<1>4. SourceHeld(Y)
  BY <1>1 DEF SourceHeld, Aborts
<1> QED
  BY <1>2, <1>3, <1>4, AbortedGood

LEMMA SettleAborted ==
  ASSUME NEW Z, NEW hold, SnapGood(Z, hold), Z.pend.on,
         NEW Y, Zone(Y), Aborts(Y, Z, {Z.pend.meta}), Y.group = Z.group, Y.pend = NoPend
  PROVE  SnapGood(Y, hold)
<1>1. Books(Z.store, hold) /\ Reserved(Z)
  BY DEF SnapGood, Snapped
<1>2. {Z.pend.meta} \in SUBSET Z.store.open /\ Y.store.open = Z.store.open \ {Z.pend.meta}
  <2>1. {Z.pend.meta} \in SUBSET Z.store.open
    BY <1>1 DEF Reserved
  <2>2. LET R == Abort(Z.store, {Z.pend.meta}) IN R.open = Z.store.open \ {Z.pend.meta}
    BY <1>1, <2>1, AbortBooks
  <2> QED
    BY <2>1, <2>2 DEF Aborts
<1>3. Reserved(Y)
  BY <1>1, <1>2 DEF Reserved, NoPend
<1>4. SourceHeld(Y)
  BY DEF SourceHeld, NoPend
<1> QED
  BY <1>2, <1>3, <1>4, AbortedGood

\* The copy in flight has got on.
CopiedMore(Y, Z) ==
  /\ SameSnaps(Y, Z) /\ Y.pool = Z.pool /\ Y.q = Z.q /\ Y.kv = Z.kv /\ Y.store = Z.store /\ Y.group = Z.group
  /\ DOMAIN Y.pend = DOMAIN Z.pend
  /\ Y.pend.on = Z.pend.on /\ Y.pend.meta = Z.pend.meta /\ Y.pend.table = Z.pend.table
  /\ Y.pend.pages \in Seq(Range(Y.pend.pages)) /\ Len(Y.pend.pages) <= Y.pend.meta.n

LEMMA CopiedMoreGood ==
  ASSUME NEW Z, NEW hold, SnapGood(Z, hold), NEW Y, Zone(Y), CopiedMore(Y, Z)
  PROVE  SnapGood(Y, hold)
<1>1. /\ Seats(Z.pool, Z.q) /\ NoBlocks(Z) /\ Books(Z.store, hold) /\ Linked(Z) /\ Settling(Z) /\ GroupHeld(Z)
      /\ Reserved(Z) /\ SourceHeld(Z)
  BY DEF SnapGood, Snapped, Seated
<1>2. Y.snapOf = Z.snapOf /\ Y.use = Z.use /\ Y.unsettled = Z.unsettled /\ SameBlocks(Y, Z)
      /\ Y.pool = Z.pool /\ Y.q = Z.q /\ Y.store = Z.store /\ Y.group = Z.group
  BY DEF CopiedMore, SameSnaps
<1>3. Seats(Y.pool, Y.q) /\ NoBlocks(Y) /\ Books(Y.store, hold) /\ Linked(Y) /\ GroupHeld(Y)
  BY <1>1, <1>2 DEF SameBlocks, NoBlocks, Linked, GroupHeld
<1>4. Settling(Y)
  BY <1>1, <1>2, SettlingSame
<1>5. Reserved(Y)
  BY <1>1 DEF Reserved, CopiedMore
<1>6. SourceHeld(Y)
  BY <1>1 DEF SourceHeld, CopiedMore
<1> QED
  BY <1>3, <1>4, <1>5, <1>6 DEF SnapGood, Snapped, Seated

\* finish: the copy in flight is waited for, then committed or given up.
LEMMA SynchronizedGood ==
  ASSUME NEW Z, NEW hold, SnapGood(Z, hold), Z.pend.on
  PROVE  LET Y == Synchronized(Z)
         IN  SnapGood(Y, hold) /\ CopiedMore(Y, Z)
<1> DEFINE Y == Synchronized(Z)
           pg == [i \in 1..Z.pend.meta.n |->
                    IF i <= Len(Z.pend.pages) THEN Z.pend.pages[i] ELSE Z.kv[Z.pend.table[i]]]
<1>1. Z.pend.meta.n \in Nat /\ DOMAIN Z.pend = {"on", "meta", "table", "pages"}
  <2>1. Z.pend.meta \in Z.store.open
    BY DEF SnapGood, Snapped, Reserved
  <2> QED
    BY <2>1, MetaSize DEF SnapGood, Snapped, Books, StoreTyped, SourceHeld
<1>2. pg \in Seq(Range(pg)) /\ Len(pg) = Z.pend.meta.n
  <2>1. DOMAIN pg = 1..Z.pend.meta.n
    OBVIOUS
  <2>2. pg \in [1..Z.pend.meta.n -> Range(pg)]
    BY DEF Range
  <2> HIDE DEF pg
  <2>3. pg \in Seq(Range(pg))
    BY <1>1, <2>2, FunctionSeq
  <2> QED
    BY <1>1, <2>1, <2>3, LenProperties
<1>3. Zone(Y) /\ CopiedMore(Y, Z)
  <2>1. /\ DOMAIN Y = DOMAIN Z /\ Y.pend = [Z.pend EXCEPT !.pages = pg] /\ SameSnaps(Y, Z) /\ Y.pool = Z.pool
        /\ Y.q = Z.q /\ Y.kv = Z.kv /\ Y.store = Z.store /\ Y.group = Z.group
    BY DEF Synchronized, SnapGood, Zone, SameSnaps, SameBlocks
  <2> HIDE DEF Y, pg
  <2>2. /\ DOMAIN Y.pend = DOMAIN Z.pend /\ Y.pend.on = Z.pend.on /\ Y.pend.meta = Z.pend.meta
        /\ Y.pend.table = Z.pend.table /\ Y.pend.pages = pg
    BY <1>1, <2>1
  <2>3. Zone(Y)
    BY <2>1 DEF SnapGood, Zone
  <2>4. Y.pend.pages \in Seq(Range(Y.pend.pages))
    BY <1>2, <2>2
  <2>5. Len(Y.pend.pages) <= Y.pend.meta.n
    BY <1>1, <1>2, <2>2
  <2> QED
    BY <2>1, <2>2, <2>3, <2>4, <2>5 DEF CopiedMore
<1> HIDE DEF Y
<1>4. SnapGood(Y, hold)
  BY <1>3, CopiedMoreGood
<1> QED
  BY <1>3, <1>4 DEF Y

\* What is left of Z's sessions when its pending copy of session r has been settled.
Settles(Y, Z, r) ==
  /\ Idling(Y) /\ Y.group \subseteq Z.group /\ Y.use = Z.use /\ Y.kv = Z.kv /\ SameBlocks(Y, Z)
  /\ Y.pool.cache = Z.pool.cache
  /\ \A x \in Sessions : Y.q[x].st = Z.q[x].st /\ Y.q[x].tokens = Z.q[x].tokens
  /\ \A x \in Sessions : x # r => Y.q[x] = Z.q[x] /\ Y.snapOf[x] = Z.snapOf[x]
  /\ Y.q[r] = Z.q[r] \/ Y.q[r] = OffGpu(Z.q[r], Z.pend.meta)

LEMMA SettleGood ==
  ASSUME NEW Z, NEW hold, SnapGood(Z, hold), Z.pend.on, NEW cancel \in BOOLEAN
  PROVE  LET Y == Settle(Z, cancel)
         IN  SnapGood(Y, hold) /\ Settles(Y, Z, Z.pend.meta.rid)
<1> DEFINE Y == Settle(Z, cancel)
           m == Z.pend.meta
           r == m.rid
<1>1. /\ Zone(Z) /\ m \in Z.store.open /\ r \in Sessions /\ Z.q[r].st = "parked" /\ Z.q[r].res # "cpu"
      /\ Z.q[r].tokens = m.tokens /\ Seats(Z.pool, Z.q)
  <2>1. m \in Z.store.open
    BY DEF SnapGood, Snapped, Reserved
  <2> QED
    BY <2>1 DEF SnapGood, Snapped, Books, StoreTyped, SourceHeld, IsMeta, Seated
<1>2. CASE cancel \/ ~StillValid(Z)
  <2>1. Y = [Z EXCEPT !.store = Abort(@, {m}), !.pend = NoPend]
    BY <1>2 DEF Settle
  <2> HIDE DEF Y, m
  <2>2. /\ Zone(Y) /\ Aborts(Y, Z, {m}) /\ Y.group = Z.group /\ Y.pend = NoPend
    BY <1>1, <2>1 DEF Zone, Aborts, SameSnaps, SameBlocks
  <2>3. SnapGood(Y, hold)
    BY <2>2, SettleAborted DEF m
  <2>4. Settles(Y, Z, r)
    BY <2>2 DEF Settles, Aborts, SameSnaps, Idling, NoPend
  <2> QED
    BY <2>3, <2>4 DEF Y, m
<1>3. CASE ~(cancel \/ ~StillValid(Z))
  <2> DEFINE pages == PendingPages(Z.pend)
  <2>1. Y = [CommitSave(Z, r, m, pages) EXCEPT !.pend = NoPend]
    BY <1>3 DEF Settle
  <2> HIDE DEF Y, m, pages
  <2>2. Zone(Y) /\ CommitFields(Y, Z, r, m, pages) /\ Y.pend = NoPend
    BY <1>1, <2>1 DEF Zone, CommitSave, CommitFields, SameBlocks
  <2>3. Idling(Y)
    BY <2>2 DEF Idling, NoPend
  <2>4. Savable(Z, r, m)
    BY <1>1 DEF Savable, m
  <2>5. SnapGood(Y, hold)
    BY <2>2, <2>3, <2>4, CommitSaved
  <2>6. Settles(Y, Z, r)
    <3>1. Requests(Z.q) /\ DOMAIN Z.q = Sessions /\ DOMAIN Z.snapOf = Sessions
      BY <1>1 DEF Seats, Requests, SnapGood, Snapped, Linked
    <3>2. Y.q = [Z.q EXCEPT ![r] = OffGpu(Z.q[r], m)] /\ Y.snapOf = [Z.snapOf EXCEPT ![r] = m.id]
      BY <2>2 DEF CommitFields
    <3>3. Y.q[r] = OffGpu(Z.q[r], m) /\ \A x \in Sessions : x # r => Y.q[x] = Z.q[x] /\ Y.snapOf[x] = Z.snapOf[x]
      BY <1>1, <3>1, <3>2
    <3>4. OffGpu(Z.q[r], m).st = Z.q[r].st /\ OffGpu(Z.q[r], m).tokens = Z.q[r].tokens
      BY <1>1, <3>1 DEF OffGpu, Requests, IsRequest
    <3>5. Y.pool.cache = Z.pool.cache
      BY <2>2 DEF CommitFields, Deallocate, Decref
    <3> QED
      BY <2>2, <2>3, <3>3, <3>4, <3>5 DEF Settles, CommitFields, m
  <2> QED
    BY <2>5, <2>6 DEF Y, m
<1> QED
  BY <1>2, <1>3

\* poll(wait=True): afterwards no copy is in flight.
LEMMA WaitedGood ==
  ASSUME NEW Z, NEW hold, SnapGood(Z, hold), NEW cancel \in BOOLEAN
  PROVE  LET Y == Waited(Z, cancel)
         IN  /\ SnapGood(Y, hold) /\ Idling(Y)
             /\ Z.pend.on => Settles(Y, Z, Z.pend.meta.rid)
             /\ ~Z.pend.on => Y = Z
<1>1. CASE Z.pend.on
  <2> DEFINE S == Synchronized(Z)
             Y == Settle(S, cancel)
  <2>1. SnapGood(S, hold) /\ CopiedMore(S, Z)
    BY <1>1, SynchronizedGood
  <2> HIDE DEF S
  <2>2. S.pend.on /\ S.pend.meta = Z.pend.meta
    BY <1>1, <2>1 DEF CopiedMore
  <2>3. SnapGood(Y, hold) /\ Settles(Y, S, S.pend.meta.rid)
    BY <2>1, <2>2, SettleGood
  <2> HIDE DEF Y
  <2>4. Settles(Y, Z, Z.pend.meta.rid) /\ Idling(Y)
    BY <2>1, <2>2, <2>3 DEF Settles, CopiedMore, SameSnaps, SameBlocks
  <2> QED
    BY <1>1, <2>3, <2>4 DEF Waited, Y, S
<1>2. CASE ~Z.pend.on
  BY <1>2 DEF Waited, SnapGood, Snapped, SourceHeld, Idling
<1> QED
  BY <1>1, <1>2

LEMMA SeatsSameTables ==
  ASSUME NEW P, NEW Q, Seats(P, Q), NEW R, Requests(R), \A x \in Sessions : R[x].table = Q[x].table
  PROVE  Seats(P, R)
<1>1. Tables(R) = Tables(Q)
  BY DEF Tables
<1> QED
  BY <1>1 DEF Seats

\* The snapshots of the sessions S.
OfSessions(Z, S) == {s \in Snaps(Z.store) : s.rid \in S}

LEMMA SnapshotOf ==
  ASSUME NEW Z, NEW hold, Books(Z.store, hold), Linked(Z)
  PROVE  /\ \A s \in Snaps(Z.store) : s.rid \in Sessions /\ Z.q[s.rid].res = "cpu" /\ s.id = Z.snapOf[s.rid] /\ s.n \in Nat
         /\ \A s, o \in Snaps(Z.store) : s.id = o.id \/ s.rid = o.rid => s = o
         /\ \A S \in SUBSET Sessions : {s \in Snaps(Z.store) : \E r \in S : Z.snapOf[r] = s.id} = OfSessions(Z, S)
<1>1. \A s \in Snaps(Z.store) : s.rid \in Sessions /\ s.id # 0 /\ s.n \in Nat
  BY MetaSize DEF Books, StoreTyped, IsMeta
<1>2. \A s \in Snaps(Z.store) : Z.q[s.rid].res = "cpu" /\ s.id = Z.snapOf[s.rid]
  BY <1>1 DEF Linked
<1>3. \A s, o \in Snaps(Z.store) : s.id = o.id => s = o
  BY DEF Books, Distinct, Snaps
<1>4. \A s, o \in Snaps(Z.store) : s.rid = o.rid => s = o
  BY <1>2, <1>3
<1>5. ASSUME NEW S \in SUBSET Sessions
      PROVE  {s \in Snaps(Z.store) : \E r \in S : Z.snapOf[r] = s.id} = OfSessions(Z, S)
  <2>1. ASSUME NEW s \in Snaps(Z.store), NEW r \in S, Z.snapOf[r] = s.id
        PROVE  s.rid \in S
    <3>1. Z.snapOf[r] # 0
      BY <1>1, <2>1
    <3>2. PICK o \in Snaps(Z.store) : o.rid = r /\ o.id = Z.snapOf[r]
      BY <2>1, <3>1 DEF Linked
    <3>3. o = s
      BY <1>3, <2>1, <3>2
    <3> QED
      BY <2>1, <3>2, <3>3
  <2>2. ASSUME NEW s \in Snaps(Z.store), s.rid \in S
        PROVE  \E r \in S : Z.snapOf[r] = s.id
    BY <1>2, <2>2
  <2> QED
    BY <2>1, <2>2 DEF OfSessions
<1> QED
  BY <1>1, <1>2, <1>3, <1>4, <1>5

\* Snapshots of the sessions S are deleted, whose bytes and requests are taken along.
Forgets(Y, Z, S, u) ==
  /\ Snaps(Y.store) = Snaps(Z.store) \ OfSessions(Z, S) /\ Y.store.open = Z.store.open
  /\ Y.snapOf = [x \in Sessions |-> IF x \in S THEN 0 ELSE Z.snapOf[x]]
  /\ Y.unsettled = Z.unsettled - SizeOf(OfSessions(Z, S)) - u
  /\ Y.group = Z.group /\ Y.pend = Z.pend /\ SameBlocks(Y, Z)
  /\ DOMAIN Y.q = Sessions
  /\ \A x \in Sessions : x \notin S => Y.q[x] = Z.q[x]
  /\ \A x \in S : Y.q[x].res # "cpu"

LEMMA ForgottenLinked ==
  ASSUME NEW Z, NEW hold, Books(Z.store, hold), Linked(Z), NEW S \in SUBSET Sessions,
         NEW Y, NEW u, Forgets(Y, Z, S, u)
  PROVE  Linked(Y)
<1>1. /\ \A s \in Snaps(Z.store) : s.rid \in Sessions
      /\ \A s \in Snaps(Y.store) : s \in Snaps(Z.store) /\ s.rid \notin S
      /\ \A s \in Snaps(Z.store) : s.rid \notin S => s \in Snaps(Y.store)
  BY SnapshotOf DEF Forgets, OfSessions
<1>2. DOMAIN Y.snapOf = Sessions /\ \A x \in Sessions : Y.snapOf[x] = IF x \in S THEN 0 ELSE Z.snapOf[x]
  BY DEF Forgets
<1>3. \A s \in Snaps(Y.store) : Y.snapOf[s.rid] = s.id /\ s.tokens = Y.q[s.rid].tokens
  BY <1>1, <1>2 DEF Linked, Forgets
<1>4. \A x \in Sessions :
        /\ Y.q[x].res = "cpu" <=> Y.snapOf[x] # 0
        /\ Y.snapOf[x] # 0 => /\ \E s \in Snaps(Y.store) : s.rid = x /\ s.id = Y.snapOf[x]
                              /\ Y.q[x].snap = Y.snapOf[x]
  <2> TAKE x \in Sessions
  <2>1. CASE x \in S
    BY <1>2, <2>1 DEF Forgets
  <2>2. CASE x \notin S
    BY <1>1, <1>2, <2>2 DEF Linked, Forgets
  <2> QED
    BY <2>1, <2>2
<1> QED
  BY <1>2, <1>3, <1>4 DEF Linked

\* evict_oldest_snapshot, for the sessions S.
Evicts(Y, Z, S) ==
  /\ Forgets(Y, Z, S, 0) /\ Y.use = Z.use /\ Y.pool = Z.pool /\ Y.kv = Z.kv
  /\ \A x \in S : Z.q[x].res = "cpu"
  /\ \A x \in S : Y.q[x] = [Z.q[x] EXCEPT !.res = "none", !.snap = 0, !.computed = 0]

LEMMA EvictedGood ==
  ASSUME NEW Z, NEW hold, SnapGood(Z, hold), Z.group = {}, ~Z.pend.on, NEW S \in SUBSET Sessions,
         NEW Y, Zone(Y), Books(Y.store, hold), Evicts(Y, Z, S),
         SizeOf(Snaps(Z.store)) = SizeOf(OfSessions(Z, S)) + SizeOf(Snaps(Y.store)),
         SizeOf(OfSessions(Z, S)) \in Nat, SizeOf(Snaps(Y.store)) \in Nat
  PROVE  SnapGood(Y, hold)
<1>1. /\ Seats(Z.pool, Z.q) /\ NoBlocks(Z) /\ Books(Z.store, hold) /\ Linked(Z) /\ Settling(Z) /\ Reserved(Z)
      /\ SourceHeld(Z)
  BY DEF SnapGood, Snapped, Seated
<1>2. ASSUME NEW x \in Sessions
      PROVE  IsRequest(Y.q[x]) /\ Placed(Y.q[x]) /\ Y.q[x].table = Z.q[x].table /\ Y.q[x].st = Z.q[x].st
  <2>1. IsRequest(Z.q[x]) /\ Placed(Z.q[x])
    BY <1>1 DEF Seats, Requests
  <2>2. CASE x \in S
    <3>1. Y.q[x] = [Z.q[x] EXCEPT !.res = "none", !.snap = 0, !.computed = 0] /\ Z.q[x].res = "cpu"
      BY <2>2 DEF Evicts
    <3>2. Z.q[x].computed = 0
      BY <2>1, <3>1, EmptyTable
    <3> QED
      BY <2>1, <3>1, <3>2 DEF IsRequest, Placed
  <2>3. CASE x \notin S
    BY <2>1, <2>3 DEF Evicts, Forgets
  <2> QED
    BY <2>2, <2>3
<1>3. Seats(Y.pool, Y.q)
  <2>1. Requests(Y.q)
    BY <1>2 DEF Requests, Evicts, Forgets
  <2>2. Y.pool = Z.pool /\ \A x \in Sessions : Y.q[x].table = Z.q[x].table
    BY <1>2 DEF Evicts
  <2> QED
    BY <1>1, <2>1, <2>2, SeatsSameTables
<1>4. Linked(Y)
  BY <1>1, ForgottenLinked DEF Evicts
<1>5. Settling(Y)
  <2>1. UsedBy(Y, Sessions) = UsedBy(Z, Sessions)
    <3>1. \A x \in Sessions : Y.use[x] = Z.use[x]
      BY DEF Evicts
    <3> QED
      BY <3>1, UsedSame
  <2>2. UsedBy(Z, Sessions) \in Nat
    <3>1. UsesOK(Z.use) /\ Sessions \in SUBSET Sessions
      BY <1>1 DEF Settling, UsesOK
    <3> QED
      BY <3>1, UsedParts
  <2>3. Y.unsettled = Z.unsettled - SizeOf(OfSessions(Z, S)) - 0
    BY DEF Evicts, Forgets
  <2>4. Z.unsettled = SizeOf(Snaps(Z.store)) + UsedBy(Z, Sessions)
    BY <1>1 DEF Settling
  <2>5. Y.unsettled = SizeOf(Snaps(Y.store)) + UsedBy(Y, Sessions)
    BY <2>1, <2>2, <2>3, <2>4
  <2> QED
    BY <1>1, <1>2, <2>5 DEF Settling, Evicts
<1>6. Reserved(Y) /\ GroupHeld(Y) /\ SourceHeld(Y) /\ NoBlocks(Y)
  <2>1. Y.group = {} /\ Y.pend = Z.pend /\ Y.store.open = Z.store.open /\ SameBlocks(Y, Z)
    BY DEF Evicts, Forgets
  <2> QED
    BY <1>1, <2>1 DEF Reserved, GroupHeld, SourceHeld, NoBlocks, SameBlocks
<1> QED
  BY <1>3, <1>4, <1>5, <1>6 DEF SnapGood, Snapped, Seated

LEMMA EvictSnapshotsGood ==
  ASSUME NEW Z, NEW hold, SnapGood(Z, hold), Z.group = {}, ~Z.pend.on, NEW k \in 0..Len(Z.store.snaps)
  PROVE  LET Y == EvictSnapshots(Z, k)
             S == {Z.store.snaps[i].rid : i \in 1..k}
         IN  SnapGood(Y, hold) /\ Evicts(Y, Z, S) /\ S \in SUBSET Sessions
<1> DEFINE Y == EvictSnapshots(Z, k)
           gone == {Z.store.snaps[i] : i \in 1..k}
           S == {Z.store.snaps[i].rid : i \in 1..k}
           I == {s.id : s \in gone}
<1>1. Zone(Z) /\ Books(Z.store, hold) /\ Linked(Z) /\ Requests(Z.q)
  BY DEF SnapGood, Snapped, Seated, Seats
<1>2. gone \subseteq Snaps(Z.store)
  <2>1. Z.store.snaps \in Seq(Snaps(Z.store)) /\ Len(Z.store.snaps) \in Nat
    BY <1>1, LenProperties DEF Books, StoreTyped
  <2>2. DOMAIN Z.store.snaps = 1..Len(Z.store.snaps)
    BY <2>1, LenProperties
  <2>3. 1..k \subseteq DOMAIN Z.store.snaps
    BY <2>1, <2>2
  <2> QED
    BY <2>3 DEF Snaps
<1>3. S = {s.rid : s \in gone}
  OBVIOUS
<1>4. Y = [Z EXCEPT !.store = Delete(@, I), !.unsettled = @ - SizeOf(gone),
                    !.snapOf = [r \in Sessions |-> IF r \in S THEN 0 ELSE @[r]],
                    !.q = [r \in Sessions |->
                             IF r \in S THEN [Z.q[r] EXCEPT !.res = "none", !.snap = 0,
                                                            !.computed = IF Z.q[r].table = << >> THEN 0 ELSE @]
                             ELSE Z.q[r]]]
  BY <1>3 DEF EvictSnapshots
<1> HIDE DEF Y, gone, S
<1>5. \A s \in Snaps(Z.store) : s.rid \in Sessions /\ Z.q[s.rid].res = "cpu" /\ s.n \in Nat
  BY <1>1, SnapshotOf
<1>6. \A s, o \in Snaps(Z.store) : s.id = o.id \/ s.rid = o.rid => s = o
  BY <1>1, SnapshotOf
<1>7. gone = OfSessions(Z, S) /\ gone = {s \in Snaps(Z.store) : s.id \in I} /\ S \in SUBSET Sessions
      /\ \A x \in S : Z.q[x].res = "cpu"
  BY <1>2, <1>3, <1>5, <1>6 DEF OfSessions
<1>8. Zone(Y) /\ Y.store = Delete(Z.store, I) /\ Y.unsettled = Z.unsettled - SizeOf(gone)
      /\ Y.snapOf = [r \in Sessions |-> IF r \in S THEN 0 ELSE Z.snapOf[r]]
      /\ Y.q = [r \in Sessions |->
                  IF r \in S THEN [Z.q[r] EXCEPT !.res = "none", !.snap = 0,
                                                 !.computed = IF Z.q[r].table = << >> THEN 0 ELSE @]
                  ELSE Z.q[r]]
      /\ Y.group = Z.group /\ Y.pend = Z.pend /\ SameBlocks(Y, Z) /\ Y.use = Z.use /\ Y.pool = Z.pool /\ Y.kv = Z.kv
  BY <1>1, <1>4 DEF Zone, SameBlocks
<1>9. /\ Books(Y.store, hold) /\ Snaps(Y.store) = Snaps(Z.store) \ gone /\ Y.store.open = Z.store.open
      /\ SizeOf(Snaps(Z.store)) = SizeOf(gone) + SizeOf(Snaps(Y.store))
      /\ SizeOf(gone) \in Nat /\ SizeOf(Snaps(Y.store)) \in Nat
  <2>1. LET R == Delete(Z.store, I)
            g == {s \in Snaps(Z.store) : s.id \in I}
        IN  /\ Books(R, hold) /\ Snaps(R) = Snaps(Z.store) \ g /\ R.open = Z.store.open
            /\ SizeOf(Snaps(Z.store)) = SizeOf(g) + SizeOf(Snaps(R))
            /\ SizeOf(g) \in Nat /\ SizeOf(Snaps(R)) \in Nat
    BY <1>1, DeleteBooks
  <2> QED
    BY <1>7, <1>8, <2>1
<1>10. Evicts(Y, Z, S)
  <2>1. \A x \in S : Y.q[x] = [Z.q[x] EXCEPT !.res = "none", !.snap = 0, !.computed = 0] /\ Y.q[x].res # "cpu"
    <3> SUFFICES ASSUME NEW x \in S
                 PROVE  Y.q[x] = [Z.q[x] EXCEPT !.res = "none", !.snap = 0, !.computed = 0] /\ Y.q[x].res # "cpu"
      OBVIOUS
    <3>1. IsRequest(Z.q[x]) /\ Placed(Z.q[x]) /\ Z.q[x].res = "cpu" /\ x \in Sessions
      BY <1>1, <1>7 DEF Requests
    <3>2. Z.q[x].table = << >> /\ Z.q[x].computed = 0
      BY <3>1, EmptyTable
    <3>3. Y.q[x] = [Z.q[x] EXCEPT !.res = "none", !.snap = 0, !.computed = 0]
      BY <1>8, <3>1, <3>2
    <3> QED
      BY <3>1, <3>2, <3>3 DEF IsRequest
  <2>2. DOMAIN Y.q = Sessions /\ \A x \in Sessions : x \notin S => Y.q[x] = Z.q[x]
    BY <1>8
  <2>3. Y.unsettled = Z.unsettled - SizeOf(OfSessions(Z, S)) - 0
    <3>1. Z.unsettled \in Nat
      <4>1. UsesOK(Z.use) /\ Sessions \in SUBSET Sessions /\ Z.unsettled = SizeOf(Snaps(Z.store)) + UsedBy(Z, Sessions)
        BY DEF SnapGood, Snapped, Settling, UsesOK
      <4>2. UsedBy(Z, Sessions) \in Nat
        BY <4>1, UsedParts
      <4>3. SizeOf(Snaps(Z.store)) \in Nat
        BY <1>9
      <4> QED
        BY <4>1, <4>2, <4>3
    <3>2. Y.unsettled = Z.unsettled - SizeOf(gone) /\ SizeOf(gone) \in Nat
      BY <1>8, <1>9
    <3>3. Y.unsettled = Z.unsettled - SizeOf(gone) - 0
      BY <3>1, <3>2
    <3> QED
      BY <1>7, <3>3
  <2> QED
    BY <1>7, <1>8, <1>9, <2>1, <2>2, <2>3 DEF Evicts, Forgets
<1>11. SnapGood(Y, hold)
  BY <1>7, <1>8, <1>9, <1>10, EvictedGood
<1> QED
  BY <1>7, <1>10, <1>11 DEF Y, S

\* evict_oldest_snapshot until a group fits, or nothing is left to evict.
LEMMA MakeRoomGood ==
  ASSUME NEW Z, NEW hold, SnapGood(Z, hold), Z.group = {}, ~Z.pend.on, NEW n
  PROVE  LET Y == MakeRoom(Z, n)
         IN  SnapGood(Y, hold) /\ \E S \in SUBSET Sessions : Evicts(Y, Z, S)
<1> DEFINE L == Len(Z.store.snaps)
           fits == {k \in 0..L : Owned(EvictSnapshots(Z, k).store, op.hold) + n <= CpuMax}
<1>1. L \in Nat
  BY LenProperties DEF SnapGood, Snapped, Books, StoreTyped
<1>2. Evictions(Z, n) \in 0..L
  <2>1. Evictions(Z, n) = IF fits = {} THEN L ELSE Min(fits)
    BY DEF Evictions
  <2>2. ASSUME fits # {} PROVE Min(fits) \in fits
    <3>1. fits \in SUBSET Nat
      BY <1>1
    <3> HIDE DEF fits
    <3>2. \E i \in fits : \A j \in fits : i <= j
      BY <2>2, <3>1, LeastNatural
    <3> QED
      BY <3>2 DEF Min
  <2>3. L \in 0..L /\ fits \subseteq 0..L
    BY <1>1
  <2> HIDE DEF fits, L
  <2> QED
    BY <2>1, <2>2, <2>3
<1>3. PICK k \in 0..L : k = Evictions(Z, n)
  BY <1>2
<1>4. MakeRoom(Z, n) = EvictSnapshots(Z, k)
  BY <1>3 DEF MakeRoom
<1>5. LET Y == EvictSnapshots(Z, k)
          S == {Z.store.snaps[i].rid : i \in 1..k}
      IN  SnapGood(Y, hold) /\ Evicts(Y, Z, S) /\ S \in SUBSET Sessions
  BY <1>3, EvictSnapshotsGood
<1> QED
  BY <1>4, <1>5

\* One reservation of a group.
Reserves(Y, Z, r) ==
  LET p == WithPin(Z.store, Metadata(Z, r, NextId(Z)))
  IN  /\ SameSnaps(Y, Z) /\ Y.pool = Z.pool /\ Y.kv = Z.kv /\ Y.q = Z.q /\ Y.pend = Z.pend
      /\ Y.store.snaps = Z.store.snaps
      /\ Y.group = Z.group \union {p} /\ p \notin Z.group /\ p.rid = r /\ p.n = BlocksNeededFor(Z.q[r].computed)
      /\ p.tokens = Z.q[r].tokens /\ p.computed = Z.q[r].computed /\ p.w = weights /\ p.epoch = epoch
      /\ Owned(Y.store, op.hold) = Owned(Z.store, op.hold) + BlocksNeededFor(Z.q[r].computed)

LEMMA MetadataMeta ==
  ASSUME NEW Z, Requests(Z.q), NEW r \in Sessions, Z.q[r].st # "gone", NEW i \in Nat \ {0}
  PROVE  LET m == Metadata(Z, r, i)
         IN  /\ IsMeta(m) /\ m.id = i /\ m.rid = r /\ m.tokens = Z.q[r].tokens /\ m.computed = Z.q[r].computed
             /\ m.n = BlocksNeededFor(Z.q[r].computed) /\ m.w = weights /\ m.epoch = epoch
<1> DEFINE m == Metadata(Z, r, i)
<1>1. IsRequest(Z.q[r]) /\ Placed(Z.q[r])
  BY DEF Requests
<1>2. /\ DOMAIN m = {"id", "rid", "tokens", "computed", "n", "w", "epoch", "pin", "pages"}
      /\ m.id = i /\ m.rid = r /\ m.tokens = Z.q[r].tokens /\ m.computed = Z.q[r].computed /\ m.pin = FALSE
      /\ m.n = BlocksNeededFor(Z.q[r].computed) /\ m.w = weights /\ m.epoch = epoch
  BY DEF Metadata
<1> HIDE DEF m
<1>3. IsMeta(m)
  BY <1>1, <1>2 DEF IsMeta, IsRequest, Placed
<1> QED
  BY <1>2, <1>3 DEF m

LEMMA ReserveOneGood ==
  ASSUME NEW Z, SnapGood(Z, op.hold), ~Z.pend.on, NEW r \in Sessions, Z.q[r].st = "parked",
         Owned(Z.store, op.hold) + BlocksNeededFor(Z.q[r].computed) <= CpuMax
  PROVE  LET Y == ReserveOne(Z, r)
         IN  SnapGood(Y, op.hold) /\ Reserves(Y, Z, r)
<1> DEFINE Y == ReserveOne(Z, r)
           m == Metadata(Z, r, NextId(Z))
           p == WithPin(Z.store, m)
<1>1. /\ Zone(Z) /\ Seats(Z.pool, Z.q) /\ NoBlocks(Z) /\ Books(Z.store, op.hold) /\ Linked(Z) /\ Settling(Z)
      /\ GroupHeld(Z) /\ Reserved(Z) /\ SourceHeld(Z) /\ Requests(Z.q)
  BY DEF SnapGood, Snapped, Seated, Seats
<1>2. NextId(Z) \in Nat \ {0} /\ Unused(Z.store, op.hold, NextId(Z))
  BY <1>1, NextIdUnused DEF Books
<1>3. /\ IsMeta(m) /\ m.id = NextId(Z) /\ m.rid = r /\ m.tokens = Z.q[r].tokens /\ m.computed = Z.q[r].computed
      /\ m.n = BlocksNeededFor(Z.q[r].computed) /\ m.w = weights /\ m.epoch = epoch
  BY <1>1, <1>2, MetadataMeta
<1>4. Y = [Z EXCEPT !.store = Reserve(@, m), !.group = @ \union {p}]
  BY DEF ReserveOne
<1> HIDE DEF Y, m
<1>5. /\ IsMeta(p) /\ p.id = m.id /\ p.rid = m.rid /\ p.tokens = m.tokens /\ p.computed = m.computed
      /\ p.n = m.n /\ p.w = m.w /\ p.epoch = m.epoch
  <2>1. Numbers(Z.store) /\ Z.store.pinned + Z.store.openPinned <= PinnedMax
    BY <1>1, BooksNumbers DEF Books, StoreCounted
  <2> QED
    BY <1>3, <2>1, WithPinMeta
<1>6. /\ Books(Reserve(Z.store, m), op.hold) /\ Reserve(Z.store, m).snaps = Z.store.snaps
      /\ Reserve(Z.store, m).open = Z.store.open \union {p} /\ p \notin Z.store.open
      /\ Owned(Reserve(Z.store, m), op.hold) = Owned(Z.store, op.hold) + m.n
  <2>1. Unused(Z.store, op.hold, m.id) /\ Owned(Z.store, op.hold) + m.n <= CpuMax
    BY <1>2, <1>3
  <2>2. LET R == Reserve(Z.store, m)
        IN  /\ Books(R, op.hold) /\ R.snaps = Z.store.snaps /\ R.open = Z.store.open \union {WithPin(Z.store, m)}
            /\ WithPin(Z.store, m) \notin Z.store.open
            /\ Owned(R, op.hold) = Owned(Z.store, op.hold) + m.n
    BY <1>1, <1>3, <2>1, ReserveBooks
  <2> QED
    BY <2>2
<1> HIDE DEF p
<1>7. /\ Zone(Y) /\ SameSnaps(Y, Z) /\ Y.pool = Z.pool /\ Y.kv = Z.kv /\ Y.q = Z.q /\ Y.pend = Z.pend
      /\ Y.store = Reserve(Z.store, m) /\ Y.group = Z.group \union {p}
  BY <1>1, <1>4 DEF Zone, SameSnaps, SameBlocks
<1>8. Reserves(Y, Z, r)
  <2>1. p \notin Z.group
    BY <1>1, <1>6 DEF Reserved
  <2> QED
    BY <1>3, <1>5, <1>6, <1>7, <2>1 DEF Reserves, m, p
<1>9. Snaps(Y.store) = Snaps(Z.store)
  BY <1>6, <1>7 DEF Snaps
<1>10. Seats(Y.pool, Y.q) /\ NoBlocks(Y) /\ Books(Y.store, op.hold) /\ Linked(Y)
  BY <1>1, <1>6, <1>7, <1>9 DEF NoBlocks, SameSnaps, SameBlocks, Linked
<1>11. Settling(Y)
  <2>1. Y.use = Z.use /\ Y.unsettled = Z.unsettled /\ \A x \in Sessions : Y.q[x].st = Z.q[x].st
    BY <1>7 DEF SameSnaps
  <2> QED
    BY <1>1, <1>9, <2>1, SettlingSame
<1>12. Reserved(Y)
  BY <1>1, <1>6, <1>7 DEF Reserved
<1>13. GroupHeld(Y)
  BY <1>1, <1>3, <1>5, <1>7 DEF GroupHeld
<1>14. SourceHeld(Y)
  BY <1>1, <1>7 DEF SourceHeld
<1>15. SnapGood(Y, op.hold)
  BY <1>7, <1>10, <1>11, <1>12, <1>13, <1>14 DEF SnapGood, Snapped, Seated
<1> QED
  BY <1>8, <1>15 DEF Y

\* The blocks the sessions S need on the host.
WeightOf(Q, S) == Total([r \in S |-> BlocksNeededFor(Q[r].computed)])

LEMMA WeightParts ==
  ASSUME NEW Q, Requests(Q), IsFiniteSet(Sessions), NEW S \in SUBSET Sessions, NEW X \in SUBSET S
  PROVE  /\ WeightOf(Q, S) = WeightOf(Q, X) + WeightOf(Q, S \ X)
         /\ WeightOf(Q, S) \in Nat /\ WeightOf(Q, X) \in Nat /\ WeightOf(Q, S \ X) \in Nat
<1> DEFINE f == [r \in S |-> BlocksNeededFor(Q[r].computed)]
           g == [r \in X |-> BlocksNeededFor(Q[r].computed)]
           h == [r \in S \ X |-> BlocksNeededFor(Q[r].computed)]
<1>1. \A r \in S : f[r] \in Nat
  BY BlocksFor DEF Requests, IsRequest
<1>2. Summable(f)
  BY <1>1, FS_Subset DEF Summable
<1>3. Parts(f, g, h)
  BY DEF Parts
<1> HIDE DEF f, g, h
<1>4. Total(f) = Total(g) + Total(h) /\ Total(g) \in Nat /\ Total(h) \in Nat
  BY <1>2, <1>3, TotalParts
<1> QED
  BY <1>4 DEF WeightOf, f, g, h

LEMMA WeightAdded ==
  ASSUME NEW Q, Requests(Q), IsFiniteSet(Sessions), NEW S \in SUBSET Sessions, NEW r \in Sessions \ S
  PROVE  /\ WeightOf(Q, S \union {r}) = WeightOf(Q, S) + BlocksNeededFor(Q[r].computed)
         /\ WeightOf(Q, S) \in Nat /\ BlocksNeededFor(Q[r].computed) \in Nat
<1>1. S \union {r} \in SUBSET Sessions /\ S \in SUBSET (S \union {r}) /\ (S \union {r}) \ S = {r}
  OBVIOUS
<1>2. WeightOf(Q, S \union {r}) = WeightOf(Q, S) + WeightOf(Q, {r}) /\ WeightOf(Q, S) \in Nat
  <2> DEFINE T == S \union {r}
             R == T \ S
  <2>1. T \in SUBSET Sessions /\ S \in SUBSET T /\ R = {r}
    OBVIOUS
  <2>2. WeightOf(Q, T) = WeightOf(Q, S) + WeightOf(Q, T \ S) /\ WeightOf(Q, S) \in Nat
    <3> HIDE DEF T, R
    <3> QED
      BY <2>1, WeightParts
  <2> QED
    BY <2>1, <2>2
<1>3. BlocksNeededFor(Q[r].computed) \in Nat
  BY BlocksFor DEF Requests, IsRequest
<1>4. WeightOf(Q, {r}) = BlocksNeededFor(Q[r].computed)
  <2> DEFINE f == [x \in {r} |-> BlocksNeededFor(Q[x].computed)]
  <2>1. DOMAIN f = {r} /\ f[r] = BlocksNeededFor(Q[r].computed)
    OBVIOUS
  <2> HIDE DEF f
  <2>2. Total(f) = f[r]
    BY <1>3, <2>1, TotalOne
  <2> QED
    BY <2>1, <2>2 DEF WeightOf, f
<1> QED
  BY <1>2, <1>3, <1>4

\* Reservations for the sessions S.
ReservesAll(Y, Z, S) ==
  /\ SameSnaps(Y, Z) /\ Y.pool = Z.pool /\ Y.kv = Z.kv /\ Y.q = Z.q /\ Y.pend = Z.pend
  /\ Y.store.snaps = Z.store.snaps
  /\ Owned(Y.store, op.hold) = Owned(Z.store, op.hold) + WeightOf(Z.q, S)
  /\ \A r \in S : \E m \in Y.group : m.rid = r

LEMMA ReservesNone ==
  ASSUME NEW Z, SnapGood(Z, op.hold)
  PROVE  ReservesAll(Z, Z, {}) /\ Owned(Z.store, op.hold) \in Int
<1>1. Owned(Z.store, op.hold) \in Int
  <2>1. Numbers(Z.store) /\ op.hold.n \in Nat
    BY BooksNumbers DEF SnapGood, Snapped, Books, HoldOK
  <2> QED
    BY <2>1 DEF Numbers, Owned
<1>2. WeightOf(Z.q, {}) = 0
  <2>1. DOMAIN [r \in {} |-> BlocksNeededFor(Z.q[r].computed)] = {}
    OBVIOUS
  <2> QED
    BY <2>1, TotalNone DEF WeightOf
<1> QED
  BY <1>1, <1>2 DEF ReservesAll, SameSnaps, SameBlocks

LEMMA ReservesMore ==
  ASSUME NEW Z, SnapGood(Z, op.hold), ~Z.pend.on, NEW S \in SUBSET Sessions, NEW Y, SnapGood(Y, op.hold),
         ReservesAll(Y, Z, S), NEW r \in Sessions \ S, Z.q[r].st = "parked",
         Owned(Z.store, op.hold) + WeightOf(Z.q, S \union {r}) <= CpuMax
  PROVE  SnapGood(ReserveOne(Y, r), op.hold) /\ ReservesAll(ReserveOne(Y, r), Z, S \union {r})
<1>1. /\ Y.q = Z.q /\ Y.pend = Z.pend /\ Owned(Y.store, op.hold) = Owned(Z.store, op.hold) + WeightOf(Z.q, S)
  BY DEF ReservesAll
<1>2. Requests(Z.q) /\ IsFiniteSet(Sessions) /\ Owned(Z.store, op.hold) \in Int
  BY ReservesNone, SeatsFacts DEF SnapGood, Seated
<1>3. /\ WeightOf(Z.q, S \union {r}) = WeightOf(Z.q, S) + BlocksNeededFor(Z.q[r].computed)
      /\ WeightOf(Z.q, S) \in Nat /\ BlocksNeededFor(Z.q[r].computed) \in Nat
  BY <1>2, WeightAdded
<1>4. Owned(Y.store, op.hold) + BlocksNeededFor(Y.q[r].computed) <= CpuMax
  BY <1>1, <1>2, <1>3
<1>5. PICK W : W = ReserveOne(Y, r)
  OBVIOUS
<1>6. SnapGood(W, op.hold) /\ Reserves(W, Y, r)
  BY <1>1, <1>4, <1>5, ReserveOneGood
<1>7. Owned(W.store, op.hold) = Owned(Z.store, op.hold) + WeightOf(Z.q, S \union {r})
  BY <1>1, <1>2, <1>3, <1>6 DEF Reserves
<1>8. \A x \in S \union {r} : \E m \in W.group : m.rid = x
  BY <1>6 DEF ReservesAll, Reserves
<1>9. ReservesAll(W, Z, S \union {r})
  BY <1>6, <1>7, <1>8 DEF ReservesAll, Reserves, SameSnaps, SameBlocks
<1> QED
  BY <1>5, <1>6, <1>9

\* prepare_group, once there is room for the whole group.
LEMMA ReserveAllGood ==
  ASSUME NEW Z, SnapGood(Z, op.hold), ~Z.pend.on, NEW rs \in Seq(Sessions), IsInjective(rs),
         \A r \in Range(rs) : Z.q[r].st = "parked",
         Owned(Z.store, op.hold) + WeightOf(Z.q, Range(rs)) <= CpuMax
  PROVE  LET Y == ReserveAll(Z, rs)
         IN  SnapGood(Y, op.hold) /\ ReservesAll(Y, Z, Range(rs))
<1> DEFINE Steps(f, n) == f = [i \in 0..n |-> IF i = 0 THEN Z ELSE ReserveOne(f[i - 1], rs[i])]
           First(n) == {rs[j] : j \in 1..n}
           Value(Y, n) == SnapGood(Y, op.hold) /\ ReservesAll(Y, Z, First(n))
           X == {n \in Nat : n <= Len(rs) => \E f : Steps(f, n) /\ Value(f[n], n)}
<1>1. Len(rs) \in Nat /\ DOMAIN rs = 1..Len(rs) /\ \A i \in 1..Len(rs) : rs[i] \in Sessions
  BY LenProperties
<1>2. 0 \in X
  <2> DEFINE f == [i \in 0..0 |-> Z]
  <2>1. Steps(f, 0) /\ f[0] = Z
    OBVIOUS
  <2>2. First(0) = {}
    OBVIOUS
  <2>3. Value(Z, 0)
    <3> HIDE DEF First
    <3> QED
      BY <2>2, ReservesNone
  <2> HIDE DEF Value, Steps
  <2>4. \E g : Steps(g, 0) /\ Value(g[0], 0)
    BY <2>1, <2>3
  <2> QED
    BY <2>4
<1>3. ASSUME NEW n \in Nat, n \in X
      PROVE  n + 1 \in X
  <2> SUFFICES ASSUME n + 1 <= Len(rs)
               PROVE  \E f : Steps(f, n + 1) /\ Value(f[n + 1], n + 1)
    <3> HIDE DEF Steps, Value
    <3> QED
      OBVIOUS
  <2>1. PICK g : Steps(g, n) /\ Value(g[n], n)
    <3>1. n <= Len(rs)
      BY <1>1
    <3> HIDE DEF Steps, Value
    <3> QED
      BY <1>3, <3>1
  <2> DEFINE t == ReserveOne(g[n], rs[n + 1])
             f == [i \in 0..n + 1 |-> IF i <= n THEN g[i] ELSE t]
  <2>2. f[n] = g[n] /\ f[n + 1] = t /\ \A i \in 0..n : f[i] = g[i]
    OBVIOUS
  <2>3. \A i \in 0..n : g[i] = IF i = 0 THEN Z ELSE ReserveOne(g[i - 1], rs[i])
    BY <2>1
  <2>4. \A i \in 0..n + 1 : f[i] = IF i = 0 THEN Z ELSE ReserveOne(f[i - 1], rs[i])
    <3> TAKE i \in 0..n + 1
    <3>1. CASE i \in 0..n
      <4>1. i # 0 => i - 1 \in 0..n
        BY <3>1
      <4> HIDE DEF f
      <4> QED
        BY <2>2, <2>3, <3>1, <4>1
    <3>2. CASE i = n + 1
      <4>1. i # 0 /\ i - 1 = n
        BY <3>2
      <4> HIDE DEF f
      <4> QED
        BY <2>2, <3>2, <4>1
    <3> QED
      BY <3>1, <3>2
  <2>5. Steps(f, n + 1)
    <3>1. DOMAIN f = 0..n + 1 /\ f = [i \in 0..n + 1 |-> f[i]]
      OBVIOUS
    <3> HIDE DEF f
    <3> QED
      BY <2>4, <3>1
  <2>6. Value(t, n + 1)
    <3>1. /\ First(n) \in SUBSET Sessions /\ rs[n + 1] \in Sessions \ First(n)
          /\ First(n + 1) = First(n) \union {rs[n + 1]} /\ First(n + 1) \in SUBSET Range(rs)
          /\ Range(rs) \in SUBSET Sessions /\ rs[n + 1] \in Range(rs)
      <4>1. n + 1 \in DOMAIN rs /\ 1..n \subseteq DOMAIN rs /\ 1..n + 1 \subseteq DOMAIN rs /\ n + 1 \notin 1..n
        BY <1>1
      <4>2. rs[n + 1] \notin First(n)
        BY <4>1 DEF IsInjective
      <4>3. First(n + 1) = First(n) \union {rs[n + 1]}
        <5>1. 1..n + 1 = 1..n \union {n + 1}
          OBVIOUS
        <5> QED
          BY <5>1
      <4> QED
        BY <1>1, <4>1, <4>2, <4>3 DEF Range
    <3> HIDE DEF First
    <3>2. Requests(Z.q) /\ IsFiniteSet(Sessions) /\ Owned(Z.store, op.hold) \in Int
      BY ReservesNone, SeatsFacts DEF SnapGood, Seated
    <3>3. Owned(Z.store, op.hold) + WeightOf(Z.q, First(n + 1)) <= CpuMax
      <4>1. /\ WeightOf(Z.q, Range(rs)) = WeightOf(Z.q, First(n + 1)) + WeightOf(Z.q, Range(rs) \ First(n + 1))
            /\ WeightOf(Z.q, First(n + 1)) \in Nat /\ WeightOf(Z.q, Range(rs) \ First(n + 1)) \in Nat
        BY <3>1, <3>2, WeightParts
      <4> QED
        BY <3>2, <4>1, CpuStoreAssumption
    <3>4. Owned(Z.store, op.hold) + WeightOf(Z.q, First(n) \union {rs[n + 1]}) <= CpuMax
      BY <3>1, <3>3
    <3>5. SnapGood(g[n], op.hold) /\ ReservesAll(g[n], Z, First(n))
      BY <2>1
    <3>6. PICK G, r : G = g[n] /\ r = rs[n + 1]
      OBVIOUS
    <3>7. SnapGood(ReserveOne(G, r), op.hold) /\ ReservesAll(ReserveOne(G, r), Z, First(n) \union {r})
      <4>1. r \in Sessions \ First(n) /\ Z.q[r].st = "parked"
            /\ Owned(Z.store, op.hold) + WeightOf(Z.q, First(n) \union {r}) <= CpuMax
        BY <3>1, <3>4, <3>6
      <4>2. SnapGood(G, op.hold) /\ ReservesAll(G, Z, First(n)) /\ First(n) \in SUBSET Sessions
        BY <3>1, <3>5, <3>6
      <4> QED
        BY <4>1, <4>2, ReservesMore
    <3> QED
      BY <3>1, <3>6, <3>7
  <2>7. Value(f[n + 1], n + 1)
    <3> HIDE DEF f, t, Value
    <3> QED
      BY <2>2, <2>6
  <2> HIDE DEF f, t
  <2> QED
    BY <2>5, <2>7
<1>4. Len(rs) \in X
  <2> HIDE DEF X
  <2>1. Nat \subseteq X
    BY <1>2, <1>3, InductionOnNaturals
  <2> QED
    BY <1>1, <2>1
<1>5. PICK f : Steps(f, Len(rs)) /\ Value(f[Len(rs)], Len(rs))
  <2> HIDE DEF Steps, Value
  <2> QED
    BY <1>1, <1>4
<1>6. ASSUME NEW g, Steps(g, Len(rs))
      PROVE  g[Len(rs)] = f[Len(rs)]
  <2> DEFINE Y == {n \in Nat : n <= Len(rs) => g[n] = f[n]}
  <2>1. 0 \in Y
    BY <1>1, <1>5, <1>6
  <2>2. ASSUME NEW n \in Nat, n \in Y
        PROVE  n + 1 \in Y
    <3> SUFFICES ASSUME n + 1 <= Len(rs)
                 PROVE  g[n + 1] = f[n + 1]
      OBVIOUS
    <3>1. n + 1 \in 0..Len(rs) /\ n + 1 # 0 /\ n + 1 - 1 = n /\ n <= Len(rs)
      BY <1>1
    <3>2. g[n + 1] = ReserveOne(g[n], rs[n + 1]) /\ f[n + 1] = ReserveOne(f[n], rs[n + 1])
      BY <1>5, <1>6, <3>1
    <3> QED
      BY <2>2, <3>1, <3>2
  <2>3. Nat \subseteq Y
    <3> HIDE DEF Y
    <3> QED
      BY <2>1, <2>2, InductionOnNaturals
  <2> QED
    BY <1>1, <2>3
<1>7. ReserveAll(Z, rs) = (CHOOSE g : Steps(g, Len(rs)))[Len(rs)]
  BY DEF ReserveAll
<1>8. Steps(CHOOSE g : Steps(g, Len(rs)), Len(rs))
  <2> HIDE DEF Steps
  <2> QED
    BY <1>5
<1>9. ReserveAll(Z, rs) = f[Len(rs)]
  <2> DEFINE g == CHOOSE h : Steps(h, Len(rs))
  <2> HIDE DEF Steps, g
  <2> QED
    BY <1>6, <1>7, <1>8 DEF g
<1>10. First(Len(rs)) = Range(rs)
  BY <1>1 DEF Range
<1>11. Value(ReserveAll(Z, rs), Len(rs))
  <2> HIDE DEF Value
  <2> QED
    BY <1>5, <1>9
<1> QED
  <2> HIDE DEF First
  <2> QED
    BY <1>10, <1>11

\* Some sessions of Z may have lost their snapshots, and with them their place on the host.
LosesSome(Y, Z) ==
  /\ Y.pool = Z.pool /\ Y.kv = Z.kv /\ Y.use = Z.use /\ SameBlocks(Y, Z)
  /\ Snaps(Y.store) \subseteq Snaps(Z.store)
  /\ \A x \in Sessions : Y.q[x] = Z.q[x] \/ /\ Z.q[x].res = "cpu"
                                            /\ Y.q[x] = [Z.q[x] EXCEPT !.res = "none", !.snap = 0, !.computed = 0]

LEMMA EvictsLoses ==
  ASSUME NEW Z, NEW Y, NEW S \in SUBSET Sessions, Evicts(Y, Z, S)
  PROVE  LosesSome(Y, Z) /\ Y.group = Z.group /\ Y.pend = Z.pend
<1>1. \A x \in Sessions : x \in S \/ Y.q[x] = Z.q[x]
  BY DEF Evicts, Forgets
<1>2. Snaps(Y.store) \subseteq Snaps(Z.store) /\ SameBlocks(Y, Z) /\ Y.group = Z.group /\ Y.pend = Z.pend
  BY DEF Evicts, Forgets
<1> QED
  BY <1>1, <1>2 DEF Evicts, LosesSome

LEMMA LosesKeeps ==
  ASSUME NEW Z, Requests(Z.q), NEW Y, LosesSome(Y, Z), NEW x \in Sessions
  PROVE  /\ Y.q[x].st = Z.q[x].st /\ Y.q[x].tokens = Z.q[x].tokens /\ Y.q[x].table = Z.q[x].table
         /\ Y.q[x].computed = Z.q[x].computed
         /\ Y.q[x].published = Z.q[x].published /\ Y.q[x].parent = Z.q[x].parent
<1>1. IsRequest(Z.q[x]) /\ Placed(Z.q[x])
  BY DEF Requests
<1>2. Z.q[x].res = "cpu" => Z.q[x].computed = 0
  BY <1>1, EmptyTable
<1> QED
  BY <1>1, <1>2 DEF IsRequest, LosesSome

GroupReady(G, Z, rs) ==
  /\ LosesSome(G.z, Z) /\ Idling(G.z)
  /\ ~G.ok => G.z.group = {}
  /\ G.ok => \A r \in Range(rs) : \E m \in G.z.group : m.rid = r

LEMMA PrepareGroupGood ==
  ASSUME NEW Z, SnapGood(Z, op.hold), Z.group = {}, ~Z.pend.on, NEW rs \in Seq(Sessions), IsInjective(rs),
         \A r \in Range(rs) : Z.q[r].st = "parked"
  PROVE  LET G == PrepareGroup(Z, rs)
         IN  SnapGood(G.z, op.hold) /\ GroupReady(G, Z, rs)
<1> DEFINE n == GroupSize(Z, rs)
           R == IF n <= CpuMax THEN MakeRoom(Z, n) ELSE Z
           ok == n <= CpuMax /\ Owned(R.store, op.hold) + n <= CpuMax
           G == PrepareGroup(Z, rs)
<1>1. n = WeightOf(Z.q, Range(rs))
  BY DEF GroupSize, WeightOf
<1>2. SnapGood(R, op.hold) /\ LosesSome(R, Z) /\ R.group = {} /\ R.pend = Z.pend
  <2>1. CASE n <= CpuMax
    <3>1. R = MakeRoom(Z, n)
      BY <2>1
    <3>2. LET Y == MakeRoom(Z, n)
          IN  SnapGood(Y, op.hold) /\ \E S \in SUBSET Sessions : Evicts(Y, Z, S)
      BY MakeRoomGood
    <3> HIDE DEF R, n
    <3>3. SnapGood(R, op.hold) /\ \E S \in SUBSET Sessions : Evicts(R, Z, S)
      BY <3>1, <3>2
    <3> QED
      BY <3>3, EvictsLoses
  <2>2. CASE ~(n <= CpuMax)
    <3>1. R = Z
      BY <2>2
    <3> HIDE DEF R
    <3> QED
      BY <3>1 DEF LosesSome, SameBlocks
  <2> QED
    BY <2>1, <2>2
<1>3. G.ok = ok /\ G.z = IF ok THEN ReserveAll(R, rs) ELSE R
  BY DEF PrepareGroup
<1>4. WeightOf(R.q, Range(rs)) = WeightOf(Z.q, Range(rs))
  <2>1. Requests(Z.q) /\ Range(rs) \subseteq Sessions
    BY RangeFinite DEF SnapGood, Seated, Seats
  <2> HIDE DEF R
  <2>2. \A r \in Range(rs) : R.q[r].computed = Z.q[r].computed
    BY <1>2, <2>1, LosesKeeps
  <2> QED
    BY <2>2 DEF WeightOf
<1> HIDE DEF G, R, n
<1>5. Requests(Z.q) /\ Range(rs) \subseteq Sessions
  BY RangeFinite DEF SnapGood, Seated, Seats
<1>6. R.pend.on = FALSE /\ Idling(R)
  BY <1>2 DEF SnapGood, Snapped, SourceHeld, Idling
<1>7. CASE ok
  <2>1. Owned(R.store, op.hold) + WeightOf(R.q, Range(rs)) <= CpuMax
    BY <1>1, <1>4, <1>7
  <2>2. \A r \in Range(rs) : R.q[r].st = "parked"
    BY <1>2, <1>5, LosesKeeps
  <2>3. LET Y == ReserveAll(R, rs)
        IN  SnapGood(Y, op.hold) /\ ReservesAll(Y, R, Range(rs))
    BY <1>2, <1>6, <2>1, <2>2, ReserveAllGood
  <2>4. G.z = ReserveAll(R, rs)
    BY <1>3, <1>7
  <2>5. SnapGood(G.z, op.hold) /\ ReservesAll(G.z, R, Range(rs))
    BY <2>3, <2>4
  <2>6. LosesSome(G.z, Z)
    <3>1. Snaps(G.z.store) = Snaps(R.store)
      BY <2>5 DEF ReservesAll, Snaps
    <3>2. /\ G.z.pool = R.pool /\ G.z.kv = R.kv /\ G.z.use = R.use /\ SameBlocks(G.z, R) /\ G.z.q = R.q
      BY <2>5 DEF ReservesAll, SameSnaps
    <3> QED
      BY <1>2, <3>1, <3>2 DEF LosesSome, SameBlocks
  <2>7. Idling(G.z)
    BY <1>6, <2>5 DEF ReservesAll, Idling
  <2>8. \A r \in Range(rs) : \E m \in G.z.group : m.rid = r
    BY <2>5 DEF ReservesAll
  <2> QED
    BY <1>3, <1>7, <2>5, <2>6, <2>7, <2>8 DEF GroupReady, G
<1>8. CASE ~ok
  <2>1. G.z = R /\ G.ok = FALSE
    BY <1>3, <1>8
  <2> QED
    BY <1>2, <1>6, <2>1 DEF GroupReady, G
<1> QED
  BY <1>7, <1>8

\* A member of the group is saved, or its transfer raises: the others keep their reservations.
Saves(Y, Z, r) ==
  /\ Idling(Y) /\ Y.use = Z.use /\ Y.kv = Z.kv /\ SameBlocks(Y, Z) /\ Y.pool.cache = Z.pool.cache
  /\ \A x \in Sessions : Y.q[x].st = Z.q[x].st /\ Y.q[x].tokens = Z.q[x].tokens
  /\ \A x \in Sessions : x # r => Y.q[x] = Z.q[x]
  /\ \E m : Y.q[r] = Z.q[r] \/ Y.q[r] = OffGpu(Z.q[r], m)
  /\ \A x \in Sessions : x # r /\ (\E m \in Z.group : m.rid = x) => \E m \in Y.group : m.rid = x

LEMMA ReservationFound ==
  ASSUME NEW Z, NEW r, \E m \in Z.group : m.rid = r
  PROVE  ReservationOf(Z, r) \in Z.group /\ ReservationOf(Z, r).rid = r
BY DEF ReservationOf

LEMMA SaveGood ==
  ASSUME NEW Z, NEW hold, SnapGood(Z, hold), Idling(Z), NEW r \in Sessions, \E m \in Z.group : m.rid = r
  PROVE  LET Y == Save(Z, r)
         IN  SnapGood(Y, hold) /\ Saves(Y, Z, r)
<1>1. CASE Z.q[r].res = "cpu" /\ Z.q[r].snap # 0
  <2>1. Save(Z, r) = Z
    BY <1>1 DEF Save
  <2>2. Saves(Z, Z, r)
    BY DEF Saves, SameBlocks
  <2> QED
    BY <2>1, <2>2
<1>2. CASE ~(Z.q[r].res = "cpu" /\ Z.q[r].snap # 0)
  <2> DEFINE m == ReservationOf(Z, r)
             pages == Export(Z, r, m)
             Y == CommitSave(Z, r, m, pages)
  <2>1. m \in Z.group /\ m.rid = r
    BY ReservationFound
  <2>2. Save(Z, r) = Y
    BY <1>2 DEF Save
  <2>3. /\ Zone(Z) /\ GroupHeld(Z) /\ Linked(Z) /\ Reserved(Z) /\ Requests(Z.q)
    BY DEF SnapGood, Snapped, Seated, Seats
  <2> HIDE DEF m, pages
  <2>4. Z.q[r].res # "cpu" /\ Z.q[r].st = "parked" /\ Z.q[r].tokens = m.tokens
    BY <1>2, <2>1, <2>3 DEF Linked, GroupHeld
  <2>5. Savable(Z, r, m)
    BY <2>1, <2>3, <2>4 DEF Savable, Reserved, Idling
  <2>6. Zone(Y) /\ CommitFields(Y, Z, r, m, pages) /\ Y.pend = Z.pend
    BY <2>3 DEF Zone, CommitSave, CommitFields, SameBlocks
  <2> HIDE DEF Y
  <2>7. Idling(Y)
    BY <2>6 DEF Idling
  <2>8. SnapGood(Y, hold)
    BY <2>5, <2>6, <2>7, CommitSaved
  <2>9. Saves(Y, Z, r)
    <3>1. Y.q = [Z.q EXCEPT ![r] = OffGpu(Z.q[r], m)] /\ Y.group = Z.group \ {m}
      BY <2>6 DEF CommitFields
    <3>2. DOMAIN Z.q = Sessions /\ IsRequest(Z.q[r])
      BY <2>3 DEF Requests
    <3>3. Y.q[r] = OffGpu(Z.q[r], m) /\ \A x \in Sessions : x # r => Y.q[x] = Z.q[x]
      BY <3>1, <3>2
    <3>4. OffGpu(Z.q[r], m).st = Z.q[r].st /\ OffGpu(Z.q[r], m).tokens = Z.q[r].tokens
      BY <3>2 DEF OffGpu, IsRequest
    <3>5. Y.pool.cache = Z.pool.cache
      BY <2>6 DEF CommitFields, Deallocate, Decref
    <3>6. \A x \in Sessions : x # r /\ (\E o \in Z.group : o.rid = x) => \E o \in Y.group : o.rid = x
      BY <2>1, <3>1
    <3> QED
      BY <2>6, <2>7, <3>3, <3>4, <3>5, <3>6 DEF Saves, CommitFields
  <2> QED
    BY <2>2, <2>8, <2>9
<1> QED
  BY <1>1, <1>2

LEMMA SaveFailedGood ==
  ASSUME NEW Z, NEW hold, SnapGood(Z, hold), Idling(Z), NEW m \in Z.group
  PROVE  LET Y == SaveFailed(Z, m)
         IN  SnapGood(Y, hold) /\ Saves(Y, Z, m.rid) /\ Y.q = Z.q /\ Y.pool = Z.pool /\ Y.group = Z.group \ {m}
<1> DEFINE Y == SaveFailed(Z, m)
<1>1. Zone(Z)
  BY DEF SnapGood
<1>2. Zone(Y) /\ Aborts(Y, Z, {m}) /\ Y.group = Z.group \ {m} /\ Y.pend = Z.pend
  BY <1>1 DEF SaveFailed, Zone, Aborts, SameSnaps, SameBlocks
<1> HIDE DEF Y
<1>3. SnapGood(Y, hold)
  <2>1. {m} \in SUBSET Z.group
    OBVIOUS
  <2> QED
    BY <1>2, <2>1, GroupAborted
<1>4. Saves(Y, Z, m.rid)
  BY <1>2 DEF Saves, Aborts, SameSnaps, Idling
<1> QED
  BY <1>2, <1>3, <1>4 DEF Y, Aborts

\* close_group: what was not saved is given back.
LEMMA CloseGroupGood ==
  ASSUME NEW Z, NEW hold, SnapGood(Z, hold)
  PROVE  LET Y == CloseGroup(Z)
         IN  /\ SnapGood(Y, hold) /\ Y.group = {} /\ Y.q = Z.q /\ Y.pool = Z.pool /\ Y.kv = Z.kv /\ Y.pend = Z.pend
             /\ Snaps(Y.store) = Snaps(Z.store) /\ SameSnaps(Y, Z)
<1> DEFINE Y == CloseGroup(Z)
<1>1. Zone(Z) /\ Books(Z.store, hold) /\ Reserved(Z)
  BY DEF SnapGood, Snapped
<1>2. Zone(Y) /\ Aborts(Y, Z, Z.group) /\ Y.group = Z.group \ Z.group /\ Y.group = {} /\ Y.pend = Z.pend
  BY <1>1 DEF CloseGroup, Zone, Aborts, SameSnaps, SameBlocks
<1> HIDE DEF Y
<1>3. SnapGood(Y, hold)
  <2>1. Z.group \in SUBSET Z.group
    OBVIOUS
  <2> QED
    BY <1>2, <2>1, GroupAborted
<1>4. Snaps(Y.store) = Snaps(Z.store)
  <2>1. Z.group \in SUBSET Z.store.open
    BY <1>1 DEF Reserved
  <2>2. LET R == Abort(Z.store, Z.group) IN Snaps(R) = Snaps(Z.store)
    BY <1>1, <2>1, AbortBooks
  <2> QED
    BY <1>2, <2>2 DEF Aborts
<1> QED
  BY <1>2, <1>3, <1>4 DEF Y, Aborts

\* An early save goes on beside the owner: its reservation becomes the copy's.
LEMMA EarlyCopyGood ==
  ASSUME NEW Z, NEW hold, SnapGood(Z, hold), NEW m, Z.group = {m}, Z.q[m.rid].res # "cpu",
         NEW Y, Zone(Y), SameSnaps(Y, Z), Y.pool = Z.pool, Y.kv = Z.kv, Y.q = Z.q, Y.store = Z.store,
         Y.group = {}, Y.pend = [on |-> TRUE, meta |-> m, table |-> Z.q[m.rid].table, pages |-> << >>]
  PROVE  SnapGood(Y, hold)
<1>1. /\ Seats(Z.pool, Z.q) /\ NoBlocks(Z) /\ Books(Z.store, hold) /\ Linked(Z) /\ Settling(Z) /\ GroupHeld(Z)
      /\ Reserved(Z) /\ SourceHeld(Z)
  BY DEF SnapGood, Snapped, Seated
<1>2. Seats(Y.pool, Y.q) /\ NoBlocks(Y) /\ Books(Y.store, hold) /\ Linked(Y)
  BY <1>1 DEF NoBlocks, SameSnaps, SameBlocks, Linked
<1>3. Settling(Y)
  <2>1. Y.use = Z.use /\ Y.unsettled = Z.unsettled
    BY DEF SameSnaps
  <2> QED
    BY <1>1, <2>1, SettlingSame
<1>4. ~Z.pend.on /\ Z.store.open = {m}
  BY <1>1 DEF Reserved
<1>5. Reserved(Y) /\ GroupHeld(Y)
  BY <1>4 DEF Reserved, GroupHeld
<1>6. SourceHeld(Y)
  <2>1. m.n \in Nat
    BY <1>1, <1>4, MetaSize DEF Books, StoreTyped
  <2>2. Y.pend.pages \in Seq(Range(Y.pend.pages)) /\ Len(Y.pend.pages) <= m.n
    BY <2>1
  <2>3. /\ Z.q[m.rid].st = "parked" /\ Z.q[m.rid].tokens = m.tokens /\ Z.q[m.rid].computed = m.computed
    BY <1>1 DEF GroupHeld
  <2> QED
    BY <2>2, <2>3 DEF SourceHeld
<1> QED
  BY <1>2, <1>3, <1>5, <1>6 DEF SnapGood, Snapped, Seated

\* A session is rewritten that has neither a snapshot coming nor one going.
Rewrites(Y, Z, r) ==
  /\ r \in Sessions /\ DOMAIN Y.q = Sessions /\ DOMAIN Y.use = Sessions
  /\ \A x \in Sessions : x # r => Y.q[x] = Z.q[x] /\ Y.use[x] = Z.use[x]
  /\ Y.use[r].n \in Nat /\ (Y.use[r].n # 0 => Y.q[r].st = "active")
  /\ Y.unsettled = Z.unsettled - Z.use[r].n + Y.use[r].n
  /\ Y.q[r].res = "cpu" <=> Z.q[r].res = "cpu"
  /\ Z.q[r].res = "cpu" => Y.q[r].tokens = Z.q[r].tokens /\ Y.q[r].snap = Z.q[r].snap
  /\ Y.snapOf = Z.snapOf /\ Y.store = Z.store /\ Y.group = Z.group /\ Y.pend = Z.pend /\ SameBlocks(Y, Z)

LEMMA UsedOneMore ==
  ASSUME NEW Z, UsesOK(Z.use), NEW Y, UsesOK(Y.use), NEW S \in SUBSET Sessions,
         \A x \in Sessions : x \notin S => Y.use[x] = Z.use[x]
  PROVE  /\ UsedBy(Y, Sessions) = UsedBy(Z, Sessions) - UsedBy(Z, S) + UsedBy(Y, S)
         /\ UsedBy(Y, Sessions) \in Nat /\ UsedBy(Z, Sessions) \in Nat /\ UsedBy(Z, S) \in Nat /\ UsedBy(Y, S) \in Nat
<1>1. UsedBy(Y, Sessions \ S) = UsedBy(Z, Sessions \ S)
  <2>1. \A x \in Sessions \ S : Y.use[x] = Z.use[x]
    OBVIOUS
  <2> QED
    BY <2>1, UsedSame
<1>2. /\ UsedBy(Z, Sessions) = UsedBy(Z, S) + UsedBy(Z, Sessions \ S)
      /\ UsedBy(Z, S) \in Nat /\ UsedBy(Z, Sessions \ S) \in Nat /\ UsedBy(Z, Sessions) \in Nat
  BY UsedParts
<1>3. /\ UsedBy(Y, Sessions) = UsedBy(Y, S) + UsedBy(Y, Sessions \ S)
      /\ UsedBy(Y, S) \in Nat /\ UsedBy(Y, Sessions \ S) \in Nat /\ UsedBy(Y, Sessions) \in Nat
  BY UsedParts
<1> QED
  BY <1>1, <1>2, <1>3

LEMMA RewrittenGood ==
  ASSUME NEW Z, NEW hold, SnapGood(Z, hold), Z.group = {}, NEW r, Z.pend.on => Z.pend.meta.rid # r,
         NEW Y, Zone(Y), Rewrites(Y, Z, r), Seats(Y.pool, Y.q)
  PROVE  SnapGood(Y, hold)
<1>1. /\ NoBlocks(Z) /\ Books(Z.store, hold) /\ Linked(Z) /\ Settling(Z) /\ Reserved(Z) /\ SourceHeld(Z)
  BY DEF SnapGood, Snapped
<1>2. /\ r \in Sessions /\ DOMAIN Y.q = Sessions /\ DOMAIN Y.use = Sessions
      /\ \A x \in Sessions : x # r => Y.q[x] = Z.q[x] /\ Y.use[x] = Z.use[x]
      /\ Y.use[r].n \in Nat /\ (Y.use[r].n # 0 => Y.q[r].st = "active")
      /\ Y.unsettled = Z.unsettled - Z.use[r].n + Y.use[r].n
      /\ Y.snapOf = Z.snapOf /\ Y.store = Z.store /\ Y.group = Z.group /\ Y.pend = Z.pend /\ SameBlocks(Y, Z)
  BY DEF Rewrites
<1>3. \A s \in Snaps(Z.store) : s.rid \in Sessions /\ Z.q[s.rid].res = "cpu"
  BY <1>1, SnapshotOf
<1>4. Linked(Y)
  <2>1. \A s \in Snaps(Y.store) : Y.snapOf[s.rid] = s.id /\ s.tokens = Y.q[s.rid].tokens
    <3> TAKE s \in Snaps(Y.store)
    <3>1. s \in Snaps(Z.store)
      BY <1>2
    <3>2. CASE s.rid = r
      BY <1>1, <1>2, <1>3, <3>1, <3>2 DEF Linked, Rewrites
    <3>3. CASE s.rid # r
      BY <1>1, <1>2, <1>3, <3>1, <3>3 DEF Linked
    <3> QED
      BY <3>2, <3>3
  <2>2. \A x \in Sessions :
          /\ Y.q[x].res = "cpu" <=> Y.snapOf[x] # 0
          /\ Y.snapOf[x] # 0 => /\ \E s \in Snaps(Y.store) : s.rid = x /\ s.id = Y.snapOf[x]
                                /\ Y.q[x].snap = Y.snapOf[x]
    <3> TAKE x \in Sessions
    <3>1. CASE x = r
      BY <1>1, <1>2, <3>1 DEF Linked, Rewrites
    <3>2. CASE x # r
      BY <1>1, <1>2, <3>2 DEF Linked
    <3> QED
      BY <3>1, <3>2
  <2> QED
    BY <1>1, <1>2, <2>1, <2>2 DEF Linked
<1>5. Settling(Y)
  <2>1. UsesOK(Z.use) /\ UsesOK(Y.use) /\ {r} \in SUBSET Sessions
    BY <1>1, <1>2 DEF Settling, UsesOK
  <2>2. \A x \in Sessions : x \notin {r} => Y.use[x] = Z.use[x]
    BY <1>2
  <2>3. UsedBy(Y, Sessions) = UsedBy(Z, Sessions) - UsedBy(Z, {r}) + UsedBy(Y, {r})
        /\ UsedBy(Y, Sessions) \in Nat /\ UsedBy(Z, Sessions) \in Nat
    BY <2>1, <2>2, UsedOneMore
  <2>4. UsedBy(Z, {r}) = Z.use[r].n /\ UsedBy(Y, {r}) = Y.use[r].n /\ Z.use[r].n \in Nat /\ Y.use[r].n \in Nat
    <3>1. Z.use[r].n \in Nat /\ Y.use[r].n \in Nat
      BY <1>2, <2>1 DEF UsesOK
    <3> QED
      BY <1>2, <3>1, UsedOne
  <2>5. Z.unsettled = SizeOf(Snaps(Z.store)) + UsedBy(Z, Sessions) /\ SizeOf(Snaps(Z.store)) \in Nat
    <3>1. Sized(Snaps(Z.store)) /\ Snaps(Z.store) \in SUBSET Snaps(Z.store)
      BY <1>1, BooksNumbers DEF Books, Numbers
    <3> QED
      BY <1>1, <3>1, SizeParts DEF Settling
  <2>6. Y.unsettled = SizeOf(Snaps(Y.store)) + UsedBy(Y, Sessions)
    BY <1>2, <2>3, <2>4, <2>5
  <2>7. \A x \in Sessions : Y.use[x].n \in Nat /\ (Y.use[x].n # 0 => Y.q[x].st = "active")
    BY <1>1, <1>2 DEF Settling
  <2> QED
    BY <1>2, <2>6, <2>7 DEF Settling
<1>6. Reserved(Y) /\ GroupHeld(Y) /\ NoBlocks(Y)
  BY <1>1, <1>2 DEF Reserved, GroupHeld, NoBlocks, SameBlocks
<1>7. SourceHeld(Y)
  <2>1. Z.pend.on => Z.pend.meta.rid \in Sessions
    BY <1>1 DEF Reserved, Books, StoreTyped, IsMeta
  <2> QED
    BY <1>1, <1>2, <2>1 DEF SourceHeld
<1> QED
  BY <1>1, <1>2, <1>4, <1>5, <1>6, <1>7 DEF SnapGood, Snapped, Seated

\* Sessions are forgotten, or their snapshots restored.
Forgot(Y, Z, S, after) ==
  /\ S \in SUBSET Sessions /\ (Z.pend.on => Z.pend.meta.rid \notin S)
  /\ Zone(Y) /\ Forgets(Y, Z, S, UsedBy(Z, S) - UsedBy(Y, S)) /\ Seats(Y.pool, Y.q)
  /\ Books(Y.store, after) /\ UsesOK(Y.use)
  /\ \A x \in Sessions : x \notin S => Y.use[x] = Z.use[x]
  /\ \A x \in S : Y.use[x].n # 0 => Y.q[x].st = "active"
  /\ SizeOf(Snaps(Z.store)) = SizeOf(OfSessions(Z, S)) + SizeOf(Snaps(Y.store))
  /\ SizeOf(OfSessions(Z, S)) \in Nat /\ SizeOf(Snaps(Y.store)) \in Nat

LEMMA ForgottenGood ==
  ASSUME NEW Z, NEW hold, SnapGood(Z, hold), Z.group = {}, NEW Y, NEW S, NEW after, Forgot(Y, Z, S, after)
  PROVE  SnapGood(Y, after)
<1>0. /\ S \in SUBSET Sessions /\ (Z.pend.on => Z.pend.meta.rid \notin S)
      /\ Zone(Y) /\ Forgets(Y, Z, S, UsedBy(Z, S) - UsedBy(Y, S)) /\ Seats(Y.pool, Y.q)
      /\ Books(Y.store, after) /\ UsesOK(Y.use)
      /\ \A x \in Sessions : x \notin S => Y.use[x] = Z.use[x]
      /\ \A x \in S : Y.use[x].n # 0 => Y.q[x].st = "active"
      /\ SizeOf(Snaps(Z.store)) = SizeOf(OfSessions(Z, S)) + SizeOf(Snaps(Y.store))
      /\ SizeOf(OfSessions(Z, S)) \in Nat /\ SizeOf(Snaps(Y.store)) \in Nat
  BY DEF Forgot
<1>1. /\ NoBlocks(Z) /\ Books(Z.store, hold) /\ Linked(Z) /\ Settling(Z) /\ Reserved(Z) /\ SourceHeld(Z)
  BY DEF SnapGood, Snapped
<1>2. /\ Y.store.open = Z.store.open /\ Y.group = Z.group /\ Y.pend = Z.pend /\ SameBlocks(Y, Z)
      /\ \A x \in Sessions : x \notin S => Y.q[x] = Z.q[x]
      /\ Y.unsettled = Z.unsettled - SizeOf(OfSessions(Z, S)) - (UsedBy(Z, S) - UsedBy(Y, S))
  BY <1>0 DEF Forgets
<1>3. Linked(Y)
  BY <1>0, <1>1, ForgottenLinked
<1>4. Settling(Y)
  <2>1. UsesOK(Z.use)
    BY <1>1 DEF Settling, UsesOK
  <2>2. /\ UsedBy(Y, Sessions) = UsedBy(Z, Sessions) - UsedBy(Z, S) + UsedBy(Y, S)
        /\ UsedBy(Y, Sessions) \in Nat /\ UsedBy(Z, Sessions) \in Nat /\ UsedBy(Z, S) \in Nat /\ UsedBy(Y, S) \in Nat
    BY <1>0, <2>1, UsedOneMore
  <2>3. Z.unsettled = SizeOf(Snaps(Z.store)) + UsedBy(Z, Sessions)
    BY <1>1 DEF Settling
  <2>4. Y.unsettled = SizeOf(Snaps(Y.store)) + UsedBy(Y, Sessions)
    BY <1>0, <1>2, <2>2, <2>3
  <2>5. \A x \in Sessions : Y.use[x].n \in Nat /\ (Y.use[x].n # 0 => Y.q[x].st = "active")
    BY <1>0, <1>1, <1>2 DEF Settling, UsesOK
  <2> QED
    BY <1>0, <2>4, <2>5 DEF Settling, UsesOK
<1>5. Reserved(Y) /\ GroupHeld(Y) /\ NoBlocks(Y)
  BY <1>1, <1>2 DEF Reserved, GroupHeld, NoBlocks, SameBlocks
<1>6. SourceHeld(Y)
  <2>1. Z.pend.on => Z.pend.meta.rid \in Sessions
    BY <1>1 DEF Reserved, Books, StoreTyped, IsMeta
  <2> QED
    BY <1>0, <1>1, <1>2, <2>1 DEF SourceHeld
<1> QED
  BY <1>0, <1>3, <1>4, <1>5, <1>6 DEF SnapGood, Snapped, Seated

\* The snapshot of a session on the host.
HostSnapshot(Z, r, s) ==
  /\ s \in Snaps(Z.store) /\ s = SnapFor(Z, r) /\ s.rid = r /\ s.id = Z.snapOf[r] /\ s.id # 0
  /\ IsMeta(s) /\ s.tokens = Z.q[r].tokens /\ Z.q[r].snap = Z.snapOf[r]

LEMMA HostHasSnapshot ==
  ASSUME NEW Z, NEW hold, SnapGood(Z, hold), NEW r \in Sessions, Z.q[r].res = "cpu"
  PROVE  \E s : HostSnapshot(Z, r, s)
<1>1. Books(Z.store, hold) /\ Linked(Z)
  BY DEF SnapGood, Snapped
<1>2. Z.snapOf[r] # 0 /\ Z.q[r].snap = Z.snapOf[r]
  BY <1>1 DEF Linked
<1>3. PICK s \in Snaps(Z.store) : s.rid = r /\ s.id = Z.snapOf[r]
  BY <1>1, <1>2 DEF Linked
<1>4. SnapOfId(Z.store, s.id) = s
  BY <1>1, FoundById DEF Books
<1>5. IsMeta(s) /\ s.tokens = Z.q[r].tokens
  BY <1>1, <1>3 DEF Books, StoreTyped, Linked
<1> QED
  BY <1>2, <1>3, <1>4, <1>5 DEF HostSnapshot, SnapFor

LEMMA HitsReuse ==
  ASSUME NEW P \in PoolOf(TokenLists), NEW s, IsMeta(s), NEW h \in Hits(P, s)
  PROVE  /\ Reuses(P, h, s.n)
         /\ ~cfg.mixed => h \in Seq(Blocks) /\ Len(h) * BlockSize <= s.computed /\ DOMAIN h = 1..Len(h)
         /\ \A i \in DOMAIN h : /\ i \in Nat \ {0} /\ i * BlockSize <= s.computed
                                /\ <<SubSeq(s.tokens, 1, i * BlockSize), h[i]>> \in P.cache
<1> DEFINE k == s.computed \div BlockSize
<1>1. s.computed \in Nat /\ BlockSize \in Nat \ {0} /\ k \in Nat /\ k * BlockSize <= s.computed /\ k <= s.n /\ s.n \in Nat
  <2>1. s.computed \in Nat /\ BlockSize \in Nat \ {0} /\ s.n = BlocksNeededFor(s.computed)
    BY BlockSizeAssumption DEF IsMeta
  <2>2. k \in Nat /\ k * BlockSize <= s.computed
    BY <2>1
  <2>3. BlocksNeededFor(k * BlockSize) = k /\ k * BlockSize \in Nat
    BY <2>2, BlocksForMultiple
  <2>4. BlocksNeededFor(k * BlockSize) <= BlocksNeededFor(s.computed)
    BY <2>1, <2>2, <2>3, BlocksForMonotone
  <2>5. s.n \in Nat
    BY <2>1, BlocksFor
  <2> QED
    BY <2>1, <2>2, <2>3, <2>4, <2>5
<1> HIDE DEF k
<1>2. ASSUME NEW i \in 1..k
      PROVE  i \in Nat \ {0} /\ i * BlockSize <= s.computed /\ i \in 1..s.n
  <2>1. i \in Nat /\ i # 0 /\ i <= k
    BY <1>1
  <2>2. i * BlockSize <= k * BlockSize
    BY <1>1, <2>1
  <2>3. i * BlockSize \in Nat /\ k * BlockSize \in Nat
    BY <1>1, <2>1
  <2> QED
    BY <1>1, <2>1, <2>2, <2>3
<1>3. CASE cfg.mixed
  <2> DEFINE hits == {i \in 1 .. k : PrefixCaching /\ Lookup(P, SubSeq(s.tokens, 1, i * BlockSize)) # {}}
  <2>1. h \in [hits -> Blocks] /\ \A i \in hits : h[i] \in Lookup(P, SubSeq(s.tokens, 1, i * BlockSize))
    BY <1>3 DEF Hits, MixedHits, k
  <2>2. DOMAIN h = hits
    BY <2>1
  <2>3. hits \subseteq 1..k /\ (~PrefixCaching => hits = {})
    OBVIOUS
  <2> HIDE DEF hits
  <2>4. \A i \in DOMAIN h : h[i] \in Blocks /\ <<SubSeq(s.tokens, 1, i * BlockSize), h[i]>> \in P.cache /\ P.ref[h[i]] > 0
    BY <2>1, <2>2 DEF Lookup
  <2>5. DOMAIN h \subseteq 1..s.n /\ \A i \in DOMAIN h : i \in Nat \ {0} /\ i * BlockSize <= s.computed
    BY <1>2, <2>2, <2>3
  <2> QED
    BY <1>3, <2>2, <2>3, <2>4, <2>5 DEF Reuses
<1>4. CASE ~cfg.mixed /\ PrefixCaching
  <2>1. PICK j \in UptoHits(P, s.tokens, s.computed) :
          h \in [1..j -> Blocks] /\ \A i \in 1..j : h[i] \in Lookup(P, SubSeq(s.tokens, 1, i * BlockSize))
    BY <1>4 DEF Hits, AttachUpto
  <2>2. j \in 0..k
    BY DEF UptoHits, k
  <2>3. j \in Nat /\ j <= k /\ DOMAIN h = 1..j
    BY <1>1, <2>1, <2>2
  <2>4. h \in Seq(Blocks) /\ Len(h) = j
    <3>1. h \in Seq(Blocks)
      BY <2>1, <2>3, FunctionSeq
    <3>2. Len(h) \in Nat /\ DOMAIN h = 1..Len(h)
      BY <3>1, LenProperties
    <3> QED
      BY <2>3, <3>1, <3>2
  <2>5. \A i \in DOMAIN h : h[i] \in Blocks /\ <<SubSeq(s.tokens, 1, i * BlockSize), h[i]>> \in P.cache /\ P.ref[h[i]] > 0
    BY <2>1, <2>3 DEF Lookup
  <2>6. DOMAIN h \subseteq 1..s.n /\ \A i \in DOMAIN h : i \in Nat \ {0} /\ i * BlockSize <= s.computed
    <3>1. 1..j \subseteq 1..k
      BY <1>1, <2>3
    <3> QED
      BY <1>2, <2>3, <3>1
  <2>7. j * BlockSize <= s.computed
    <3>1. j * BlockSize <= k * BlockSize /\ j * BlockSize \in Nat /\ k * BlockSize \in Nat
      BY <1>1, <2>3
    <3> QED
      BY <1>1, <3>1
  <2> QED
    BY <1>4, <2>3, <2>4, <2>5, <2>6, <2>7 DEF Reuses
<1>5. CASE ~cfg.mixed /\ ~PrefixCaching
  <2>1. h = << >>
    BY <1>5 DEF Hits, AttachUpto
  <2>2. h \in Seq(Blocks) /\ Len(h) = 0 /\ DOMAIN h = 1..0 /\ DOMAIN h = {}
    BY <2>1
  <2>3. Len(h) * BlockSize <= s.computed
    BY <1>1, <2>2
  <2> QED
    BY <1>1, <1>5, <2>2, <2>3 DEF Reuses
<1> QED
  BY <1>3, <1>4, <1>5

\* begin_restore of snapshot s for session r: from which cached blocks, into which fresh ones.
RestoredFrom(R, Z, r, s, h, P, g) ==
  LET t == [i \in 1..s.n |-> IF i \in DOMAIN h THEN h[i] ELSE g[i]]
  IN  /\ h \in Hits(Z.pool, s) /\ P \in Reclaims(Pinned(Z.pool, h), RestoreNeeds(s, h))
      /\ g \in Fresh(P, 1..s.n \ DOMAIN h)
      /\ R = [Z EXCEPT !.pool = AllocBlocks(P, g),
                       !.kv = ImportPages(@, t, s.pages, 1..s.n \ DOMAIN h),
                       !.q[r] = Restored(@, s, t, h)]

LEMMA RestoreParts ==
  ASSUME NEW Z, NEW r, NEW s, s = SnapFor(Z, r), NEW R \in Restores(Z, r)
  PROVE  \E h, P, g : RestoredFrom(R, Z, r, s, h, P, g)
<1> DEFINE x == SnapFor(Z, r)
           Y(h, P, g) == LET t == [i \in 1..x.n |-> IF i \in DOMAIN h THEN h[i] ELSE g[i]]
                         IN  [Z EXCEPT !.pool = AllocBlocks(P, g),
                                       !.kv = ImportPages(@, t, x.pages, 1..x.n \ DOMAIN h),
                                       !.q[r] = Restored(@, x, t, h)]
           Pools(h) == {P \in Reclaims(Pinned(Z.pool, h), RestoreNeeds(x, h)) : FreeBlocks(P) >= RestoreNeeds(x, h)}
<1>0. Restores(Z, r) = UNION {UNION {UNION {{Y(h, P, g)} : g \in Fresh(P, 1..x.n \ DOMAIN h)}
                                      : P \in Pools(h)} : h \in Hits(Z.pool, x)}
  BY DEF Restores
<1> HIDE DEF Y, Pools
<1>1. Restores(Z, r) = UNION {UNION {UNION {{Y(h, P, g)} : g \in Fresh(P, 1..s.n \ DOMAIN h)}
                                      : P \in Pools(h)} : h \in Hits(Z.pool, s)}
  BY <1>0
<1>2. PICK h \in Hits(Z.pool, s) :
        R \in UNION {UNION {{Y(h, P, g)} : g \in Fresh(P, 1..s.n \ DOMAIN h)} : P \in Pools(h)}
  BY <1>1
<1>3. PICK P \in Pools(h) : R \in UNION {{Y(h, P, g)} : g \in Fresh(P, 1..s.n \ DOMAIN h)}
  BY <1>2
<1>4. PICK g \in Fresh(P, 1..s.n \ DOMAIN h) : R = Y(h, P, g)
  BY <1>3
<1>5. P \in Reclaims(Pinned(Z.pool, h), RestoreNeeds(s, h))
  BY <1>3 DEF Pools
<1>6. RestoredFrom(R, Z, r, s, h, P, g)
  BY <1>2, <1>4, <1>5 DEF RestoredFrom, Y
<1> QED
  BY <1>6

\* The session r as it is once its KV is back.
IsBack(c, d, n) ==
  /\ IsRequest(c) /\ Placed(c) /\ c.st = "parked" /\ c.res = "gpu" /\ c.tokens = d.tokens /\ c.snap = d.snap
  /\ Len(c.table) = n

LEMMA RestoredRequest ==
  ASSUME NEW c, IsRequest(c), c.st = "parked", NEW s, IsMeta(s), s.tokens = c.tokens, NEW t \in Seq(Blocks), Len(t) = s.n,
         NEW h, ~cfg.mixed => h \in Seq(Blocks) /\ Len(h) * BlockSize <= s.computed
  PROVE  LET d == Restored(c, s, t, h)
         IN  /\ IsBack(d, c, s.n) /\ d.table = t /\ d.computed = s.computed
             /\ d.published = IF cfg.mixed THEN 0 ELSE Len(h)
             /\ d.parent = IF cfg.mixed THEN ROOT_HASH ELSE SubSeq(s.tokens, 1, Len(h) * BlockSize)
<1> DEFINE d == Restored(c, s, t, h)
<1>1. /\ DOMAIN d = DOMAIN c /\ d.table = t /\ d.computed = s.computed /\ d.res = "gpu"
      /\ d.published = IF cfg.mixed THEN 0 ELSE Len(h)
      /\ d.parent = IF cfg.mixed THEN ROOT_HASH ELSE SubSeq(s.tokens, 1, Len(h) * BlockSize)
      /\ d.st = c.st /\ d.tokens = c.tokens /\ d.snap = c.snap
  BY DEF Restored, IsRequest
<1> HIDE DEF d
<1>2. d.published \in Nat /\ d.parent \in TokenLists
  <2>1. CASE cfg.mixed
    <3>1. << >> \in TokenLists
      BY DEF TokenLists
    <3> QED
      BY <1>1, <2>1, <3>1 DEF ROOT_HASH
  <2>2. CASE ~cfg.mixed
    <3>1. Len(h) \in Nat /\ s.tokens \in TokenLists /\ s.computed < Len(s.tokens) /\ s.computed \in Nat
      BY <2>2, LenProperties DEF IsMeta
    <3>2. Len(h) * BlockSize \in Nat /\ BlockSize \in Nat
      BY <3>1, BlockSizeAssumption
    <3>3. Len(s.tokens) \in Nat
      BY <3>1, LenProperties DEF TokenLists
    <3>4. Len(h) * BlockSize <= Len(s.tokens)
      BY <2>2, <3>1, <3>2, <3>3
    <3> DEFINE m == Len(h) * BlockSize
    <3> HIDE DEF m
    <3>5. SubSeq(s.tokens, 1, m) \in TokenLists
      <4>1. m \in Nat /\ m <= Len(s.tokens)
        BY <3>2, <3>4 DEF m
      <4> QED
        BY <3>1, <3>3, <4>1 DEF TokenLists
    <3> QED
      BY <1>1, <2>2, <3>1, <3>5 DEF m
  <2> QED
    BY <2>1, <2>2
<1>3. IsRequest(d)
  BY <1>1, <1>2 DEF IsRequest, IsMeta
<1>4. Placed(d)
  BY <1>1 DEF Placed, IsMeta
<1> QED
  BY <1>1, <1>3, <1>4 DEF IsBack, d

\* What begin_restore leaves when it succeeds.
Back(R, Z, r, c) ==
  /\ Zone(R) /\ R.store = Z.store /\ R.group = Z.group /\ R.pend = Z.pend /\ SameSnaps(R, Z)
  /\ R.q = [Z.q EXCEPT ![r] = c] /\ Seats(R.pool, R.q)

LEMMA RestoresGood ==
  ASSUME NEW Z, NEW hold, SnapGood(Z, hold), NEW r \in Sessions, Z.q[r].res = "cpu",
         NEW s, HostSnapshot(Z, r, s), NEW R, NEW h, NEW P, NEW g, RestoredFrom(R, Z, r, s, h, P, g)
  PROVE  LET c == Restored(Z.q[r], s, Mixed(h, g, s.n), h)
         IN  Back(R, Z, r, c) /\ IsBack(c, Z.q[r], s.n)
<1> DEFINE t == Mixed(h, g, s.n)
           c == Restored(Z.q[r], s, t, h)
<1>1. /\ Zone(Z) /\ Seats(Z.pool, Z.q) /\ Requests(Z.q) /\ IsRequest(Z.q[r]) /\ Placed(Z.q[r]) /\ Z.q[r].st = "parked"
      /\ Bare(Z.q[r].table)
  BY DEF SnapGood, Seated, Seats, Requests, Placed, Bare
<1>2. IsMeta(s) /\ s.tokens = Z.q[r].tokens /\ s.n \in Nat
  BY MetaSize DEF HostSnapshot
<1>3. /\ h \in Hits(Z.pool, s) /\ P \in Reclaims(Pinned(Z.pool, h), RestoreNeeds(s, h))
      /\ g \in Fresh(P, 1..s.n \ DOMAIN h)
      /\ R = [Z EXCEPT !.pool = AllocBlocks(P, g),
                       !.kv = ImportPages(@, t, s.pages, 1..s.n \ DOMAIN h),
                       !.q[r] = c]
  BY DEF RestoredFrom, Mixed
<1>4. Reuses(Z.pool, h, s.n) /\ (~cfg.mixed => h \in Seq(Blocks) /\ Len(h) * BlockSize <= s.computed)
  <2>1. Z.pool \in PoolOf(TokenLists)
    BY <1>1, SeatsFacts
  <2> QED
    BY <1>2, <1>3, <2>1, HitsReuse
<1>5. t \in Seq(Blocks) /\ Len(t) = s.n
  <2>1. \A i \in 1..s.n : t[i] \in Blocks
    <3>1. P.free \subseteq Blocks
      <4>1. PICK a : Lists(a, h)
        BY <1>2, <1>4, ReusesFamily, Listing
      <4>2. a \in Seq(Blocks) /\ Counts(Pinned(Z.pool, h), With(Z.q, r, a))
        BY <1>1, <1>2, <1>4, <4>1, PinCounts DEF Lists
      <4>3. Counts(P, With(Z.q, r, a))
        BY <1>1, <1>3, <4>2, ReclaimCounts
      <4> QED
        BY <4>3 DEF Counts, PoolOf
    <3>2. \A i \in 1..s.n \ DOMAIN h : g[i] \in Blocks
      BY <1>3, <3>1 DEF Fresh
    <3>3. \A i \in DOMAIN h : h[i] \in Blocks
      BY <1>4 DEF Reuses
    <3> QED
      BY <3>2, <3>3 DEF Mixed
  <2>2. t \in [1..s.n -> Blocks] /\ DOMAIN t = 1..s.n
    BY <2>1 DEF Mixed
  <2> HIDE DEF t
  <2>3. t \in Seq(Blocks)
    BY <1>2, <2>2, FunctionSeq
  <2> QED
    BY <1>2, <2>2, <2>3, LenProperties
<1>6. IsBack(c, Z.q[r], s.n) /\ c.table = t
  <2> HIDE DEF t
  <2> QED
    BY <1>1, <1>2, <1>4, <1>5, RestoredRequest
<1> HIDE DEF c
<1>7. Seats(AllocBlocks(P, g), [Z.q EXCEPT ![r] = c])
  <2>1. IsRequest(c) /\ Placed(c) /\ c.table = Mixed(h, g, s.n)
    BY <1>6 DEF IsBack
  <2>2. PICK n, goal : n = s.n /\ goal = RestoreNeeds(s, h)
    OBVIOUS
  <2>3. n \in Nat /\ Reuses(Z.pool, h, n) /\ P \in Reclaims(Pinned(Z.pool, h), goal) /\ g \in Fresh(P, 1..n \ DOMAIN h)
        /\ c.table = Mixed(h, g, n)
    BY <1>2, <1>3, <1>4, <2>1, <2>2
  <2> HIDE DEF t
  <2> QED
    BY <1>1, <2>1, <2>3, RestoreSeats
<1> HIDE DEF t
<1>8. Zone(R) /\ R.store = Z.store /\ R.group = Z.group /\ R.pend = Z.pend /\ SameSnaps(R, Z)
      /\ R.q = [Z.q EXCEPT ![r] = c] /\ R.pool = AllocBlocks(P, g)
  BY <1>1, <1>3 DEF Zone, SameSnaps, SameBlocks
<1> QED
  BY <1>6, <1>7, <1>8 DEF Back, c, t

\* Appending a turn's tokens to a request that stays as it is otherwise.
LEMMA ResumedRequest ==
  ASSUME NEW c, IsRequest(c), Placed(c), c.st = "parked", c.res # "cpu", NEW suffix \in TokenLists
  PROVE  LET d == [c EXCEPT !.st = "active", !.tokens = @ \o suffix]
         IN  /\ IsRequest(d) /\ Placed(d) /\ d.st = "active" /\ d.res # "cpu" /\ d.table = c.table
             /\ d.tokens = c.tokens \o suffix /\ d.computed = c.computed /\ d.published = c.published /\ d.parent = c.parent
<1> DEFINE d == [c EXCEPT !.st = "active", !.tokens = @ \o suffix]
<1>1. /\ DOMAIN d = DOMAIN c /\ d.st = "active" /\ d.tokens = c.tokens \o suffix /\ d.res = c.res
      /\ d.table = c.table /\ d.computed = c.computed /\ d.published = c.published /\ d.parent = c.parent
      /\ d.snap = c.snap
  BY DEF IsRequest
<1>2. c.tokens \o suffix \in TokenLists /\ Len(c.tokens \o suffix) = Len(c.tokens) + Len(suffix)
      /\ Len(c.tokens) \in Nat /\ Len(suffix) \in Nat
  BY ConcatProperties, LenProperties DEF IsRequest, TokenLists
<1>3. c.computed \in Nat /\ c.computed < Len(c.tokens)
  BY DEF IsRequest, Placed
<1> HIDE DEF d
<1>4. IsRequest(d)
  BY <1>1, <1>2 DEF IsRequest
<1>5. Placed(d)
  BY <1>1, <1>2, <1>3 DEF Placed
<1> QED
  BY <1>1, <1>4, <1>5 DEF d

\* The snapshot of r goes once its restore is committed, and the turn starts.
LEMMA ResumedRestoreGood ==
  ASSUME NEW Z, NEW hold, SnapGood(Z, hold), Z.group = {}, NEW r \in Sessions, Z.q[r].res = "cpu",
         Z.pend.on => Z.pend.meta.rid # r, NEW s, HostSnapshot(Z, r, s),
         NEW R, NEW c, Back(R, Z, r, c), IsBack(c, Z.q[r], s.n), NEW suffix \in TokenLists
  PROVE  LET Y == Resumed(CommitRestore(R, r), r, suffix)
         IN  /\ SnapGood(Y, hold) /\ Y.group = {} /\ Y.pend = Z.pend /\ Y.pool = R.pool /\ Y.kv = R.kv
             /\ Y.q = [Z.q EXCEPT ![r] = [c EXCEPT !.st = "active", !.tokens = @ \o suffix]]
             /\ Snaps(Y.store) \subseteq Snaps(Z.store) /\ SameBlocks(Y, Z)
<1> DEFINE Y == Resumed(CommitRestore(R, r), r, suffix)
           d == [c EXCEPT !.st = "active", !.tokens = @ \o suffix]
           I == {Z.snapOf[r]}
           S == {r}
<1>1. /\ Zone(Z) /\ Seats(Z.pool, Z.q) /\ Books(Z.store, hold) /\ Linked(Z) /\ Settling(Z) /\ Requests(Z.q)
      /\ Z.q[r].st = "parked" /\ DOMAIN Z.q = Sessions /\ DOMAIN Z.snapOf = Sessions /\ DOMAIN Z.use = Sessions
  BY DEF SnapGood, Snapped, Seated, Seats, Requests, Placed, Linked, Settling
<1>2. /\ Zone(R) /\ R.store = Z.store /\ R.group = Z.group /\ R.pend = Z.pend /\ R.snapOf = Z.snapOf /\ R.use = Z.use
      /\ R.unsettled = Z.unsettled /\ SameBlocks(R, Z) /\ R.q = [Z.q EXCEPT ![r] = c] /\ Seats(R.pool, R.q)
  BY DEF Back, SameSnaps
<1>3. SnapFor(R, r) = s /\ s \in Snaps(Z.store) /\ s.n \in Nat /\ s.id = Z.snapOf[r]
  BY <1>2, MetaSize DEF SnapFor, HostSnapshot
<1>4. PICK u : u = [n |-> s.n, valid |-> R.q[r].computed, table |-> R.q[r].table, on |-> TRUE]
  OBVIOUS
<1>5. u.n = s.n
  BY <1>4
<1>6. PICK C : C = CommitRestore(R, r)
  OBVIOUS
<1>6a. /\ Zone(C) /\ C.store = Delete(Z.store, I) /\ C.snapOf = [Z.snapOf EXCEPT ![r] = 0] /\ C.use = [Z.use EXCEPT ![r] = u]
       /\ C.group = Z.group /\ C.pend = Z.pend /\ C.unsettled = Z.unsettled /\ SameBlocks(C, Z) /\ C.pool = R.pool
       /\ C.kv = R.kv /\ C.q = R.q
  <2>1. C = [R EXCEPT !.store = Delete(@, {R.snapOf[r]}), !.snapOf[r] = 0, !.use[r] = u]
    BY <1>3, <1>4, <1>6 DEF CommitRestore
  <2> QED
    BY <1>2, <2>1 DEF Zone, SameBlocks
<1>6b. Y = Resumed(C, r, suffix)
  BY <1>6
<1> HIDE DEF Y
<1>7. /\ Zone(Y) /\ Y.store = Delete(Z.store, I) /\ Y.snapOf = [Z.snapOf EXCEPT ![r] = 0] /\ Y.use = [Z.use EXCEPT ![r] = u]
      /\ Y.group = Z.group /\ Y.pend = Z.pend /\ Y.unsettled = Z.unsettled /\ SameBlocks(Y, Z) /\ Y.pool = R.pool /\ Y.kv = R.kv
      /\ Y.q = [R.q EXCEPT ![r] = [R.q[r] EXCEPT !.st = "active", !.tokens = @ \o suffix]]
  <2>1. PICK v : v = [C.q EXCEPT ![r] = [C.q[r] EXCEPT !.st = "active", !.tokens = @ \o suffix]]
    OBVIOUS
  <2>2. Y = [C EXCEPT !.q = v]
    BY <1>6b, <2>1 DEF Resumed
  <2>3. /\ Zone(Y) /\ Y.store = C.store /\ Y.snapOf = C.snapOf /\ Y.use = C.use /\ Y.group = C.group /\ Y.pend = C.pend
        /\ Y.unsettled = C.unsettled /\ Y.blocks = C.blocks /\ Y.man = C.man /\ Y.lease = C.lease /\ Y.pool = C.pool
        /\ Y.kv = C.kv /\ Y.q = v
    BY <1>6a, <2>2 DEF Zone
  <2> QED
    BY <1>6a, <2>1, <2>3 DEF SameBlocks
<1>8. R.q[r] = c /\ Y.q = [R.q EXCEPT ![r] = d] /\ Y.q = [Z.q EXCEPT ![r] = d]
  BY <1>1, <1>2, <1>7
<1>9. IsRequest(d) /\ Placed(d) /\ d.st = "active" /\ d.res # "cpu" /\ d.table = c.table
  <2>1. IsRequest(c) /\ Placed(c) /\ c.st = "parked" /\ c.res # "cpu"
    BY DEF IsBack
  <2> HIDE DEF d
  <2> QED
    BY <2>1, ResumedRequest DEF d
<1> HIDE DEF d
<1>10. Seats(Y.pool, Y.q)
  BY <1>2, <1>7, <1>8, <1>9, KeepSeats
<1>11. {o \in Snaps(Z.store) : o.id \in I} = OfSessions(Z, S) /\ OfSessions(Z, S) = {s}
  <2>1. \A o, p \in Snaps(Z.store) : o.id = p.id \/ o.rid = p.rid => o = p
    BY <1>1, SnapshotOf
  <2> QED
    BY <1>3, <2>1 DEF OfSessions, HostSnapshot
<1>12. /\ Books(Y.store, hold) /\ Snaps(Y.store) = Snaps(Z.store) \ OfSessions(Z, S) /\ Y.store.open = Z.store.open
       /\ SizeOf(Snaps(Z.store)) = SizeOf(OfSessions(Z, S)) + SizeOf(Snaps(Y.store))
       /\ SizeOf(OfSessions(Z, S)) \in Nat /\ SizeOf(Snaps(Y.store)) \in Nat
  <2>1. LET T == Delete(Z.store, I)
            gone == {o \in Snaps(Z.store) : o.id \in I}
        IN  /\ Books(T, hold) /\ Snaps(T) = Snaps(Z.store) \ gone /\ T.open = Z.store.open
            /\ SizeOf(Snaps(Z.store)) = SizeOf(gone) + SizeOf(Snaps(T))
            /\ SizeOf(gone) \in Nat /\ SizeOf(Snaps(T)) \in Nat
    BY <1>1, DeleteBooks
  <2> HIDE DEF I, S
  <2> QED
    BY <1>7, <1>11, <2>1
<1>13. UsedBy(Z, S) = 0 /\ UsedBy(Y, S) = s.n /\ SizeOf(OfSessions(Z, S)) = s.n
  <2>1. Z.use[r].n = 0
    BY <1>1 DEF Settling
  <2>2. Y.use[r] = u
    BY <1>1, <1>7
  <2>3. UsedBy(Z, {r}) = Z.use[r].n /\ UsedBy(Y, {r}) = Y.use[r].n
    <3>1. Z.use[r].n \in Nat /\ Y.use[r].n \in Nat
      BY <1>3, <1>5, <2>1, <2>2
    <3> QED
      BY <3>1, UsedOne
  <2>4. SizeOf({s}) = s.n
    BY <1>3, SizeOne
  <2> QED
    BY <1>5, <1>11, <2>1, <2>2, <2>3, <2>4
<1>14. Forgets(Y, Z, S, UsedBy(Z, S) - UsedBy(Y, S))
  <2>1. Y.snapOf = [x \in Sessions |-> IF x \in S THEN 0 ELSE Z.snapOf[x]]
    BY <1>1, <1>7
  <2>2. Y.unsettled = Z.unsettled - SizeOf(OfSessions(Z, S)) - (UsedBy(Z, S) - UsedBy(Y, S))
    <3>1. Z.unsettled \in Nat
      <4>1. UsesOK(Z.use) /\ Sessions \in SUBSET Sessions /\ Z.unsettled = SizeOf(Snaps(Z.store)) + UsedBy(Z, Sessions)
        BY <1>1 DEF Settling, UsesOK
      <4>2. UsedBy(Z, Sessions) \in Nat
        BY <4>1, UsedParts
      <4> QED
        BY <1>12, <4>1, <4>2
    <3> HIDE DEF S
    <3> QED
      BY <1>3, <1>7, <1>13, <3>1
  <2>3. DOMAIN Y.q = Sessions /\ \A x \in Sessions : x \notin S => Y.q[x] = Z.q[x]
    BY <1>1, <1>8
  <2>4. \A x \in S : Y.q[x].res # "cpu"
    BY <1>1, <1>8, <1>9
  <2> HIDE DEF S
  <2> QED
    BY <1>7, <1>12, <2>1, <2>2, <2>3, <2>4 DEF Forgets
<1>15. /\ UsesOK(Y.use)
       /\ \A x \in Sessions : x \notin S => Y.use[x] = Z.use[x]
       /\ \A x \in S : Y.use[x].n # 0 => Y.q[x].st = "active"
  <2>1. \A x \in Sessions : Z.use[x].n \in Nat
    BY <1>1 DEF Settling
  <2> QED
    BY <1>1, <1>3, <1>5, <1>7, <1>8, <1>9, <2>1 DEF UsesOK
<1>16. SnapGood(Y, hold)
  <2>1. S \in SUBSET Sessions /\ (Z.pend.on => Z.pend.meta.rid \notin S)
    OBVIOUS
  <2> HIDE DEF S
  <2>2. Forgot(Y, Z, S, hold)
    BY <1>7, <1>10, <1>12, <1>14, <1>15, <2>1 DEF Forgot
  <2> QED
    BY <2>2, ForgottenGood
<1>17. Snaps(Y.store) \subseteq Snaps(Z.store)
  BY <1>12
<1> QED
  BY <1>7, <1>8, <1>16, <1>17 DEF Y, d

\* Another buffer is referred to.
LEMMA HoldChanged ==
  ASSUME NEW Z, NEW hold, SnapGood(Z, hold), NEW after, Books(Z.store, after)
  PROVE  SnapGood(Z, after)
BY DEF SnapGood, Snapped

LEMMA HoldReleased ==
  ASSUME NEW Z, NEW hold, SnapGood(Z, hold)
  PROVE  SnapGood(Z, NoHold)
BY HoldNone DEF SnapGood, Snapped

\* A restore of r has come to nothing: r is on the host as before.
StaysOut(Y, Z, r, d) ==
  /\ Zone(Y) /\ Y.store = Z.store /\ Y.group = Z.group /\ Y.pend = Z.pend /\ SameSnaps(Y, Z)
  /\ Y.q = [Z.q EXCEPT ![r] = d] /\ Seats(Y.pool, Y.q)
  /\ d.res = "cpu" /\ d.tokens = Z.q[r].tokens /\ d.snap = Z.q[r].snap /\ d.st = "parked" /\ d.table = << >>
  /\ d.computed = 0

LEMMA StaysOutGood ==
  ASSUME NEW Z, NEW hold, SnapGood(Z, hold), Z.group = {}, NEW r \in Sessions, Z.q[r].res = "cpu",
         Z.pend.on => Z.pend.meta.rid # r, NEW Y, NEW d, StaysOut(Y, Z, r, d)
  PROVE  SnapGood(Y, hold)
<1>1. DOMAIN Z.q = Sessions /\ Z.q[r].st = "parked" /\ Settling(Z)
  BY DEF SnapGood, Snapped, Seated, Seats, Requests, Placed
<1>2. UsesOK(Z.use) /\ Z.use[r].n = 0 /\ Z.unsettled = SizeOf(Snaps(Z.store)) + UsedBy(Z, Sessions)
  BY <1>1 DEF Settling, UsesOK
<1>3. Z.unsettled \in Nat
  <2>1. Sized(Snaps(Z.store)) /\ Snaps(Z.store) \in SUBSET Snaps(Z.store) /\ Sessions \in SUBSET Sessions
    BY BooksNumbers DEF SnapGood, Snapped, Books, Numbers
  <2>2. SizeOf(Snaps(Z.store)) \in Nat
    BY <2>1, SizeParts
  <2>3. UsedBy(Z, Sessions) \in Nat
    BY <1>2, <2>1, UsedParts
  <2> QED
    BY <1>2, <2>2, <2>3
<1>4. Y.q[r] = d /\ DOMAIN Y.q = Sessions /\ \A x \in Sessions : x # r => Y.q[x] = Z.q[x]
  BY <1>1 DEF StaysOut
<1>5. Y.use = Z.use /\ Y.unsettled = Z.unsettled
  BY DEF StaysOut, SameSnaps
<1>6. Y.unsettled = Z.unsettled - Z.use[r].n + Y.use[r].n
  BY <1>2, <1>3, <1>5
<1>7. Rewrites(Y, Z, r)
  BY <1>2, <1>4, <1>5, <1>6 DEF Rewrites, UsesOK, StaysOut, SameSnaps
<1>8. Zone(Y) /\ Seats(Y.pool, Y.q)
  BY DEF StaysOut
<1> QED
  BY <1>7, <1>8, RewrittenGood

\* rollback_restore.
LEMMA RolledBackOut ==
  ASSUME NEW Z, Requests(Z.q), NEW r \in Sessions, NEW n,
         NEW R, NEW c, Back(R, Z, r, c), IsBack(c, Z.q[r], n)
  PROVE  LET Y == RollbackRestore(R, r)
             d == [c EXCEPT !.table = << >>, !.computed = 0, !.res = "cpu"]
         IN  StaysOut(Y, Z, r, d)
<1> DEFINE Y == RollbackRestore(R, r)
           d == [c EXCEPT !.table = << >>, !.computed = 0, !.res = "cpu"]
<1>1. /\ Zone(R) /\ R.store = Z.store /\ R.group = Z.group /\ R.pend = Z.pend /\ SameSnaps(R, Z)
      /\ R.q = [Z.q EXCEPT ![r] = c] /\ Seats(R.pool, R.q) /\ DOMAIN Z.q = Sessions
  BY DEF Back, Requests
<1>2. R.q[r] = c /\ c.st = "parked" /\ IsRequest(c) /\ Placed(c) /\ c.tokens = Z.q[r].tokens /\ c.snap = Z.q[r].snap
  BY <1>1 DEF IsBack
<1>3. /\ d.table = << >> /\ d.computed = 0 /\ d.res = "cpu" /\ d.st = "parked" /\ d.tokens = Z.q[r].tokens
      /\ d.snap = Z.q[r].snap /\ DOMAIN d = DOMAIN c /\ d.published = c.published /\ d.parent = c.parent
  BY <1>2 DEF IsRequest
<1> HIDE DEF d
<1>4. IsRequest(d) /\ Placed(d)
  <2>1. << >> \in Seq(Blocks) /\ Len(<< >>) = 0 /\ BlocksNeededFor(0) = 0
    BY BlocksFor
  <2>2. c.computed < Len(c.tokens) /\ c.computed \in Nat /\ Len(c.tokens) \in Nat
    BY <1>2, LenProperties DEF IsRequest, Placed, TokenLists
  <2>3. IsRequest(d)
    BY <1>2, <1>3, <2>1 DEF IsRequest
  <2>4. Placed(d)
    BY <1>2, <1>3, <2>1, <2>2 DEF Placed
  <2> QED
    BY <2>3, <2>4
<1>5. Seats(Deallocate(R.pool, R.q[r].table), [R.q EXCEPT ![r] = d])
  BY <1>1, <1>3, <1>4, DeallocateSeats
<1>6. [R.q EXCEPT ![r] = d] = [Z.q EXCEPT ![r] = d]
  BY <1>1
<1>7. Zone(Y) /\ Y.pool = Deallocate(R.pool, R.q[r].table) /\ Y.store = R.store /\ Y.group = R.group /\ Y.pend = R.pend
      /\ SameSnaps(Y, R) /\ Y.q = [R.q EXCEPT ![r] = [R.q[r] EXCEPT !.table = << >>, !.computed = 0, !.res = "cpu"]]
  BY <1>1 DEF RollbackRestore, Zone, SameSnaps, SameBlocks
<1>8. Y.q = [R.q EXCEPT ![r] = d]
  BY <1>2, <1>7 DEF d
<1> HIDE DEF Y
<1>9. StaysOut(Y, Z, r, d)
  BY <1>1, <1>3, <1>5, <1>6, <1>7, <1>8 DEF StaysOut, SameSnaps, SameBlocks
<1> QED
  BY <1>9 DEF Y, d

\* begin_restore fails: the cached blocks it had pinned are given back.
FailedFrom(R, Z, r, s, h, P) ==
  /\ h \in Hits(Z.pool, s) /\ P \in Reclaims(Pinned(Z.pool, h), RestoreNeeds(s, h))
  /\ R = [Z EXCEPT !.pool = Unpinned(P, h), !.q[r] = RolledBack(@, s, h)]

LEMMA FailedParts ==
  ASSUME NEW Z, NEW r, NEW s, s = SnapFor(Z, r), NEW R \in FailedRestores(Z, r)
  PROVE  \E h, P : FailedFrom(R, Z, r, s, h, P)
<1> DEFINE x == SnapFor(Z, r)
           Y(h, P) == [Z EXCEPT !.pool = Unpinned(P, h), !.q[r] = RolledBack(@, x, h)]
           Pools(h) == {P \in Reclaims(Pinned(Z.pool, h), RestoreNeeds(x, h)) :
                          CopyMayFail \/ FreeBlocks(P) < RestoreNeeds(x, h)}
<1>1. FailedRestores(Z, r) = UNION {{Y(h, P) : P \in Pools(h)} : h \in Hits(Z.pool, x)}
  BY DEF FailedRestores
<1> HIDE DEF Y, Pools
<1>2. PICK h \in Hits(Z.pool, s) : R \in {Y(h, P) : P \in Pools(h)}
  BY <1>1
<1>3. PICK P \in Pools(h) : R = Y(h, P)
  BY <1>2
<1>4. P \in Reclaims(Pinned(Z.pool, h), RestoreNeeds(s, h))
  BY <1>3 DEF Pools
<1>5. FailedFrom(R, Z, r, s, h, P)
  BY <1>2, <1>3, <1>4 DEF FailedFrom, Y
<1> QED
  BY <1>5

LEMMA FailedRestoreGood ==
  ASSUME NEW Z, NEW hold, SnapGood(Z, hold), Z.group = {}, NEW r \in Sessions, Z.q[r].res = "cpu",
         Z.pend.on => Z.pend.meta.rid # r, NEW s, HostSnapshot(Z, r, s),
         NEW R, NEW h, NEW P, FailedFrom(R, Z, r, s, h, P)
  PROVE  SnapGood(R, hold) /\ StaysOut(R, Z, r, RolledBack(Z.q[r], s, h))
<1> DEFINE c == Restored(Z.q[r], s, << >>, h)
           d == RolledBack(Z.q[r], s, h)
<1>1. /\ Zone(Z) /\ Seats(Z.pool, Z.q) /\ Requests(Z.q) /\ IsRequest(Z.q[r]) /\ Placed(Z.q[r]) /\ Z.q[r].st = "parked"
      /\ Z.q[r].table = << >>
  BY DEF SnapGood, Seated, Seats, Requests, Placed
<1>2. IsMeta(s) /\ s.tokens = Z.q[r].tokens /\ s.n \in Nat
  BY MetaSize DEF HostSnapshot
<1>3. Reuses(Z.pool, h, s.n) /\ (~cfg.mixed => h \in Seq(Blocks) /\ Len(h) * BlockSize <= s.computed)
  <2>1. Z.pool \in PoolOf(TokenLists)
    BY <1>1, SeatsFacts
  <2>2. h \in Hits(Z.pool, s)
    BY DEF FailedFrom
  <2> QED
    BY <1>2, <2>1, <2>2, HitsReuse
<1>4. /\ d.table = << >> /\ d.computed = 0 /\ d.res = "cpu" /\ d.st = "parked" /\ d.tokens = Z.q[r].tokens
      /\ d.snap = Z.q[r].snap /\ DOMAIN d = DOMAIN Z.q[r]
      /\ d.published = IF cfg.mixed THEN 0 ELSE Len(h)
      /\ d.parent = IF cfg.mixed THEN ROOT_HASH ELSE SubSeq(s.tokens, 1, Len(h) * BlockSize)
  BY <1>1 DEF RolledBack, Restored, IsRequest
<1>5. d.published \in Nat /\ d.parent \in TokenLists
  <2>1. PICK t : t \in Seq(Blocks) /\ Len(t) = s.n
    <3>1. PICK b : b \in Blocks
      BY BlocksAssumption
    <3> DEFINE t == [i \in 1..s.n |-> b]
    <3>2. t \in [1..s.n -> Blocks] /\ DOMAIN t = 1..s.n
      BY <3>1
    <3> HIDE DEF t
    <3>3. t \in Seq(Blocks)
      BY <1>2, <3>2, FunctionSeq
    <3>4. Len(t) = s.n
      BY <1>2, <3>2, <3>3, LenProperties
    <3> QED
      BY <3>3, <3>4
  <2>2. LET x == Restored(Z.q[r], s, t, h)
        IN  /\ IsBack(x, Z.q[r], s.n)
            /\ x.published = IF cfg.mixed THEN 0 ELSE Len(h)
            /\ x.parent = IF cfg.mixed THEN ROOT_HASH ELSE SubSeq(s.tokens, 1, Len(h) * BlockSize)
    BY <1>1, <1>2, <1>3, <2>1, RestoredRequest
  <2> HIDE DEF d
  <2> QED
    BY <1>4, <2>2 DEF IsBack, IsRequest
<1> HIDE DEF d
<1>6. IsRequest(d) /\ Placed(d)
  <2>1. << >> \in Seq(Blocks) /\ Len(<< >>) = 0 /\ BlocksNeededFor(0) = 0
    BY BlocksFor
  <2>2. Len(Z.q[r].tokens) \in Nat /\ 0 < Len(Z.q[r].tokens)
    BY <1>1, LenProperties DEF IsRequest, Placed, TokenLists
  <2>3. IsRequest(d)
    BY <1>1, <1>4, <1>5, <2>1 DEF IsRequest
  <2>4. Placed(d)
    BY <1>4, <2>1, <2>2 DEF Placed
  <2> QED
    BY <2>3, <2>4
<1>7. /\ P \in Reclaims(Pinned(Z.pool, h), RestoreNeeds(s, h))
      /\ R = [Z EXCEPT !.pool = Unpinned(P, h), !.q[r] = d]
  BY DEF FailedFrom, d
<1>8. Seats(Unpinned(P, h), Z.q)
  BY <1>1, <1>2, <1>3, <1>7, UnpinSeats DEF Bare
<1>9. Seats(Unpinned(P, h), [Z.q EXCEPT ![r] = d])
  BY <1>1, <1>4, <1>6, <1>8, KeepSeats
<1>10. Zone(R) /\ R.pool = Unpinned(P, h) /\ R.store = Z.store /\ R.group = Z.group /\ R.pend = Z.pend /\ SameSnaps(R, Z)
       /\ R.q = [Z.q EXCEPT ![r] = d]
  BY <1>1, <1>7 DEF Zone, SameSnaps, SameBlocks
<1>11. StaysOut(R, Z, r, d)
  BY <1>4, <1>9, <1>10 DEF StaysOut
<1>12. SnapGood(R, hold)
  BY <1>11, StaysOutGood
<1> QED
  BY <1>11, <1>12 DEF d

\* remove: the snapshots, the records of use and the bytes of the sessions S go.
Removes(Y, Z, S) ==
  LET gone == {s \in Snaps(Z.store) : \E r \in S : Z.snapOf[r] = s.id}
  IN  /\ Y.store = Delete(Z.store, {s.id : s \in gone})
      /\ Y.snapOf = [r \in Sessions |-> IF r \in S THEN 0 ELSE Z.snapOf[r]]
      /\ Y.use = [r \in Sessions |-> IF r \in S THEN NoUse ELSE Z.use[r]]
      /\ Y.unsettled = Z.unsettled - SizeOf(gone) - UsedBy(Z, S)
      /\ Y.group = Z.group /\ Y.pend = Z.pend /\ SameBlocks(Y, Z)

LEMMA RemovedGood ==
  ASSUME NEW Z, NEW hold, SnapGood(Z, hold), Z.group = {}, NEW S \in SUBSET Sessions,
         Z.pend.on => Z.pend.meta.rid \notin S,
         NEW Y, Zone(Y), Removes(Y, Z, S), Seats(Y.pool, Y.q),
         \A x \in Sessions : x \notin S => Y.q[x] = Z.q[x], \A x \in S : Y.q[x].res # "cpu"
  PROVE  SnapGood(Y, hold) /\ Snaps(Y.store) \subseteq Snaps(Z.store)
<1> DEFINE gone == {s \in Snaps(Z.store) : \E r \in S : Z.snapOf[r] = s.id}
           I == {s.id : s \in gone}
<1>1. /\ Books(Z.store, hold) /\ Linked(Z) /\ UsesOK(Z.use)
      /\ \A x \in Sessions : Z.use[x].n # 0 => Z.q[x].st = "active"
  BY DEF SnapGood, Snapped, Settling, UsesOK
<1>2. gone = OfSessions(Z, S)
  BY <1>1, SnapshotOf
<1>3. {s \in Snaps(Z.store) : s.id \in I} = gone
  <2>1. \A s, o \in Snaps(Z.store) : s.id = o.id => s = o
    BY <1>1, SnapshotOf
  <2> QED
    BY <2>1
<1>4. /\ Y.store = Delete(Z.store, I) /\ Y.snapOf = [r \in Sessions |-> IF r \in S THEN 0 ELSE Z.snapOf[r]]
      /\ Y.use = [r \in Sessions |-> IF r \in S THEN NoUse ELSE Z.use[r]]
      /\ Y.unsettled = Z.unsettled - SizeOf(gone) - UsedBy(Z, S)
      /\ Y.group = Z.group /\ Y.pend = Z.pend /\ SameBlocks(Y, Z)
  BY DEF Removes
<1> HIDE DEF gone, I
<1>5. /\ Books(Y.store, hold) /\ Snaps(Y.store) = Snaps(Z.store) \ gone /\ Y.store.open = Z.store.open
      /\ SizeOf(Snaps(Z.store)) = SizeOf(gone) + SizeOf(Snaps(Y.store))
      /\ SizeOf(gone) \in Nat /\ SizeOf(Snaps(Y.store)) \in Nat
  BY <1>1, <1>3, <1>4, DeleteBooks
<1>6. UsesOK(Y.use) /\ \A x \in S : Y.use[x].n = 0
  BY <1>1, <1>4 DEF UsesOK, NoUse
<1>7. UsedBy(Y, S) = 0 /\ UsedBy(Z, S) \in Nat
  BY <1>1, <1>6, UsedNone, UsedParts
<1>8. UsedBy(Z, S) - UsedBy(Y, S) = UsedBy(Z, S)
  BY <1>7
<1>9. DOMAIN Y.q = Sessions
  BY DEF Seats, Requests
<1>10. Forgets(Y, Z, S, UsedBy(Z, S) - UsedBy(Y, S))
  BY <1>2, <1>4, <1>5, <1>8, <1>9 DEF Forgets
<1>11. Forgot(Y, Z, S, hold)
  BY <1>2, <1>4, <1>5, <1>6, <1>10 DEF Forgot
<1> QED
  BY <1>5, <1>11, ForgottenGood

\* A pending save of one of the sessions S is waited for and cancelled first.
Cancelled(Z, S) == IF Z.pend.on /\ Z.pend.meta.rid \in S THEN Waited(Z, TRUE) ELSE Z
IsCancelled(Y, Z, S) ==
  /\ Y.group = {} /\ (Y.pend.on => Y.pend.meta.rid \notin S)
  /\ Y = Z \/ (Z.pend.on /\ Z.pend.meta.rid \in S /\ Settles(Y, Z, Z.pend.meta.rid))

LEMMA CancelledGood ==
  ASSUME NEW Z, NEW hold, SnapGood(Z, hold), Z.group = {}, NEW S \in SUBSET Sessions
  PROVE  SnapGood(Cancelled(Z, S), hold) /\ IsCancelled(Cancelled(Z, S), Z, S)
<1>1. CASE Z.pend.on /\ Z.pend.meta.rid \in S
  <2> DEFINE Y == Waited(Z, TRUE)
  <2>1. SnapGood(Y, hold) /\ Idling(Y) /\ Settles(Y, Z, Z.pend.meta.rid)
    BY <1>1, WaitedGood
  <2> HIDE DEF Y
  <2>2. Y.group = {} /\ ~Y.pend.on
    BY <2>1 DEF Settles, Idling
  <2>3. Cancelled(Z, S) = Y
    BY <1>1 DEF Cancelled, Y
  <2> QED
    BY <1>1, <2>1, <2>2, <2>3 DEF IsCancelled
<1>2. CASE ~(Z.pend.on /\ Z.pend.meta.rid \in S)
  <2>1. Cancelled(Z, S) = Z
    BY <1>2 DEF Cancelled
  <2> QED
    BY <1>2, <2>1 DEF IsCancelled
<1> QED
  BY <1>1, <1>2

LEMMA RemoveAllParts ==
  ASSUME NEW Z, NEW hold, SnapGood(Z, hold), NEW S
  PROVE  LET C == Cancelled(Z, S)
             R == RemoveAll(Z, S)
         IN  SnapGood(C, hold) => Removes(R, C, S) /\ R.q = C.q /\ R.pool = C.pool /\ R.kv = C.kv /\ Zone(R)
<1> DEFINE C == Cancelled(Z, S)
           R == RemoveAll(Z, S)
<1>1. SUFFICES ASSUME SnapGood(C, hold)
               PROVE  Removes(R, C, S) /\ R.q = C.q /\ R.pool = C.pool /\ R.kv = C.kv /\ Zone(R)
  OBVIOUS
<1>2. R = LET gone == {s \in Snaps(C.store) : \E r \in S : C.snapOf[r] = s.id}
          IN  [C EXCEPT !.store = Delete(@, {s.id : s \in gone}),
                !.snapOf = [r \in Sessions |-> IF r \in S THEN 0 ELSE @[r]],
                !.use = [r \in Sessions |-> IF r \in S THEN NoUse ELSE @[r]],
                !.unsettled = @ - SizeOf(gone) - UsedBy(C, S)]
  BY DEF RemoveAll, Cancelled
<1>3. Zone(C)
  BY <1>1 DEF SnapGood
<1> HIDE DEF C, R
<1> QED
  BY <1>2, <1>3 DEF Removes, Zone, SameBlocks

\* finish_request.
LEMMA FinishedGood ==
  ASSUME ~Tiered, NEW Z, NEW hold, SnapGood(Z, hold), Z.group = {}, NEW S \in SUBSET Sessions
  PROVE  LET Y == Finished(Z, S)
             C == Cancelled(Z, S)
         IN  /\ SnapGood(Y, hold) /\ IsCancelled(C, Z, S) /\ Y.group = {}
             /\ Y.q = [r \in Sessions |-> IF r \in S THEN NoReq ELSE C.q[r]] /\ Y.kv = C.kv
             /\ Y.pool = DeallocateAll(C.pool, [r \in S |-> C.q[r].table])
             /\ Y.pend = C.pend /\ Snaps(Y.store) \subseteq Snaps(C.store)
<1> DEFINE Y == Finished(Z, S)
           C == Cancelled(Z, S)
           R == RemoveAll(Z, S)
<1>1. SnapGood(C, hold) /\ IsCancelled(C, Z, S)
  BY CancelledGood
<1>2. Removes(R, C, S) /\ R.q = C.q /\ R.pool = C.pool /\ R.kv = C.kv /\ Zone(R)
  BY <1>1, RemoveAllParts
<1>3. Y = [R EXCEPT !.pool = DeallocateAll(@, [r \in S |-> R.q[r].table]),
                !.q = [r \in Sessions |-> IF r \in S THEN NoReq ELSE @[r]]]
  BY DEF Finished, Forgotten
<1> HIDE DEF Y, C, R
<1>4. /\ Zone(Y) /\ Removes(Y, C, S) /\ Y.kv = C.kv
      /\ Y.q = [r \in Sessions |-> IF r \in S THEN NoReq ELSE C.q[r]]
      /\ Y.pool = DeallocateAll(C.pool, [r \in S |-> C.q[r].table])
  BY <1>2, <1>3 DEF Zone, Removes, SameBlocks
<1>5. Seats(Y.pool, Y.q)
  <2>1. Seats(C.pool, C.q)
    BY <1>1 DEF SnapGood, Seated
  <2> QED
    BY <1>4, <2>1, FinishSeats
<1>6. C.group = {} /\ (C.pend.on => C.pend.meta.rid \notin S)
  BY <1>1 DEF IsCancelled
<1>7. (\A x \in Sessions : x \notin S => Y.q[x] = C.q[x]) /\ (\A x \in S : Y.q[x].res # "cpu")
  BY <1>4 DEF NoReq
<1>8. SnapGood(Y, hold) /\ Snaps(Y.store) \subseteq Snaps(C.store)
  BY <1>1, <1>4, <1>5, <1>6, <1>7, RemovedGood
<1>9. Y.group = {} /\ Y.pend = C.pend
  BY <1>4, <1>6 DEF Removes
<1> QED
  BY <1>1, <1>4, <1>8, <1>9 DEF Y, C

\* The oldest session loses its KV altogether.
LEMMA DroppedRequest ==
  ASSUME NEW c, IsRequest(c), Placed(c), c.st = "parked"
  PROVE  LET d == Dropped(c)
         IN  /\ IsRequest(d) /\ Placed(d) /\ d.st = "parked" /\ d.res = "none" /\ d.table = << >> /\ d.computed = 0
             /\ d.published = 0 /\ d.tokens = c.tokens /\ d.parent = c.parent
<1> DEFINE d == Dropped(c)
<1>1. /\ d.st = "parked" /\ d.res = "none" /\ d.table = << >> /\ d.computed = 0 /\ d.snap = 0
      /\ d.published = 0 /\ d.tokens = c.tokens /\ d.parent = c.parent /\ DOMAIN d = DOMAIN c
  BY DEF Dropped, IsRequest
<1> HIDE DEF d
<1>2. << >> \in Seq(Blocks) /\ Len(<< >>) = 0 /\ BlocksNeededFor(0) = 0
  BY BlocksFor
<1>3. Len(c.tokens) \in Nat /\ c.computed < Len(c.tokens) /\ c.computed \in Nat
  BY LenProperties DEF IsRequest, Placed, TokenLists
<1>4. IsRequest(d)
  BY <1>1, <1>2 DEF IsRequest
<1>5. Placed(d)
  BY <1>1, <1>2, <1>3 DEF Placed
<1> QED
  BY <1>1, <1>4, <1>5 DEF d

LEMMA DropGood ==
  ASSUME ~Tiered, NEW Z, NEW hold, SnapGood(Z, hold), Z.group = {}, NEW r \in Sessions, Z.q[r].st = "parked"
  PROVE  LET R == Forgotten(Z, {r})
             Y == [R EXCEPT !.pool = Deallocate(@, R.q[r].table), !.q[r] = Dropped(@)]
             C == Cancelled(Z, {r})
         IN  /\ SnapGood(Y, hold) /\ IsCancelled(C, Z, {r}) /\ Y.group = {}
             /\ Y.q = [C.q EXCEPT ![r] = Dropped(C.q[r])] /\ Y.kv = C.kv
             /\ Y.pool = Deallocate(C.pool, C.q[r].table)
             /\ Y.pend = C.pend /\ Snaps(Y.store) \subseteq Snaps(C.store)
<1> DEFINE R == Forgotten(Z, {r})
           Y == [R EXCEPT !.pool = Deallocate(@, R.q[r].table), !.q[r] = Dropped(@)]
           C == Cancelled(Z, {r})
<1>1. SnapGood(C, hold) /\ IsCancelled(C, Z, {r})
  BY CancelledGood
<1>2. Removes(R, C, {r}) /\ R.q = C.q /\ R.pool = C.pool /\ R.kv = C.kv /\ Zone(R)
  <2>1. R = RemoveAll(Z, {r})
    BY DEF Forgotten
  <2> HIDE DEF C, R
  <2> QED
    BY <1>1, <2>1, RemoveAllParts DEF C
<1> HIDE DEF C, R
<1>3. Seats(C.pool, C.q) /\ Requests(C.q) /\ DOMAIN C.q = Sessions
  BY <1>1 DEF SnapGood, Seated, Seats, Requests
<1>4. C.q[r].st = "parked"
  BY <1>1 DEF IsCancelled, Settles
<1> DEFINE d == Dropped(C.q[r])
<1>5. IsRequest(d) /\ Placed(d) /\ d.res = "none" /\ d.table = << >>
  BY <1>3, <1>4, DroppedRequest DEF Requests
<1> HIDE DEF d
<1>6. /\ Zone(Y) /\ Removes(Y, C, {r}) /\ Y.kv = C.kv
      /\ Y.q = [C.q EXCEPT ![r] = d]
      /\ Y.pool = Deallocate(C.pool, C.q[r].table)
  BY <1>2 DEF Zone, Removes, SameBlocks, d
<1> HIDE DEF Y
<1>7. Seats(Y.pool, Y.q)
  BY <1>3, <1>5, <1>6, DeallocateSeats
<1>8. C.group = {} /\ (C.pend.on => C.pend.meta.rid \notin {r})
  BY <1>1 DEF IsCancelled
<1>9. (\A x \in Sessions : x \notin {r} => Y.q[x] = C.q[x]) /\ (\A x \in {r} : Y.q[x].res # "cpu")
  BY <1>3, <1>5, <1>6
<1>10. SnapGood(Y, hold) /\ Snaps(Y.store) \subseteq Snaps(C.store)
  <2>1. PICK S : S = {r}
    OBVIOUS
  <2>2. S \in SUBSET Sessions /\ (C.pend.on => C.pend.meta.rid \notin S) /\ Removes(Y, C, S)
    BY <1>6, <1>8, <2>1
  <2>3. (\A x \in Sessions : x \notin S => Y.q[x] = C.q[x]) /\ (\A x \in S : Y.q[x].res # "cpu")
    BY <1>9, <2>1
  <2> QED
    BY <1>1, <1>6, <1>7, <1>8, <2>2, <2>3, RemovedGood
<1>11. Y.group = {} /\ Y.pend = C.pend
  BY <1>6, <1>8 DEF Removes
<1> QED
  BY <1>1, <1>6, <1>10, <1>11 DEF Y, C, R, d

\* Nobody holds a block and nothing is cached.
LEMMA EmptySeats ==
  ASSUME NEW Q, Requests(Q), \A r \in Sessions : Q[r].table = << >>
  PROVE  Seats(EmptyPool, Q)
<1>1. /\ EmptyPool.free = Blocks /\ EmptyPool.ref = [b \in Blocks |-> 0] /\ EmptyPool.cache = {}
      /\ EmptyPool \in PoolType
  BY DEF EmptyPool, PoolType
<1>2. IsFiniteSet({}) /\ Cardinality({}) = 0
  BY FS_EmptySet
<1>3. ASSUME NEW b \in Blocks
      PROVE  Held(Tables(Q), b) = 0 /\ Copies({}, b) = 0
  <2>1. Slots(Tables(Q), b) = {}
    BY DEF Slots, Tables
  <2>2. CopiesOf({}, b) = {}
    BY DEF CopiesOf
  <2> QED
    BY <1>2, <2>1, <2>2 DEF Held, Copies
<1>4. Counted(EmptyPool, Tables(Q))
  BY <1>1, <1>2, <1>3 DEF Counted
<1>5. NoneShared(EmptyPool)
  BY <1>1 DEF NoneShared
<1> QED
  BY <1>1, <1>4, <1>5 DEF Seats

\* No session has anything on the host, and nothing is reserved.
Cleared(Y) ==
  /\ Snaps(Y.store) = {} /\ Y.store.open = {} /\ Y.group = {} /\ ~Y.pend.on /\ Y.unsettled = 0
  /\ Y.snapOf = [r \in Sessions |-> 0] /\ Y.use = [r \in Sessions |-> NoUse]

LEMMA ClearedGood ==
  ASSUME NEW Y, Zone(Y), Seats(Y.pool, Y.q), NoBlocks(Y), Books(Y.store, NoHold), Cleared(Y), Idling(Y),
         \A r \in Sessions : Y.q[r].res # "cpu"
  PROVE  SnapGood(Y, NoHold)
<1>1. Linked(Y)
  BY DEF Linked, Cleared
<1>2. Settling(Y)
  <2>1. \A r \in Sessions : Y.use[r].n = 0
    BY DEF Cleared, NoUse
  <2>2. UsedBy(Y, Sessions) = 0 /\ SizeOf(Snaps(Y.store)) = 0
    BY <2>1, UsedNone, SizeNone DEF Cleared
  <2> QED
    BY <2>1, <2>2 DEF Settling, Cleared
<1>3. Reserved(Y) /\ GroupHeld(Y) /\ SourceHeld(Y)
  BY DEF Reserved, GroupHeld, SourceHeld, Cleared, Idling
<1> QED
  BY <1>1, <1>2, <1>3 DEF SnapGood, Snapped, Seated

\* invalidate_all, and the reset of the pool after it, with the sessions S parked.
Emptied(Z, S) ==
  LET I == InvalidatedAll(Z)
  IN  [I EXCEPT !.pool = EmptyPool,
                !.q = [r \in Sessions |-> IF r \in S THEN [Dropped(I.q[r]) EXCEPT !.st = "parked"] ELSE I.q[r]]]

LEMMA InvalidatedGood ==
  ASSUME ~Tiered, NEW Z, NEW hold, SnapGood(Z, hold), \A r \in Sessions : Z.q[r].st # "active",
         NEW S, S = {r \in Sessions : Z.q[r].st = "parked"}, NEW Y, Y = Emptied(Z, S)
  PROVE  SnapGood(Y, NoHold) /\ Y.group = {}
         /\ \A r \in Sessions : Y.q[r].st = Z.q[r].st /\ Y.q[r].tokens = Z.q[r].tokens /\ Y.q[r].table = << >>
<1> DEFINE W == Waited(Z, TRUE)
           C == CloseGroup(W)
           I == InvalidatedAll(Z)
<1>1. SnapGood(W, hold) /\ Idling(W) /\ (Z.pend.on => Settles(W, Z, Z.pend.meta.rid)) /\ (~Z.pend.on => W = Z)
  BY WaitedGood
<1>2. \A x \in Sessions : W.q[x].st = Z.q[x].st /\ W.q[x].tokens = Z.q[x].tokens
  BY <1>1 DEF Settles
<1> HIDE DEF W
<1>3. SnapGood(C, hold) /\ C.group = {} /\ C.q = W.q /\ C.pend = W.pend
  BY <1>1, CloseGroupGood
<1>4. I = [C EXCEPT !.store = InvalidateStore(@),
                !.unsettled = @ - SizeOf(Snaps(C.store)) - UsedBy(C, Sessions),
                !.use = [r \in Sessions |-> NoUse],
                !.snapOf = [r \in Sessions |-> 0]]
  BY DEF InvalidatedAll, Invalidated, W
<1> HIDE DEF C, I
<1>5. Zone(C) /\ Seats(C.pool, C.q) /\ Requests(C.q) /\ NoBlocks(C) /\ Books(C.store, hold) /\ Settling(C)
  BY <1>3 DEF SnapGood, Seated, Seats, Snapped
<1>6. /\ Zone(I) /\ I.store = InvalidateStore(C.store) /\ I.unsettled = C.unsettled - SizeOf(Snaps(C.store)) - UsedBy(C, Sessions)
      /\ I.use = [r \in Sessions |-> NoUse] /\ I.snapOf = [r \in Sessions |-> 0] /\ I.q = C.q /\ I.pend = C.pend
      /\ I.group = C.group /\ SameBlocks(I, C)
  BY <1>4, <1>5 DEF Zone, SameBlocks
<1>7. PICK N : N = [r \in Sessions |-> IF r \in S THEN [Dropped(I.q[r]) EXCEPT !.st = "parked"] ELSE I.q[r]]
  OBVIOUS
<1>8. Y = [I EXCEPT !.pool = EmptyPool, !.q = N]
  BY <1>7 DEF Emptied, I
<1>9. /\ Zone(Y) /\ Y.pool = EmptyPool /\ Y.q = N /\ Y.store = I.store /\ Y.unsettled = I.unsettled
      /\ Y.use = I.use /\ Y.snapOf = I.snapOf /\ Y.pend = I.pend /\ Y.group = I.group /\ SameBlocks(Y, I)
  BY <1>6, <1>8 DEF Zone, SameBlocks
<1>10. ASSUME NEW r \in Sessions
       PROVE  /\ IsRequest(N[r]) /\ Placed(N[r]) /\ N[r].table = << >> /\ N[r].res # "cpu"
              /\ N[r].st = Z.q[r].st /\ N[r].tokens = Z.q[r].tokens
  <2>1. IsRequest(C.q[r]) /\ Placed(C.q[r]) /\ C.q[r].st = Z.q[r].st /\ C.q[r].tokens = Z.q[r].tokens
    BY <1>2, <1>3, <1>5 DEF Requests
  <2>2. CASE r \in S
    <3>1. C.q[r].st = "parked"
      BY <2>1, <2>2
    <3>2. PICK d : d = Dropped(C.q[r])
      OBVIOUS
    <3>3. IsRequest(d) /\ Placed(d) /\ d.st = "parked" /\ d.res = "none" /\ d.table = << >> /\ d.tokens = C.q[r].tokens
      BY <2>1, <3>1, <3>2, DroppedRequest
    <3>4. N[r] = [d EXCEPT !.st = "parked"]
      BY <1>6, <1>7, <2>2, <3>2
    <3>5. PICK e : e = N[r]
      OBVIOUS
    <3>6. /\ DOMAIN e = DOMAIN d /\ e.st = "parked" /\ e.res = d.res /\ e.table = d.table /\ e.tokens = d.tokens
          /\ e.computed = d.computed /\ e.published = d.published /\ e.parent = d.parent /\ e.snap = d.snap
      BY <3>3, <3>4, <3>5 DEF IsRequest
    <3>7. IsRequest(e) /\ Placed(e)
      BY <3>3, <3>6 DEF IsRequest, Placed
    <3> QED
      BY <2>1, <2>2, <3>3, <3>5, <3>6, <3>7
  <2>3. CASE r \notin S
    <3>1. C.q[r].st = "gone"
      BY <2>1, <2>3 DEF IsRequest
    <3>2. N[r] = C.q[r]
      BY <1>6, <1>7, <2>3
    <3> QED
      BY <2>1, <3>1, <3>2 DEF Placed
  <2> QED
    BY <2>2, <2>3
<1>11. DOMAIN N = Sessions
  BY <1>7
<1>12. Seats(Y.pool, Y.q)
  BY <1>9, <1>10, <1>11, EmptySeats DEF Requests
<1>13. /\ Books(Y.store, NoHold) /\ Snaps(Y.store) = {} /\ Y.store.open = {}
  <2>1. PICK X : X = C.store
    OBVIOUS
  <2>2. LET R == InvalidateStore(X) IN Books(R, NoHold) /\ Snaps(R) = {} /\ R.open = {}
    BY <1>5, <2>1, InvalidBooks, Zenon
  <2> QED
    BY <1>6, <1>9, <2>1, <2>2
<1>14. Y.unsettled = 0
  <2>1. C.unsettled = SizeOf(Snaps(C.store)) + UsedBy(C, Sessions) /\ UsesOK(C.use)
    BY <1>5 DEF Settling, UsesOK
  <2>2. UsedBy(C, Sessions) \in Nat
    BY <2>1, UsedParts
  <2>3. SizeOf(Snaps(C.store)) \in Nat
    <3>1. Sized(Snaps(C.store))
      BY <1>5, BooksNumbers DEF Books, Numbers
    <3> QED
      BY <3>1, SizeParts
  <2> QED
    BY <1>6, <1>9, <2>1, <2>2, <2>3
<1>15. Cleared(Y) /\ Idling(Y) /\ NoBlocks(Y)
  BY <1>1, <1>3, <1>5, <1>6, <1>9, <1>13, <1>14 DEF Cleared, Idling, NoBlocks, SameBlocks
<1>16. SnapGood(Y, NoHold)
  BY <1>9, <1>10, <1>12, <1>13, <1>15, ClearedGood
<1> QED
  BY <1>3, <1>6, <1>9, <1>10, <1>16

\* The request of r changes, but not where its KV is.
LEMMA BackGood ==
  ASSUME NEW Z, NEW hold, SnapGood(Z, hold), Z.group = {}, NEW r \in Sessions, Z.q[r].res # "cpu",
         Z.pend.on => Z.pend.meta.rid # r, NEW Y, NEW c, Back(Y, Z, r, c), c.res # "cpu",
         Z.q[r].st # "active" \/ c.st = "active"
  PROVE  SnapGood(Y, hold)
<1>1. DOMAIN Z.q = Sessions /\ Settling(Z)
  BY DEF SnapGood, Snapped, Seated, Seats, Requests
<1>2. UsesOK(Z.use) /\ (Z.use[r].n # 0 => Z.q[r].st = "active")
      /\ Z.unsettled = SizeOf(Snaps(Z.store)) + UsedBy(Z, Sessions)
  BY <1>1 DEF Settling, UsesOK
<1>3. Z.unsettled \in Nat
  <2>1. Sized(Snaps(Z.store)) /\ Snaps(Z.store) \in SUBSET Snaps(Z.store) /\ Sessions \in SUBSET Sessions
    BY BooksNumbers DEF SnapGood, Snapped, Books, Numbers
  <2>2. SizeOf(Snaps(Z.store)) \in Nat
    BY <2>1, SizeParts
  <2>3. UsedBy(Z, Sessions) \in Nat
    BY <1>2, <2>1, UsedParts
  <2> QED
    BY <1>2, <2>2, <2>3
<1>4. Y.q[r] = c /\ DOMAIN Y.q = Sessions /\ \A x \in Sessions : x # r => Y.q[x] = Z.q[x]
  BY <1>1 DEF Back
<1>5. Y.use = Z.use /\ Y.unsettled = Z.unsettled
  BY DEF Back, SameSnaps
<1>6. Z.use[r].n \in Nat
  BY <1>2 DEF UsesOK
<1>7. Y.unsettled = Z.unsettled - Z.use[r].n + Y.use[r].n
  BY <1>3, <1>5, <1>6
<1>8. Rewrites(Y, Z, r)
  BY <1>2, <1>4, <1>5, <1>7 DEF Rewrites, UsesOK, Back, SameSnaps
<1>9. Zone(Y) /\ Seats(Y.pool, Y.q)
  BY DEF Back
<1> QED
  BY <1>8, <1>9, RewrittenGood

\* A turn has run: what its restore brought back is settled.
LEMMA RanGood ==
  ASSUME NEW Z, NEW hold, SnapGood(Z, hold), Z.group = {}, NEW r \in Sessions, Z.q[r].st = "active",
         NEW c, c.res # "cpu", NEW Y, Zone(Y), Seats(Y.pool, Y.q), Y.q = [Z.q EXCEPT ![r] = c],
         Y.use = [Z.use EXCEPT ![r] = NoUse], Y.unsettled = Z.unsettled - Z.use[r].n,
         Y.store = Z.store, Y.snapOf = Z.snapOf, Y.group = Z.group, Y.pend = Z.pend, SameBlocks(Y, Z)
  PROVE  SnapGood(Y, hold)
<1>1. DOMAIN Z.q = Sessions /\ Settling(Z) /\ Placed(Z.q[r]) /\ SourceHeld(Z)
  BY DEF SnapGood, Snapped, Seated, Seats, Requests
<1>2. UsesOK(Z.use) /\ Z.unsettled = SizeOf(Snaps(Z.store)) + UsedBy(Z, Sessions)
  BY <1>1 DEF Settling, UsesOK
<1>3. Z.unsettled \in Nat
  <2>1. Sized(Snaps(Z.store)) /\ Snaps(Z.store) \in SUBSET Snaps(Z.store) /\ Sessions \in SUBSET Sessions
    BY BooksNumbers DEF SnapGood, Snapped, Books, Numbers
  <2>2. SizeOf(Snaps(Z.store)) \in Nat
    BY <2>1, SizeParts
  <2>3. UsedBy(Z, Sessions) \in Nat
    BY <1>2, <2>1, UsedParts
  <2> QED
    BY <1>2, <2>2, <2>3
<1>4. Y.q[r] = c /\ DOMAIN Y.q = Sessions /\ \A x \in Sessions : x # r => Y.q[x] = Z.q[x]
  BY <1>1
<1>5. Y.use[r].n = 0 /\ DOMAIN Y.use = Sessions /\ \A x \in Sessions : x # r => Y.use[x] = Z.use[x]
  BY <1>2 DEF UsesOK, NoUse
<1>6. Z.use[r].n \in Nat
  BY <1>2 DEF UsesOK
<1>7. Y.unsettled = Z.unsettled - Z.use[r].n + Y.use[r].n
  BY <1>3, <1>5, <1>6
<1>8. Z.q[r].res # "cpu" /\ (Z.pend.on => Z.pend.meta.rid # r)
  BY <1>1 DEF Placed, SourceHeld
<1>9. Rewrites(Y, Z, r)
  BY <1>4, <1>5, <1>7, <1>8 DEF Rewrites
<1> QED
  BY <1>8, <1>9, RewrittenGood

(***************************************************************************)
(* The block manager.                                                      *)
(***************************************************************************)
BlockGood(Z) == Zone(Z) /\ Seated(Z) /\ NoSnapshots(Z) /\ Manifests(Z) /\ LeaseHeld(Z)

LEMMA GoodBlocks ==
  ASSUME Tiered, NEW Z, NEW hold
  PROVE  Good(Z, hold) <=> BlockGood(Z) /\ hold = NoHold
BY DEF Good, BlockGood, Hosted, Blocked

\* The request of r changes, but not where its KV is.
LEMMA BlockBackGood ==
  ASSUME NEW Z, BlockGood(Z), ~Z.lease.on, NEW r \in Sessions,
         NEW Y, NEW c, Back(Y, Z, r, c), c.res # "cpu", c.st # "gone"
  PROVE  BlockGood(Y)
<1>1. DOMAIN Z.q = Sessions /\ Zone(Y) /\ Seated(Y)
  BY DEF BlockGood, Seated, Seats, Requests, Back
<1>2. Y.q[r] = c /\ \A x \in Sessions : x # r => Y.q[x] = Z.q[x]
  BY <1>1 DEF Back
<1>3. /\ Y.store = Z.store /\ Y.group = Z.group /\ Y.pend = Z.pend /\ Y.snapOf = Z.snapOf /\ Y.use = Z.use
      /\ Y.unsettled = Z.unsettled /\ Y.blocks = Z.blocks /\ Y.man = Z.man /\ Y.lease = Z.lease
  BY DEF Back, SameSnaps, SameBlocks
<1>4. NoSnapshots(Y)
  BY <1>3 DEF BlockGood, NoSnapshots
<1>5. Manifests(Y)
  BY <1>2, <1>3 DEF BlockGood, Manifests
<1>6. LeaseHeld(Y)
  BY <1>3 DEF BlockGood, LeaseHeld
<1> QED
  BY <1>1, <1>4, <1>5, <1>6 DEF BlockGood

LEMMA GoodBack ==
  ASSUME NEW Z, NEW hold, Good(Z, hold), Z.group = {}, ~Z.lease.on, NEW r \in Sessions, Z.q[r].res # "cpu",
         Z.pend.on => Z.pend.meta.rid # r, NEW Y, NEW c, Back(Y, Z, r, c), c.res # "cpu", c.st # "gone",
         Z.q[r].st # "active" \/ c.st = "active"
  PROVE  Good(Y, hold)
<1>1. CASE Tiered
  BY <1>1, GoodBlocks, BlockBackGood
<1>2. CASE ~Tiered
  BY <1>2, GoodSnaps, BackGood
<1> QED
  BY <1>1, <1>2

\* A request is admitted with whatever is cached of its prompt.
LEMMA ColdRequest ==
  ASSUME NEW toks \in TokenLists, toks # << >>
  PROVE  LET c == Admitted(toks)
         IN  IsRequest(c) /\ c.st = "active" /\ c.res = "none" /\ c.computed < Len(c.tokens) /\ c.tokens = toks
             /\ c.computed = 0 /\ c.table = << >>
<1> DEFINE c == Admitted(toks)
<1>1. /\ DOMAIN c = DOMAIN NoReq /\ c.st = "active" /\ c.tokens = toks /\ c.computed = 0 /\ c.table = << >>
      /\ c.published = 0 /\ c.parent = ROOT_HASH /\ c.res = "none" /\ c.snap = 0
  BY DEF Admitted, NoReq
<1> HIDE DEF c
<1>2. IsRequest(NoReq)
  BY NoReqPlaced
<1>3. Len(toks) \in Nat /\ Len(toks) > 0
  BY LenProperties DEF TokenLists
<1>4. IsRequest(c)
  BY <1>1, <1>2 DEF IsRequest, NoReq
<1> QED
  BY <1>1, <1>3, <1>4 DEF c

LEMMA ColdBack ==
  ASSUME NEW Z, Zone(Z), Seats(Z.pool, Z.q), NEW r \in Sessions, Bare(Z.q[r].table),
         NEW toks \in TokenLists, toks # << >>, NEW t \in Attaching(Z.pool, Admitted(toks)),
         NEW Y, Y = [Z EXCEPT !.pool = AttachPool(@, t), !.q[r] = Attached(Admitted(toks), t)]
  PROVE  /\ Back(Y, Z, r, Attached(Admitted(toks), t))
         /\ Attached(Admitted(toks), t).st = "active" /\ Attached(Admitted(toks), t).res # "cpu"
<1> DEFINE c == Admitted(toks)
           a == Attached(c, t)
<1>1. IsRequest(c) /\ c.st = "active" /\ c.res = "none" /\ c.computed < Len(c.tokens)
  BY ColdRequest
<1>2. t \in Attaching(Z.pool, c) /\ c.st # "gone" /\ c.res # "cpu"
  BY <1>1
<1>3. Seats(AttachPool(Z.pool, t), [Z.q EXCEPT ![r] = a])
  <2> HIDE DEF c
  <2> QED
    BY <1>1, <1>2, AttachSeats
<1>4. a.st = "active" /\ a.res # "cpu"
  <2>1. Z.pool \in PoolOf(TokenLists)
    BY SeatsFacts
  <2> HIDE DEF c
  <2>2. t \in Seq(Blocks) /\ Len(t) * BlockSize < Len(c.tokens)
    BY <1>1, <1>2, <2>1, AttachingFacts
  <2> QED
    BY <1>1, <1>2, <2>2, AttachedRequest
<1> HIDE DEF a
<1>5. Y = [Z EXCEPT !.pool = AttachPool(Z.pool, t), !.q = [Z.q EXCEPT ![r] = a]]
  BY DEF a, Zone
<1>6. Back(Y, Z, r, a)
  BY <1>3, <1>5 DEF Back, Zone, SameSnaps, SameBlocks
<1> QED
  BY <1>4, <1>6 DEF a

\* A parked session is resumed, from the GPU or from nothing.
LEMMA ResumedBack ==
  ASSUME NEW Z, Zone(Z), Seats(Z.pool, Z.q), NEW r \in Sessions, Z.q[r].st = "parked", Z.q[r].res # "cpu",
         NEW suffix \in TokenLists
  PROVE  LET d == [Z.q[r] EXCEPT !.st = "active", !.tokens = @ \o suffix]
         IN  Back(Resumed(Z, r, suffix), Z, r, d) /\ d.st = "active" /\ d.res # "cpu"
<1> DEFINE Y == Resumed(Z, r, suffix)
<1>0. PICK c : c = Z.q[r]
  OBVIOUS
<1>1. IsRequest(c) /\ Placed(c) /\ c.st = "parked" /\ c.res # "cpu"
  BY <1>0 DEF Seats, Requests
<1>2. LET d == [c EXCEPT !.st = "active", !.tokens = @ \o suffix]
      IN  /\ IsRequest(d) /\ Placed(d) /\ d.st = "active" /\ d.res # "cpu" /\ d.table = c.table
          /\ d.tokens = c.tokens \o suffix /\ d.computed = c.computed /\ d.published = c.published /\ d.parent = c.parent
  BY <1>1, ResumedRequest, Zenon
<1>3. PICK v : v = [c EXCEPT !.st = "active", !.tokens = @ \o suffix]
  OBVIOUS
<1>4. Y = [Z EXCEPT !.q = [Z.q EXCEPT ![r] = v]]
  BY <1>0, <1>3 DEF Resumed, Zone
<1> HIDE DEF Y
<1>5. IsRequest(v) /\ Placed(v) /\ v.st = "active" /\ v.res # "cpu" /\ v.table = Z.q[r].table
  BY <1>0, <1>2, <1>3
<1>6. Seats(Z.pool, [Z.q EXCEPT ![r] = v])
  BY <1>5, KeepSeats
<1>7. Back(Y, Z, r, v)
  BY <1>4, <1>6 DEF Back, Zone, SameSnaps, SameBlocks
<1> QED
  BY <1>0, <1>3, <1>5, <1>7 DEF Y

LEMMA EvictedFinite ==
  ASSUME NEW X, IsFiniteSet(DOMAIN X), NEW K
  PROVE  IsFiniteSet(DOMAIN EvictBlocks(X, K))
<1>1. DOMAIN EvictBlocks(X, K) \subseteq DOMAIN X
  BY DEF EvictBlocks, Without
<1> QED
  BY <1>1, FS_Subset

\* remove: the manifests of the sessions S go.
BlockRemoves(Y, Z, S) ==
  /\ Y.man = [r \in Sessions |-> IF r \in S THEN NoMan ELSE Z.man[r]]
  /\ \E K : Y.blocks = EvictBlocks(Z.blocks, K)
  /\ Y.store = Z.store /\ Y.snapOf = Z.snapOf /\ Y.group = Z.group /\ Y.pend = Z.pend /\ Y.use = Z.use
  /\ Y.unsettled = Z.unsettled /\ Y.lease = Z.lease

LEMMA BlockRemovedGood ==
  ASSUME NEW Z, BlockGood(Z), ~Z.lease.on, NEW S \in SUBSET Sessions,
         NEW Y, Zone(Y), BlockRemoves(Y, Z, S), Seats(Y.pool, Y.q),
         \A x \in Sessions : x \notin S => Y.q[x] = Z.q[x], \A x \in S : Y.q[x].res # "cpu"
  PROVE  BlockGood(Y)
<1>1. NoSnapshots(Y)
  BY DEF BlockGood, NoSnapshots, BlockRemoves
<1>2. Manifests(Y)
  <2>1. DOMAIN Y.man = Sessions
    BY DEF BlockRemoves
  <2>2. ASSUME NEW r \in Sessions
        PROVE  /\ Y.man[r] # NoMan => IsManifest(Y.man[r], r) /\ Y.q[r].st # "gone"
               /\ Y.q[r].res = "cpu" => /\ Y.man[r].id # 0 /\ Y.man[r].tokens = Y.q[r].tokens
                                        /\ Y.man[r].id = Y.q[r].snap
    <3>1. CASE r \in S
      BY <3>1 DEF BlockRemoves
    <3>2. CASE r \notin S
      BY <3>2 DEF BlockRemoves, BlockGood, Manifests
    <3> QED
      BY <3>1, <3>2
  <2> QED
    BY <2>1, <2>2 DEF Manifests
<1>3. LeaseHeld(Y)
  BY EvictedFinite DEF BlockGood, LeaseHeld, BlockRemoves
<1> QED
  BY <1>1, <1>2, <1>3 DEF BlockGood, Seated

LEMMA BlockForgotten ==
  ASSUME Tiered, NEW Z, Zone(Z), NEW S
  PROVE  LET R == Forgotten(Z, S)
         IN  Zone(R) /\ BlockRemoves(R, Z, S) /\ R.q = Z.q /\ R.pool = Z.pool /\ R.kv = Z.kv
<1> DEFINE R == Forgotten(Z, S)
<1>1. R = [Z EXCEPT !.man = [r \in Sessions |-> IF r \in S THEN NoMan ELSE @[r]],
            !.blocks = EvictBlocks(@, UNION {TailsOf(Z.man[r]) : r \in S})]
  BY DEF Forgotten, BlockRemove
<1> HIDE DEF R
<1> QED
  BY <1>1 DEF Zone, BlockRemoves, R

LEMMA BlockFinishedGood ==
  ASSUME Tiered, NEW Z, BlockGood(Z), ~Z.lease.on, NEW S \in SUBSET Sessions
  PROVE  LET Y == Finished(Z, S)
         IN  /\ BlockGood(Y) /\ Y.q = [r \in Sessions |-> IF r \in S THEN NoReq ELSE Z.q[r]] /\ Y.kv = Z.kv
             /\ Y.pool = DeallocateAll(Z.pool, [r \in S |-> Z.q[r].table]) /\ BlockRemoves(Y, Z, S)
<1> DEFINE Y == Finished(Z, S)
           R == Forgotten(Z, S)
<1>1. Zone(R) /\ BlockRemoves(R, Z, S) /\ R.q = Z.q /\ R.pool = Z.pool /\ R.kv = Z.kv
  BY BlockForgotten DEF BlockGood
<1>2. Y = [R EXCEPT !.pool = DeallocateAll(@, [r \in S |-> R.q[r].table]),
                !.q = [r \in Sessions |-> IF r \in S THEN NoReq ELSE @[r]]]
  BY DEF Finished
<1> HIDE DEF Y, R
<1>3. /\ Zone(Y) /\ BlockRemoves(Y, Z, S) /\ Y.kv = Z.kv
      /\ Y.q = [r \in Sessions |-> IF r \in S THEN NoReq ELSE Z.q[r]]
      /\ Y.pool = DeallocateAll(Z.pool, [r \in S |-> Z.q[r].table])
  BY <1>1, <1>2 DEF Zone, BlockRemoves
<1>4. Seats(Y.pool, Y.q)
  BY <1>3, FinishSeats DEF BlockGood, Seated
<1>5. (\A x \in Sessions : x \notin S => Y.q[x] = Z.q[x]) /\ (\A x \in S : Y.q[x].res # "cpu")
  BY <1>3 DEF NoReq
<1> QED
  BY <1>3, <1>4, <1>5, BlockRemovedGood DEF Y

LEMMA BlockDropGood ==
  ASSUME Tiered, NEW Z, BlockGood(Z), ~Z.lease.on, NEW r \in Sessions, Z.q[r].st = "parked"
  PROVE  LET R == Forgotten(Z, {r})
             Y == [R EXCEPT !.pool = Deallocate(@, R.q[r].table), !.q[r] = Dropped(@)]
         IN  /\ BlockGood(Y) /\ Y.q = [Z.q EXCEPT ![r] = Dropped(Z.q[r])] /\ Y.kv = Z.kv
             /\ Y.pool = Deallocate(Z.pool, Z.q[r].table) /\ BlockRemoves(Y, Z, {r})
<1> DEFINE R == Forgotten(Z, {r})
           Y == [R EXCEPT !.pool = Deallocate(@, R.q[r].table), !.q[r] = Dropped(@)]
<1>1. Zone(R) /\ BlockRemoves(R, Z, {r}) /\ R.q = Z.q /\ R.pool = Z.pool /\ R.kv = Z.kv
  BY BlockForgotten DEF BlockGood
<1> HIDE DEF R
<1>2. Seats(Z.pool, Z.q) /\ Requests(Z.q) /\ DOMAIN Z.q = Sessions
  BY DEF BlockGood, Seated, Seats, Requests
<1> DEFINE d == Dropped(Z.q[r])
<1>3. IsRequest(d) /\ Placed(d) /\ d.res = "none" /\ d.table = << >>
  BY <1>2, DroppedRequest DEF Requests
<1> HIDE DEF d
<1>4. /\ Zone(Y) /\ BlockRemoves(Y, Z, {r}) /\ Y.kv = Z.kv /\ Y.q = [Z.q EXCEPT ![r] = d]
      /\ Y.pool = Deallocate(Z.pool, Z.q[r].table)
  BY <1>1 DEF Zone, BlockRemoves, d
<1> HIDE DEF Y
<1>5. Seats(Y.pool, Y.q)
  BY <1>2, <1>3, <1>4, DeallocateSeats
<1>6. BlockGood(Y)
  <2>1. PICK S : S = {r}
    OBVIOUS
  <2>2. S \in SUBSET Sessions /\ BlockRemoves(Y, Z, S)
    BY <1>4, <2>1
  <2>3. (\A x \in Sessions : x \notin S => Y.q[x] = Z.q[x]) /\ (\A x \in S : Y.q[x].res # "cpu")
    BY <1>2, <1>3, <1>4, <2>1
  <2> QED
    BY <1>4, <1>5, <2>2, <2>3, BlockRemovedGood
<1> QED
  BY <1>4, <1>6 DEF Y, R, d

\* A turn has run.
LEMMA BlockRanGood ==
  ASSUME NEW Z, BlockGood(Z), ~Z.lease.on, NEW r \in Sessions, Z.q[r].st = "active",
         NEW c, c.res # "cpu", c.st # "gone", NEW Y, Zone(Y), Seats(Y.pool, Y.q), Y.q = [Z.q EXCEPT ![r] = c],
         Y.use = [Z.use EXCEPT ![r] = NoUse], Y.unsettled = Z.unsettled - Z.use[r].n,
         Y.store = Z.store, Y.snapOf = Z.snapOf, Y.group = Z.group, Y.pend = Z.pend, SameBlocks(Y, Z)
  PROVE  BlockGood(Y)
<1>1. DOMAIN Z.q = Sessions /\ Z.use = [x \in Sessions |-> NoUse] /\ Z.unsettled = 0
  BY DEF BlockGood, Seated, Seats, Requests, NoSnapshots
<1>2. Y.q[r] = c /\ \A x \in Sessions : x # r => Y.q[x] = Z.q[x]
  BY <1>1
<1>3. Y.use = [x \in Sessions |-> NoUse] /\ Y.unsettled = 0
  <2>1. Z.use[r].n = 0
    BY <1>1 DEF NoUse
  <2> HIDE DEF NoUse
  <2> QED
    BY <1>1, <2>1
<1>4. NoSnapshots(Y)
  BY <1>3 DEF BlockGood, NoSnapshots
<1>5. Manifests(Y)
  BY <1>2 DEF BlockGood, Manifests, SameBlocks
<1>6. LeaseHeld(Y)
  BY DEF BlockGood, LeaseHeld, SameBlocks
<1> QED
  BY <1>4, <1>5, <1>6 DEF BlockGood, Seated

LEMMA GoodRan ==
  ASSUME NEW Z, NEW hold, Good(Z, hold), Z.group = {}, ~Z.lease.on, NEW r \in Sessions, Z.q[r].st = "active",
         NEW c, c.res # "cpu", c.st # "gone", NEW Y, Zone(Y), Seats(Y.pool, Y.q), Y.q = [Z.q EXCEPT ![r] = c],
         Y.use = [Z.use EXCEPT ![r] = NoUse], Y.unsettled = Z.unsettled - Z.use[r].n,
         Y.store = Z.store, Y.snapOf = Z.snapOf, Y.group = Z.group, Y.pend = Z.pend, SameBlocks(Y, Z)
  PROVE  Good(Y, hold)
<1>1. CASE Tiered
  BY <1>1, GoodBlocks, BlockRanGood
<1>2. CASE ~Tiered
  BY <1>2, GoodSnaps, RanGood
<1> QED
  BY <1>1, <1>2

\* invalidate_all, and the reset of the pool after it.
LEMMA BlockInvalidatedGood ==
  ASSUME Tiered, NEW Z, BlockGood(Z), \A r \in Sessions : Z.q[r].st # "active",
         NEW S, S = {r \in Sessions : Z.q[r].st = "parked"}, NEW Y, Y = Emptied(Z, S)
  PROVE  BlockGood(Y) /\ Y.man = [r \in Sessions |-> NoMan] /\ ~Y.lease.on
             /\ \A r \in Sessions : Y.q[r].st = Z.q[r].st /\ Y.q[r].tokens = Z.q[r].tokens /\ Y.q[r].table = << >>
<1> DEFINE I == InvalidatedAll(Z)
<1>1. I = [Z EXCEPT !.blocks = EmptyIndex, !.man = [r \in Sessions |-> NoMan], !.lease = NoLease]
  BY DEF InvalidatedAll, BlockInvalidated
<1> HIDE DEF I
<1>2. Zone(Z) /\ Requests(Z.q) /\ NoSnapshots(Z)
  BY DEF BlockGood, Seated, Seats
<1>3. /\ Zone(I) /\ I.q = Z.q /\ I.blocks = EmptyIndex /\ I.man = [r \in Sessions |-> NoMan] /\ I.lease = NoLease
      /\ I.store = Z.store /\ I.snapOf = Z.snapOf /\ I.group = Z.group /\ I.pend = Z.pend /\ I.use = Z.use
      /\ I.unsettled = Z.unsettled
  BY <1>1, <1>2 DEF Zone
<1>4. PICK N : N = [r \in Sessions |-> IF r \in S THEN [Dropped(I.q[r]) EXCEPT !.st = "parked"] ELSE I.q[r]]
  OBVIOUS
<1>5. Y = [I EXCEPT !.pool = EmptyPool, !.q = N]
  BY <1>4 DEF Emptied, I
<1>6. /\ Zone(Y) /\ Y.pool = EmptyPool /\ Y.q = N /\ Y.store = I.store /\ Y.unsettled = I.unsettled
      /\ Y.use = I.use /\ Y.snapOf = I.snapOf /\ Y.pend = I.pend /\ Y.group = I.group /\ SameBlocks(Y, I)
  BY <1>3, <1>5 DEF Zone, SameBlocks
<1>7. ASSUME NEW r \in Sessions
      PROVE  /\ IsRequest(N[r]) /\ Placed(N[r]) /\ N[r].table = << >> /\ N[r].res # "cpu"
             /\ N[r].st = Z.q[r].st /\ N[r].tokens = Z.q[r].tokens
  <2>1. IsRequest(Z.q[r]) /\ Placed(Z.q[r])
    BY <1>2 DEF Requests
  <2>2. CASE r \in S
    <3>1. Z.q[r].st = "parked"
      BY <2>2
    <3>2. PICK d : d = Dropped(Z.q[r])
      OBVIOUS
    <3>3. IsRequest(d) /\ Placed(d) /\ d.st = "parked" /\ d.res = "none" /\ d.table = << >> /\ d.tokens = Z.q[r].tokens
      BY <2>1, <3>1, <3>2, DroppedRequest
    <3>4. N[r] = [d EXCEPT !.st = "parked"]
      BY <1>3, <1>4, <2>2, <3>2
    <3>5. PICK e : e = N[r]
      OBVIOUS
    <3>6. /\ DOMAIN e = DOMAIN d /\ e.st = "parked" /\ e.res = d.res /\ e.table = d.table /\ e.tokens = d.tokens
          /\ e.computed = d.computed /\ e.published = d.published /\ e.parent = d.parent /\ e.snap = d.snap
      BY <3>3, <3>4, <3>5 DEF IsRequest
    <3>7. IsRequest(e) /\ Placed(e)
      BY <3>3, <3>6 DEF IsRequest, Placed
    <3> QED
      BY <2>1, <2>2, <3>3, <3>5, <3>6, <3>7
  <2>3. CASE r \notin S
    <3>1. Z.q[r].st = "gone"
      BY <2>1, <2>3 DEF IsRequest
    <3>2. N[r] = Z.q[r]
      BY <1>3, <1>4, <2>3
    <3> QED
      BY <2>1, <3>1, <3>2 DEF Placed
  <2> QED
    BY <2>2, <2>3
<1>8. DOMAIN N = Sessions
  BY <1>4
<1>9. Seats(Y.pool, Y.q)
  BY <1>6, <1>7, <1>8, EmptySeats DEF Requests
<1>10. NoSnapshots(Y)
  BY <1>2, <1>3, <1>6 DEF NoSnapshots
<1>11. Y.man = [r \in Sessions |-> NoMan] /\ Y.lease = NoLease /\ Y.blocks = EmptyIndex
  BY <1>3, <1>6 DEF SameBlocks
<1>12. Manifests(Y)
  BY <1>6, <1>7, <1>11 DEF Manifests
<1>13. LeaseHeld(Y)
  <2>1. DOMAIN EmptyIndex = {}
    BY DEF EmptyIndex
  <2>2. IsFiniteSet(DOMAIN Y.blocks)
    BY <1>11, <2>1, FS_EmptySet
  <2>3. Y.lease.on = FALSE
    BY <1>11 DEF NoLease
  <2> QED
    BY <2>2, <2>3 DEF LeaseHeld
<1>14. BlockGood(Y)
  BY <1>6, <1>9, <1>10, <1>12, <1>13 DEF BlockGood, Seated
<1>15. ~Y.lease.on
  BY <1>11 DEF NoLease
<1>16. \A r \in Sessions : Y.q[r].st = Z.q[r].st /\ Y.q[r].tokens = Z.q[r].tokens /\ Y.q[r].table = << >>
  BY <1>6, <1>7
<1> QED
  BY <1>11, <1>14, <1>15, <1>16

\* The numbers up to i that are not in M.
CountOutside(M, i) == Cardinality({j \in 1..i : j \notin M})

LEMMA OutsideCounted ==
  ASSUME NEW M, NEW i \in Nat
  PROVE  /\ CountOutside(M, i) \in Nat /\ CountOutside(M, 0) = 0
         /\ CountOutside(M, i + 1) = CountOutside(M, i) + (IF i + 1 \in M THEN 0 ELSE 1)
<1> DEFINE X(k) == {j \in 1..k : j \notin M}
<1>1. IsFiniteSet(X(i))
  <2>1. X(i) \in SUBSET (1..i)
    OBVIOUS
  <2>2. IsFiniteSet(1..i)
    BY FS_Interval
  <2> HIDE DEF X
  <2> QED
    BY <2>1, <2>2, FS_Subset
<1>2. X(0) = {} /\ Cardinality({}) = 0
  BY FS_EmptySet
<1>3. X(i + 1) = IF i + 1 \in M THEN X(i) ELSE X(i) \union {i + 1}
  <2>1. \A k : k \in 1..(i + 1) <=> k \in 1..i \/ k = i + 1
    OBVIOUS
  <2> QED
    BY <2>1
<1>4. i + 1 \notin X(i)
  OBVIOUS
<1> HIDE DEF X
<1>5. Cardinality(X(i)) \in Nat
  BY <1>1, FS_CardinalityType
<1>6. Cardinality(X(i) \union {i + 1}) = Cardinality(X(i)) + 1
  BY <1>1, <1>4, FS_AddElement
<1>7. CountOutside(M, i) = Cardinality(X(i)) /\ CountOutside(M, i + 1) = Cardinality(X(i + 1))
      /\ CountOutside(M, 0) = Cardinality(X(0))
  BY DEF CountOutside, X
<1> QED
  BY <1>2, <1>3, <1>5, <1>6, <1>7

LEMMA NthOutside ==
  ASSUME NEW M, IsFiniteSet(M), NEW n \in Nat \ {0}
  PROVE  \E i \in 1 .. Cardinality(M) + n : CountOutside(M, i) = n /\ i \notin M
<1> DEFINE X == {i \in Nat : CountOutside(M, i) >= n}
           e == Cardinality(M) + n
<1>1. Cardinality(M) \in Nat /\ e \in Nat
  BY FS_CardinalityType
<1>2. CountOutside(M, e) >= n
  <2>1. IsFiniteSet(1..e) /\ Cardinality(1..e) = e
    <3> HIDE DEF e
    <3>1. Cardinality(1..e) = IF 1 <= e THEN e - 1 + 1 ELSE 0
      BY <1>1, FS_Interval
    <3>2. e >= 1
      BY <1>1 DEF e
    <3>3. IsFiniteSet(1..e)
      BY <1>1, FS_Interval
    <3> QED
      BY <1>1, <3>1, <3>2, <3>3
  <2>2. Cardinality((1..e) \ M) = Cardinality(1..e) - Cardinality((1..e) \intersect M)
    BY <2>1, FS_Difference
  <2>3. Cardinality((1..e) \intersect M) \in Nat /\ Cardinality((1..e) \intersect M) <= Cardinality(M)
    <3>1. (1..e) \intersect M \in SUBSET M
      OBVIOUS
    <3>2. IsFiniteSet((1..e) \intersect M)
      BY <3>1, FS_Subset
    <3> QED
      BY <3>1, <3>2, FS_Subset, FS_CardinalityType
  <2>4. {j \in 1..e : j \notin M} = (1..e) \ M
    OBVIOUS
  <2>5. CountOutside(M, e) = Cardinality((1..e) \ M)
    BY <2>4 DEF CountOutside
  <2> HIDE DEF e
  <2>6. e - Cardinality((1..e) \intersect M) >= n
    BY <1>1, <2>3 DEF e
  <2> QED
    BY <2>1, <2>2, <2>5, <2>6
<1>3. X \in SUBSET Nat /\ X # {} /\ e \in X
  BY <1>1, <1>2
<1>4. PICK i \in X : \A j \in X : i <= j
  BY <1>3, LeastNatural
<1>5. i # 0
  <2>1. CountOutside(M, 0) = 0
    BY OutsideCounted
  <2> QED
    BY <1>4, <2>1
<1>6. PICK k \in Nat : i = k + 1
  <2>1. i \in Nat /\ i - 1 \in Nat /\ i = (i - 1) + 1
    BY <1>4, <1>5
  <2> QED
    BY <2>1
<1>7. CountOutside(M, k) \in Nat /\ CountOutside(M, k) < n
  <2>1. CountOutside(M, k) \in Nat
    BY OutsideCounted
  <2>2. k \notin X
    BY <1>4, <1>6
  <2> QED
    BY <2>1, <2>2
<1>8. CountOutside(M, k + 1) = CountOutside(M, k) + (IF k + 1 \in M THEN 0 ELSE 1)
  BY OutsideCounted
<1>9. CountOutside(M, i) >= n /\ i <= e
  BY <1>3, <1>4
<1>10. CountOutside(M, i) = n /\ i \notin M
  BY <1>6, <1>7, <1>8, <1>9
<1>11. i \in 1 .. Cardinality(M) + n
  BY <1>1, <1>6, <1>9
<1> QED
  BY <1>10, <1>11

LEMMA ManifestIdsFinite ==
  ASSUME NEW Z, IsFiniteSet(DOMAIN Z.blocks)
  PROVE  IsFiniteSet(ManifestIds(Z))
<1> DEFINE T == {j \in DOMAIN Z.blocks : IsTail(j)}
           U1 == {Z.man[r].id : r \in Sessions}
           U2 == {Z.q[r].snap : r \in Sessions}
           U3 == {k[4] : k \in T}
<1>1. IsFiniteSet(Sessions)
  BY ResidencyAssumption
<1>2. IsFiniteSet(U1)
  <2>1. [r \in Sessions |-> Z.man[r].id] \in Surjection(Sessions, U1)
    BY DEF Surjection
  <2> QED
    BY <1>1, <2>1, FS_Surjection
<1>3. IsFiniteSet(U2)
  <2>1. [r \in Sessions |-> Z.q[r].snap] \in Surjection(Sessions, U2)
    BY DEF Surjection
  <2> QED
    BY <1>1, <2>1, FS_Surjection
<1>4. IsFiniteSet(U3)
  <2>1. IsFiniteSet(T)
    <3>1. T \in SUBSET DOMAIN Z.blocks
      OBVIOUS
    <3> QED
      BY <3>1, FS_Subset
  <2> HIDE DEF T
  <2>2. [k \in T |-> k[4]] \in Surjection(T, U3)
    BY DEF Surjection
  <2> QED
    BY <2>1, <2>2, FS_Surjection
<1>5. ManifestIds(Z) = (U1 \union U2) \union U3
  BY DEF ManifestIds
<1> HIDE DEF U1, U2, U3
<1> QED
  BY <1>2, <1>3, <1>4, <1>5, FS_Union

LEMMA FreshIdNew ==
  ASSUME NEW Z, IsFiniteSet(DOMAIN Z.blocks), NEW n \in Nat \ {0}
  PROVE  FreshId(Z, n) \in Nat \ {0} /\ FreshId(Z, n) \notin ManifestIds(Z)
         /\ CountOutside(ManifestIds(Z), FreshId(Z, n)) = n
<1> DEFINE M == ManifestIds(Z)
<1>1. IsFiniteSet(M) /\ Cardinality(M) \in Nat
  BY ManifestIdsFinite, FS_CardinalityType
<1> HIDE DEF M
<1>2. \E i \in 1 .. Cardinality(M) + n : Cardinality({j \in 1..i : j \notin M}) = n /\ i \notin M
  BY <1>1, NthOutside DEF CountOutside
<1>3. FreshId(Z, n) = CHOOSE i \in 1 .. Cardinality(M) + n : Cardinality({j \in 1..i : j \notin M}) = n /\ i \notin M
  BY DEF FreshId, M
<1>4. FreshId(Z, n) \in 1 .. Cardinality(M) + n /\ CountOutside(M, FreshId(Z, n)) = n /\ FreshId(Z, n) \notin M
  BY <1>2, <1>3 DEF CountOutside
<1> QED
  BY <1>1, <1>4 DEF M

\* A manifest of a request as it is now.
LEMMA ManifestOf ==
  ASSUME NEW c, IsRequest(c), Placed(c), c.st # "gone", NEW Z, NEW r, Z.q[r] = c, NEW id \in Nat \ {0}
  PROVE  LET m == Manifest(Z, r, id)
         IN  IsManifest(m, r) /\ m.tokens = c.tokens /\ m.computed = c.computed /\ m.id = id
<1> DEFINE m == Manifest(Z, r, id)
<1>1. /\ m.id = id /\ m.ns = Namespace /\ m.tokens = c.tokens /\ m.computed = c.computed
      /\ m.keys = Keys(m.tokens, m.computed, r, m.id)
  BY DEF Manifest
<1> HIDE DEF m
<1>2. IsManifest(m, r)
  BY <1>1 DEF IsManifest, IsRequest, Placed
<1> QED
  BY <1>1, <1>2 DEF m

LEMMA KeysFinite ==
  ASSUME NEW m, NEW r, IsManifest(m, r)
  PROVE  IsFiniteSet(Range(m.keys))
<1>1. PICK n \in Nat : n = BlocksNeededFor(m.computed)
  BY BlocksFor DEF IsManifest
<1>2. DOMAIN m.keys = 1..n
  BY <1>1 DEF IsManifest, Keys
<1>3. [i \in 1..n |-> m.keys[i]] \in Surjection(1..n, Range(m.keys))
  BY <1>2 DEF Surjection, Range
<1>4. IsFiniteSet(1..n)
  BY FS_Interval
<1> QED
  BY <1>3, <1>4, FS_Surjection

\* prepare_group: one lease over the group.
Leases(L, Z, rs) ==
  /\ L.on = TRUE /\ DOMAIN L.man = Range(rs)
  /\ \A r \in DOMAIN L.man : /\ IsManifest(L.man[r], r) /\ L.man[r].tokens = Z.q[r].tokens
                             /\ L.man[r].computed = Z.q[r].computed

LEMMA LeaseTaken ==
  ASSUME NEW Z, BlockGood(Z), NEW rs \in Seq(Sessions), \A r \in Range(rs) : Z.q[r].st = "parked"
  PROVE  Leases(LeaseOf(Z, rs), Z, rs) /\ IsFiniteSet(LeaseKeys(LeaseOf(Z, rs)))
<1> DEFINE L == LeaseOf(Z, rs)
           id(r) == FreshId(Z, CHOOSE i \in DOMAIN rs : rs[i] = r)
<1>1. L.on = TRUE /\ L.man = [r \in Range(rs) |-> Manifest(Z, r, id(r))]
  BY DEF LeaseOf
<1>2. ASSUME NEW r \in Range(rs)
      PROVE  id(r) \in Nat \ {0}
  <2>1. PICK n : n = CHOOSE i \in DOMAIN rs : rs[i] = r
    OBVIOUS
  <2>2. n \in DOMAIN rs
    BY <2>1 DEF Range
  <2>3. n \in Nat \ {0}
    BY <2>2, LenProperties
  <2>4. IsFiniteSet(DOMAIN Z.blocks)
    BY DEF BlockGood, LeaseHeld
  <2>5. id(r) = FreshId(Z, n)
    BY <2>1
  <2> HIDE DEF id
  <2> QED
    BY <2>3, <2>4, <2>5, FreshIdNew
<1> HIDE DEF L, id
<1>3. ASSUME NEW r \in Range(rs)
      PROVE  IsManifest(L.man[r], r) /\ L.man[r].tokens = Z.q[r].tokens /\ L.man[r].computed = Z.q[r].computed
  <2>1. r \in Sessions
    BY RangeFinite
  <2>2. PICK c : c = Z.q[r]
    OBVIOUS
  <2>3. IsRequest(c) /\ Placed(c) /\ c.st # "gone"
    BY <2>1, <2>2 DEF BlockGood, Seated, Seats, Requests
  <2>4. LET m == Manifest(Z, r, id(r))
        IN  IsManifest(m, r) /\ m.tokens = c.tokens /\ m.computed = c.computed /\ m.id = id(r)
    BY <1>2, <2>2, <2>3, ManifestOf
  <2> QED
    BY <1>1, <2>2, <2>4
<1>4. Leases(L, Z, rs)
  BY <1>1, <1>3 DEF Leases
<1>5. IsFiniteSet(LeaseKeys(L))
  <2> DEFINE F == {Range(L.man[r].keys) : r \in DOMAIN L.man}
  <2>1. IsFiniteSet(DOMAIN L.man)
    BY <1>1, RangeFinite
  <2>2. [r \in DOMAIN L.man |-> Range(L.man[r].keys)] \in Surjection(DOMAIN L.man, F)
    BY DEF Surjection
  <2>3. IsFiniteSet(F)
    BY <2>1, <2>2, FS_Surjection
  <2>4. \A K \in F : IsFiniteSet(K)
    BY <1>4, KeysFinite DEF Leases
  <2>5. IsFiniteSet(UNION F)
    <3> HIDE DEF F
    <3> QED
      BY <2>3, <2>4, FS_UNION
  <2> QED
    BY <2>5 DEF LeaseKeys
<1> QED
  BY <1>4, <1>5 DEF L

SameButBlocks(Y, Z) ==
  /\ Y.pool = Z.pool /\ Y.kv = Z.kv /\ Y.q = Z.q /\ Y.store = Z.store /\ Y.snapOf = Z.snapOf
  /\ Y.group = Z.group /\ Y.pend = Z.pend /\ Y.use = Z.use /\ Y.unsettled = Z.unsettled /\ Y.man = Z.man

LEMMA BlocksChanged ==
  ASSUME NEW Z, BlockGood(Z), NEW Y, Zone(Y), SameButBlocks(Y, Z), LeaseHeld(Y)
  PROVE  BlockGood(Y)
<1>1. NoSnapshots(Y)
  BY DEF BlockGood, NoSnapshots, SameButBlocks
<1>2. Manifests(Y)
  BY DEF BlockGood, Manifests, SameButBlocks
<1> QED
  BY <1>1, <1>2 DEF BlockGood, Seated, SameButBlocks

LEMMA BlockPrepareGood ==
  ASSUME NEW Z, BlockGood(Z), NEW rs \in Seq(Sessions), \A r \in Range(rs) : Z.q[r].st = "parked",
         NEW G \in BlockPrepare(Z, rs)
  PROVE  /\ BlockGood(G.z) /\ SameButBlocks(G.z, Z)
         /\ ~G.ok => G.z = Z
         /\ G.ok => G.z.lease = LeaseOf(Z, rs) /\ G.z.lease.on /\ DOMAIN G.z.lease.man = Range(rs)
<1> DEFINE L == LeaseOf(Z, rs)
           keys == LeaseKeys(L)
<1>1. Leases(L, Z, rs) /\ IsFiniteSet(keys)
  BY LeaseTaken
<1>2. CASE G = [ok |-> FALSE, z |-> Z]
  BY <1>2 DEF SameButBlocks
<1>3. CASE G # [ok |-> FALSE, z |-> Z]
  <2>1. PICK V : G = [ok |-> TRUE, z |-> [Z EXCEPT !.blocks = ReserveBlocks(@, keys, L.keys, V, JunkPage), !.lease = L]]
    BY <1>3 DEF BlockPrepare
  <2>2. PICK X : X = ReserveBlocks(Z.blocks, keys, L.keys, V, JunkPage)
    OBVIOUS
  <2>3. DOMAIN X = (DOMAIN Z.blocks \ V) \union keys
    BY <2>2 DEF ReserveBlocks, Without
  <2> HIDE DEF L, keys
  <2>4. G.ok = TRUE /\ G.z = [Z EXCEPT !.blocks = X, !.lease = L]
    BY <2>1, <2>2 DEF BlockGood, Zone
  <2>5. Zone(G.z) /\ SameButBlocks(G.z, Z) /\ G.z.blocks = X /\ G.z.lease = L
    BY <2>4 DEF BlockGood, Zone, SameButBlocks
  <2>6. IsFiniteSet(DOMAIN X)
    <3>1. IsFiniteSet(DOMAIN Z.blocks)
      BY DEF BlockGood, LeaseHeld
    <3>2. DOMAIN Z.blocks \ V \in SUBSET DOMAIN Z.blocks
      OBVIOUS
    <3>3. IsFiniteSet(DOMAIN Z.blocks \ V)
      BY <3>1, <3>2, FS_Subset
    <3> QED
      BY <1>1, <2>3, <3>3, FS_Union
  <2>7. LeaseHeld(G.z)
    <3>1. Range(rs) \subseteq Sessions
      BY RangeFinite
    <3>2. \A r \in DOMAIN L.man :
            LET m == L.man[r]
            IN  /\ r \in Sessions /\ IsManifest(m, r) /\ Z.q[r].st = "parked"
                /\ Z.q[r].res # "cpu" => m.tokens = Z.q[r].tokens /\ m.computed = Z.q[r].computed
      BY <1>1, <3>1 DEF Leases
    <3>3. L.on \in BOOLEAN
      BY <1>1 DEF Leases
    <3>4. G.z.q = Z.q
      BY <2>5 DEF SameButBlocks
    <3> QED
      BY <2>5, <2>6, <3>2, <3>3, <3>4 DEF LeaseHeld
  <2>8. BlockGood(G.z)
    BY <2>5, <2>7, BlocksChanged
  <2> QED
    BY <1>1, <2>4, <2>5, <2>8 DEF Leases, L
<1> QED
  BY <1>2, <1>3

LEMMA BlockCloseGood ==
  ASSUME NEW Z, BlockGood(Z)
  PROVE  LET Y == BlockClose(Z)
         IN  BlockGood(Y) /\ SameButBlocks(Y, Z) /\ ~Y.lease.on
<1>1. CASE ~Z.lease.on
  <2>1. BlockClose(Z) = Z
    BY <1>1 DEF BlockClose
  <2> QED
    BY <1>1, <2>1 DEF SameButBlocks
<1>2. CASE Z.lease.on
  <2> DEFINE Y == BlockClose(Z)
             X == CloseLease(Z.blocks, Z.lease.keys)
             live == UNION {TailsOf(Z.man[r]) : r \in Sessions}
             N == EvictBlocks(X, {k \in DOMAIN X : IsTail(k)} \ live)
  <2>1. Y = [Z EXCEPT !.blocks = N, !.lease = NoLease]
    BY <1>2 DEF BlockClose
  <2>2. IsFiniteSet(DOMAIN N)
    <3>1. DOMAIN X \in SUBSET DOMAIN Z.blocks
      BY DEF CloseLease, Without
    <3>2. IsFiniteSet(DOMAIN X)
      <4> HIDE DEF X
      <4> QED
        BY <3>1, FS_Subset DEF BlockGood, LeaseHeld
    <3> HIDE DEF X, live
    <3> QED
      BY <3>2, EvictedFinite
  <2> HIDE DEF Y, N
  <2>3. Zone(Y) /\ SameButBlocks(Y, Z) /\ Y.blocks = N /\ Y.lease = NoLease
    BY <2>1 DEF BlockGood, Zone, SameButBlocks
  <2>4. LeaseHeld(Y) /\ ~Y.lease.on
    BY <2>2, <2>3 DEF LeaseHeld, NoLease
  <2>5. BlockGood(Y)
    BY <2>3, <2>4, BlocksChanged
  <2> QED
    BY <2>3, <2>4, <2>5 DEF Y
<1> QED
  BY <1>1, <1>2

LEMMA BlockSaveFailsGood ==
  ASSUME NEW Z, BlockGood(Z), NEW r, NEW Y \in BlockSaveFails(Z, r)
  PROVE  BlockGood(Y) /\ SameButBlocks(Y, Z) /\ Y.lease = Z.lease
<1>0. PICK J : Y = [Z EXCEPT !.blocks = Written(Z, r, Z.lease.man[r], J)]
  BY DEF BlockSaveFails
<1>1. PICK X : Y = [Z EXCEPT !.blocks = X] /\ DOMAIN X = DOMAIN Z.blocks
  <2>1. DOMAIN Written(Z, r, Z.lease.man[r], J) = DOMAIN Z.blocks
    BY DEF Written
  <2> QED
    BY <1>0, <2>1
<1>2. Zone(Y) /\ SameButBlocks(Y, Z) /\ Y.lease = Z.lease /\ Y.blocks = X
  BY <1>1 DEF BlockGood, Zone, SameButBlocks
<1>3. LeaseHeld(Y)
  BY <1>1, <1>2 DEF BlockGood, LeaseHeld, SameButBlocks
<1> QED
  BY <1>2, <1>3, BlocksChanged

\* save inside an open group.
BlockSaves(Y, Z, r) ==
  /\ Y.use = Z.use /\ Y.kv = Z.kv /\ Y.lease = Z.lease /\ Y.pool.cache = Z.pool.cache
  /\ \A x \in Sessions : Y.q[x].st = Z.q[x].st /\ Y.q[x].tokens = Z.q[x].tokens
  /\ \A x \in Sessions : x # r => Y.q[x] = Z.q[x]
  /\ \E m : Y.q[r] = Z.q[r] \/ Y.q[r] = OffGpu(Z.q[r], m)

LEMMA BlockSaveGood ==
  ASSUME NEW Z, BlockGood(Z), Z.lease.on, NEW r \in DOMAIN Z.lease.man
  PROVE  LET Y == BlockSave(Z, r)
         IN  BlockGood(Y) /\ BlockSaves(Y, Z, r)
<1> DEFINE Y == BlockSave(Z, r)
           m == Z.lease.man[r]
           c == Z.q[r]
<1>1. CASE c.table = << >> /\ Z.man[r].id # 0
  <2>1. Y = Z
    BY <1>1 DEF BlockSave
  <2> QED
    BY <2>1 DEF BlockSaves
<1>2. CASE ~(c.table = << >> /\ Z.man[r].id # 0)
  <2>1. PICK X : /\ Y = [Z EXCEPT !.blocks = X, !.man[r] = m, !.pool = Deallocate(@, Z.q[r].table), !.q[r] = OffGpu(@, m)]
                 /\ X = EvictBlocks(Written(Z, r, m, Unwritten(Z, m)), TailsOf(Z.man[r]))
    BY <1>2 DEF BlockSave
  <2>2. /\ r \in Sessions /\ IsManifest(m, r) /\ c.st = "parked" /\ IsRequest(c) /\ Placed(c)
        /\ Zone(Z) /\ Seats(Z.pool, Z.q) /\ DOMAIN Z.q = Sessions /\ DOMAIN Z.man = Sessions
    BY DEF BlockGood, LeaseHeld, Seated, Seats, Requests, Manifests
  <2>3. c.res # "cpu"
    BY <1>2, <2>2 DEF BlockGood, Manifests, Placed
  <2>4. m.tokens = c.tokens /\ m.computed = c.computed /\ m.id \in Nat
    BY <2>3 DEF BlockGood, LeaseHeld, IsManifest
  <2> DEFINE d == OffGpu(c, m)
  <2>5. /\ IsRequest(d) /\ Placed(d) /\ d.table = << >>
        /\ d.st = "parked" /\ d.res = "cpu" /\ d.snap = m.id /\ d.tokens = c.tokens
    <3> HIDE DEF c, m
    <3> QED
      BY <2>2, <2>4, OffGpuRequest
  <2> HIDE DEF d, Y
  <2>6. /\ Zone(Y) /\ Y.pool = Deallocate(Z.pool, Z.q[r].table) /\ Y.kv = Z.kv /\ Y.q = [Z.q EXCEPT ![r] = d]
        /\ Y.man = [Z.man EXCEPT ![r] = m] /\ Y.blocks = X
        /\ Y.store = Z.store /\ Y.snapOf = Z.snapOf /\ Y.group = Z.group /\ Y.pend = Z.pend /\ Y.use = Z.use
        /\ Y.unsettled = Z.unsettled /\ Y.lease = Z.lease
    BY <2>1, <2>2 DEF Zone, d
  <2>7. Seats(Y.pool, Y.q) /\ Y.pool.cache = Z.pool.cache
    BY <2>2, <2>5, <2>6, DeallocateSeats
  <2>8. IsFiniteSet(DOMAIN X)
    <3>1. DOMAIN Written(Z, r, m, Unwritten(Z, m)) = DOMAIN Z.blocks
      BY DEF Written
    <3>2. IsFiniteSet(DOMAIN Z.blocks)
      BY DEF BlockGood, LeaseHeld
    <3> QED
      BY <2>1, <3>1, <3>2, EvictedFinite
  <2> HIDE DEF m, c
  <2>9. Y.q[r] = d /\ Y.man[r] = m /\ \A x \in Sessions : x # r => Y.q[x] = Z.q[x] /\ Y.man[x] = Z.man[x]
    BY <2>2, <2>6
  <2>10. NoSnapshots(Y)
    BY <2>6 DEF BlockGood, NoSnapshots
  <2>11. Manifests(Y)
    <3>1. DOMAIN Y.man = Sessions
      BY <2>2, <2>6
    <3>2. m.id # 0
      BY <2>2 DEF IsManifest
    <3>3. ASSUME NEW x \in Sessions
          PROVE  /\ Y.man[x] # NoMan => IsManifest(Y.man[x], x) /\ Y.q[x].st # "gone"
                 /\ Y.q[x].res = "cpu" => /\ Y.man[x].id # 0 /\ Y.man[x].tokens = Y.q[x].tokens
                                          /\ Y.man[x].id = Y.q[x].snap
      <4>1. CASE x = r
        BY <2>2, <2>4, <2>5, <2>9, <3>2, <4>1
      <4>2. CASE x # r
        BY <2>9, <4>2 DEF BlockGood, Manifests
      <4> QED
        BY <4>1, <4>2
    <3> QED
      BY <3>1, <3>3 DEF Manifests
  <2>12. LeaseHeld(Y)
    <3>1. ASSUME NEW x \in DOMAIN Z.lease.man
          PROVE  /\ x \in Sessions /\ IsManifest(Z.lease.man[x], x) /\ Y.q[x].st = "parked"
                 /\ Y.q[x].res # "cpu" => /\ Z.lease.man[x].tokens = Y.q[x].tokens
                                          /\ Z.lease.man[x].computed = Y.q[x].computed
      <4>1. /\ x \in Sessions /\ IsManifest(Z.lease.man[x], x) /\ Z.q[x].st = "parked"
            /\ Z.q[x].res # "cpu" => /\ Z.lease.man[x].tokens = Z.q[x].tokens
                                     /\ Z.lease.man[x].computed = Z.q[x].computed
        BY DEF BlockGood, LeaseHeld
      <4>2. CASE x = r
        BY <2>5, <2>9, <4>1, <4>2
      <4>3. CASE x # r
        BY <2>9, <4>1, <4>3
      <4> QED
        BY <4>2, <4>3
    <3>2. Y.lease = Z.lease /\ Y.blocks = X /\ Z.lease.on \in BOOLEAN
      BY <2>6 DEF BlockGood, LeaseHeld
    <3> QED
      BY <2>8, <3>1, <3>2 DEF LeaseHeld
  <2>13. BlockGood(Y)
    BY <2>6, <2>7, <2>10, <2>11, <2>12 DEF BlockGood, Seated
  <2>14. BlockSaves(Y, Z, r)
    BY <2>2, <2>5, <2>6, <2>7, <2>9 DEF BlockSaves, c, d
  <2> QED
    BY <2>13, <2>14 DEF Y
<1> QED
  BY <1>1, <1>2

\* A restore of r has come to nothing.
LEMMA BlockStaysOut ==
  ASSUME NEW Z, BlockGood(Z), ~Z.lease.on, NEW r \in Sessions, Z.q[r].res = "cpu",
         NEW Y, NEW d, StaysOut(Y, Z, r, d)
  PROVE  BlockGood(Y)
<1>1. DOMAIN Z.q = Sessions /\ Zone(Y) /\ Seated(Y)
  BY DEF BlockGood, Seated, Seats, Requests, StaysOut
<1>2. Y.q[r] = d /\ \A x \in Sessions : x # r => Y.q[x] = Z.q[x]
  BY <1>1 DEF StaysOut
<1>3. /\ Y.store = Z.store /\ Y.group = Z.group /\ Y.pend = Z.pend /\ Y.snapOf = Z.snapOf /\ Y.use = Z.use
      /\ Y.unsettled = Z.unsettled /\ Y.blocks = Z.blocks /\ Y.man = Z.man /\ Y.lease = Z.lease
  BY DEF StaysOut, SameSnaps, SameBlocks
<1>4. d.tokens = Z.q[r].tokens /\ d.snap = Z.q[r].snap /\ d.st = "parked" /\ d.res = "cpu"
  BY DEF StaysOut
<1>5. NoSnapshots(Y)
  BY <1>3 DEF BlockGood, NoSnapshots
<1>6. Manifests(Y)
  <2>1. ASSUME NEW x \in Sessions
        PROVE  /\ Y.man[x] # NoMan => IsManifest(Y.man[x], x) /\ Y.q[x].st # "gone"
               /\ Y.q[x].res = "cpu" => /\ Y.man[x].id # 0 /\ Y.man[x].tokens = Y.q[x].tokens
                                        /\ Y.man[x].id = Y.q[x].snap
    <3>1. CASE x = r
      BY <1>2, <1>3, <1>4, <3>1 DEF BlockGood, Manifests
    <3>2. CASE x # r
      BY <1>2, <1>3, <3>2 DEF BlockGood, Manifests
    <3> QED
      BY <3>1, <3>2
  <2> QED
    BY <1>3, <2>1 DEF BlockGood, Manifests
<1>7. LeaseHeld(Y)
  BY <1>3 DEF BlockGood, LeaseHeld
<1> QED
  BY <1>1, <1>5, <1>6, <1>7 DEF BlockGood

LEMMA GreatestUpTo ==
  ASSUME NEW n \in Nat, NEW X \in SUBSET (0..n), X # {}
  PROVE  \E i \in X : \A j \in X : j <= i
<1> DEFINE Y == {n - i : i \in X}
<1>1. Y \in SUBSET Nat /\ Y # {}
  <2>1. \A i \in X : n - i \in Nat
    OBVIOUS
  <2>2. PICK i \in X : TRUE
    OBVIOUS
  <2>3. n - i \in Y
    BY <2>2
  <2>4. Y \in SUBSET Nat
    BY <2>1
  <2> QED
    BY <2>3, <2>4
<1>2. PICK k \in Y : \A j \in Y : k <= j
  <2> HIDE DEF Y
  <2> QED
    BY <1>1, LeastNatural
<1>3. PICK i \in X : k = n - i
  BY <1>2
<1>4. \A j \in X : n - i <= n - j
  BY <1>2, <1>3
<1>5. \A j \in X : j <= i
  BY <1>4
<1> QED
  BY <1>5

\* The plan of a restore: a prefix of the manifest whose blocks are all found.
LEMMA PlanFacts ==
  ASSUME NEW Z, NEW r, NEW m, IsManifest(m, r)
  PROVE  /\ PlanLength(Z, m) \in Nat /\ PlanLength(Z, m) <= BlocksNeededFor(m.computed)
         /\ DOMAIN m.keys = 1..BlocksNeededFor(m.computed)
         /\ \A i \in 1..PlanLength(Z, m) : OnGpu(Z, m.keys[i]) # {} \/ Ready(Z.blocks, m.keys[i])
         /\ PlanValid(Z, m) \in Nat /\ PlanValid(Z, m) <= m.computed
         /\ BlocksNeededFor(PlanValid(Z, m)) = PlanLength(Z, m)
         /\ PlanValid(Z, m) <= PlanLength(Z, m) * BlockSize
         /\ PlanLength(Z, m) < BlocksNeededFor(m.computed) => PlanValid(Z, m) = PlanLength(Z, m) * BlockSize
<1>1. PICK c \in Nat : c = m.computed
  BY DEF IsManifest
<1>2. PICK N \in Nat : N = BlocksNeededFor(c)
  BY BlocksFor
<1>3. c <= N * BlockSize /\ N * BlockSize < c + BlockSize
  BY <1>2, BlocksFor
<1>4. DOMAIN m.keys = 1..N /\ Len(m.keys) = N
  <2>1. DOMAIN m.keys = 1..N /\ m.keys = [i \in 1..N |-> m.keys[i]]
    BY <1>1, <1>2 DEF IsManifest, Keys
  <2>2. m.keys \in [1..N -> Range(m.keys)]
    BY <2>1 DEF Range
  <2>3. m.keys \in Seq(Range(m.keys))
    BY <2>2, FunctionSeq
  <2>4. Len(m.keys) \in Nat /\ DOMAIN m.keys = 1..Len(m.keys)
    BY <2>3, LenProperties
  <2> QED
    BY <2>1, <2>4
<1> DEFINE found == {i \in DOMAIN m.keys : OnGpu(Z, m.keys[i]) # {} \/ Ready(Z.blocks, m.keys[i])}
           X == {k \in 0..N : 1..k \subseteq found}
<1>5. PlanLength(Z, m) = Max(X)
  BY <1>4 DEF PlanLength
<1>6. PICK n \in X : \A j \in X : j <= n
  <2>1. X \in SUBSET (0..N)
    OBVIOUS
  <2>2. 0 \in X
    OBVIOUS
  <2> HIDE DEF X
  <2> QED
    BY <2>1, <2>2, GreatestUpTo
<1>7. PlanLength(Z, m) = n
  <2>1. \A j \in X : j \in Nat
    OBVIOUS
  <2>2. Max(X) = CHOOSE x \in X : \A y \in X : x >= y
    BY DEF Max
  <2> HIDE DEF X
  <2>3. n \in X /\ \A y \in X : n >= y
    BY <1>6, <2>1
  <2>4. Max(X) \in X /\ \A y \in X : Max(X) >= y
    BY <2>2, <2>3
  <2> QED
    BY <1>5, <2>1, <2>3, <2>4
<1>8. n \in Nat /\ n <= N /\ \A i \in 1..n : OnGpu(Z, m.keys[i]) # {} \/ Ready(Z.blocks, m.keys[i])
  BY <1>6
<1> HIDE DEF X, found
<1>9. PICK v : v = PlanValid(Z, m)
  OBVIOUS
<1>10. n * BlockSize \in Nat /\ BlocksNeededFor(n * BlockSize) = n
  BY <1>8, BlocksForMultiple
<1>11. v = IF c <= n * BlockSize THEN c ELSE n * BlockSize
  BY <1>1, <1>7, <1>9 DEF PlanValid, Lesser
<1>12. CASE n = N
  BY <1>1, <1>2, <1>3, <1>4, <1>7, <1>8, <1>9, <1>11, <1>12
<1>13. CASE n # N
  <2>1. n + 1 <= N
    BY <1>8, <1>13
  <2>2. (n + 1) * BlockSize <= N * BlockSize
    BY <1>8, <2>1, BlockSizeAssumption
  <2>3. (n + 1) * BlockSize = n * BlockSize + BlockSize
    BY <1>8, BlockSizeAssumption
  <2>4. n * BlockSize < c
    BY <1>3, <1>10, <2>2, <2>3, BlockSizeAssumption
  <2>5. v = n * BlockSize
    BY <1>10, <1>11, <2>4
  <2> QED
    BY <1>1, <1>2, <1>4, <1>7, <1>8, <1>9, <1>10, <2>4, <2>5
<1> QED
  BY <1>12, <1>13

LEMMA PlanHitsReuse ==
  ASSUME NEW Z, Z.pool \in PoolOf(TokenLists), NEW r, NEW m, IsManifest(m, r), NEW h \in PlanHits(Z, m)
  PROVE  /\ Reuses(Z.pool, h, PlanLength(Z, m))
         /\ \A i \in DOMAIN h : ~IsTail(m.keys[i]) /\ <<m.keys[i][2], h[i]>> \in Z.pool.cache
<1>1. PICK n \in Nat : n = PlanLength(Z, m)
  BY PlanFacts
<1>2. DOMAIN h = {i \in 1..n : OnGpu(Z, m.keys[i]) # {}} /\ \A i \in DOMAIN h : h[i] \in Blocks /\ h[i] \in OnGpu(Z, m.keys[i])
  BY <1>1 DEF PlanHits
<1>3. ASSUME NEW i \in DOMAIN h
      PROVE  /\ PrefixCaching /\ ~IsTail(m.keys[i]) /\ h[i] \in Lookup(Z.pool, m.keys[i][2])
  BY <1>2 DEF OnGpu
<1>4. \A i \in DOMAIN h : Z.pool.ref[h[i]] > 0 /\ <<m.keys[i][2], h[i]>> \in Z.pool.cache
  BY <1>3 DEF Lookup
<1>5. Reuses(Z.pool, h, n)
  BY <1>2, <1>3, <1>4 DEF Reuses
<1> QED
  BY <1>1, <1>3, <1>4, <1>5

\* The request a block restore makes.
PlanRestored(c, Z, m, t) ==
  [c EXCEPT !.table = t, !.computed = PlanValid(Z, m), !.res = "gpu", !.published = 0, !.parent = ROOT_HASH]
BlockRestoredFrom(R, Z, r, m, n, h, P, g) ==
  LET t == [i \in 1..n |-> IF i \in DOMAIN h THEN h[i] ELSE g[i]]
  IN  /\ h \in PlanHits(Z, m) /\ P \in Reclaims(Pinned(Z.pool, h), PlanNeeds(Z, m, h))
      /\ g \in Fresh(P, 1..n \ DOMAIN h)
      /\ R = [Z EXCEPT !.pool = AllocBlocks(P, g),
                       !.kv = ImportPages(@, t, [i \in 1..n |-> PlanPage(Z, m, i)], 1..n \ DOMAIN h),
                       !.q[r] = PlanRestored(@, Z, m, t)]

LEMMA BlockRestoreParts ==
  ASSUME NEW Z, NEW r, NEW m, m = Z.man[r], NEW n, n = PlanLength(Z, m), NEW R \in BlockRestores(Z, r)
  PROVE  \E h, P, g : BlockRestoredFrom(R, Z, r, m, n, h, P, g)
<1> DEFINE x == Z.man[r]
           k == PlanLength(Z, x)
           Y(h, P, g) == LET t == [i \in 1..k |-> IF i \in DOMAIN h THEN h[i] ELSE g[i]]
                         IN  [Z EXCEPT !.pool = AllocBlocks(P, g),
                                       !.kv = ImportPages(@, t, [i \in 1..k |-> PlanPage(Z, x, i)], 1..k \ DOMAIN h),
                                       !.q[r] = [@ EXCEPT !.table = t, !.computed = PlanValid(Z, x),
                                                          !.res = "gpu", !.published = 0, !.parent = ROOT_HASH]]
           Pools(h) == {P \in Reclaims(Pinned(Z.pool, h), PlanNeeds(Z, x, h)) : FreeBlocks(P) >= PlanNeeds(Z, x, h)}
<1>0. BlockRestores(Z, r) = UNION {UNION {UNION {{Y(h, P, g)} : g \in Fresh(P, 1..k \ DOMAIN h)}
                                      : P \in Pools(h)} : h \in PlanHits(Z, x)}
  BY DEF BlockRestores
<1> HIDE DEF Y, Pools
<1>1. BlockRestores(Z, r) = UNION {UNION {UNION {{Y(h, P, g)} : g \in Fresh(P, 1..n \ DOMAIN h)}
                                      : P \in Pools(h)} : h \in PlanHits(Z, m)}
  BY <1>0
<1>2. PICK h \in PlanHits(Z, m) :
        R \in UNION {UNION {{Y(h, P, g)} : g \in Fresh(P, 1..n \ DOMAIN h)} : P \in Pools(h)}
  BY <1>1
<1>3. PICK P \in Pools(h) : R \in UNION {{Y(h, P, g)} : g \in Fresh(P, 1..n \ DOMAIN h)}
  BY <1>2
<1>4. PICK g \in Fresh(P, 1..n \ DOMAIN h) : R = Y(h, P, g)
  BY <1>3
<1>5. P \in Reclaims(Pinned(Z.pool, h), PlanNeeds(Z, m, h))
  BY <1>3 DEF Pools
<1>6. BlockRestoredFrom(R, Z, r, m, n, h, P, g)
  BY <1>2, <1>4, <1>5 DEF BlockRestoredFrom, PlanRestored, Y
<1> QED
  BY <1>6

LEMMA PlanRestoredBack ==
  ASSUME NEW c, IsRequest(c), c.st = "parked", NEW Z, NEW r, NEW m, IsManifest(m, r), m.tokens = c.tokens,
         NEW t \in Seq(Blocks), Len(t) = PlanLength(Z, m)
  PROVE  LET d == PlanRestored(c, Z, m, t)
         IN  /\ IsBack(d, c, PlanLength(Z, m)) /\ d.table = t /\ d.computed = PlanValid(Z, m)
             /\ d.published = 0 /\ d.parent = ROOT_HASH
<1> DEFINE d == PlanRestored(c, Z, m, t)
<1>1. /\ d.table = t /\ d.computed = PlanValid(Z, m) /\ d.res = "gpu" /\ d.published = 0 /\ d.parent = ROOT_HASH
      /\ d.st = c.st /\ d.tokens = c.tokens /\ d.snap = c.snap /\ DOMAIN d = DOMAIN c
  BY DEF PlanRestored, IsRequest
<1> HIDE DEF d
<1>2. ROOT_HASH \in TokenLists
  BY DEF ROOT_HASH, TokenLists
<1>3. /\ PlanValid(Z, m) \in Nat /\ PlanValid(Z, m) <= m.computed
      /\ BlocksNeededFor(PlanValid(Z, m)) = PlanLength(Z, m)
  BY PlanFacts
<1>4. m.computed \in Nat /\ m.computed < Len(c.tokens) /\ Len(c.tokens) \in Nat
  BY LenProperties DEF IsManifest, IsRequest, TokenLists
<1>5. IsRequest(d)
  BY <1>1, <1>2, <1>3 DEF IsRequest
<1>6. d.computed < Len(d.tokens)
  BY <1>1, <1>3, <1>4
<1>7. Placed(d)
  BY <1>1, <1>3, <1>6 DEF Placed
<1> QED
  BY <1>1, <1>5, <1>7 DEF IsBack, d

LEMMA BlockRestoresGood ==
  ASSUME NEW Z, BlockGood(Z), NEW r \in Sessions, Z.q[r].res = "cpu", ~BlockStale(Z, r),
         NEW m, m = Z.man[r], NEW n, n = PlanLength(Z, m),
         NEW R, NEW h, NEW P, NEW g, BlockRestoredFrom(R, Z, r, m, n, h, P, g)
  PROVE  LET c == PlanRestored(Z.q[r], Z, m, Mixed(h, g, n))
         IN  Back(R, Z, r, c) /\ IsBack(c, Z.q[r], n)
<1> DEFINE t == Mixed(h, g, n)
           c == PlanRestored(Z.q[r], Z, m, t)
<1>1. /\ Zone(Z) /\ Seats(Z.pool, Z.q) /\ Requests(Z.q) /\ IsRequest(Z.q[r]) /\ Placed(Z.q[r]) /\ Z.q[r].st = "parked"
      /\ Bare(Z.q[r].table)
  BY DEF BlockGood, Seated, Seats, Requests, Placed, Bare
<1>2. IsManifest(m, r) /\ m.tokens = Z.q[r].tokens
  <2>1. m.id # 0 /\ m.tokens = Z.q[r].tokens
    BY DEF BlockStale
  <2>2. m # NoMan
    BY <2>1 DEF NoMan
  <2> QED
    BY <2>1, <2>2 DEF BlockGood, Manifests
<1>3. /\ h \in PlanHits(Z, m) /\ P \in Reclaims(Pinned(Z.pool, h), PlanNeeds(Z, m, h))
      /\ g \in Fresh(P, 1..n \ DOMAIN h)
      /\ R = [Z EXCEPT !.pool = AllocBlocks(P, g),
                       !.kv = ImportPages(@, t, [i \in 1..n |-> PlanPage(Z, m, i)], 1..n \ DOMAIN h),
                       !.q[r] = c]
  BY DEF BlockRestoredFrom, Mixed
<1>4. n \in Nat /\ Reuses(Z.pool, h, n)
  <2>1. Z.pool \in PoolOf(TokenLists)
    BY <1>1, SeatsFacts
  <2>2. n \in Nat
    BY <1>2, PlanFacts
  <2> QED
    BY <1>2, <1>3, <2>1, <2>2, PlanHitsReuse
<1>5. t \in Seq(Blocks) /\ Len(t) = n
  <2>1. \A i \in 1..n : t[i] \in Blocks
    <3>1. P.free \subseteq Blocks
      <4>1. PICK a : Lists(a, h)
        BY <1>4, ReusesFamily, Listing
      <4>2. a \in Seq(Blocks) /\ Counts(Pinned(Z.pool, h), With(Z.q, r, a))
        BY <1>1, <1>4, <4>1, PinCounts DEF Lists
      <4>3. Counts(P, With(Z.q, r, a))
        BY <1>1, <1>3, <4>2, ReclaimCounts
      <4> QED
        BY <4>3 DEF Counts, PoolOf
    <3>2. \A i \in 1..n \ DOMAIN h : g[i] \in Blocks
      BY <1>3, <3>1 DEF Fresh
    <3>3. \A i \in DOMAIN h : h[i] \in Blocks
      BY <1>4 DEF Reuses
    <3> QED
      BY <3>2, <3>3 DEF Mixed
  <2>2. t \in [1..n -> Blocks] /\ DOMAIN t = 1..n
    BY <2>1 DEF Mixed
  <2> HIDE DEF t
  <2>3. t \in Seq(Blocks)
    BY <1>4, <2>2, FunctionSeq
  <2> QED
    BY <1>4, <2>2, <2>3, LenProperties
<1>6. IsBack(c, Z.q[r], n) /\ c.table = t
  <2> HIDE DEF t
  <2> QED
    BY <1>1, <1>2, <1>5, PlanRestoredBack
<1> HIDE DEF c
<1>7. Seats(AllocBlocks(P, g), [Z.q EXCEPT ![r] = c])
  <2>1. IsRequest(c) /\ Placed(c) /\ c.table = Mixed(h, g, n)
    BY <1>6 DEF IsBack
  <2>2. PICK D, Q, k, goal : D = Z.pool /\ Q = Z.q /\ k = n /\ goal = PlanNeeds(Z, m, h)
    OBVIOUS
  <2>3. Seats(D, Q) /\ Bare(Q[r].table) /\ k \in Nat /\ Reuses(D, h, k)
    BY <1>1, <1>4, <2>2
  <2>4. P \in Reclaims(Pinned(D, h), goal) /\ g \in Fresh(P, 1..k \ DOMAIN h) /\ c.table = Mixed(h, g, k)
    BY <1>3, <2>1, <2>2
  <2>5. Seats(AllocBlocks(P, g), [Q EXCEPT ![r] = c])
    <3> HIDE DEF t
    <3>1. IsRequest(c) /\ Placed(c)
      BY <2>1
    <3>2. PICK e : e = c
      OBVIOUS
    <3>3. IsRequest(e) /\ Placed(e) /\ e.table = Mixed(h, g, k)
      BY <2>4, <3>1, <3>2
    <3>4. Seats(AllocBlocks(P, g), [Q EXCEPT ![r] = e])
      BY <2>3, <2>4, <3>3, RestoreSeats
    <3> QED
      BY <3>2, <3>4
  <2> QED
    BY <2>2, <2>5
<1>8. Back(R, Z, r, c)
  <2> HIDE DEF t
  <2>1. R.pool = AllocBlocks(P, g) /\ R.q = [Z.q EXCEPT ![r] = c]
    BY <1>1, <1>3 DEF Zone
  <2>2. Zone(R) /\ R.store = Z.store /\ R.group = Z.group /\ R.pend = Z.pend /\ SameSnaps(R, Z)
    BY <1>1, <1>3 DEF Zone, SameSnaps, SameBlocks
  <2> QED
    BY <1>7, <2>1, <2>2 DEF Back
<1> QED
  BY <1>6, <1>8 DEF c

\* A restore that fails takes its references back.
LEMMA BlockFailedRestoreGood ==
  ASSUME NEW Z, BlockGood(Z), NEW r \in Sessions, Z.q[r].res = "cpu", ~BlockStale(Z, r),
         NEW R \in BlockFailedRestores(Z, r)
  PROVE  BlockGood(R) /\ SameHost(R, Z) /\ R.kv = Z.kv
<1> DEFINE m == Z.man[r]
           n == PlanLength(Z, m)
           Y(h, P) == [Z EXCEPT !.pool = Unpinned(P, h)]
           Pools(h) == {P \in Reclaims(Pinned(Z.pool, h), PlanNeeds(Z, m, h)) :
                          CopyMayFail \/ FreeBlocks(P) < PlanNeeds(Z, m, h)}
<1>0. BlockFailedRestores(Z, r) = UNION {{Y(h, P) : P \in Pools(h)} : h \in PlanHits(Z, m)}
  BY DEF BlockFailedRestores
<1> HIDE DEF Y, Pools
<1>1. PICK h \in PlanHits(Z, m) : R \in {Y(h, P) : P \in Pools(h)}
  BY <1>0
<1>2. PICK P \in Pools(h) : R = Y(h, P)
  BY <1>1
<1>3. P \in Reclaims(Pinned(Z.pool, h), PlanNeeds(Z, m, h)) /\ R = [Z EXCEPT !.pool = Unpinned(P, h)]
  BY <1>2 DEF Y, Pools
<1>4. /\ Zone(Z) /\ Seats(Z.pool, Z.q) /\ Requests(Z.q) /\ Bare(Z.q[r].table) /\ Z.pool \in PoolOf(TokenLists)
  <2>1. Zone(Z) /\ Seats(Z.pool, Z.q) /\ Requests(Z.q)
    BY DEF BlockGood, Seated, Seats
  <2>2. Bare(Z.q[r].table)
    BY <2>1 DEF Requests, Placed, Bare
  <2> QED
    BY <2>1, <2>2, SeatsFacts
<1>5. IsManifest(m, r)
  <2>1. m.id # 0
    BY DEF BlockStale
  <2>2. m # NoMan
    BY <2>1 DEF NoMan
  <2> QED
    BY <2>2 DEF BlockGood, Manifests
<1>6. n \in Nat /\ Reuses(Z.pool, h, n)
  <2> HIDE DEF m
  <2>1. n \in Nat
    BY <1>5, PlanFacts
  <2> QED
    BY <1>1, <1>4, <1>5, <2>1, PlanHitsReuse
<1>7. Seats(Unpinned(P, h), Z.q)
  <2>1. PICK goal : goal = PlanNeeds(Z, m, h)
    OBVIOUS
  <2>2. P \in Reclaims(Pinned(Z.pool, h), goal)
    BY <1>3, <2>1
  <2> HIDE DEF n, m
  <2> QED
    BY <1>4, <1>6, <2>2, UnpinSeats
<1>8. Zone(R) /\ SameHost(R, Z) /\ R.kv = Z.kv /\ R.pool = Unpinned(P, h) /\ R.q = Z.q
  BY <1>3, <1>4 DEF Zone, SameHost
<1>9. Seated(R)
  BY <1>7, <1>8 DEF Seated
<1>10. NoSnapshots(R) /\ Manifests(R) /\ LeaseHeld(R)
  BY <1>8 DEF BlockGood, NoSnapshots, Manifests, LeaseHeld, SameHost
<1> QED
  BY <1>8, <1>9, <1>10 DEF BlockGood

\* What a step leaves in the variables.
LEMMA GoodNext ==
  ASSUME NEW Z, NEW h, Good(Z, h), UNCHANGED <<cfg, weights, epoch>>, op'.hold = h, State' = Z
  PROVE  Good(State, op.hold)'
<1>1. Zone(Z) /\ Seated(Z) /\ Hosted(Z, h)
  BY DEF Good
<1>2. (Tiered <=> Tiered') /\ Namespace' = Namespace
  BY DEF Tiered, Namespace
<1>3. Zone(State)' /\ Seated(State)'
  BY <1>1 DEF Zone, Seated
<1>4. CASE Tiered
  <2>1. NoSnapshots(Z) /\ h = NoHold /\ Manifests(Z) /\ LeaseHeld(Z)
    BY <1>1, <1>4 DEF Hosted, Blocked
  <2>2. Manifests(State)'
    BY <1>2, <2>1 DEF Manifests, IsManifest, Keys
  <2>3. LeaseHeld(State)'
    BY <1>2, <2>1 DEF LeaseHeld, IsManifest, Keys
  <2>4. NoSnapshots(State)'
    BY <2>1 DEF NoSnapshots
  <2> QED
    BY <1>2, <1>3, <1>4, <2>1, <2>2, <2>3, <2>4 DEF Good, Hosted, Blocked
<1>5. CASE ~Tiered
  <2>1. Snapped(Z, h)
    BY <1>1, <1>5 DEF Hosted
  <2>2. Snapped(State, op.hold)'
    BY <2>1 DEF Snapped
  <2> QED
    BY <1>2, <1>3, <1>5, <2>2 DEF Good, Hosted
<1> QED
  BY <1>4, <1>5

LEMMA BecomeNext ==
  ASSUME NEW Z, NEW h, Good(Z, h), UNCHANGED <<cfg, weights, epoch>>, op'.hold = h, Become(Z)
  PROVE  Good(State, op.hold)'
<1>1. PICK Y : Y = State'
  OBVIOUS
<1>2. Zone(Y) /\ Y.pool = Z.pool
  BY <1>1 DEF Become, Zone, State
<1>3. SameHost(Y, Z)
  BY <1>1 DEF Become, State, SameHost
<1>4. Seats(Y.pool, Y.q)
  BY <1>2, <1>3 DEF Good, Seated, SameHost
<1>5. Good(Y, h)
  BY <1>2, <1>3, <1>4, PoolChanged
<1> QED
  BY <1>1, <1>5, GoodNext

(***************************************************************************)
(* The operations, whichever manager the configuration selects.            *)
(***************************************************************************)
\* No group is open.
Calm(Z) == Z.group = {} /\ ~Z.lease.on
\* Who is active, parked or gone, and the histories, are as they were.
Kin(Y, Z) == \A x \in Sessions : Y.q[x].st = Z.q[x].st /\ Y.q[x].tokens = Z.q[x].tokens

LEMMA SnapCalm ==
  ASSUME NEW Z, NEW hold, SnapGood(Z, hold)
  PROVE  Calm(Z) <=> Z.group = {}
BY DEF SnapGood, Snapped, NoBlocks, NoLease, Calm

LEMMA BlockCalm ==
  ASSUME NEW Z, BlockGood(Z)
  PROVE  (Calm(Z) <=> ~Z.lease.on) /\ ~Z.pend.on /\ Z.group = {}
BY DEF BlockGood, NoSnapshots, NoPend, Calm

LEMMA GoodQ ==
  ASSUME NEW Z, NEW hold, Good(Z, hold)
  PROVE  /\ Zone(Z) /\ Seats(Z.pool, Z.q) /\ Requests(Z.q)
         /\ \A r \in Sessions : IsRequest(Z.q[r]) /\ Placed(Z.q[r])
BY DEF Good, Seated, Seats, Requests

LEMMA WaitedCalm ==
  ASSUME NEW Z, NEW hold, Good(Z, hold), Calm(Z), NEW cancel \in BOOLEAN
  PROVE  LET Y == Waited(Z, cancel)
         IN  Good(Y, hold) /\ Calm(Y) /\ Kin(Y, Z) /\ ~Y.pend.on
<1> DEFINE Y == Waited(Z, cancel)
<1>1. CASE Tiered
  <2>1. BlockGood(Z) /\ ~Z.pend.on
    BY <1>1, GoodBlocks, BlockCalm
  <2>2. Y = Z
    BY <2>1 DEF Waited
  <2> HIDE DEF Y
  <2> QED
    BY <2>1, <2>2 DEF Kin, Y
<1>2. CASE ~Tiered
  <2>1. SnapGood(Z, hold)
    BY <1>2, GoodSnaps
  <2>2. /\ SnapGood(Y, hold) /\ Idling(Y)
        /\ Z.pend.on => Settles(Y, Z, Z.pend.meta.rid)
        /\ ~Z.pend.on => Y = Z
    BY <2>1, WaitedGood
  <2> HIDE DEF Y
  <2>3. Kin(Y, Z) /\ Y.group = {}
    BY <2>2 DEF Settles, Kin, Calm
  <2>4. Good(Y, hold) /\ Calm(Y)
    BY <1>2, <2>2, <2>3, GoodSnaps, SnapCalm
  <2>5. ~Y.pend.on
    BY <2>2 DEF Idling
  <2> QED
    BY <2>3, <2>4, <2>5 DEF Y
<1> QED
  BY <1>1, <1>2

LEMMA WaitedFor ==
  ASSUME NEW hold, Good(State, hold), Calm(State), NEW r
  PROVE  LET Z == WaitFor(r)
         IN  Good(Z, hold) /\ Calm(Z) /\ Kin(Z, State) /\ (Z.pend.on => Z.pend.meta.rid # r)
<1> DEFINE Z == WaitFor(r)
<1>0. pend = State.pend
  BY DEF State
<1>1. CASE pend.on /\ pend.meta.rid = r
  <2>1. Z = Waited(State, FALSE)
    BY <1>1 DEF WaitFor
  <2>2. LET Y == Waited(State, FALSE)
        IN  Good(Y, hold) /\ Calm(Y) /\ Kin(Y, State) /\ ~Y.pend.on
    BY WaitedCalm
  <2> HIDE DEF Z
  <2>3. Good(Z, hold) /\ Calm(Z) /\ Kin(Z, State) /\ ~Z.pend.on
    BY <2>1, <2>2
  <2> QED
    BY <2>3 DEF Z
<1>2. CASE ~(pend.on /\ pend.meta.rid = r)
  <2>1. Z = State
    BY <1>2 DEF WaitFor
  <2> HIDE DEF Z
  <2>2. Good(Z, hold) /\ Calm(Z) /\ Kin(Z, State) /\ (Z.pend.on => Z.pend.meta.rid # r)
    BY <1>0, <1>2, <2>1 DEF Kin
  <2> QED
    BY <2>2 DEF Z
<1> QED
  BY <1>1, <1>2

\* begin_restore, either way: the session has its KV on the GPU again.
LEMMA RestoreBegun ==
  ASSUME NEW Z, NEW hold, Good(Z, hold), NEW r \in Sessions, Z.q[r].res = "cpu", ~Stale(Z, r),
         NEW R \in BeginRestore(Z, r)
  PROVE  \E c, n : /\ Back(R, Z, r, c) /\ IsBack(c, Z.q[r], n)
                   /\ ~Tiered => \E s : HostSnapshot(Z, r, s) /\ n = s.n
<1>1. CASE Tiered
  <2>1. BlockGood(Z) /\ ~BlockStale(Z, r) /\ R \in BlockRestores(Z, r)
    BY <1>1, GoodBlocks DEF Stale, BeginRestore
  <2>2. PICK m, n : m = Z.man[r] /\ n = PlanLength(Z, m)
    OBVIOUS
  <2>3. PICK h, P, g : BlockRestoredFrom(R, Z, r, m, n, h, P, g)
    BY <2>1, <2>2, BlockRestoreParts
  <2>4. LET c == PlanRestored(Z.q[r], Z, m, Mixed(h, g, n))
        IN  Back(R, Z, r, c) /\ IsBack(c, Z.q[r], n)
    BY <2>1, <2>2, <2>3, BlockRestoresGood
  <2> QED
    BY <1>1, <2>4
<1>2. CASE ~Tiered
  <2>1. SnapGood(Z, hold) /\ R \in Restores(Z, r)
    BY <1>2, GoodSnaps DEF BeginRestore
  <2>2. PICK s : HostSnapshot(Z, r, s)
    BY <2>1, HostHasSnapshot
  <2>3. PICK h, P, g : RestoredFrom(R, Z, r, s, h, P, g)
    BY <2>1, <2>2, RestoreParts DEF HostSnapshot
  <2>4. LET c == Restored(Z.q[r], s, Mixed(h, g, s.n), h)
        IN  Back(R, Z, r, c) /\ IsBack(c, Z.q[r], s.n)
    BY <2>1, <2>2, <2>3, RestoresGood
  <2> QED
    BY <2>2, <2>4
<1> QED
  BY <1>1, <1>2

\* Only session r has changed its place.
OnlyMoves(Y, Z, r) == \A x \in Sessions : x # r => Y.q[x] = Z.q[x]

LEMMA BackParts ==
  ASSUME NEW R, NEW Z, Requests(Z.q), NEW r \in Sessions, NEW c, Back(R, Z, r, c)
  PROVE  /\ Zone(R) /\ Seats(R.pool, R.q) /\ R.q[r] = c /\ OnlyMoves(R, Z, r)
         /\ R.group = Z.group /\ R.lease = Z.lease /\ R.pend = Z.pend /\ DOMAIN R.q = Sessions
BY DEF Back, Requests, OnlyMoves, SameSnaps, SameBlocks

LEMMA AdmittedGood ==
  ASSUME NEW Z, NEW hold, Good(Z, hold), Calm(Z), NEW r \in Sessions, Z.q[r].res = "cpu", ~Stale(Z, r),
         Z.pend.on => Z.pend.meta.rid # r, NEW R \in BeginRestore(Z, r), NEW suffix \in TokenLists
  PROVE  LET Y == Resumed(Commits(R, r), r, suffix)
         IN  Good(Y, hold) /\ Calm(Y) /\ OnlyMoves(Y, Z, r) /\ Y.q[r].st = "active"
<1> DEFINE Y == Resumed(Commits(R, r), r, suffix)
<1>1. PICK c, n : /\ Back(R, Z, r, c) /\ IsBack(c, Z.q[r], n)
                  /\ ~Tiered => \E s : HostSnapshot(Z, r, s) /\ n = s.n
  BY RestoreBegun
<1>2. Zone(Z) /\ Seats(Z.pool, Z.q) /\ Requests(Z.q)
  BY GoodQ
<1>3. CASE Tiered
  <2>1. BlockGood(Z)
    BY <1>3, GoodBlocks
  <2>2. Y = Resumed(R, r, suffix)
    BY <1>3 DEF Commits
  <2>3. c.res # "cpu" /\ c.st = "parked"
    BY <1>1 DEF IsBack
  <2>4. BlockGood(R) /\ ~R.lease.on
    BY <1>1, <2>1, <2>3, BlockBackGood DEF Calm, Back, SameSnaps, SameBlocks
  <2>5. Zone(R) /\ Seats(R.pool, R.q) /\ R.q[r] = c /\ OnlyMoves(R, Z, r) /\ DOMAIN R.q = Sessions
    BY <1>1, <1>2, BackParts
  <2>6. PICK d : d = [R.q[r] EXCEPT !.st = "active", !.tokens = @ \o suffix]
    OBVIOUS
  <2>7. LET e == [R.q[r] EXCEPT !.st = "active", !.tokens = @ \o suffix]
        IN  Back(Resumed(R, r, suffix), R, r, e) /\ e.st = "active" /\ e.res # "cpu"
    <3>1. R.q[r].st = "parked" /\ R.q[r].res # "cpu"
      BY <2>3, <2>5
    <3> HIDE DEF Y
    <3> QED
      BY <2>5, <3>1, ResumedBack, Zenon
  <2> HIDE DEF Y
  <2>8. Back(Y, R, r, d) /\ d.st = "active" /\ d.res # "cpu"
    BY <2>2, <2>6, <2>7
  <2>9. BlockGood(Y)
    BY <2>4, <2>8, BlockBackGood
  <2>10. Y.q[r] = d /\ OnlyMoves(Y, R, r) /\ Y.lease = R.lease
    BY <2>5, <2>8 DEF Back, OnlyMoves, SameSnaps, SameBlocks
  <2>11. Good(Y, hold) /\ Calm(Y)
    BY <1>3, <2>4, <2>9, <2>10, GoodBlocks, BlockCalm
  <2>12. OnlyMoves(Y, Z, r) /\ Y.q[r].st = "active"
    BY <2>5, <2>8, <2>10 DEF OnlyMoves
  <2> QED
    BY <2>11, <2>12 DEF Y
<1>4. CASE ~Tiered
  <2>1. SnapGood(Z, hold) /\ Z.group = {}
    BY <1>4, GoodSnaps DEF Calm
  <2>2. PICK s : HostSnapshot(Z, r, s) /\ n = s.n
    BY <1>1, <1>4
  <2>3. Y = Resumed(CommitRestore(R, r), r, suffix)
    BY <1>4 DEF Commits
  <2>4. IsBack(c, Z.q[r], s.n)
    BY <1>1, <2>2
  <2>5. LET X == Resumed(CommitRestore(R, r), r, suffix)
        IN  /\ SnapGood(X, hold) /\ X.group = {} /\ X.pend = Z.pend /\ X.pool = R.pool /\ X.kv = R.kv
            /\ X.q = [Z.q EXCEPT ![r] = [c EXCEPT !.st = "active", !.tokens = @ \o suffix]]
            /\ Snaps(X.store) \subseteq Snaps(Z.store) /\ SameBlocks(X, Z)
    <3> HIDE DEF Y
    <3> QED
      BY <1>1, <2>1, <2>2, <2>4, ResumedRestoreGood, Zenon
  <2> HIDE DEF Y
  <2>6. /\ SnapGood(Y, hold) /\ Y.group = {}
        /\ Y.q = [Z.q EXCEPT ![r] = [c EXCEPT !.st = "active", !.tokens = @ \o suffix]]
    BY <2>3, <2>5
  <2>7. PICK d : d = [c EXCEPT !.st = "active", !.tokens = @ \o suffix]
    OBVIOUS
  <2>8. d.st = "active"
    BY <1>1, <2>7 DEF IsBack, IsRequest
  <2>9. Y.q = [Z.q EXCEPT ![r] = d]
    BY <2>6, <2>7
  <2>10. OnlyMoves(Y, Z, r) /\ Y.q[r].st = "active"
    BY <1>2, <2>8, <2>9 DEF OnlyMoves, Requests
  <2>11. Good(Y, hold) /\ Calm(Y)
    BY <1>4, <2>6, GoodSnaps, SnapCalm
  <2> QED
    BY <2>10, <2>11 DEF Y
<1> QED
  BY <1>3, <1>4

LEMMA ResumedGood ==
  ASSUME NEW Z, NEW hold, Good(Z, hold), Calm(Z), NEW r \in Sessions, Z.q[r].st = "parked", Z.q[r].res # "cpu",
         Z.pend.on => Z.pend.meta.rid # r, NEW suffix \in TokenLists
  PROVE  LET Y == Resumed(Z, r, suffix)
         IN  Good(Y, hold) /\ Calm(Y) /\ OnlyMoves(Y, Z, r) /\ Y.q[r].st = "active"
<1>1. Zone(Z) /\ Seats(Z.pool, Z.q) /\ Requests(Z.q)
  BY GoodQ
<1>2. LET e == [Z.q[r] EXCEPT !.st = "active", !.tokens = @ \o suffix]
      IN  Back(Resumed(Z, r, suffix), Z, r, e) /\ e.st = "active" /\ e.res # "cpu"
  BY <1>1, ResumedBack, Zenon
<1>3. PICK d, Y : d = [Z.q[r] EXCEPT !.st = "active", !.tokens = @ \o suffix] /\ Y = Resumed(Z, r, suffix)
  OBVIOUS
<1>4. Back(Y, Z, r, d) /\ d.st = "active" /\ d.res # "cpu"
  BY <1>2, <1>3
<1>5. Good(Y, hold)
  BY <1>4, GoodBack DEF Calm
<1>6. Y.q[r] = d /\ OnlyMoves(Y, Z, r) /\ Y.lease = Z.lease /\ Y.group = Z.group
  BY <1>1, <1>4, BackParts
<1>7. Calm(Y)
  BY <1>6 DEF Calm
<1> QED
  BY <1>3, <1>4, <1>5, <1>6, <1>7

LEMMA OutGood ==
  ASSUME NEW Z, NEW hold, Good(Z, hold), Calm(Z), NEW r \in Sessions, Z.q[r].res = "cpu",
         Z.pend.on => Z.pend.meta.rid # r, NEW Y, NEW d, StaysOut(Y, Z, r, d)
  PROVE  Good(Y, hold) /\ Calm(Y) /\ Kin(Y, Z)
<1>1. Requests(Z.q) /\ IsRequest(Z.q[r]) /\ Placed(Z.q[r])
  BY GoodQ
<1>2. Y.group = Z.group /\ Y.lease = Z.lease /\ Y.q = [Z.q EXCEPT ![r] = d]
  BY DEF StaysOut, SameSnaps, SameBlocks
<1>3. Kin(Y, Z)
  <2>1. d.st = Z.q[r].st /\ d.tokens = Z.q[r].tokens
    BY <1>1 DEF StaysOut, Placed
  <2> QED
    BY <1>1, <1>2, <2>1 DEF Kin, Requests
<1>4. CASE Tiered
  BY <1>2, <1>3, <1>4, GoodBlocks, BlockStaysOut DEF Calm
<1>5. CASE ~Tiered
  BY <1>2, <1>3, <1>5, GoodSnaps, StaysOutGood DEF Calm
<1> QED
  BY <1>4, <1>5

LEMMA RefusedGood ==
  ASSUME NEW Z, NEW hold, Good(Z, hold), Calm(Z), NEW r \in Sessions, Z.q[r].res = "cpu", ~Stale(Z, r),
         Z.pend.on => Z.pend.meta.rid # r, NEW R \in BeginRestore(Z, r)
  PROVE  LET Y == RollbackRestore(R, r)
         IN  Good(Y, hold) /\ Calm(Y) /\ Kin(Y, Z)
<1>1. PICK c, n : Back(R, Z, r, c) /\ IsBack(c, Z.q[r], n)
  BY RestoreBegun
<1>2. Requests(Z.q)
  BY GoodQ
<1>3. LET Y == RollbackRestore(R, r)
          d == [c EXCEPT !.table = << >>, !.computed = 0, !.res = "cpu"]
      IN  StaysOut(Y, Z, r, d)
  BY <1>1, <1>2, RolledBackOut, Zenon
<1>4. PICK Y, d : Y = RollbackRestore(R, r) /\ StaysOut(Y, Z, r, d)
  BY <1>3
<1>5. Good(Y, hold) /\ Calm(Y) /\ Kin(Y, Z)
  BY <1>4, OutGood
<1> QED
  BY <1>4, <1>5

\* A restore that fails; a failed admission may go on referring to its buffer.
LEMMA RestoreFailedGood ==
  ASSUME NEW Z, NEW hold, Good(Z, hold), Calm(Z), NEW r \in Sessions, Z.q[r].res = "cpu", ~Stale(Z, r),
         Z.pend.on => Z.pend.meta.rid # r, NEW R \in BeginRestoreFails(Z, r)
  PROVE  Good(R, hold) /\ Good(R, Holding(Z, r)) /\ Good(R, NoHold) /\ Calm(R) /\ Kin(R, Z)
<1>1. CASE Tiered
  <2>1. BlockGood(Z) /\ hold = NoHold /\ ~BlockStale(Z, r) /\ R \in BlockFailedRestores(Z, r)
    BY <1>1, GoodBlocks DEF Stale, BeginRestoreFails
  <2>2. BlockGood(R) /\ SameHost(R, Z)
    BY <2>1, BlockFailedRestoreGood
  <2>3. Holding(Z, r) = NoHold
    BY <1>1 DEF Holding
  <2>4. Good(R, NoHold)
    BY <1>1, <2>2, GoodBlocks
  <2>5. Calm(R) /\ Kin(R, Z)
    BY <2>2 DEF SameHost, Calm, Kin
  <2> QED
    BY <2>1, <2>3, <2>4, <2>5
<1>2. CASE ~Tiered
  <2>1. SnapGood(Z, hold) /\ Z.group = {} /\ R \in FailedRestores(Z, r)
    BY <1>2, GoodSnaps DEF BeginRestoreFails, Calm
  <2>2. PICK s : HostSnapshot(Z, r, s)
    BY <2>1, HostHasSnapshot
  <2>3. PICK h, P : FailedFrom(R, Z, r, s, h, P)
    BY <2>1, <2>2, FailedParts DEF HostSnapshot
  <2>4. PICK d : SnapGood(R, hold) /\ StaysOut(R, Z, r, d)
    BY <2>1, <2>2, <2>3, FailedRestoreGood
  <2>5. Calm(R) /\ Kin(R, Z)
    BY <2>4, OutGood
  <2>6. Holding(Z, r) = [id |-> s.id, n |-> s.n]
    BY <1>2, <2>2 DEF Holding, HostSnapshot
  <2>7. s \in Snaps(R.store) /\ Books(R.store, hold)
    BY <2>2, <2>4 DEF HostSnapshot, StaysOut, SnapGood, Snapped
  <2>8. Books(R.store, [id |-> s.id, n |-> s.n])
    BY <2>7, HoldSnapshot
  <2>9. SnapGood(R, Holding(Z, r)) /\ SnapGood(R, NoHold)
    BY <2>4, <2>6, <2>8, HoldChanged, HoldReleased
  <2> QED
    BY <1>2, <2>4, <2>5, <2>9, GoodSnaps
<1> QED
  BY <1>1, <1>2

LEMMA ReleasedGood ==
  ASSUME NEW Z, NEW hold, Good(Z, hold)
  PROVE  Good(Z, NoHold)
BY GoodSnaps, GoodBlocks, HoldReleased

\* finish_request of the sessions S.
LEMMA FinishedCalm ==
  ASSUME NEW Z, NEW hold, Good(Z, hold), Calm(Z), NEW S \in SUBSET Sessions
  PROVE  LET Y == Finished(Z, S)
         IN  /\ Good(Y, hold) /\ Calm(Y) /\ (Y.pend.on => Y.pend.meta.rid \notin S)
             /\ \A x \in S : Y.q[x] = NoReq
             /\ \A x \in Sessions : x \notin S => Y.q[x].st = Z.q[x].st /\ Y.q[x].tokens = Z.q[x].tokens
<1> DEFINE Y == Finished(Z, S)
           C == Cancelled(Z, S)
<1>1. CASE Tiered
  <2>1. BlockGood(Z) /\ ~Z.lease.on /\ hold = NoHold
    BY <1>1, GoodBlocks DEF Calm
  <2>2. /\ BlockGood(Y) /\ Y.q = [r \in Sessions |-> IF r \in S THEN NoReq ELSE Z.q[r]]
        /\ BlockRemoves(Y, Z, S)
    BY <1>1, <2>1, BlockFinishedGood
  <2> HIDE DEF Y, C
  <2>3. Good(Y, hold) /\ Calm(Y) /\ ~Y.pend.on
    BY <1>1, <2>1, <2>2, GoodBlocks, BlockCalm DEF BlockRemoves
  <2> QED
    BY <2>2, <2>3 DEF Y
<1>2. CASE ~Tiered
  <2>1. SnapGood(Z, hold) /\ Z.group = {}
    BY <1>2, GoodSnaps DEF Calm
  <2>2. /\ SnapGood(Y, hold) /\ IsCancelled(C, Z, S) /\ Y.group = {}
        /\ Y.q = [r \in Sessions |-> IF r \in S THEN NoReq ELSE C.q[r]] /\ Y.pend = C.pend
    <3>1. LET F == Finished(Z, S)
              D == Cancelled(Z, S)
          IN  /\ SnapGood(F, hold) /\ IsCancelled(D, Z, S) /\ F.group = {}
              /\ F.q = [r \in Sessions |-> IF r \in S THEN NoReq ELSE D.q[r]] /\ F.kv = D.kv
              /\ F.pool = DeallocateAll(D.pool, [r \in S |-> D.q[r].table])
              /\ F.pend = D.pend /\ Snaps(F.store) \subseteq Snaps(D.store)
      BY <1>2, <2>1, FinishedGood, Zenon
    <3> QED
      BY <3>1
  <2> HIDE DEF Y, C
  <2>3. Good(Y, hold) /\ Calm(Y)
    BY <1>2, <2>2, GoodSnaps, SnapCalm
  <2>4. Y.pend.on => Y.pend.meta.rid \notin S
    BY <2>2 DEF IsCancelled
  <2>5. \A x \in Sessions : C.q[x].st = Z.q[x].st /\ C.q[x].tokens = Z.q[x].tokens
    BY <2>2 DEF IsCancelled, Settles
  <2> QED
    BY <2>2, <2>3, <2>4, <2>5 DEF Y
<1> QED
  BY <1>1, <1>2

\* The oldest session is dropped.
LEMMA DropCalm ==
  ASSUME NEW Z, NEW hold, Good(Z, hold), Calm(Z), NEW r \in Sessions, Z.q[r].st = "parked"
  PROVE  LET R == Forgotten(Z, {r})
             Y == [R EXCEPT !.pool = Deallocate(@, R.q[r].table), !.q[r] = Dropped(@)]
         IN  Good(Y, hold) /\ Calm(Y) /\ Kin(Y, Z)
<1> DEFINE R == Forgotten(Z, {r})
           Y == [R EXCEPT !.pool = Deallocate(@, R.q[r].table), !.q[r] = Dropped(@)]
           C == Cancelled(Z, {r})
<1>0. Requests(Z.q)
  BY GoodQ
<1>1. CASE Tiered
  <2>1. BlockGood(Z) /\ ~Z.lease.on /\ hold = NoHold
    BY <1>1, GoodBlocks DEF Calm
  <2>2. /\ BlockGood(Y) /\ Y.q = [Z.q EXCEPT ![r] = Dropped(Z.q[r])] /\ BlockRemoves(Y, Z, {r})
    BY <1>1, <2>1, BlockDropGood
  <2> HIDE DEF Y, C
  <2>3. Good(Y, hold) /\ Calm(Y)
    BY <1>1, <2>1, <2>2, GoodBlocks, BlockCalm DEF BlockRemoves
  <2>4. Kin(Y, Z)
    BY <1>0, <2>2, DroppedRequest DEF Kin, Requests
  <2> QED
    BY <2>3, <2>4 DEF Y
<1>2. CASE ~Tiered
  <2>1. SnapGood(Z, hold) /\ Z.group = {}
    BY <1>2, GoodSnaps DEF Calm
  <2>2. SnapGood(Y, hold) /\ IsCancelled(C, Z, {r}) /\ Y.group = {} /\ Y.q = [C.q EXCEPT ![r] = Dropped(C.q[r])]
    BY <1>2, <2>1, DropGood
  <2>3. SnapGood(C, hold)
    BY <2>1, CancelledGood
  <2> HIDE DEF Y, C
  <2>4. Good(Y, hold) /\ Calm(Y)
    BY <1>2, <2>2, GoodSnaps, SnapCalm
  <2>5. \A x \in Sessions : C.q[x].st = Z.q[x].st /\ C.q[x].tokens = Z.q[x].tokens
    BY <2>2 DEF IsCancelled, Settles
  <2>6. Requests(C.q)
    BY <2>3 DEF SnapGood, Seated, Seats
  <2>7. Kin(Y, Z)
    BY <2>2, <2>5, <2>6, DroppedRequest DEF Kin, Requests
  <2> QED
    BY <2>4, <2>7 DEF Y
<1> QED
  BY <1>1, <1>2

\* The members of the open group rs from i on have what their save needs.
Awaits(Z, rs, i) ==
  /\ ~Z.pend.on
  /\ ~Tiered => \A j \in i..Len(rs) : \E m \in Z.group : m.rid = rs[j]
  /\ Tiered => Z.lease.on /\ DOMAIN Z.lease.man = Range(rs)

LEMMA InRange ==
  ASSUME NEW D, NEW rs \in Seq(D), NEW j \in 1..Len(rs)
  PROVE  rs[j] \in Range(rs) /\ rs[j] \in D
BY LenProperties, ElementOfSeq DEF Range

LEMMA PreparedGood ==
  ASSUME NEW Z, Good(Z, op.hold), Calm(Z), ~Z.pend.on, NEW rs \in Seq(Sessions), IsInjective(rs),
         \A r \in Range(rs) : Z.q[r].st = "parked", NEW G \in Prepared(Z, rs)
  PROVE  /\ Good(G.z, op.hold) /\ Kin(G.z, Z) /\ ~G.z.pend.on
         /\ ~G.ok => Calm(G.z)
         /\ G.ok => Awaits(G.z, rs, 1)
<1>1. CASE Tiered
  <2>1. BlockGood(Z) /\ op.hold = NoHold /\ G \in BlockPrepare(Z, rs)
    BY <1>1, GoodBlocks DEF Prepared
  <2>2. /\ BlockGood(G.z) /\ SameButBlocks(G.z, Z)
        /\ ~G.ok => G.z = Z
        /\ G.ok => G.z.lease.on /\ DOMAIN G.z.lease.man = Range(rs)
    BY <1>1, <2>1, BlockPrepareGood
  <2>3. Good(G.z, op.hold) /\ ~G.z.pend.on
    BY <1>1, <2>1, <2>2, GoodBlocks, BlockCalm
  <2>4. Kin(G.z, Z)
    BY <2>2 DEF SameButBlocks, Kin
  <2> QED
    BY <1>1, <2>2, <2>3, <2>4 DEF Awaits
<1>2. CASE ~Tiered
  <2>1. SnapGood(Z, op.hold) /\ G = PrepareGroup(Z, rs) /\ Z.group = {}
    BY <1>2, GoodSnaps DEF Prepared, Calm
  <2>2. LET X == PrepareGroup(Z, rs)
        IN  SnapGood(X.z, op.hold) /\ GroupReady(X, Z, rs)
    BY <2>1, PrepareGroupGood, Zenon
  <2>3. SnapGood(G.z, op.hold) /\ GroupReady(G, Z, rs)
    BY <2>1, <2>2
  <2>4. Good(G.z, op.hold) /\ (~G.ok => Calm(G.z))
    BY <1>2, <2>3, GoodSnaps, SnapCalm DEF GroupReady
  <2>5. Kin(G.z, Z)
    BY <2>1, <2>3, LosesKeeps DEF GroupReady, Kin, SnapGood, Seated, Seats
  <2>6. ~G.z.pend.on
    BY <2>3 DEF GroupReady, Idling
  <2>7. ASSUME G.ok
        PROVE  \A j \in 1..Len(rs) : \E m \in G.z.group : m.rid = rs[j]
    BY <2>3, <2>7, InRange DEF GroupReady
  <2> QED
    BY <1>2, <2>4, <2>5, <2>6, <2>7 DEF Awaits
<1> QED
  BY <1>1, <1>2

LEMMA SavedGood ==
  ASSUME NEW Z, NEW hold, Good(Z, hold), NEW rs \in Seq(Sessions), IsInjective(rs),
         NEW i \in 1..Len(rs), Awaits(Z, rs, i)
  PROVE  LET Y == Saved(Z, rs[i])
         IN  Good(Y, hold) /\ Kin(Y, Z) /\ Awaits(Y, rs, i + 1)
<1>0. PICK r : r = rs[i]
  OBVIOUS
<1>1. r \in Range(rs) /\ r \in Sessions /\ Len(rs) \in Nat /\ DOMAIN rs = 1..Len(rs)
  BY <1>0, InRange, LenProperties
<1> DEFINE Y == Saved(Z, r)
<1>2. CASE Tiered
  <2>1. BlockGood(Z) /\ hold = NoHold /\ Z.lease.on /\ DOMAIN Z.lease.man = Range(rs) /\ r \in DOMAIN Z.lease.man
    BY <1>1, <1>2, GoodBlocks DEF Awaits
  <2>2. Y = BlockSave(Z, r)
    BY <1>2 DEF Saved
  <2>3. LET X == BlockSave(Z, r) IN BlockGood(X) /\ BlockSaves(X, Z, r)
    BY <2>1, BlockSaveGood, Zenon
  <2> HIDE DEF Y
  <2>4. BlockGood(Y) /\ BlockSaves(Y, Z, r)
    BY <2>2, <2>3
  <2>5. Good(Y, hold) /\ Kin(Y, Z) /\ ~Y.pend.on
    BY <1>2, <2>1, <2>4, GoodBlocks, BlockCalm DEF BlockSaves, Kin
  <2>6. Awaits(Y, rs, i + 1)
    BY <1>2, <2>1, <2>4, <2>5 DEF Awaits, BlockSaves
  <2> QED
    BY <1>0, <2>5, <2>6 DEF Y
<1>3. CASE ~Tiered
  <2>1. SnapGood(Z, hold)
    BY <1>3, GoodSnaps
  <2>2. \E m \in Z.group : m.rid = r
    BY <1>0, <1>3 DEF Awaits
  <2>3. Idling(Z)
    BY <2>1 DEF Awaits, Idling, SnapGood, Snapped, SourceHeld
  <2>4. Y = Save(Z, r)
    BY <1>3 DEF Saved
  <2>5. LET X == Save(Z, r) IN SnapGood(X, hold) /\ Saves(X, Z, r)
    BY <1>1, <2>1, <2>2, <2>3, SaveGood, Zenon
  <2> HIDE DEF Y
  <2>6. SnapGood(Y, hold) /\ Saves(Y, Z, r)
    BY <2>4, <2>5
  <2>7. Good(Y, hold) /\ Kin(Y, Z)
    BY <1>3, <2>6, GoodSnaps DEF Saves, Kin
  <2>8. ASSUME NEW j \in i + 1..Len(rs)
        PROVE  \E m \in Y.group : m.rid = rs[j]
    <3>1. j \in i..Len(rs) /\ j \in 1..Len(rs) /\ j # i
      BY <1>1
    <3>2. rs[j] # r /\ rs[j] \in Sessions
      BY <1>0, <1>1, <3>1, InRange DEF IsInjective
    <3>3. \E m \in Z.group : m.rid = rs[j]
      BY <1>3, <3>1 DEF Awaits
    <3> QED
      BY <2>6, <3>2, <3>3 DEF Saves
  <2>9. ~Y.pend.on
    BY <2>6 DEF Saves, Idling
  <2>10. Awaits(Y, rs, i + 1)
    BY <1>3, <2>8, <2>9 DEF Awaits
  <2> QED
    BY <1>0, <2>7, <2>10 DEF Y
<1> QED
  BY <1>2, <1>3

LEMMA SaveRaises ==
  ASSUME NEW Z, NEW hold, Good(Z, hold), NEW rs \in Seq(Sessions),
         NEW i \in 1..Len(rs), Awaits(Z, rs, i), NEW Y \in SavesFailing(Z, rs[i])
  PROVE  Good(Y, hold) /\ Kin(Y, Z) /\ ~Y.pend.on
<1>0. PICK r : r = rs[i]
  OBVIOUS
<1>1. r \in Sessions
  BY <1>0, InRange
<1>2. CASE Tiered
  <2>1. BlockGood(Z) /\ hold = NoHold /\ Y \in BlockSaveFails(Z, r)
    BY <1>0, <1>2, GoodBlocks DEF SavesFailing
  <2>2. BlockGood(Y) /\ SameButBlocks(Y, Z)
    BY <2>1, BlockSaveFailsGood
  <2> QED
    BY <1>2, <2>1, <2>2, GoodBlocks, BlockCalm DEF SameButBlocks, Kin
<1>3. CASE ~Tiered
  <2>1. SnapGood(Z, hold) /\ Y = SaveFailed(Z, ReservationOf(Z, r))
    BY <1>0, <1>3, GoodSnaps DEF SavesFailing
  <2>2. \E m \in Z.group : m.rid = r
    <3>1. i \in i..Len(rs)
      BY LenProperties
    <3> QED
      BY <1>0, <1>3, <3>1 DEF Awaits
  <2>3. Idling(Z)
    BY <2>1 DEF Awaits, Idling, SnapGood, Snapped, SourceHeld
  <2>4. PICK m : m = ReservationOf(Z, r)
    OBVIOUS
  <2>5. m \in Z.group
    BY <2>2, <2>4, ReservationFound
  <2>6. LET X == SaveFailed(Z, m)
        IN  SnapGood(X, hold) /\ Saves(X, Z, m.rid) /\ X.q = Z.q /\ X.pool = Z.pool /\ X.group = Z.group \ {m}
    BY <2>1, <2>3, <2>5, SaveFailedGood, Zenon
  <2>7. SnapGood(Y, hold) /\ Saves(Y, Z, m.rid) /\ Y.q = Z.q
    BY <2>1, <2>4, <2>6
  <2> QED
    BY <1>3, <2>7, GoodSnaps DEF Kin, Saves, Idling
<1> QED
  BY <1>2, <1>3

LEMMA ClosedGood ==
  ASSUME NEW Z, NEW hold, Good(Z, hold)
  PROVE  LET Y == Closed(Z)
         IN  Good(Y, hold) /\ Calm(Y) /\ Kin(Y, Z) /\ Y.pend = Z.pend
<1> DEFINE Y == Closed(Z)
<1>1. CASE Tiered
  <2>1. BlockGood(Z) /\ hold = NoHold /\ Y = BlockClose(Z)
    BY <1>1, GoodBlocks DEF Closed
  <2>2. LET X == BlockClose(Z) IN BlockGood(X) /\ SameButBlocks(X, Z) /\ ~X.lease.on
    BY <2>1, BlockCloseGood, Zenon
  <2> HIDE DEF Y
  <2>3. BlockGood(Y) /\ SameButBlocks(Y, Z) /\ ~Y.lease.on
    BY <2>1, <2>2
  <2>4. Good(Y, hold) /\ Calm(Y) /\ Kin(Y, Z) /\ Y.pend = Z.pend
    BY <1>1, <2>1, <2>3, GoodBlocks, BlockCalm DEF SameButBlocks, Kin
  <2> QED
    BY <2>4 DEF Y
<1>2. CASE ~Tiered
  <2>1. SnapGood(Z, hold) /\ Y = CloseGroup(Z)
    BY <1>2, GoodSnaps DEF Closed
  <2>2. LET X == CloseGroup(Z)
        IN  /\ SnapGood(X, hold) /\ X.group = {} /\ X.q = Z.q /\ X.pool = Z.pool /\ X.kv = Z.kv /\ X.pend = Z.pend
            /\ Snaps(X.store) = Snaps(Z.store) /\ SameSnaps(X, Z)
    BY <2>1, CloseGroupGood, Zenon
  <2> HIDE DEF Y
  <2>3. SnapGood(Y, hold) /\ Y.group = {} /\ Y.q = Z.q /\ Y.pend = Z.pend
    BY <2>1, <2>2
  <2>4. Good(Y, hold) /\ Calm(Y) /\ Kin(Y, Z) /\ Y.pend = Z.pend
    BY <1>2, <2>3, GoodSnaps, SnapCalm DEF Kin
  <2> QED
    BY <2>4 DEF Y
<1> QED
  BY <1>1, <1>2

\* early_save: nothing, a copy in flight, a save, or a transfer that raised.
EarlySaved(Y, Z, r) ==
  /\ Calm(Y) /\ Kin(Y, Z) /\ Y.kv = Z.kv /\ Y.use = Z.use /\ Y.pool.cache = Z.pool.cache
  /\ \A x \in Sessions : x # r => Y.q[x] = Z.q[x]
  /\ \E m : Y.q[r] = Z.q[r] \/ Y.q[r] = OffGpu(Z.q[r], m)

LEMMA EarlySavesGood ==
  ASSUME ~Tiered, NEW Z, Good(Z, op.hold), op.hold = NoHold, Calm(Z), ~Z.pend.on,
         NEW r \in Sessions, Z.q[r].st = "parked", Z.q[r].table # << >>, NEW Y \in EarlySaves(Z, r)
  PROVE  Good(Y, op.hold) /\ EarlySaved(Y, Z, r)
<1> DEFINE m == Metadata(Z, r, NextId(Z))
           R == ReserveOne(Z, r)
           p == ReservationOf(R, r)
           A == [R EXCEPT !.group = {}, !.pend = [on |-> TRUE, meta |-> p, table |-> Z.q[r].table, pages |-> << >>]]
           B == CommitSave(R, r, p, Export(R, r, p))
           F == SaveFailed(R, p)
<1>1. SnapGood(Z, op.hold) /\ Z.group = {} /\ Requests(Z.q) /\ Zone(Z)
  BY GoodSnaps, GoodQ DEF Calm
<1>2. Z.q[r].res # "cpu"
  BY <1>1 DEF Requests, Placed
<1>3. CASE ~CanReserve(Z.store, NoHold, m.n)
  <2>1. Y = Z
    BY <1>3 DEF EarlySaves
  <2>2. EarlySaved(Z, Z, r)
    BY DEF EarlySaved, Kin
  <2> QED
    BY <2>1, <2>2
<1>4. CASE CanReserve(Z.store, NoHold, m.n)
  <2>1. m.n = BlocksNeededFor(Z.q[r].computed)
    BY DEF Metadata
  <2>2. Owned(Z.store, op.hold) + BlocksNeededFor(Z.q[r].computed) <= CpuMax
    BY <1>4, <2>1 DEF CanReserve
  <2>3. LET X == ReserveOne(Z, r) IN SnapGood(X, op.hold) /\ Reserves(X, Z, r)
    BY <1>1, <2>2, ReserveOneGood, Zenon
  <2>4. Y = A \/ Y = B \/ Y = F
    BY <1>4 DEF EarlySaves
  <2>5. SnapGood(R, op.hold) /\ Reserves(R, Z, r)
    BY <2>3
  <2> HIDE DEF R
  <2>6. PICK w : R.group = {w} /\ w.rid = r
    BY <1>1, <2>5 DEF Reserves
  <2>7. p = w /\ R.group = {p} /\ p.rid = r
    BY <2>6, ReservationFound
  <2>8. /\ Zone(R) /\ Idling(R) /\ R.q = Z.q /\ R.pool = Z.pool /\ R.kv = Z.kv /\ R.use = Z.use
        /\ R.pend = Z.pend /\ R.lease = Z.lease
    <3>1. R.q = Z.q /\ R.pool = Z.pool /\ R.kv = Z.kv /\ R.use = Z.use /\ R.pend = Z.pend /\ R.lease = Z.lease
      BY <2>5 DEF Reserves, SameSnaps, SameBlocks
    <3>2. Zone(R) /\ SourceHeld(R)
      BY <2>5 DEF SnapGood, Snapped
    <3> QED
      BY <3>1, <3>2 DEF SourceHeld, Idling
  <2> HIDE DEF p
  <2>9. CASE Y = A
    <3>1. /\ Zone(Y) /\ SameSnaps(Y, R) /\ Y.pool = R.pool /\ Y.kv = R.kv /\ Y.q = R.q /\ Y.store = R.store
          /\ Y.group = {} /\ Y.pend = [on |-> TRUE, meta |-> p, table |-> R.q[p.rid].table, pages |-> << >>]
      BY <2>7, <2>8, <2>9 DEF Zone, SameSnaps, SameBlocks
    <3>2. R.q[p.rid].res # "cpu"
      BY <1>2, <2>7, <2>8
    <3> HIDE DEF A
    <3>3. SnapGood(Y, op.hold)
      BY <2>5, <2>7, <3>1, <3>2, EarlyCopyGood
    <3>4. EarlySaved(Y, Z, r)
      BY <2>8, <3>1, <3>3, SnapCalm DEF EarlySaved, Kin, SameSnaps
    <3> QED
      BY <3>3, <3>4, GoodSnaps
  <2>10. CASE Y = F
    <3>1. LET X == SaveFailed(R, p)
          IN  SnapGood(X, op.hold) /\ Saves(X, R, p.rid) /\ X.q = R.q /\ X.pool = R.pool /\ X.group = R.group \ {p}
      BY <2>5, <2>7, <2>8, SaveFailedGood, Zenon
    <3>2. /\ SnapGood(Y, op.hold) /\ Saves(Y, R, p.rid) /\ Y.q = R.q /\ Y.pool = R.pool
          /\ Y.group = R.group \ {p}
      BY <2>10, <3>1
    <3> HIDE DEF F
    <3>3. Y.group = {}
      BY <2>7, <3>2
    <3>4. EarlySaved(Y, Z, r)
      BY <2>8, <3>2, <3>3, SnapCalm DEF EarlySaved, Kin, Saves
    <3> QED
      BY <3>2, <3>4, GoodSnaps
  <2>11. CASE Y = B
    <3>1. Save(R, r) = Y
      BY <1>2, <2>8, <2>11 DEF Save, p
    <3>2. \E o \in R.group : o.rid = r
      BY <2>7
    <3>3. LET X == Save(R, r) IN SnapGood(X, op.hold) /\ Saves(X, R, r)
      BY <2>5, <2>8, <3>2, SaveGood, Zenon
    <3>4. SnapGood(Y, op.hold) /\ Saves(Y, R, r)
      BY <3>1, <3>3
    <3>5. Y.group = {}
      BY <2>7, <2>8, <2>11 DEF CommitSave, Zone
    <3> HIDE DEF B
    <3>6. EarlySaved(Y, Z, r)
      BY <2>8, <3>4, <3>5, SnapCalm DEF EarlySaved, Kin, Saves
    <3> QED
      BY <3>4, <3>6, GoodSnaps
  <2> QED
    BY <2>4, <2>9, <2>10, <2>11
<1> QED
  BY <1>3, <1>4

\* The finished copy is settled.
LEMMA SettledCalm ==
  ASSUME NEW Z, NEW hold, Good(Z, hold), Calm(Z), Z.pend.on
  PROVE  LET Y == Settle(Z, FALSE)
         IN  Good(Y, hold) /\ Calm(Y) /\ Kin(Y, Z)
<1> DEFINE Y == Settle(Z, FALSE)
<1>1. ~Tiered /\ SnapGood(Z, hold)
  BY GoodBlocks, BlockCalm, GoodSnaps
<1>2. LET X == Settle(Z, FALSE) IN SnapGood(X, hold) /\ Settles(X, Z, Z.pend.meta.rid)
  BY <1>1, SettleGood, Zenon
<1> HIDE DEF Y
<1>3. SnapGood(Y, hold) /\ Settles(Y, Z, Z.pend.meta.rid)
  BY <1>2 DEF Y
<1>4. Calm(Y) /\ Kin(Y, Z)
  BY <1>3, SnapCalm DEF Settles, Kin, Calm
<1> QED
  BY <1>1, <1>3, <1>4, GoodSnaps DEF Y

(***************************************************************************)
(* The owner thread's steps.                                               *)
(***************************************************************************)
\* The owner is between operations, or at the start of one.
Unladen(o) ==
  /\ DOMAIN o = DOMAIN Idle /\ o.cand = << >> /\ o.group = << >> /\ o.for = NoOne /\ o.hold = NoHold
  /\ o.pc \in {"idle", "early", "step", "evict"} /\ o.then \in {"idle", "step"}

LEMMA EmptyList ==
  << >> \in Seq(Sessions) /\ IsInjective(<< >>) /\ Range(<< >>) = {} /\ Len(<< >>) = 0
BY DEF IsInjective, Range

LEMMA UnladenOK ==
  ASSUME NEW o, Unladen(o), op' = o
  PROVE  OpOK' /\ op'.pc # "save" /\ op'.hold = NoHold
BY EmptyList DEF Unladen, OpOK, Stages

LEMMA IdleUnladen ==
  /\ Unladen(Idle)
  /\ Unladen([Idle EXCEPT !.pc = "early"]) /\ Unladen([Idle EXCEPT !.pc = "step"])
  /\ \A g : Unladen(StartEvict(g, "idle")) /\ Unladen(StartEvict(g, "step"))
  /\ \A t \in {"idle", "step"} : Unladen([Idle EXCEPT !.pc = t])
BY DEF Unladen, Idle, StartEvict

LEMMA ParkedNext ==
  ASSUME NEW Z, Kin(Z, State), Become(Z)
  PROVE  Parked' = Parked /\ Active' = Active
BY DEF Kin, Become, State, Parked, Active

LEMMA OpStays ==
  ASSUME OpOK, Parked' = Parked, UNCHANGED op
  PROVE  OpOK'
BY DEF OpOK

LEMMA KinStep ==
  ASSUME OffloadInv, NEW Z, NEW h, Good(Z, h), Calm(Z), Kin(Z, State), Become(Z),
         UNCHANGED <<cfg, weights, epoch, order>>, op'.hold = h, op'.pc # "save", OpOK'
  PROVE  OffloadInv'
<1>1. Parked' = Parked
  BY ParkedNext
<1>2. Queued'
  BY <1>1 DEF OffloadInv, Queued
<1>3. group' = {} /\ ~lease'.on
  BY DEF Become, Calm
<1>4. Good(State, op.hold)'
  BY BecomeNext
<1> QED
  BY <1>2, <1>3, <1>4 DEF OffloadInv, GroupOK

LEMMA GoodState ==
  ASSUME OffloadInv
  PROVE  /\ Good(State, op.hold) /\ Kin(State, State) /\ (op.pc # "save" => Calm(State)) /\ State.q = q /\ State.pool = pool
         /\ State.pend = pend /\ State.group = group /\ State.lease = lease /\ Requests(q) /\ Zone(State)
         /\ \A r \in Parked : r \in Sessions /\ q[r].st = "parked"
         /\ op.for = NoOne => op.hold = NoHold
<1>1. Good(State, op.hold) /\ State.q = q /\ State.pool = pool /\ State.pend = pend /\ State.group = group /\ State.lease = lease
  BY DEF OffloadInv, State
<1>2. Requests(q) /\ Zone(State)
  BY <1>1, GoodQ
<1>3. op.pc # "save" => Calm(State)
  BY <1>1 DEF OffloadInv, GroupOK, Calm
<1> QED
  BY <1>1, <1>2, <1>3 DEF Kin, Parked, OffloadInv, OpOK

\* Nothing but the page pool's scrubbing happens.
LEMMA SameStep ==
  ASSUME OffloadInv, Become(State), UNCHANGED <<cfg, weights, epoch, order>>, op.pc # "save",
         op' = op \/ \E o : Unladen(o) /\ op' = o
  PROVE  OffloadInv'
<1> DEFINE Z == State
<1>1. PICK Z0 : Z0 = State
  OBVIOUS
<1>2. Good(Z0, op.hold) /\ Kin(Z0, State) /\ Calm(Z0) /\ Become(Z0)
  BY <1>1, GoodState
<1>3. Parked' = Parked
  BY <1>2, ParkedNext
<1>4. CASE op' = op
  <2>1. OpOK'
    BY <1>3, <1>4, OpStays DEF OffloadInv
  <2>2. PICK h : h = op.hold
    OBVIOUS
  <2>3. op'.hold = h /\ op'.pc # "save" /\ Good(Z0, h)
    BY <1>2, <1>4, <2>2
  <2> QED
    BY <1>2, <2>1, <2>3, KinStep
<1>5. CASE \E o : Unladen(o) /\ op' = o
  <2>1. OpOK' /\ op'.pc # "save" /\ op'.hold = NoHold
    BY <1>5, UnladenOK
  <2>2. Good(Z0, NoHold)
    BY <1>2, ReleasedGood
  <2> QED
    BY <1>2, <2>1, <2>2, KinStep
<1> QED
  BY <1>4, <1>5

LEMMA WaitRaisesOK ==
  ASSUME OffloadInv, WaitRaises, UNCHANGED <<cfg, weights, epoch, order, op>>, op.pc # "save"
  PROVE  OffloadInv'
BY SameStep DEF WaitRaises

\* A session leaves the cache or enters it.
LEMMA QueueLoses ==
  ASSUME Queued, NEW r, Parked' = Parked \ {r}, Unparked(r)
  PROVE  Queued'
<1>1. order \in Seq(Sessions) /\ IsInjective(order) /\ Range(order) = Parked /\ order' = Kept(order, Sessions \ {r})
  BY DEF Queued, Unparked, Remaining
<1>2. order' \in Seq(Sessions) /\ Range(order') = Parked \ {r} /\ IsInjective(order')
  BY <1>1, KeptFacts DEF Parked
<1> QED
  BY <1>2 DEF Queued

LEMMA IdleOp ==
  ASSUME OpOK, op.pc = "idle"
  PROVE  op.cand = << >> /\ op.group = << >> /\ op.for = NoOne /\ op.hold = NoHold /\ Unladen(op)
BY DEF OpOK, Unladen

\* An operation of an idle owner that moves one session at most.
LEMMA IdleStep ==
  ASSUME OffloadInv, op.pc = "idle", UNCHANGED op, NEW Z, Good(Z, NoHold), Calm(Z), Become(Z),
         UNCHANGED <<cfg, weights, epoch>>, Queued'
  PROVE  OffloadInv'
<1>1. op.hold = NoHold /\ Unladen(op)
  BY IdleOp DEF OffloadInv
<1>2. PICK o : o = op
  OBVIOUS
<1>3. OpOK' /\ op'.pc # "save" /\ op'.hold = NoHold
  BY <1>1, <1>2, UnladenOK
<1>4. group' = {} /\ ~lease'.on
  BY DEF Become, Calm
<1>5. Good(State, op.hold)'
  BY <1>3, BecomeNext
<1> QED
  BY <1>3, <1>4, <1>5 DEF OffloadInv, GroupOK

LEMMA TokensType ==
  ASSUME NEW s \in NextTokens
  PROVE  s \in TokenLists
<1>1. s \in [1..1 -> Tokens] /\ 1 \in Nat
  BY DEF NextTokens, Tokens
<1> QED
  BY <1>1, FunctionSeq DEF TokenLists

LEMMA PromptsType ==
  ASSUME NEW p \in Prompts
  PROVE  p \in TokenLists /\ p # << >>
<1>1. p \in Seq(Range(p)) /\ p # << >> /\ Range(p) \subseteq Tokens
  BY ResidencyAssumption DEF Tokens
<1>2. Len(p) \in Nat /\ p \in [1..Len(p) -> Range(p)]
  BY <1>1, LenProperties
<1>3. p \in [1..Len(p) -> Tokens]
  BY <1>1, <1>2
<1> QED
  BY <1>1, <1>2, <1>3, FunctionSeq DEF TokenLists

LEMMA WaitedIdle ==
  ASSUME OffloadInv, op.pc = "idle", NEW r, NEW Z, Z = WaitFor(r)
  PROVE  /\ Good(Z, NoHold) /\ Calm(Z) /\ Kin(Z, State) /\ (Z.pend.on => Z.pend.meta.rid # r) /\ Requests(Z.q)
         /\ \A x \in Sessions : Z.q[x].st = q[x].st /\ Z.q[x].tokens = q[x].tokens
<1>1. Good(State, NoHold) /\ Calm(State) /\ State.q = q
  BY GoodState, IdleOp DEF OffloadInv
<1>2. LET X == WaitFor(r)
      IN  Good(X, NoHold) /\ Calm(X) /\ Kin(X, State) /\ (X.pend.on => X.pend.meta.rid # r)
  BY <1>1, WaitedFor, Zenon
<1>3. Good(Z, NoHold) /\ Calm(Z) /\ Kin(Z, State) /\ (Z.pend.on => Z.pend.meta.rid # r)
  BY <1>2
<1> QED
  BY <1>1, <1>3, GoodQ DEF Kin

LEMMA AdmitOK ==
  ASSUME OffloadInv, NEW r \in Sessions, NEW s \in NextTokens, Admit(r, s)
  PROVE  OffloadInv'
<1>1. op.pc = "idle" /\ r \in Parked /\ Unparked(r) /\ UNCHANGED <<epoch, op, weights, cfg>> /\ s \in TokenLists
  BY TokensType DEF Admit
<1>2. PICK Z : Z = WaitFor(r)
  OBVIOUS
<1>3. /\ Good(Z, NoHold) /\ Calm(Z) /\ Kin(Z, State) /\ (Z.pend.on => Z.pend.meta.rid # r) /\ Requests(Z.q)
      /\ \A x \in Sessions : Z.q[x].st = q[x].st /\ Z.q[x].tokens = q[x].tokens
  BY <1>1, <1>2, WaitedIdle
<1>4. Z.q[r].st = "parked"
  BY <1>1, <1>3 DEF Parked
<1>5. ASSUME NEW Y, Good(Y, NoHold), Calm(Y), OnlyMoves(Y, Z, r), Y.q[r].st = "active", Become(Y)
      PROVE  OffloadInv'
  <2>1. Parked' = Parked \ {r}
    BY <1>3, <1>5 DEF OnlyMoves, Become, Parked
  <2>2. Queued'
    BY <1>1, <2>1, QueueLoses DEF OffloadInv
  <2> QED
    BY <1>1, <1>5, <2>2, IdleStep
<1>6. CASE Z.q[r].res # "cpu" /\ Become(Resumed(Z, r, s))
  <2>1. LET Y == Resumed(Z, r, s)
        IN  Good(Y, NoHold) /\ Calm(Y) /\ OnlyMoves(Y, Z, r) /\ Y.q[r].st = "active"
    BY <1>1, <1>3, <1>4, <1>6, ResumedGood, Zenon
  <2>2. PICK Y : Y = Resumed(Z, r, s)
    OBVIOUS
  <2> QED
    BY <1>5, <1>6, <2>1, <2>2
<1>7. CASE Z.q[r].res = "cpu" /\ ~Stale(Z, r) /\ \E R \in BeginRestore(Z, r) : Become(Resumed(Commits(R, r), r, s))
  <2>1. PICK R \in BeginRestore(Z, r) : Become(Resumed(Commits(R, r), r, s))
    BY <1>7
  <2>2. LET Y == Resumed(Commits(R, r), r, s)
        IN  Good(Y, NoHold) /\ Calm(Y) /\ OnlyMoves(Y, Z, r) /\ Y.q[r].st = "active"
    BY <1>1, <1>3, <1>7, AdmittedGood, Zenon
  <2>3. PICK Y : Y = Resumed(Commits(R, r), r, s)
    OBVIOUS
  <2> QED
    BY <1>5, <2>1, <2>2, <2>3
<1> QED
  BY <1>2, <1>6, <1>7 DEF Admit

LEMMA AdmitRaisesOK ==
  ASSUME OffloadInv, NEW r \in Sessions, AdmitRaises(r)
  PROVE  OffloadInv'
BY WaitRaisesOK DEF AdmitRaises

LEMMA AdmitRefusedOK ==
  ASSUME OffloadInv, NEW r \in Sessions, AdmitRefused(r)
  PROVE  OffloadInv'
<1>1. op.pc = "idle" /\ r \in Parked /\ UNCHANGED <<epoch, order, op, weights, cfg>>
  BY DEF AdmitRefused
<1>2. PICK Z : Z = WaitFor(r)
  OBVIOUS
<1>3. /\ Good(Z, NoHold) /\ Calm(Z) /\ Kin(Z, State) /\ (Z.pend.on => Z.pend.meta.rid # r)
  BY <1>1, <1>2, WaitedIdle
<1>4. Z.q[r].res = "cpu" /\ ~Stale(Z, r) /\ \E R \in BeginRestore(Z, r) : Become(RollbackRestore(R, r))
  BY <1>2 DEF AdmitRefused
<1>5. PICK R \in BeginRestore(Z, r) : Become(RollbackRestore(R, r))
  BY <1>4
<1>6. LET Y == RollbackRestore(R, r) IN Good(Y, NoHold) /\ Calm(Y) /\ Kin(Y, Z)
  BY <1>3, <1>4, RefusedGood, Zenon
<1>7. PICK Y : Y = RollbackRestore(R, r)
  OBVIOUS
<1>8. Good(Y, NoHold) /\ Calm(Y) /\ Kin(Y, State) /\ Become(Y)
  BY <1>3, <1>5, <1>6, <1>7 DEF Kin
<1>9. Queued'
  BY <1>1, <1>8, ParkedNext DEF OffloadInv, Queued
<1> QED
  BY <1>1, <1>8, <1>9, IdleStep

LEMMA CandidatesFacts ==
  ASSUME Queued, NEW Q
  PROVE  Candidates(Q) \in Seq(Sessions) /\ IsInjective(Candidates(Q)) /\ Range(Candidates(Q)) \subseteq Parked
BY KeptFacts DEF Queued, Candidates

\* _offload_oldest_until_safe begins.
LEMMA StartedOffload ==
  ASSUME OffloadInv, NEW Q, op' = StartOffload(op, Q), Parked' = Parked
  PROVE  OpOK' /\ op'.pc = "offload" /\ op'.hold = op.hold
<1>1. PICK c : c = Candidates(Q)
  OBVIOUS
<1>2. c \in Seq(Sessions) /\ IsInjective(c) /\ Range(c) \subseteq Parked
  BY <1>1, CandidatesFacts DEF OffloadInv
<1>3. op' = [op EXCEPT !.pc = "offload", !.cand = c] /\ DOMAIN op = DOMAIN Idle
  BY <1>1 DEF StartOffload, OffloadInv, OpOK
<1>4. /\ DOMAIN op' = DOMAIN Idle /\ op'.pc = "offload" /\ op'.cand = c /\ op'.group = op.group /\ op'.for = op.for
      /\ op'.hold = op.hold /\ op'.then = op.then /\ op'.suffix = op.suffix
  BY <1>3 DEF Idle
<1> QED
  BY <1>2, <1>4 DEF OffloadInv, OpOK, Stages

LEMMA AdmitFailsOK ==
  ASSUME OffloadInv, NEW r \in Sessions, NEW s \in NextTokens, AdmitFails(r, s)
  PROVE  OffloadInv'
<1>1. op.pc = "idle" /\ r \in Parked /\ UNCHANGED <<epoch, order, weights, cfg>> /\ s \in TokenLists
  BY TokensType DEF AdmitFails
<1>2. PICK Z : Z = WaitFor(r)
  OBVIOUS
<1>3. /\ Good(Z, NoHold) /\ Calm(Z) /\ Kin(Z, State) /\ (Z.pend.on => Z.pend.meta.rid # r)
  BY <1>1, <1>2, WaitedIdle
<1>4. PICK R \in BeginRestoreFails(Z, r) :
        /\ Z.q[r].res = "cpu" /\ ~Stale(Z, r) /\ Become(R)
        /\ \/ op' = IF Active # {} THEN Idle
                    ELSE StartOffload([Idle EXCEPT !.goal = LogicalBlocks(Z, r), !.for = r, !.suffix = s,
                                                   !.before = FreeBlocks(R.pool), !.hold = Holding(Z, r)], R.q)
           \/ op' = Idle
  BY <1>2 DEF AdmitFails
<1>5. Good(R, Holding(Z, r)) /\ Good(R, NoHold) /\ Calm(R) /\ Kin(R, Z)
  BY <1>3, <1>4, RestoreFailedGood
<1>6. Kin(R, State) /\ Parked' = Parked
  BY <1>3, <1>4, <1>5, ParkedNext DEF Kin
<1>7. CASE op' = Idle
  <2>1. OpOK' /\ op'.pc # "save" /\ op'.hold = NoHold
    BY <1>7, IdleUnladen, UnladenOK
  <2> QED
    BY <1>1, <1>4, <1>5, <1>6, <2>1, KinStep
<1>8. CASE op' = StartOffload([Idle EXCEPT !.goal = LogicalBlocks(Z, r), !.for = r, !.suffix = s,
                                           !.before = FreeBlocks(R.pool), !.hold = Holding(Z, r)], R.q)
  <2>1. PICK h, c, n, b : h = Holding(Z, r) /\ c = Candidates(R.q) /\ n = LogicalBlocks(Z, r) /\ b = FreeBlocks(R.pool)
    OBVIOUS
  <2>2. op' = [[Idle EXCEPT !.goal = n, !.for = r, !.suffix = s, !.before = b, !.hold = h]
                  EXCEPT !.pc = "offload", !.cand = c]
    BY <1>8, <2>1 DEF StartOffload
  <2>3. /\ DOMAIN op' = DOMAIN Idle /\ op'.pc = "offload" /\ op'.cand = c /\ op'.group = << >> /\ op'.for = r
        /\ op'.hold = h /\ op'.then = "idle" /\ op'.suffix = s
    BY <2>2 DEF Idle
  <2>4. c \in Seq(Sessions) /\ IsInjective(c) /\ Range(c) \subseteq Parked
    BY <2>1, CandidatesFacts DEF OffloadInv
  <2>5. r # NoOne
    BY ResidencyAssumption
  <2>6. OpOK'
    BY <1>1, <1>6, <2>3, <2>4, <2>5, EmptyList DEF OpOK, Stages
  <2>7. Good(R, h) /\ op'.pc # "save"
    BY <1>5, <2>1, <2>3
  <2> QED
    BY <1>1, <1>4, <1>5, <1>6, <2>3, <2>6, <2>7, KinStep
<1> QED
  BY <1>4, <1>7, <1>8

LEMMA NewTurnOK ==
  ASSUME OffloadInv, NEW r \in Sessions, NEW p \in Prompts, NewTurn(r, p)
  PROVE  OffloadInv'
<1>1. /\ op.pc = "idle" /\ q[r].st = "gone"
      /\ UNCHANGED <<epoch, kv, order, shown, op, fatal, weights, stale>> /\ UNCHANGED offloadVars
  BY DEF NewTurn, AddRequest
<1>2. PICK t \in Attaching(pool, Admitted(p)) :
        pool' = AttachPool(pool, t) /\ q' = [q EXCEPT ![r] = Attached(Admitted(p), t)]
  BY DEF NewTurn, AddRequest
<1>3. p \in TokenLists /\ p # << >>
  BY PromptsType
<1>4. Good(State, NoHold) /\ Calm(State) /\ State.q = q /\ State.pool = pool /\ Requests(q) /\ Zone(State)
  BY <1>1, GoodState, IdleOp DEF OffloadInv
<1>5. PICK Z : Z = State
  OBVIOUS
<1>6. /\ Good(Z, NoHold) /\ Calm(Z) /\ Z.q = q /\ Z.pool = pool /\ Zone(Z) /\ Seats(Z.pool, Z.q) /\ Requests(Z.q)
  BY <1>4, <1>5, GoodQ
<1>7. Z.q[r].table = << >> /\ Z.q[r].res = "none" /\ Z.q[r].st = "gone"
  BY <1>1, <1>6 DEF Requests, Placed
<1>8. PICK Y, c : Y = [Z EXCEPT !.pool = AttachPool(@, t), !.q[r] = Attached(Admitted(p), t)]
                  /\ c = Attached(Admitted(p), t)
  OBVIOUS
<1>9. Back(Y, Z, r, c) /\ c.st = "active" /\ c.res # "cpu"
  <2>1. t \in Attaching(Z.pool, Admitted(p)) /\ Bare(Z.q[r].table)
    BY <1>2, <1>6, <1>7 DEF Bare
  <2>2. /\ Back(Y, Z, r, Attached(Admitted(p), t))
        /\ Attached(Admitted(p), t).st = "active" /\ Attached(Admitted(p), t).res # "cpu"
    BY <1>3, <1>6, <1>8, <2>1, ColdBack
  <2> QED
    BY <1>8, <2>2
<1>10. Z.pend.on => Z.pend.meta.rid # r
  <2>1. CASE Tiered
    BY <1>6, <2>1, GoodBlocks, BlockCalm
  <2>2. CASE ~Tiered
    <3>1. SnapGood(Z, NoHold)
      BY <1>6, <2>2, GoodSnaps
    <3> QED
      BY <1>7, <3>1 DEF SnapGood, Snapped, SourceHeld
  <2> QED
    BY <2>1, <2>2
<1>11. Good(Y, NoHold)
  BY <1>6, <1>7, <1>9, <1>10, GoodBack DEF Calm
<1>12. State' = Y
  <2>1. Y = [Z EXCEPT !.pool = AttachPool(pool, t), !.q = [q EXCEPT ![r] = c]]
    BY <1>6, <1>8 DEF Zone
  <2>2. Y = [State EXCEPT !.pool = pool', !.q = q']
    BY <1>2, <1>5, <1>8, <2>1
  <2> QED
    BY <1>1, <2>2 DEF State, offloadVars
<1>13. Good(State, op.hold)'
  <2>1. op'.hold = NoHold /\ UNCHANGED <<cfg, weights, epoch>>
    BY <1>1, IdleOp DEF OffloadInv, offloadVars
  <2> QED
    BY <1>11, <1>12, <2>1, GoodNext
<1>14. Parked' = Parked
  BY <1>1, <1>2, <1>4, <1>8, <1>9 DEF Parked, Requests
<1>15. Queued' /\ OpOK'
  BY <1>1, <1>14, OpStays DEF OffloadInv, Queued
<1>16. GroupOK'
  BY <1>1 DEF GroupOK, OffloadInv, offloadVars
<1>17. cfg' \in Configs
  BY <1>1 DEF OffloadInv, offloadVars
<1> QED
  BY <1>13, <1>15, <1>16, <1>17 DEF OffloadInv

\* Sessions that are finished leave the cache with them.
LEMMA FinishedIdle ==
  ASSUME OffloadInv, op.pc # "save", NEW S \in SUBSET Sessions, NEW Z, Z = Finished(State, S)
  PROVE  /\ Good(Z, op.hold) /\ Calm(Z) /\ (Z.pend.on => Z.pend.meta.rid \notin S)
         /\ \A x \in S : Z.q[x] = NoReq
         /\ \A x \in Sessions : x \notin S => Z.q[x].st = q[x].st /\ Z.q[x].tokens = q[x].tokens
         /\ Become(Z) => Parked' = Parked \ S
<1>1. Good(State, op.hold) /\ Calm(State) /\ State.q = q
  BY GoodState
<1>2. LET Y == Finished(State, S)
      IN  /\ Good(Y, op.hold) /\ Calm(Y) /\ (Y.pend.on => Y.pend.meta.rid \notin S)
          /\ \A x \in S : Y.q[x] = NoReq
          /\ \A x \in Sessions : x \notin S => Y.q[x].st = State.q[x].st /\ Y.q[x].tokens = State.q[x].tokens
  BY <1>1, FinishedCalm, Zenon
<1>3. /\ Good(Z, op.hold) /\ Calm(Z) /\ (Z.pend.on => Z.pend.meta.rid \notin S)
      /\ \A x \in S : Z.q[x] = NoReq
      /\ \A x \in Sessions : x \notin S => Z.q[x].st = q[x].st /\ Z.q[x].tokens = q[x].tokens
  BY <1>1, <1>2
<1>4. ASSUME Become(Z)
      PROVE  Parked' = Parked \ S
  BY <1>3, <1>4 DEF Become, Parked, NoReq
<1> QED
  BY <1>3, <1>4

\* A step that ends an operation or begins one.
LEMMA UnladenStep ==
  ASSUME OffloadInv, NEW o, Unladen(o), op' = o, NEW Z, Good(Z, NoHold), Calm(Z), Become(Z),
         UNCHANGED <<cfg, weights, epoch>>, Queued'
  PROVE  OffloadInv'
<1>1. OpOK' /\ op'.pc # "save" /\ op'.hold = NoHold
  BY UnladenOK
<1>2. group' = {} /\ ~lease'.on
  BY DEF Become, Calm
<1>3. Good(State, op.hold)'
  BY <1>1, BecomeNext
<1> QED
  BY <1>1, <1>2, <1>3 DEF OffloadInv, GroupOK

LEMMA FinishSessionOK ==
  ASSUME OffloadInv, NEW r \in Sessions, FinishSession(r)
  PROVE  OffloadInv'
<1>1. op.pc = "idle" /\ UNCHANGED <<epoch, op, weights, cfg>>
  BY DEF FinishSession
<1>2. CASE Become(Finished(State, {r})) /\ Unparked(r)
  <2>1. PICK Z, S : S = {r} /\ Z = Finished(State, S)
    OBVIOUS
  <2>2. S \in SUBSET Sessions /\ Become(Z)
    BY <1>2, <2>1
  <2>3. Good(Z, op.hold) /\ Calm(Z) /\ Parked' = Parked \ {r}
    BY <1>1, <2>1, <2>2, FinishedIdle
  <2>4. Queued'
    BY <1>2, <2>3, QueueLoses DEF OffloadInv
  <2>5. Good(Z, NoHold)
    BY <2>3, ReleasedGood
  <2> QED
    BY <1>1, <2>2, <2>3, <2>4, <2>5, IdleStep
<1>3. CASE WaitRaises /\ UNCHANGED <<order, shown>>
  BY <1>1, <1>3, WaitRaisesOK
<1> QED
  BY <1>2, <1>3 DEF FinishSession

LEMMA AbortAllOK ==
  ASSUME OffloadInv, AbortAll
  PROVE  OffloadInv'
<1>1. op.pc = "idle" /\ UNCHANGED <<epoch, op, weights, cfg>> /\ order' = << >>
  BY DEF AbortAll
<1>2. PICK Z, S : S = {r \in Sessions : q[r].st # "gone"} /\ Z = Finished(State, S)
  OBVIOUS
<1>3. S \in SUBSET Sessions /\ Become(Z)
  BY <1>2 DEF AbortAll
<1>4. Good(Z, op.hold) /\ Calm(Z) /\ Parked' = Parked \ S
  BY <1>1, <1>2, <1>3, FinishedIdle
<1>5. Parked' = {}
  BY <1>2, <1>4 DEF Parked
<1>6. Queued'
  BY <1>1, <1>5, EmptyList DEF Queued
<1>7. Good(Z, NoHold)
  BY <1>4, ReleasedGood
<1> QED
  BY <1>1, <1>3, <1>4, <1>6, <1>7, IdleStep

LEMMA StepRaisesOK ==
  ASSUME OffloadInv, StepRaises
  PROVE  OffloadInv'
<1>1. op.pc = "step" /\ UNCHANGED <<epoch, order, weights, cfg>> /\ op' = Idle
  BY DEF StepRaises
<1>2. PICK Z, S : S = Active /\ Z = Finished(State, S)
  OBVIOUS
<1>3. S \in SUBSET Sessions /\ Become(Z)
  BY <1>2 DEF StepRaises, Active
<1>4. Good(Z, op.hold) /\ Calm(Z) /\ Parked' = Parked \ S
  BY <1>1, <1>2, <1>3, FinishedIdle
<1>5. Parked' = Parked
  BY <1>2, <1>4 DEF Parked, Active
<1>6. Queued'
  BY <1>1, <1>5 DEF Queued, OffloadInv
<1>7. Good(Z, NoHold)
  BY <1>4, ReleasedGood
<1> QED
  BY <1>1, <1>3, <1>4, <1>6, <1>7, UnladenStep, IdleUnladen

LEMMA RetryAdmissionOK ==
  ASSUME OffloadInv, RetryAdmission
  PROVE  OffloadInv'
<1>1. op.pc = "retry" /\ op' = Idle /\ UNCHANGED <<epoch, weights, cfg>>
  BY DEF RetryAdmission
<1>2. CASE Become(State) /\ UNCHANGED <<order, shown>>
  BY <1>1, <1>2, SameStep, IdleUnladen
<1>3. CASE LET r == op.for
               c == Admitted(q[r].tokens \o op.suffix)
               Z == Finished(State, {r})
           IN  /\ \E t \in Attaching(Z.pool, c) :
                    Become([Z EXCEPT !.pool = AttachPool(@, t), !.q[r] = Attached(c, t)])
               /\ Unparked(r)
  <2>1. PICK r, S, Z, toks : r = op.for /\ S = {r} /\ Z = Finished(State, S) /\ toks = q[r].tokens \o op.suffix
    OBVIOUS
  <2>2. PICK t \in Attaching(Z.pool, Admitted(toks)) :
          Become([Z EXCEPT !.pool = AttachPool(@, t), !.q[r] = Attached(Admitted(toks), t)])
    BY <1>3, <2>1
  <2>3. Unparked(r)
    BY <1>3, <2>1
  <2>4. r \in Parked /\ op.suffix \in TokenLists
    BY <1>1, <2>1 DEF OffloadInv, OpOK
  <2>5. r \in Sessions /\ S \in SUBSET Sessions /\ Requests(q)
    BY <2>1, <2>4, GoodState DEF Parked
  <2>6. toks \in TokenLists /\ toks # << >>
    <3>1. q[r].tokens \in TokenLists /\ q[r].computed < Len(q[r].tokens) /\ q[r].computed \in Nat
      BY <2>4, <2>5 DEF Requests, IsRequest, Placed, Parked
    <3>2. q[r].tokens # << >>
      <4>1. Len(q[r].tokens) \in Nat
        BY <3>1, LenProperties DEF TokenLists
      <4> QED
        BY <3>1, <4>1, EmptySeq
    <3> QED
      BY <2>1, <2>4, <3>1, <3>2, ConcatProperties DEF TokenLists
  <2>7. /\ Good(Z, op.hold) /\ Calm(Z) /\ (Z.pend.on => Z.pend.meta.rid # r) /\ Z.q[r] = NoReq
        /\ \A x \in Sessions : x # r => Z.q[x].st = q[x].st
    <3>1. Z = Finished(State, S) /\ op.pc # "save"
      BY <1>1, <2>1
    <3>2. /\ Good(Z, op.hold) /\ Calm(Z) /\ (Z.pend.on => Z.pend.meta.rid \notin S)
          /\ \A x \in S : Z.q[x] = NoReq
          /\ \A x \in Sessions : x \notin S => Z.q[x].st = q[x].st /\ Z.q[x].tokens = q[x].tokens
      BY <2>5, <3>1, FinishedIdle
    <3> QED
      BY <2>1, <3>2
  <2>8. Good(Z, NoHold) /\ Zone(Z) /\ Seats(Z.pool, Z.q) /\ Requests(Z.q)
    BY <2>7, ReleasedGood, GoodQ
  <2>9. PICK Y, c : Y = [Z EXCEPT !.pool = AttachPool(@, t), !.q[r] = Attached(Admitted(toks), t)]
                    /\ c = Attached(Admitted(toks), t)
    OBVIOUS
  <2>10. Back(Y, Z, r, c) /\ c.st = "active" /\ c.res # "cpu"
    <3>1. Bare(Z.q[r].table) /\ t \in Attaching(Z.pool, Admitted(toks))
      BY <2>2, <2>7 DEF NoReq, Bare
    <3>2. /\ Back(Y, Z, r, Attached(Admitted(toks), t))
          /\ Attached(Admitted(toks), t).st = "active" /\ Attached(Admitted(toks), t).res # "cpu"
      BY <2>5, <2>6, <2>8, <2>9, <3>1, ColdBack
    <3> QED
      BY <2>9, <3>2
  <2>11. Good(Y, NoHold) /\ Calm(Y)
    <3>1. Z.q[r].res # "cpu" /\ Z.q[r].st # "active"
      BY <2>7 DEF NoReq
    <3>2. Good(Y, NoHold)
      BY <2>5, <2>7, <2>8, <2>10, <3>1, GoodBack DEF Calm
    <3> QED
      BY <2>5, <2>7, <2>8, <2>10, <3>2, BackParts DEF Calm
  <2>12. Become(Y)
    BY <2>2, <2>9
  <2>13. Parked' = Parked \ {r}
    <3>1. Y.q[r] = c /\ OnlyMoves(Y, Z, r)
      BY <2>5, <2>8, <2>10, BackParts
    <3> QED
      BY <2>5, <2>7, <2>10, <2>12, <3>1 DEF Become, Parked, OnlyMoves
  <2>14. Queued'
    BY <2>3, <2>13, QueueLoses DEF OffloadInv
  <2> QED
    BY <1>1, <2>11, <2>12, <2>14, UnladenStep, IdleUnladen
<1> QED
  BY <1>2, <1>3 DEF RetryAdmission

\* A step that changes the owner's place only.
LEMMA StillStep ==
  ASSUME OffloadInv, UNCHANGED <<pool, epoch, kv, q, order, shown, fatal, weights, stale, offloadVars>>,
         NEW h, Good(State, h), op'.hold = h, OpOK', op.pc # "save", op'.pc # "save"
  PROVE  OffloadInv'
<1>1. PICK Z : Z = State
  OBVIOUS
<1>2. State' = Z
  BY <1>1 DEF State, offloadVars
<1>3. Good(State, op.hold)'
  BY <1>1, <1>2, GoodNext DEF offloadVars
<1>4. GroupOK'
  BY DEF GroupOK, OffloadInv, offloadVars
<1>5. Queued' /\ cfg' \in Configs
  BY DEF OffloadInv, Queued, Parked, offloadVars
<1> QED
  BY <1>3, <1>4, <1>5 DEF OffloadInv

LEMMA DoneOK ==
  ASSUME OffloadInv, OffloadDone \/ DropDone,
         UNCHANGED <<pool, epoch, kv, q, order, shown, fatal, weights, stale, offloadVars>>
  PROVE  OffloadInv'
<1>1. OpOK /\ Good(State, op.hold) /\ Parked' = Parked
  BY DEF OffloadInv, Parked
<1>2. CASE OffloadDone
  <2>1. op.pc = "offload" /\ op' = [op EXCEPT !.pc = IF op.for = NoOne THEN "drop" ELSE "retry", !.cand = << >>]
    BY <1>2 DEF OffloadDone
  <2>2. /\ DOMAIN op' = DOMAIN Idle /\ op'.pc = (IF op.for = NoOne THEN "drop" ELSE "retry") /\ op'.cand = << >>
        /\ op'.group = op.group /\ op'.for = op.for /\ op'.hold = op.hold /\ op'.then = op.then /\ op'.suffix = op.suffix
    BY <1>1, <2>1 DEF OpOK, Idle
  <2>3. OpOK'
    BY <1>1, <2>1, <2>2, EmptyList DEF OpOK, Stages
  <2>4. PICK h : h = op.hold
    OBVIOUS
  <2> QED
    BY <1>1, <2>1, <2>2, <2>3, <2>4, StillStep
<1>3. CASE DropDone
  <2>1. op.pc = "drop" /\ op' = [Idle EXCEPT !.pc = op.then] /\ op.then \in {"idle", "step"}
    BY <1>1, <1>3 DEF DropDone, OpOK
  <2>2. OpOK' /\ op'.pc # "save" /\ op'.hold = NoHold
    BY <2>1, IdleUnladen, UnladenOK
  <2>3. PICK Z : Z = State
    OBVIOUS
  <2>4. Good(State, NoHold)
    BY <1>1, <2>3, ReleasedGood
  <2> QED
    BY <2>1, <2>2, <2>4, StillStep
<1> QED
  BY <1>2, <1>3

LEMMA ReclaimedCalm ==
  ASSUME NEW Z, NEW hold, Good(Z, hold), NEW goal, NEW Y \in Reclaimed(Z, goal)
  PROVE  Good(Y, hold) /\ Kin(Y, Z) /\ (Calm(Z) => Calm(Y)) /\ Y.pend = Z.pend /\ Y.group = Z.group /\ Y.lease = Z.lease
         /\ Y.q = Z.q
BY ReclaimedGood DEF SameHost, Kin, Calm

LEMMA DropOldestOK ==
  ASSUME OffloadInv, DropOldest
  PROVE  OffloadInv'
<1>1. op.pc = "drop" /\ UNCHANGED <<epoch, order, op, weights, cfg>> /\ Droppable # << >>
  BY DEF DropOldest
<1>2. PICK r : r = Droppable[1]
  OBVIOUS
<1>3. PICK R \in Reclaimed([Forgotten(State, {r}) EXCEPT !.pool = Deallocate(@, Forgotten(State, {r}).q[r].table),
                                                        !.q[r] = Dropped(@)], op.goal) : Become(R)
  BY <1>2 DEF DropOldest
<1>4. r \in Parked
  <2>1. PICK d : d = Droppable
    OBVIOUS
  <2>2. d \in Seq(Sessions) /\ Range(d) \subseteq Parked /\ d # << >>
    BY <1>1, <2>1, KeptFacts DEF OffloadInv, Queued, Droppable
  <2>3. 1 \in 1..Len(d)
    BY <2>2, LenProperties, EmptySeq
  <2> QED
    BY <1>2, <2>1, <2>2, <2>3, InRange
<1>5. r \in Sessions /\ State.q[r].st = "parked" /\ Good(State, op.hold) /\ Calm(State)
  BY <1>1, <1>4, GoodState
<1>6. LET X == Forgotten(State, {r})
          Y == [X EXCEPT !.pool = Deallocate(@, X.q[r].table), !.q[r] = Dropped(@)]
      IN  Good(Y, op.hold) /\ Calm(Y) /\ Kin(Y, State)
  BY <1>5, DropCalm, Zenon
<1>7. PICK Y : Y = [Forgotten(State, {r}) EXCEPT !.pool = Deallocate(@, Forgotten(State, {r}).q[r].table),
                                                 !.q[r] = Dropped(@)]
  OBVIOUS
<1>8. Good(Y, op.hold) /\ Calm(Y) /\ Kin(Y, State) /\ R \in Reclaimed(Y, op.goal)
  BY <1>3, <1>6, <1>7
<1>9. PICK h : h = op.hold
  OBVIOUS
<1>10. Good(R, h) /\ Calm(R) /\ Kin(R, State)
  BY <1>8, <1>9, ReclaimedCalm DEF Kin
<1>11. OpOK'
  BY <1>1, <1>3, <1>10, ParkedNext, OpStays DEF OffloadInv
<1> QED
  BY <1>1, <1>3, <1>9, <1>10, <1>11, KinStep

LEMMA BeginStepOK ==
  ASSUME OffloadInv, BeginStep
  PROVE  OffloadInv'
<1>1. op.pc = "idle" /\ UNCHANGED <<epoch, order, weights, cfg>>
  BY DEF BeginStep
<1>2. CASE WaitRaises /\ UNCHANGED <<op, shown>>
  BY <1>1, <1>2, WaitRaisesOK
<1>3. CASE op' = [Idle EXCEPT !.pc = "early"] /\ Become(State)
  <2>1. PICK o : o = [Idle EXCEPT !.pc = "early"]
    OBVIOUS
  <2>2. Unladen(o) /\ op' = o
    BY <1>3, <2>1, IdleUnladen
  <2> QED
    BY <1>1, <1>3, <2>2, SameStep
<1>4. CASE op' = [Idle EXCEPT !.pc = "early"] /\ pend.on /\ Become(Settle(State, FALSE))
  <2>1. Good(State, NoHold) /\ Calm(State) /\ State.pend.on
    BY <1>1, <1>4, GoodState, IdleOp DEF OffloadInv
  <2>2. LET Y == Settle(State, FALSE) IN Good(Y, NoHold) /\ Calm(Y) /\ Kin(Y, State)
    BY <2>1, SettledCalm, Zenon
  <2>3. PICK Y : Y = Settle(State, FALSE)
    OBVIOUS
  <2>4. OpOK' /\ op'.pc # "save" /\ op'.hold = NoHold
    BY <1>4, IdleUnladen, UnladenOK
  <2> QED
    BY <1>1, <1>4, <2>2, <2>3, <2>4, KinStep
<1> QED
  BY <1>2, <1>3, <1>4 DEF BeginStep

LEMMA CopyChunkOK ==
  ASSUME OffloadInv, CopyChunk
  PROVE  OffloadInv'
<1>1. /\ CopyLeft(pend) /\ pend' = CopiedNext(kv, pend)
      /\ UNCHANGED <<residencyVars, cfg, store, snapOf, group, use, unsettled, blocks, man, lease>>
  BY DEF CopyChunk
<1>2. pend.on /\ op.pc # "save"
  BY <1>1 DEF CopyLeft, OffloadInv, GroupOK
<1>3. PICK Z, h : Z = State /\ h = op.hold
  OBVIOUS
<1>4. Good(Z, h) /\ Z.pend = pend /\ Z.pend.on
  BY <1>2, <1>3, GoodState
<1>5. ~Tiered /\ SnapGood(Z, h)
  BY <1>4, GoodBlocks, BlockCalm, GoodSnaps
<1>6. PICK Y : Y = State'
  OBVIOUS
<1>7. /\ Zone(Y) /\ SameSnaps(Y, Z) /\ Y.pool = Z.pool /\ Y.q = Z.q /\ Y.kv = Z.kv /\ Y.store = Z.store /\ Y.group = Z.group
      /\ Y.pend = CopiedNext(kv, pend)
  BY <1>1, <1>3, <1>6 DEF Zone, State, SameSnaps, SameBlocks, residencyVars
<1>8. /\ DOMAIN pend = {"on", "meta", "table", "pages"} /\ pend.on \in BOOLEAN
      /\ pend.pages \in Seq(Range(pend.pages)) /\ IsMeta(pend.meta) /\ Len(pend.pages) < pend.meta.n
  <2>1. SourceHeld(Z) /\ Reserved(Z) /\ StoreTyped(Z.store)
    BY <1>5 DEF SnapGood, Snapped, Books
  <2> QED
    BY <1>1, <1>4, <2>1 DEF SourceHeld, Reserved, StoreTyped, CopyLeft
<1>9. CopiedMore(Y, Z)
  <2>1. PICK x, D : x = kv[pend.table[Len(pend.pages) + 1]] /\ D = Range(pend.pages) \union {x}
    OBVIOUS
  <2>2. Y.pend = [pend EXCEPT !.pages = Append(pend.pages, x)]
    BY <1>7, <1>8, <2>1 DEF CopiedNext
  <2>3. Len(pend.pages) \in Nat /\ pend.pages \in [1..Len(pend.pages) -> Range(pend.pages)]
    BY <1>8, LenProperties
  <2>4. pend.pages \in Seq(D) /\ x \in D
    BY <2>1, <2>3, FunctionSeq
  <2>5. Append(pend.pages, x) \in Seq(D) /\ Len(Append(pend.pages, x)) = Len(pend.pages) + 1
    BY <2>4, AppendProperties
  <2>6. PICK s : s = Append(pend.pages, x)
    OBVIOUS
  <2>7. s \in Seq(Range(s))
    BY <2>5, <2>6, InOwnRange
  <2>8. Len(s) <= pend.meta.n
    <3>1. pend.meta.n \in Nat
      BY <1>8, MetaSize
    <3> QED
      BY <1>8, <2>3, <2>5, <2>6, <3>1
  <2>9. /\ Y.pend.pages = s /\ Y.pend.on = pend.on /\ Y.pend.meta = pend.meta /\ Y.pend.table = pend.table
        /\ DOMAIN Y.pend = DOMAIN pend
    BY <1>8, <2>2, <2>6
  <2> QED
    BY <1>4, <1>7, <2>7, <2>8, <2>9 DEF CopiedMore
<1>10. SnapGood(Y, h)
  BY <1>5, <1>7, <1>9, CopiedMoreGood
<1>11. Good(Y, h)
  BY <1>5, <1>10, GoodSnaps
<1>12. Good(State, op.hold)'
  BY <1>1, <1>3, <1>6, <1>11, GoodNext DEF residencyVars
<1>13. Queued' /\ OpOK' /\ cfg' \in Configs
  <2>1. Parked' = Parked
    BY <1>1 DEF Parked, residencyVars
  <2> QED
    BY <1>1, <2>1, OpStays DEF OffloadInv, Queued, residencyVars
<1>14. GroupOK'
  BY <1>1, <1>2 DEF GroupOK, OffloadInv, residencyVars
<1> QED
  BY <1>12, <1>13, <1>14 DEF OffloadInv

LEMMA AfterEarlyUnladen ==
  ASSUME NEW P
  PROVE  Unladen(AfterEarly(P))
BY IdleUnladen DEF AfterEarly

LEMMA EarlyOffloadOK ==
  ASSUME OffloadInv, EarlyOffload
  PROVE  OffloadInv'
<1>1. op.pc = "early" /\ UNCHANGED <<epoch, order, weights, cfg>>
  BY DEF EarlyOffload
<1>2. Good(State, op.hold) /\ op.hold = NoHold /\ Calm(State) /\ State.q = q /\ State.pend = pend /\ Kin(State, State)
  BY <1>1, GoodState DEF OffloadInv, OpOK
<1>3. ASSUME NEW o, Unladen(o), op' = o, NEW Z, Good(Z, NoHold), Calm(Z), Kin(Z, State), Become(Z)
      PROVE  OffloadInv'
  <2>1. OpOK' /\ op'.pc # "save" /\ op'.hold = NoHold
    BY <1>3, UnladenOK
  <2> QED
    BY <1>1, <1>3, <2>1, KinStep
<1>4. CASE Become(State) /\ op' = AfterEarly(pool)
  BY <1>1, <1>4, AfterEarlyUnladen, SameStep
<1>5. ASSUME ~pend.on, NEW Z \in Reclaimed(State, cfg.early),
             LET S == Kept(order, {r \in Sessions : q[r].table # << >> /\ Reclaimable(Z.pool, {r}) > 0})
             IN  IF FreeBlocks(Z.pool) >= cfg.early \/ S = << >>
                 THEN Become(Z) /\ op' = AfterEarly(Z.pool)
                 ELSE \/ Tiered /\ Become(Finished(Z, Active)) /\ op' = Idle
                      \/ /\ ~Tiered
                         /\ \E R \in EarlySaves(Z, S[1]) : \E E \in Reclaimed(R, cfg.early) :
                              Become(E) /\ op' = AfterEarly(E.pool)
      PROVE  OffloadInv'
  <2>1. PICK K : K = State
    OBVIOUS
  <2>2. Good(Z, NoHold) /\ Calm(Z) /\ Kin(Z, State) /\ ~Z.pend.on /\ Z.q = q
    BY <1>2, <1>5, ReclaimedCalm
  <2>3. PICK X, S : X = {r \in Sessions : q[r].table # << >> /\ Reclaimable(Z.pool, {r}) > 0} /\ S = Kept(order, X)
    OBVIOUS
  <2>4. CASE Become(Z) /\ op' = AfterEarly(Z.pool)
    BY <1>3, <2>2, <2>4, AfterEarlyUnladen
  <2>5. CASE Become(Finished(Z, Active)) /\ op' = Idle
    <3>1. PICK Y, A : A = Active /\ Y = Finished(Z, A)
      OBVIOUS
    <3>2. A \in SUBSET Sessions /\ Become(Y)
      BY <2>5, <3>1 DEF Active
    <3>3. LET F == Finished(Z, A)
          IN  /\ Good(F, NoHold) /\ Calm(F) /\ (F.pend.on => F.pend.meta.rid \notin A)
              /\ \A x \in A : F.q[x] = NoReq
              /\ \A x \in Sessions : x \notin A => F.q[x].st = Z.q[x].st /\ F.q[x].tokens = Z.q[x].tokens
      BY <2>2, <3>2, FinishedCalm, Zenon
    <3>4. /\ Good(Y, NoHold) /\ Calm(Y) /\ \A x \in A : Y.q[x] = NoReq
          /\ \A x \in Sessions : x \notin A => Y.q[x].st = q[x].st
      BY <2>2, <3>1, <3>3
    <3>5. Parked' = Parked
      BY <3>1, <3>2, <3>4 DEF Become, Parked, Active, NoReq
    <3>6. Queued'
      BY <1>1, <3>5 DEF OffloadInv, Queued
    <3> QED
      BY <1>1, <2>5, <3>2, <3>4, <3>6, IdleUnladen, UnladenStep
  <2>6. CASE S # << >> /\ ~Tiered /\ \E R \in EarlySaves(Z, S[1]) : \E E \in Reclaimed(R, cfg.early) :
                              Become(E) /\ op' = AfterEarly(E.pool)
    <3>1. PICK r : r = S[1]
      OBVIOUS
    <3>2. PICK R \in EarlySaves(Z, r) : \E E \in Reclaimed(R, cfg.early) : Become(E) /\ op' = AfterEarly(E.pool)
      BY <2>6, <3>1
    <3>3. PICK E \in Reclaimed(R, cfg.early) : Become(E) /\ op' = AfterEarly(E.pool)
      BY <3>2
    <3>4. r \in Parked /\ r \in X
      <4>1. S \in Seq(Sessions) /\ Range(S) = Parked \intersect X
        BY <2>3, KeptFacts DEF OffloadInv, Queued
      <4>2. 1 \in 1..Len(S)
        BY <2>6, <4>1, LenProperties, EmptySeq
      <4> QED
        BY <3>1, <4>1, <4>2, InRange
    <3>5. r \in Sessions /\ Z.q[r].st = "parked" /\ Z.q[r].table # << >>
      BY <2>2, <2>3, <3>4 DEF Parked
    <3>6. Good(R, op.hold) /\ EarlySaved(R, Z, r)
      BY <1>2, <2>2, <2>6, <3>2, <3>5, EarlySavesGood
    <3>7. Good(R, NoHold) /\ Calm(R) /\ Kin(R, Z)
      BY <1>2, <3>6 DEF EarlySaved
    <3>8. Good(E, NoHold) /\ Calm(E) /\ Kin(E, R)
      BY <3>3, <3>7, ReclaimedCalm
    <3>9. Kin(E, State)
      BY <2>2, <3>7, <3>8 DEF Kin
    <3>10. PICK o : o = AfterEarly(E.pool)
      OBVIOUS
    <3> QED
      BY <1>3, <3>3, <3>8, <3>9, <3>10, AfterEarlyUnladen
  <2>7. \/ Become(Z) /\ op' = AfterEarly(Z.pool)
        \/ Become(Finished(Z, Active)) /\ op' = Idle
        \/ /\ S # << >> /\ ~Tiered
           /\ \E R \in EarlySaves(Z, S[1]) : \E E \in Reclaimed(R, cfg.early) : Become(E) /\ op' = AfterEarly(E.pool)
    BY <1>5, <2>3
  <2> QED
    BY <2>4, <2>5, <2>6, <2>7
<1>6. CASE ~(cfg.early = 0 \/ pend.on \/ FreeBlocks(pool) >= cfg.early)
  <2>1. PICK Z \in Reclaimed(State, cfg.early) :
             LET S == Kept(order, {r \in Sessions : q[r].table # << >> /\ Reclaimable(Z.pool, {r}) > 0})
             IN  IF FreeBlocks(Z.pool) >= cfg.early \/ S = << >>
                 THEN Become(Z) /\ op' = AfterEarly(Z.pool)
                 ELSE \/ Tiered /\ Become(Finished(Z, Active)) /\ op' = Idle
                      \/ /\ ~Tiered
                         /\ \E R \in EarlySaves(Z, S[1]) : \E E \in Reclaimed(R, cfg.early) :
                              Become(E) /\ op' = AfterEarly(E.pool)
    BY <1>6 DEF EarlyOffload
  <2> QED
    BY <1>5, <1>6, <2>1
<1> QED
  BY <1>4, <1>6 DEF EarlyOffload

LEMMA EvictCachedOK ==
  ASSUME OffloadInv, EvictCached
  PROVE  OffloadInv'
<1>1. op.pc = "evict" /\ UNCHANGED <<epoch, order, weights, cfg>>
  BY DEF EvictCached
<1>2. PICK h, g : h = op.hold /\ g = op.goal
  OBVIOUS
<1>3. Good(State, h) /\ Calm(State)
  BY <1>1, <1>2, GoodState
<1>4. ASSUME NEW Y, Good(Y, h), Calm(Y), Kin(Y, State), Become(Y), op' = StartOffload(op, q') \/ op' = Idle
      PROVE  OffloadInv'
  <2>1. Parked' = Parked
    BY <1>4, ParkedNext
  <2>2. CASE op' = Idle
    <3>1. Good(Y, NoHold)
      BY <1>4, ReleasedGood
    <3>2. Queued'
      BY <1>1, <2>1 DEF Queued, OffloadInv
    <3> QED
      BY <1>1, <1>4, <2>2, <3>1, <3>2, UnladenStep, IdleUnladen
  <2>3. CASE op' = StartOffload(op, q')
    <3>1. PICK Q : Q = q'
      OBVIOUS
    <3>2. OpOK' /\ op'.pc = "offload" /\ op'.hold = h
      BY <1>2, <2>1, <2>3, <3>1, StartedOffload
    <3> QED
      BY <1>1, <1>4, <3>2, KinStep
  <2> QED
    BY <1>4, <2>2, <2>3
<1>5. PICK Z \in Reclaimed(State, g) :
        \/ \E R \in Reclaimed(Waited(Z, FALSE), g) : Become(R) /\ op' = StartOffload(op, q')
        \/ Become(Z) /\ (op' = Idle \/ op' = StartOffload(op, q'))
  BY <1>2 DEF EvictCached
<1>6. Good(Z, h) /\ Calm(Z) /\ Kin(Z, State)
  <2>1. PICK K : K = State
    OBVIOUS
  <2> QED
    BY <1>3, <1>5, <2>1, ReclaimedCalm
<1>7. CASE Become(Z) /\ (op' = Idle \/ op' = StartOffload(op, q'))
  BY <1>4, <1>6, <1>7
<1>8. CASE \E R \in Reclaimed(Waited(Z, FALSE), g) : Become(R) /\ op' = StartOffload(op, q')
  <2>1. PICK W : W = Waited(Z, FALSE)
    OBVIOUS
  <2>2. PICK R \in Reclaimed(W, g) : Become(R) /\ op' = StartOffload(op, q')
    BY <1>8, <2>1
  <2>3. LET Y == Waited(Z, FALSE) IN Good(Y, h) /\ Calm(Y) /\ Kin(Y, Z) /\ ~Y.pend.on
    BY <1>6, WaitedCalm, Zenon
  <2>4. Good(W, h) /\ Calm(W) /\ Kin(W, Z)
    BY <2>1, <2>3
  <2>5. Good(R, h) /\ Calm(R) /\ Kin(R, W)
    BY <2>2, <2>4, ReclaimedCalm
  <2>6. Kin(R, State)
    BY <1>6, <2>4, <2>5 DEF Kin
  <2> QED
    BY <1>4, <2>2, <2>5, <2>6
<1> QED
  BY <1>5, <1>7, <1>8

LEMMA Within ==
  ASSUME NEW s \in Seq(Sessions), IsInjective(s), NEW m \in 1..Len(s) + 1, NEW n \in m - 1..Len(s),
         NEW t, t = SubSeq(s, m, n)
  PROVE  t \in Seq(Sessions) /\ IsInjective(t) /\ Range(t) \subseteq Range(s) /\ Len(t) = (n - m) + 1
<1>1. t \in Seq(Sessions) /\ Len(t) = (n - m) + 1 /\ Len(s) \in Nat /\ DOMAIN s = 1..Len(s)
  BY SubSeqProperties, LenProperties
<1>2. \A i \in 1..(n - m) + 1 : t[i] = s[(m + i) - 1]
  BY SubSeqProperties
<1>3. DOMAIN t = 1..(n - m) + 1
  BY <1>1, LenProperties
<1>4. \A i \in DOMAIN t : (m + i) - 1 \in DOMAIN s
  BY <1>1, <1>3
<1>5. Range(t) \subseteq Range(s)
  BY <1>2, <1>3, <1>4 DEF Range
<1>6. ASSUME NEW i \in DOMAIN t, NEW j \in DOMAIN t, t[i] = t[j]
      PROVE  i = j
  <2>1. s[(m + i) - 1] = s[(m + j) - 1]
    BY <1>2, <1>3, <1>6
  <2>2. (m + i) - 1 = (m + j) - 1
    BY <1>4, <2>1 DEF IsInjective
  <2> QED
    BY <1>3, <2>2
<1> QED
  BY <1>1, <1>5, <1>6 DEF IsInjective

\* The group is a non-empty prefix of the candidates.
LEMMA GroupTaken ==
  ASSUME NEW P, NEW cand \in Seq(Sessions), IsInjective(cand), cand # << >>, NEW goal,
         NEW rs, rs = NextGroup(P, cand, goal), NEW rest, rest = SubSeq(cand, Len(rs) + 1, Len(cand))
  PROVE  /\ rs \in Seq(Sessions) /\ IsInjective(rs) /\ Range(rs) \subseteq Range(cand) /\ 1 \in 1..Len(rs)
         /\ rest \in Seq(Sessions) /\ IsInjective(rest) /\ Range(rest) \subseteq Range(cand)
<1>1. Len(cand) \in Nat /\ Len(cand) # 0
  BY LenProperties, EmptySeq
<1>2. PICK X : X = {n \in 1..Len(cand) : Reclaimable(P, Range(SubSeq(cand, 1, n))) >= goal - FreeBlocks(P)}
  OBVIOUS
<1>3. PICK n : n = IF X = {} THEN Len(cand) ELSE Min(X)
  OBVIOUS
<1>4. n \in 1..Len(cand)
  <2>1. CASE X = {}
    BY <1>1, <1>3, <2>1
  <2>2. CASE X # {}
    <3>1. X \in SUBSET Nat /\ X \subseteq 1..Len(cand)
      BY <1>1, <1>2
    <3>2. PICK i \in X : \A j \in X : i <= j
      BY <2>2, <3>1, LeastNatural
    <3>3. Min(X) \in X
      BY <3>2 DEF Min
    <3> QED
      BY <1>3, <2>2, <3>1, <3>3
  <2> QED
    BY <2>1, <2>2
<1>5. rs = SubSeq(cand, 1, n)
  BY <1>2, <1>3 DEF NextGroup
<1>6. rs \in Seq(Sessions) /\ IsInjective(rs) /\ Range(rs) \subseteq Range(cand) /\ Len(rs) = n
  <2>1. 1 \in 1..Len(cand) + 1 /\ n \in 1 - 1..Len(cand)
    BY <1>1, <1>4
  <2>2. rs \in Seq(Sessions) /\ IsInjective(rs) /\ Range(rs) \subseteq Range(cand) /\ Len(rs) = (n - 1) + 1
    BY <1>5, <2>1, Within
  <2> QED
    BY <1>1, <1>4, <2>2
<1>7. rest \in Seq(Sessions) /\ IsInjective(rest) /\ Range(rest) \subseteq Range(cand)
  <2>1. PICK k : k = Len(rs) + 1
    OBVIOUS
  <2>2. k \in 1..Len(cand) + 1 /\ Len(cand) \in k - 1..Len(cand)
    BY <1>1, <1>4, <1>6, <2>1
  <2> QED
    BY <2>1, <2>2, Within
<1> QED
  BY <1>1, <1>4, <1>6, <1>7

\* A group is being saved, and stays so.
LEMMA SavingStep ==
  ASSUME OffloadInv, NEW Z, Good(Z, op.hold), Kin(Z, State), Become(Z),
         UNCHANGED <<cfg, weights, epoch, order>>, op'.hold = op.hold, op'.pc = "save", OpOK',
         Awaits(Z, op'.group, op'.at)
  PROVE  OffloadInv'
<1>1. Parked' = Parked
  BY ParkedNext
<1>2. Queued'
  BY <1>1 DEF Queued, OffloadInv
<1>3. Good(State, op.hold)'
  <2>1. PICK h : h = op.hold
    OBVIOUS
  <2> QED
    BY <2>1, BecomeNext
<1>4. group' = Z.group /\ pend' = Z.pend /\ lease' = Z.lease /\ Tiered' = Tiered
  BY DEF Become, Tiered
<1>5. GroupOK'
  BY <1>4 DEF GroupOK, Awaits
<1> QED
  BY <1>2, <1>3, <1>5 DEF OffloadInv

LEMMA OpenGroupOK ==
  ASSUME OffloadInv, OpenGroup
  PROVE  OffloadInv'
<1>1. op.pc = "offload" /\ op.cand # << >> /\ UNCHANGED <<epoch, order, weights, cfg>>
  BY DEF OpenGroup
<1>2. PICK rs, rest : /\ rs = NextGroup(pool, op.cand, op.goal)
                      /\ rest = SubSeq(op.cand, Len(rs) + 1, Len(op.cand))
  OBVIOUS
<1>3. OpOK /\ op.cand \in Seq(Sessions) /\ IsInjective(op.cand) /\ Range(op.cand) \subseteq Parked
  BY DEF OffloadInv, OpOK
<1>4. /\ rs \in Seq(Sessions) /\ IsInjective(rs) /\ Range(rs) \subseteq Range(op.cand) /\ 1 \in 1..Len(rs)
      /\ rest \in Seq(Sessions) /\ IsInjective(rest) /\ Range(rest) \subseteq Range(op.cand)
  <2>1. PICK cand, goal : cand = op.cand /\ goal = op.goal
    OBVIOUS
  <2>2. cand \in Seq(Sessions) /\ IsInjective(cand) /\ cand # << >>
    BY <1>1, <1>3, <2>1
  <2>3. rs = NextGroup(pool, cand, goal) /\ rest = SubSeq(cand, Len(rs) + 1, Len(cand))
    BY <1>2, <2>1
  <2>4. /\ rs \in Seq(Sessions) /\ IsInjective(rs) /\ Range(rs) \subseteq Range(cand) /\ 1 \in 1..Len(rs)
        /\ rest \in Seq(Sessions) /\ IsInjective(rest) /\ Range(rest) \subseteq Range(cand)
    BY <2>2, <2>3, GroupTaken
  <2> QED
    BY <2>1, <2>4
<1>5. Good(State, op.hold) /\ Calm(State) /\ \A r \in Parked : q[r].st = "parked"
  BY <1>1, GoodState
<1>6. PICK W : W = Waited(State, FALSE)
  OBVIOUS
<1>7. Good(W, op.hold) /\ Calm(W) /\ Kin(W, State) /\ ~W.pend.on
  <2>1. PICK K, h : K = State /\ h = op.hold
    OBVIOUS
  <2>2. LET Y == Waited(K, FALSE) IN Good(Y, h) /\ Calm(Y) /\ Kin(Y, K) /\ ~Y.pend.on
    BY <1>5, <2>1, WaitedCalm, Zenon
  <2> QED
    BY <1>6, <2>1, <2>2
<1>8. \A r \in Range(rs) : W.q[r].st = "parked"
  BY <1>3, <1>4, <1>5, <1>7 DEF Kin, State, Parked
<1>9. CASE \E G \in Prepared(W, rs) :
             /\ Become(G.z)
             /\ op' = IF G.ok THEN [op EXCEPT !.pc = "save", !.group = rs, !.at = 1, !.cand = rest]
                      ELSE [op EXCEPT !.cand = rest]
  <2>1. PICK G \in Prepared(W, rs) :
             /\ Become(G.z)
             /\ op' = IF G.ok THEN [op EXCEPT !.pc = "save", !.group = rs, !.at = 1, !.cand = rest]
                      ELSE [op EXCEPT !.cand = rest]
    BY <1>9
  <2>2. /\ Good(G.z, op.hold) /\ Kin(G.z, W) /\ ~G.z.pend.on
        /\ ~G.ok => Calm(G.z)
        /\ G.ok => Awaits(G.z, rs, 1)
    BY <1>4, <1>7, <1>8, <2>1, PreparedGood
  <2>3. Kin(G.z, State)
    BY <1>7, <2>2 DEF Kin
  <2>4. Parked' = Parked
    BY <2>1, <2>3, ParkedNext
  <2>5. CASE G.ok
    <3>1. op' = [op EXCEPT !.pc = "save", !.group = rs, !.at = 1, !.cand = rest]
      BY <2>1, <2>5
    <3>2. op'.group = rs /\ op'.at = 1 /\ op'.pc = "save" /\ op'.hold = op.hold
      BY <1>3, <3>1 DEF OpOK, Idle
    <3>3. OpOK'
      BY <1>1, <1>3, <1>4, <2>4, <3>1 DEF OpOK, Idle, Stages
    <3> QED
      BY <1>1, <2>1, <2>2, <2>3, <2>5, <3>2, <3>3, SavingStep
  <2>6. CASE ~G.ok
    <3>1. op' = [op EXCEPT !.cand = rest]
      BY <2>1, <2>6
    <3>2. OpOK' /\ op'.pc = "offload" /\ op'.hold = op.hold
      BY <1>1, <1>3, <1>4, <2>4, <3>1 DEF OpOK, Idle, Stages
    <3>3. PICK h : h = op.hold
      OBVIOUS
    <3>4. Good(G.z, h) /\ op'.hold = h /\ op'.pc # "save"
      BY <2>2, <3>2, <3>3
    <3> QED
      BY <1>1, <2>1, <2>2, <2>3, <2>6, <3>2, <3>4, KinStep
  <2> QED
    BY <2>5, <2>6
<1>10. CASE WaitRaises /\ op' = Idle
  BY <1>1, <1>10, IdleUnladen, SameStep DEF WaitRaises
<1> QED
  BY <1>2, <1>6, <1>9, <1>10 DEF OpenGroup

LEMMA GroupAwaits ==
  ASSUME OffloadInv, op.pc = "save"
  PROVE  /\ Good(State, op.hold) /\ Awaits(State, op.group, op.at) /\ op.at \in 1..Len(op.group)
         /\ op.group \in Seq(Sessions) /\ IsInjective(op.group) /\ Len(op.group) \in Nat
         /\ Range(op.group) \subseteq Parked
<1>1. /\ Good(State, op.hold) /\ op.at \in 1..Len(op.group) /\ op.group \in Seq(Sessions)
      /\ IsInjective(op.group) /\ Range(op.group) \subseteq Parked
  BY DEF OffloadInv, OpOK
<1>2. Awaits(State, op.group, op.at)
  BY DEF OffloadInv, GroupOK, Awaits, State
<1> QED
  BY <1>1, <1>2, LenProperties

LEMMA LeaveGroupOK ==
  ASSUME OffloadInv, op.pc = "save", NEW Z, Good(Z, op.hold), Kin(Z, State), LeaveGroup(Z),
         UNCHANGED <<epoch, order, weights, cfg>>
  PROVE  OffloadInv'
<1>1. PICK h, Y : h = op.hold /\ Y = Closed(Z)
  OBVIOUS
<1>2. Become(Y) /\ op' = [op EXCEPT !.pc = "offload", !.group = << >>, !.at = 0]
  BY <1>1 DEF LeaveGroup
<1>3. LET X == Closed(Z) IN Good(X, h) /\ Calm(X) /\ Kin(X, Z) /\ X.pend = Z.pend
  BY <1>1, ClosedGood, Zenon
<1>4. Good(Y, h) /\ Calm(Y) /\ Kin(Y, State)
  BY <1>1, <1>3 DEF Kin
<1>5. Parked' = Parked
  BY <1>2, <1>4, ParkedNext
<1>6. OpOK
  BY DEF OffloadInv
<1>7. OpOK' /\ op'.hold = h /\ op'.pc # "save"
  BY <1>1, <1>2, <1>5, <1>6, EmptyList DEF OpOK, Idle, Stages
<1> QED
  BY <1>2, <1>4, <1>7, KinStep

LEMMA SaveNextOK ==
  ASSUME OffloadInv, SaveNext
  PROVE  OffloadInv'
<1>1. op.pc = "save" /\ UNCHANGED <<epoch, order, fatal, weights, cfg>>
  BY DEF SaveNext
<1>2. PICK rs, i, S, h : rs = op.group /\ i = op.at /\ S = Saved(State, rs[i]) /\ h = op.hold
  OBVIOUS
<1>3. /\ Good(State, h) /\ Awaits(State, rs, i) /\ i \in 1..Len(rs) /\ rs \in Seq(Sessions) /\ IsInjective(rs)
      /\ Len(rs) \in Nat
  BY <1>1, <1>2, GroupAwaits
<1>4. Good(S, h) /\ Kin(S, State) /\ Awaits(S, rs, i + 1)
  <2>1. PICK K : K = State
    OBVIOUS
  <2>2. LET Y == Saved(K, rs[i]) IN Good(Y, h) /\ Kin(Y, K) /\ Awaits(Y, rs, i + 1)
    BY <1>3, <2>1, SavedGood, Zenon
  <2> QED
    BY <1>2, <2>1, <2>2
<1>5. PICK Z \in Reclaimed(S, op.goal) :
        \/ LeaveGroup(Z)
        \/ op.at # Len(op.group) /\ Become(Z) /\ op' = [op EXCEPT !.at = @ + 1]
  BY <1>2 DEF SaveNext
<1>6. Good(Z, h) /\ Kin(Z, S) /\ Z.pend = S.pend /\ Z.group = S.group /\ Z.lease = S.lease
  <2>1. PICK g : g = op.goal
    OBVIOUS
  <2> QED
    BY <1>4, <1>5, <2>1, ReclaimedCalm
<1>7. Kin(Z, State) /\ Awaits(Z, rs, i + 1)
  BY <1>4, <1>6 DEF Kin, Awaits
<1>8. CASE LeaveGroup(Z)
  BY <1>1, <1>2, <1>6, <1>7, <1>8, LeaveGroupOK
<1>9. CASE op.at # Len(op.group) /\ Become(Z) /\ op' = [op EXCEPT !.at = @ + 1]
  <2>1. OpOK /\ Parked' = Parked
    BY <1>7, <1>9, ParkedNext DEF OffloadInv
  <2>2. op'.group = rs /\ op'.at = i + 1 /\ op'.pc = "save" /\ op'.hold = h
    BY <1>1, <1>2, <1>9, <2>1 DEF OpOK, Idle
  <2>3. i + 1 \in 1..Len(rs)
    BY <1>2, <1>3, <1>9
  <2>4. /\ DOMAIN op' = DOMAIN op /\ op'.then = op.then /\ op'.cand = op.cand /\ op'.for = op.for
        /\ op'.suffix = op.suffix
    BY <1>9, <2>1 DEF OpOK, Idle
  <2>5. OpOK'
    BY <1>1, <1>2, <2>1, <2>2, <2>3, <2>4 DEF OpOK
  <2> QED
    BY <1>1, <1>2, <1>6, <1>7, <1>9, <2>2, <2>5, SavingStep
<1> QED
  BY <1>5, <1>8, <1>9

LEMMA SaveFailsOK ==
  ASSUME OffloadInv, SaveFails
  PROVE  OffloadInv'
<1>1. op.pc = "save" /\ UNCHANGED <<epoch, order, weights, cfg>>
  BY DEF SaveFails
<1>2. PICK rs, i, h : rs = op.group /\ i = op.at /\ h = op.hold
  OBVIOUS
<1>3. /\ Good(State, h) /\ Awaits(State, rs, i) /\ i \in 1..Len(rs) /\ rs \in Seq(Sessions)
  BY <1>1, <1>2, GroupAwaits
<1>4. PICK Z \in SavesFailing(State, rs[i]) :
        LeaveGroup(Z) \/ (Become(Closed(Z)) /\ op' = Idle)
  <2>1. \E Z \in SavesFailing(State, op.group[op.at]) :
           \/ LeaveGroup(Z) /\ UNCHANGED fatal
           \/ Become(Closed(Z)) /\ op' = Idle /\ fatal' = TRUE /\ UNCHANGED shown
    BY DEF SaveFails
  <2>2. PICK Z \in SavesFailing(State, op.group[op.at]) :
           \/ LeaveGroup(Z) /\ UNCHANGED fatal
           \/ Become(Closed(Z)) /\ op' = Idle /\ fatal' = TRUE /\ UNCHANGED shown
    BY <2>1, Zenon
  <2>3. LeaveGroup(Z) \/ (Become(Closed(Z)) /\ op' = Idle)
    BY <2>2, Zenon
  <2> QED
    BY <1>2, <2>2, <2>3
<1>5. Good(Z, h) /\ Kin(Z, State)
  <2>1. PICK K : K = State
    OBVIOUS
  <2> QED
    BY <1>3, <1>4, <2>1, SaveRaises
<1>6. CASE LeaveGroup(Z)
  BY <1>1, <1>2, <1>5, <1>6, LeaveGroupOK
<1>7. CASE Become(Closed(Z)) /\ op' = Idle
  <2>1. PICK Y : Y = Closed(Z)
    OBVIOUS
  <2>2. LET X == Closed(Z) IN Good(X, h) /\ Calm(X) /\ Kin(X, Z) /\ X.pend = Z.pend
    BY <1>5, ClosedGood, Zenon
  <2>3. Good(Y, h) /\ Calm(Y) /\ Kin(Y, State) /\ Become(Y)
    BY <1>5, <1>7, <2>1, <2>2 DEF Kin
  <2>4. Good(Y, NoHold)
    BY <2>3, ReleasedGood
  <2>5. Parked' = Parked
    BY <2>3, ParkedNext
  <2>6. Queued'
    BY <1>1, <2>5 DEF Queued, OffloadInv
  <2> QED
    BY <1>1, <1>7, <2>3, <2>4, <2>6, IdleUnladen, UnladenStep
<1> QED
  BY <1>4, <1>6, <1>7

LEMMA OneMember ==
  ASSUME NEW r \in Sessions, NEW rs, rs = <<r>>
  PROVE  rs \in Seq(Sessions) /\ IsInjective(rs) /\ Range(rs) = {r} /\ 1 \in 1..Len(rs) /\ rs[1] = r
BY DEF IsInjective, Range

LEMMA OffloadRequestOK ==
  ASSUME OffloadInv, NEW r \in Sessions, OffloadRequest(r)
  PROVE  OffloadInv'
<1>1. op.pc = "idle" /\ r \in Parked /\ UNCHANGED <<epoch, order, op, fatal, weights, cfg>>
  BY DEF OffloadRequest
<1>2. OpOK /\ op.hold = NoHold
  BY <1>1, IdleOp DEF OffloadInv
<1>3. PICK Z : Z = Waited(State, FALSE)
  OBVIOUS
<1>4. Good(Z, NoHold) /\ Calm(Z) /\ Kin(Z, State) /\ ~Z.pend.on
  <2>1. PICK K, h : K = State /\ h = NoHold
    OBVIOUS
  <2>2. Good(K, h) /\ Calm(K)
    BY <1>1, <1>2, <2>1, GoodState
  <2>3. LET Y == Waited(K, FALSE) IN Good(Y, h) /\ Calm(Y) /\ Kin(Y, K) /\ ~Y.pend.on
    BY <2>2, WaitedCalm, Zenon
  <2> QED
    BY <1>3, <2>1, <2>3
<1>5. ASSUME NEW Y, Good(Y, NoHold), Calm(Y), Kin(Y, State), Become(Y)
      PROVE  OffloadInv'
  <2>1. Parked' = Parked
    BY <1>5, ParkedNext
  <2>2. Queued'
    BY <1>1, <2>1 DEF Queued, OffloadInv
  <2> QED
    BY <1>1, <1>5, <2>2, IdleStep
<1>6. PICK rs : rs = <<r>>
  OBVIOUS
<1>7. rs \in Seq(Sessions) /\ IsInjective(rs) /\ Range(rs) = {r} /\ 1 \in 1..Len(rs) /\ rs[1] = r
  BY <1>6, OneMember
<1>8. \/ Become(Z)
      \/ \E G \in Prepared(Z, rs) :
           \/ ~G.ok /\ Become(G.z)
           \/ G.ok /\ Become(Closed(Saved(G.z, r)))
           \/ G.ok /\ \E F \in SavesFailing(G.z, r) : Become(Closed(F))
  BY <1>3, <1>6 DEF OffloadRequest
<1>9. CASE \E G \in Prepared(Z, rs) :
           \/ ~G.ok /\ Become(G.z)
           \/ G.ok /\ Become(Closed(Saved(G.z, r)))
           \/ G.ok /\ \E F \in SavesFailing(G.z, r) : Become(Closed(F))
  <2>1. PICK G \in Prepared(Z, rs) :
           \/ ~G.ok /\ Become(G.z)
           \/ G.ok /\ Become(Closed(Saved(G.z, r)))
           \/ G.ok /\ \E F \in SavesFailing(G.z, r) : Become(Closed(F))
    BY <1>9
  <2>2. \A x \in Range(rs) : Z.q[x].st = "parked"
    BY <1>1, <1>4, <1>7 DEF Kin, Parked, State
  <2>3. Good(Z, op.hold)
    BY <1>2, <1>4
  <2>4. /\ Good(G.z, op.hold) /\ Kin(G.z, Z) /\ ~G.z.pend.on
        /\ ~G.ok => Calm(G.z)
        /\ G.ok => Awaits(G.z, rs, 1)
    BY <1>4, <1>7, <2>1, <2>2, <2>3, PreparedGood
  <2>5. PICK g, h : g = G.z /\ h = NoHold
    OBVIOUS
  <2>6. Good(g, h) /\ Kin(g, State) /\ (G.ok => Awaits(g, rs, 1))
    BY <1>2, <1>4, <2>4, <2>5 DEF Kin
  <2>7. CASE ~G.ok /\ Become(g)
    BY <1>5, <2>4, <2>5, <2>6, <2>7
  <2>8. CASE G.ok /\ \E F : Good(F, h) /\ Kin(F, g) /\ Become(Closed(F))
    <3>1. PICK F : Good(F, h) /\ Kin(F, g) /\ Become(Closed(F))
      BY <2>8
    <3>2. LET X == Closed(F) IN Good(X, h) /\ Calm(X) /\ Kin(X, F) /\ X.pend = F.pend
      BY <3>1, ClosedGood, Zenon
    <3>3. PICK X : X = Closed(F)
      OBVIOUS
    <3>4. Good(X, NoHold) /\ Calm(X) /\ Kin(X, State) /\ Become(X)
      BY <2>5, <2>6, <3>1, <3>2, <3>3 DEF Kin
    <3> QED
      BY <1>5, <3>4
  <2>9. CASE G.ok /\ Become(Closed(Saved(g, r)))
    <3>1. LET Y == Saved(g, rs[1]) IN Good(Y, h) /\ Kin(Y, g) /\ Awaits(Y, rs, 1 + 1)
      BY <1>7, <2>6, <2>9, SavedGood, Zenon
    <3>2. PICK F : F = Saved(g, r)
      OBVIOUS
    <3>3. Good(F, h) /\ Kin(F, g) /\ Become(Closed(F))
      BY <1>7, <2>9, <3>1, <3>2
    <3> QED
      BY <2>8, <2>9, <3>3
  <2>10. CASE G.ok /\ \E F \in SavesFailing(g, r) : Become(Closed(F))
    <3>1. PICK F \in SavesFailing(g, rs[1]) : Become(Closed(F))
      BY <1>7, <2>10
    <3>2. Good(F, h) /\ Kin(F, g)
      BY <1>7, <2>6, <2>10, SaveRaises
    <3> QED
      BY <2>8, <2>10, <3>1, <3>2
  <2> QED
    BY <2>1, <2>5, <2>7, <2>9, <2>10
<1>10. CASE Become(Z)
  BY <1>4, <1>5, <1>10
<1> QED
  BY <1>8, <1>9, <1>10

LEMMA RunTurnOK ==
  ASSUME OffloadInv, NEW r \in Sessions, NEW tok \in Sampled, RunTurn(r, tok)
  PROVE  OffloadInv'
<1>1. op.pc = "step" /\ r \in Active /\ order' = Append(order, r) /\ op' = StartEvict(Watermark, "idle")
      /\ UNCHANGED <<epoch, fatal, weights, cfg>>
  BY DEF RunTurn
<1>2. Good(State, NoHold) /\ Calm(State) /\ State.q = q /\ State.pool = pool
  BY <1>1, GoodState DEF OffloadInv, OpOK
<1>3. PICK T \in Turns(pool, q[r], tok) :
        Become([State EXCEPT !.pool = T.pool, !.kv = T.kv,
                             !.q[r] = [T.q EXCEPT !.st = "parked"],
                             !.use[r] = NoUse, !.unsettled = @ - use[r].n])
  BY DEF RunTurn
<1>4. PICK c, K, Y : /\ c = [T.q EXCEPT !.st = "parked"] /\ K = State
                     /\ Y = [K EXCEPT !.pool = T.pool, !.kv = T.kv, !.q[r] = c, !.use[r] = NoUse,
                                      !.unsettled = @ - use[r].n]
  OBVIOUS
<1>5. Become(Y)
  BY <1>3, <1>4
<1>6. Good(K, NoHold) /\ K.group = {} /\ ~K.lease.on /\ K.q[r].st = "active" /\ Zone(K) /\ Seats(K.pool, K.q)
      /\ K.use = use /\ K.q = q /\ K.pool = pool
  BY <1>1, <1>2, <1>4, GoodQ DEF Calm, Active, State
<1>7. PICK t, V, g, w : TurnFrom(K.pool, K.q[r], tok, T, t, V, g, w)
  BY <1>6, TurnParts
<1>8. /\ TurnResult(K.q, r, tok, T, TurnRequest(K.q[r], t), TurnDone(TurnRequest(K.q[r], t), TurnRequest(K.q[r], t).table \o g, w))
      /\ Seats(T.pool, [K.q EXCEPT ![r] = [T.q EXCEPT !.st = "parked"]])
  <2>1. PICK P, Q : P = K.pool /\ Q = K.q
    OBVIOUS
  <2>2. Seats(P, Q) /\ Q[r].st = "active" /\ TurnFrom(P, Q[r], tok, T, t, V, g, w)
    BY <1>6, <1>7, <2>1
  <2>3. LET a == TurnRequest(Q[r], t)
        IN  /\ TurnResult(Q, r, tok, T, a, TurnDone(a, a.table \o g, w))
            /\ Seats(T.pool, [Q EXCEPT ![r] = [T.q EXCEPT !.st = "parked"]])
    BY <2>2, TurnSeats, Zenon
  <2> QED
    BY <2>1, <2>3
<1>9. IsRequest(T.q) /\ T.q.res # "cpu"
  BY <1>8 DEF TurnResult
<1>10. c.res # "cpu" /\ c.st = "parked"
  BY <1>4, <1>9 DEF IsRequest
<1>11. /\ Y.pool = T.pool /\ Y.q = [K.q EXCEPT ![r] = c] /\ Y.use = [K.use EXCEPT ![r] = NoUse]
       /\ Y.unsettled = K.unsettled - K.use[r].n /\ Y.store = K.store /\ Y.snapOf = K.snapOf
       /\ Y.group = K.group /\ Y.pend = K.pend /\ SameBlocks(Y, K) /\ Zone(Y)
  BY <1>4, <1>6 DEF Zone, SameBlocks
<1>12. Seats(Y.pool, Y.q)
  BY <1>4, <1>8, <1>11
<1>13. Good(Y, NoHold)
  <2>1. PICK h : h = NoHold
    OBVIOUS
  <2>2. Good(K, h)
    BY <1>6, <2>1
  <2>3. Good(Y, h)
    BY <1>6, <1>10, <1>11, <1>12, <2>2, GoodRan
  <2> QED
    BY <2>1, <2>3
<1>14. Calm(Y)
  BY <1>6, <1>11 DEF Calm, SameBlocks
<1>15. Parked' = Parked \union {r}
  <2>1. q' = [q EXCEPT ![r] = c]
    BY <1>5, <1>6, <1>11 DEF Become
  <2>2. DOMAIN q = Sessions
    BY <1>2, GoodQ DEF Requests
  <2> QED
    BY <1>10, <2>1, <2>2 DEF Parked
<1>16. Queued'
  <2>1. order \in Seq(Sessions) /\ IsInjective(order) /\ r \notin Range(order) /\ Range(order) = Parked
    BY <1>1 DEF OffloadInv, Queued, Parked, Active
  <2> QED
    BY <1>1, <1>15, <2>1, AppendFacts DEF Queued
<1> QED
  BY <1>1, <1>5, <1>13, <1>14, <1>16, IdleUnladen, UnladenStep

\* The weights or the epoch may change once nothing refers to the old ones.
LEMMA GoodReset ==
  ASSUME NEW Z, Good(Z, NoHold), Calm(Z), Tiered => Z.man = [r \in Sessions |-> NoMan],
         UNCHANGED cfg, op'.hold = NoHold, Become(Z)
  PROVE  Good(State, op.hold)'
<1>1. PICK Y : Y = State'
  OBVIOUS
<1>2. Zone(Y) /\ Y.pool = Z.pool
  BY <1>1 DEF Become, Zone, State
<1>3. SameHost(Y, Z)
  BY <1>1 DEF Become, State, SameHost
<1>4. Seats(Y.pool, Y.q)
  BY <1>2, <1>3 DEF Good, Seated, SameHost
<1>5. Good(Y, NoHold)
  <2>1. PICK h : h = NoHold /\ Good(Z, h)
    OBVIOUS
  <2>2. Good(Y, h)
    BY <1>2, <1>3, <1>4, <2>1, PoolChanged
  <2> QED
    BY <2>1, <2>2
<1>6. Tiered <=> Tiered'
  BY DEF Tiered
<1>7. Zone(State)' /\ Seated(State)'
  BY <1>1, <1>2, <1>4 DEF Zone, Seated
<1>8. CASE Tiered
  <2>1. NoSnapshots(Y) /\ Manifests(Y) /\ LeaseHeld(Y) /\ ~Y.lease.on /\ Y.man = [r \in Sessions |-> NoMan]
    BY <1>3, <1>5, <1>8 DEF Good, Hosted, Blocked, Calm, SameHost
  <2>2. Manifests(State)'
    <3>1. \A r \in Sessions : Y.man[r] = NoMan /\ Y.q[r].res # "cpu"
      BY <2>1 DEF Manifests, NoMan
    <3> QED
      BY <1>1, <2>1, <3>1 DEF Manifests
  <2>3. LeaseHeld(State)'
    BY <1>1, <2>1 DEF LeaseHeld
  <2>4. NoSnapshots(State)'
    BY <1>1, <2>1 DEF NoSnapshots
  <2> QED
    BY <1>6, <1>7, <1>8, <2>2, <2>3, <2>4 DEF Good, Hosted, Blocked
<1>9. CASE ~Tiered
  <2>1. Snapped(Y, NoHold)
    BY <1>5, <1>9 DEF Good, Hosted
  <2>2. Snapped(State, op.hold)'
    BY <1>1, <2>1 DEF Snapped
  <2> QED
    BY <1>6, <1>7, <1>9, <2>2 DEF Good, Hosted
<1> QED
  BY <1>8, <1>9

LEMMA InvalidateAllOK ==
  ASSUME OffloadInv, NEW change, InvalidateAll(change)
  PROVE  OffloadInv'
<1>1. op.pc = "idle" /\ Active = {} /\ UNCHANGED <<order, op, cfg>>
  BY DEF InvalidateAll
<1>2. Good(State, NoHold) /\ Calm(State) /\ State.q = q /\ op.hold = NoHold /\ OpOK
  BY <1>1, GoodState, IdleOp DEF OffloadInv
<1>3. PICK K, S, Y : K = State /\ S = Parked /\ Y = Emptied(K, S)
  OBVIOUS
<1>4. \/ Become(Y)
      \/ WaitRaises /\ UNCHANGED <<epoch, weights, shown>>
  BY <1>3 DEF InvalidateAll, Emptied
<1>5. CASE WaitRaises /\ UNCHANGED <<epoch, weights, shown>>
  BY <1>1, <1>5, WaitRaisesOK
<1>6. CASE Become(Y)
  <2>1. Good(K, NoHold)
    BY <1>2, <1>3
  <2>11. \A r \in Sessions : K.q[r].st # "active"
    BY <1>1, <1>2, <1>3 DEF Active
  <2>12. S = {r \in Sessions : K.q[r].st = "parked"}
    BY <1>2, <1>3 DEF Parked
  <2>2. /\ Good(Y, NoHold) /\ Calm(Y) /\ (Tiered => Y.man = [r \in Sessions |-> NoMan])
        /\ \A r \in Sessions : Y.q[r].st = K.q[r].st /\ Y.q[r].tokens = K.q[r].tokens
    <3>1. PICK h : h = NoHold
      OBVIOUS
    <3>2. CASE Tiered
      <4>1. BlockGood(K)
        BY <2>1, <3>2, GoodBlocks
      <4>2. BlockGood(Y) /\ Y.man = [r \in Sessions |-> NoMan] /\ ~Y.lease.on
            /\ \A r \in Sessions : Y.q[r].st = K.q[r].st /\ Y.q[r].tokens = K.q[r].tokens
        BY <1>3, <2>11, <2>12, <3>2, <4>1, BlockInvalidatedGood
      <4> QED
        BY <3>2, <4>2, GoodBlocks, BlockCalm
    <3>3. CASE ~Tiered
      <4>1. SnapGood(K, h)
        BY <2>1, <3>1, <3>3, GoodSnaps
      <4>2. SnapGood(Y, NoHold) /\ Y.group = {}
            /\ \A r \in Sessions : Y.q[r].st = K.q[r].st /\ Y.q[r].tokens = K.q[r].tokens
        BY <1>3, <2>11, <2>12, <3>3, <4>1, InvalidatedGood
      <4> QED
        BY <3>3, <4>2, GoodSnaps, SnapCalm
    <3> QED
      BY <3>2, <3>3
  <2>3. Parked' = Parked
    BY <1>3, <1>6, <2>2, ParkedNext DEF Kin
  <2>4. Queued' /\ OpOK'
    BY <1>1, <1>2, <2>3, OpStays DEF OffloadInv, Queued
  <2>5. Good(State, op.hold)'
    BY <1>1, <1>2, <1>6, <2>2, GoodReset
  <2>6. GroupOK'
    BY <1>1, <1>6, <2>2 DEF GroupOK, Become, Calm
  <2>7. cfg' \in Configs
    BY <1>1 DEF OffloadInv
  <2> QED
    BY <2>4, <2>5, <2>6, <2>7 DEF OffloadInv
<1> QED
  BY <1>4, <1>5, <1>6

\* Every step of the owner thread, and of the copy beside it, keeps the invariant.
LEMMA OffloadStep ==
  ASSUME OffloadInv, OffloadNext
  PROVE  OffloadInv'
<1>1. CASE EvictCached
  BY <1>1, EvictCachedOK
<1>2. CASE OpenGroup
  BY <1>2, OpenGroupOK
<1>3. CASE SaveNext
  BY <1>3, SaveNextOK
<1>4. CASE SaveFails
  BY <1>4, SaveFailsOK
<1>5. CASE DropOldest
  BY <1>5, DropOldestOK
<1>6. CASE RetryAdmission
  BY <1>6, RetryAdmissionOK
<1>7. CASE /\ OffloadDone \/ DropDone
           /\ UNCHANGED <<pool, epoch, kv, q, order, shown, fatal, weights, stale, offloadVars>>
  BY <1>7, DoneOK
<1>8. CASE EarlyOffload
  BY <1>8, EarlyOffloadOK
<1>9. CASE StepRaises
  BY <1>9, StepRaisesOK
<1>10. ASSUME NEW r \in Sessions, NEW tok \in Sampled, RunTurn(r, tok)
       PROVE  OffloadInv'
  BY <1>10, RunTurnOK
<1>11. CASE BeginStep
  BY <1>11, BeginStepOK
<1>12. CASE CopyChunk
  BY <1>12, CopyChunkOK
<1>13. CASE AbortAll
  BY <1>13, AbortAllOK
<1>14. ASSUME NEW r \in Sessions, NEW p \in Prompts, NewTurn(r, p)
       PROVE  OffloadInv'
  BY <1>14, NewTurnOK
<1>15. ASSUME NEW r \in Sessions, NEW s \in NextTokens, Admit(r, s) \/ AdmitFails(r, s)
       PROVE  OffloadInv'
  BY <1>15, AdmitOK, AdmitFailsOK
<1>16. ASSUME NEW r \in Sessions, AdmitRaises(r) \/ AdmitRefused(r) \/ FinishSession(r) \/ OffloadRequest(r)
       PROVE  OffloadInv'
  BY <1>16, AdmitRaisesOK, AdmitRefusedOK, FinishSessionOK, OffloadRequestOK
<1>17. ASSUME NEW c \in {0, 1}, InvalidateAll(c)
       PROVE  OffloadInv'
  BY <1>17, InvalidateAllOK
<1> QED
  BY <1>1, <1>2, <1>3, <1>4, <1>5, <1>6, <1>7, <1>8, <1>9, <1>10, <1>11, <1>12, <1>13, <1>14, <1>15, <1>16, <1>17
  DEF OffloadNext, Episode

LEMMA OffloadStutter ==
  ASSUME OffloadInv, UNCHANGED vars
  PROVE  OffloadInv'
<1>1. UNCHANGED <<cfg, weights, epoch, order, op>> /\ State' = State
  BY DEF vars, residencyVars, offloadVars, State
<1>2. PICK Z, h : Z = State /\ h = op.hold
  OBVIOUS
<1>3. Good(Z, h)
  BY <1>2 DEF OffloadInv
<1>4. Good(State, op.hold)'
  BY <1>1, <1>2, <1>3, GoodNext
<1>5. Parked' = Parked
  BY DEF vars, residencyVars, Parked
<1>6. Queued' /\ OpOK'
  BY <1>1, <1>5, OpStays DEF OffloadInv, Queued
<1>7. GroupOK'
  BY DEF vars, residencyVars, offloadVars, OffloadInv, GroupOK, Tiered
<1> QED
  BY <1>1, <1>4, <1>6, <1>7 DEF OffloadInv

LEMMA OffloadBegins ==
  ASSUME OffloadInit
  PROVE  OffloadInv
<1>1. /\ pool = EmptyPool /\ q = [r \in Sessions |-> NoReq] /\ order = << >> /\ op = Idle
      /\ cfg \in Configs /\ store = EmptyStore /\ snapOf = [r \in Sessions |-> 0] /\ group = {} /\ pend = NoPend
      /\ use = [r \in Sessions |-> NoUse] /\ unsettled = 0 /\ blocks = EmptyIndex
      /\ man = [r \in Sessions |-> NoMan] /\ lease = NoLease
  BY DEF OffloadInit, ResidencyInit, SnapshotInit
<1>2. Parked = {}
  BY <1>1 DEF Parked, NoReq
<1>3. Queued
  BY <1>1, <1>2, EmptyList DEF Queued
<1>4. OpOK
  BY <1>1, EmptyList DEF OpOK, Idle, Stages
<1>5. GroupOK
  BY <1>1 DEF GroupOK, Idle, NoLease
<1>6. PICK Z : Z = State
  OBVIOUS
<1>7. Zone(Z) /\ Z.pool = EmptyPool /\ Z.q = q /\ Z.store = EmptyStore /\ Z.snapOf = snapOf /\ Z.group = {}
      /\ Z.pend = NoPend /\ Z.use = use /\ Z.unsettled = 0 /\ Z.blocks = EmptyIndex /\ Z.man = man /\ Z.lease = NoLease
  BY <1>1, <1>6 DEF Zone, State
<1>8. Requests(q) /\ \A r \in Sessions : q[r].table = << >> /\ q[r].res # "cpu"
  BY <1>1, NoReqPlaced DEF Requests, NoReq
<1>9. Seats(Z.pool, Z.q)
  BY <1>7, <1>8, EmptySeats
<1>10. Good(Z, NoHold)
  <2>1. CASE Tiered
    <3>1. NoSnapshots(Z)
      BY <1>1, <1>7 DEF NoSnapshots
    <3>2. Manifests(Z)
      BY <1>1, <1>7, <1>8 DEF Manifests
    <3>3. IsFiniteSet(DOMAIN Z.blocks)
      <4>1. DOMAIN EmptyIndex = {}
        BY DEF EmptyIndex
      <4> QED
        BY <1>7, <4>1, FS_EmptySet
    <3>4. Z.lease.on = FALSE
      BY <1>7 DEF NoLease
    <3>5. LeaseHeld(Z)
      BY <3>3, <3>4 DEF LeaseHeld
    <3> QED
      BY <1>7, <1>9, <2>1, <3>1, <3>2, <3>5, GoodBlocks DEF BlockGood, Seated
  <2>2. CASE ~Tiered
    <3>1. NoBlocks(Z)
      BY <1>1, <1>7 DEF NoBlocks
    <3>2. Books(Z.store, NoHold) /\ Snaps(Z.store) = {}
      BY <1>7, EmptyBooks DEF EmptyStore
    <3>3. Idling(Z)
      BY <1>7 DEF Idling, NoPend
    <3>4. Cleared(Z)
      BY <1>1, <1>7, <3>2, <3>3 DEF Cleared, EmptyStore, Idling
    <3>5. SnapGood(Z, NoHold)
      BY <1>7, <1>8, <1>9, <3>1, <3>2, <3>3, <3>4, ClearedGood
    <3> QED
      BY <2>2, <3>5, GoodSnaps
  <2> QED
    BY <2>1, <2>2
<1>11. Good(State, op.hold)
  BY <1>1, <1>6, <1>10 DEF Idle
<1> QED
  BY <1>1, <1>3, <1>4, <1>5, <1>11 DEF OffloadInv

(***************************************************************************)
(* The theorems.                                                           *)
(***************************************************************************)
\* The invariant of OffloadInvariants, for every number of sessions, pool, host budget and
\* configuration: the sessions and their blocks, the host store and its books, the group
\* being saved, the copy in flight and the manifests all agree in every reachable state.
THEOREM OffloadInvariance == OffloadSpec => []OffloadInv
<1>1. OffloadInit => OffloadInv
  BY OffloadBegins
<1>2. OffloadInv /\ [OffloadNext]_vars => OffloadInv'
  BY OffloadStep, OffloadStutter
<1> QED
  BY <1>1, <1>2, PTL DEF OffloadSpec

LEMMA InvCountsExact ==
  ASSUME OffloadInv
  PROVE  CountsExact
<1>1. Seats(pool, q)
  BY GoodState, GoodQ
<1>2. /\ \A b \in Blocks : pool.ref[b] = Held(Tables(q), b) + Copies(pool.cache, b)
      /\ pool.free = {b \in Blocks : pool.ref[b] = 0}
  BY <1>1 DEF Seats, Counted
<1> QED
  BY <1>2 DEF CountsExact

\* No save, restore, rollback, eviction or drop leaks or double-frees a block of the GPU pool
\* (block_manager.py under session_offload.py, async_offload.py and block_offload.py).
THEOREM OffloadCountsExact == OffloadSpec => []CountsExact
<1>1. OffloadInv => CountsExact
  BY InvCountsExact
<1> QED
  BY <1>1, OffloadInvariance, PTL

LEMMA InvBudgetExact ==
  ASSUME OffloadInv
  PROVE  BudgetExact
<1>1. Good(State, op.hold) /\ GroupOK
  BY DEF OffloadInv
<1>2. PICK Z, h : Z = State /\ h = op.hold
  OBVIOUS
<1>3. Z.store = store /\ Z.group = group /\ Z.pend = pend
  BY <1>2 DEF State
<1>4. CASE ~Tiered
  <2>1. SnapGood(Z, h)
    BY <1>1, <1>2, <1>4, GoodSnaps
  <2>2. Books(store, h) /\ Reserved(Z) /\ Snapped(Z, h)
    BY <1>3, <2>1 DEF SnapGood, Snapped
  <2>3. /\ store.committed = SizeOf(Snaps(store)) /\ store.reserved = SizeOf(store.open)
        /\ store.pinned = PinnedOf(Snaps(store)) /\ store.openPinned = PinnedOf(store.open)
        /\ store.pinned + store.openPinned <= PinnedMax
    BY <2>2 DEF Books, StoreCounted
  <2>4. Owned(store, op.hold) <= CpuMax
    BY <1>2, <2>2 DEF Books, HoldOK
  <2>5. store.open = group \union (IF pend.on THEN {pend.meta} ELSE {})
    BY <1>3, <2>2 DEF Reserved
  <2> QED
    BY <1>1, <2>3, <2>4, <2>5 DEF BudgetExact, GroupOK
<1>5. CASE Tiered
  <2>1. NoSnapshots(Z) /\ h = NoHold
    BY <1>1, <1>2, <1>5, GoodBlocks DEF BlockGood
  <2>2. store = EmptyStore /\ group = {} /\ pend = NoPend
    BY <1>3, <2>1 DEF NoSnapshots
  <2>3. Books(store, NoHold) /\ Snaps(store) = {}
    BY <2>2, EmptyBooks DEF EmptyStore
  <2>4. /\ store.committed = SizeOf(Snaps(store)) /\ store.reserved = SizeOf(store.open)
        /\ store.pinned = PinnedOf(Snaps(store)) /\ store.openPinned = PinnedOf(store.open)
        /\ store.pinned + store.openPinned <= PinnedMax
    BY <2>3 DEF Books, StoreCounted
  <2>5. Owned(store, op.hold) <= CpuMax
    BY <1>2, <2>1, <2>3 DEF Books, HoldOK
  <2>6. store.open = group \union (IF pend.on THEN {pend.meta} ELSE {})
    BY <2>2 DEF EmptyStore, NoPend
  <2> QED
    BY <1>1, <2>4, <2>5, <2>6 DEF BudgetExact, GroupOK
<1> QED
  BY <1>4, <1>5

LEMMA InvBytesConserved ==
  ASSUME OffloadInv
  PROVE  BytesConserved
<1>1. Good(State, op.hold)
  BY DEF OffloadInv
<1>2. PICK Z, h : Z = State /\ h = op.hold
  OBVIOUS
<1>3. Z.store = store /\ Z.unsettled = unsettled /\ Z.use = use
  BY <1>2 DEF State
<1>4. CASE ~Tiered
  <2>1. Settling(Z)
    BY <1>1, <1>2, <1>4, GoodSnaps DEF SnapGood, Snapped
  <2> QED
    BY <1>2, <1>3, <2>1 DEF Settling, BytesConserved
<1>5. CASE Tiered
  <2>1. NoSnapshots(Z)
    BY <1>1, <1>2, <1>5, GoodBlocks DEF BlockGood
  <2>2. Snaps(store) = {}
    BY <1>3, <2>1, EmptyBooks DEF NoSnapshots, EmptyStore
  <2>3. \A r \in Sessions : Z.use[r].n = 0
    BY <2>1 DEF NoSnapshots, NoUse
  <2>4. UsedBy(Z, Sessions) = 0
    BY <2>3, UsedNone
  <2>5. unsettled = 0
    BY <1>3, <2>1 DEF NoSnapshots
  <2> QED
    BY <1>2, <2>2, <2>4, <2>5, SizeNone DEF BytesConserved
<1> QED
  BY <1>4, <1>5

\* The host tier's books are exact at every step of every operation: the counters are what the
\* store holds, the budget and the pinned pool are never exceeded, only the open group and the
\* copy in flight have reservations, and no byte is lost (cpu_store.py, session_offload.py).
THEOREM OffloadAccountsExact == OffloadSpec => []HostAccountsExact
<1>1. OffloadInv => HostAccountsExact
  BY InvBudgetExact, InvBytesConserved DEF HostAccountsExact
<1> QED
  BY <1>1, OffloadInvariance, PTL
=============================================================================
