--------------------------- MODULE EngineKVProofs ---------------------------
(***************************************************************************)
(* Proof that the KV a request counts as computed, and the KV a cached     *)
(* copy stands for, is that of its own tokens under the current weights:   *)
(* KVSound and CacheSound of Engine, from the invariant KVInv.  Then that  *)
(* the engine implements the turn protocol of Turns: every step of the     *)
(* engine is a step of the protocol, or none.                              *)
(***************************************************************************)
EXTENDS EngineProofs, EngineTurns

(***************************************************************************)
(* Positions, prefixes and pages.                                          *)
(***************************************************************************)
\* Other pages with the same blocks of the table.
LEMMA ComputesPages ==
  ASSUME NEW k, NEW k2, NEW w, NEW q \in RequestType, NEW n \in Nat, Computes(k, w, q, n),
         \A i \in DOMAIN q.table : k2[q.table[i]] = k[q.table[i]]
  PROVE  Computes(k2, w, q, n)
<1>1. q.table \in Seq(Blocks)
  BY DEF RequestType
<1> SUFFICES ASSUME NEW p \in 1..n
             PROVE  /\ BlockIndex(p) <= Len(q.table)
                    /\ k2[q.table[BlockIndex(p)]][Offset(p)] = <<w, SubSeq(q.tokens, 1, p)>>
  BY DEF Computes
<1>2. /\ BlockIndex(p) <= Len(q.table)
      /\ k[q.table[BlockIndex(p)]][Offset(p)] = <<w, SubSeq(q.tokens, 1, p)>>
  BY DEF Computes
<1>3. BlockIndex(p) \in DOMAIN q.table
  BY <1>1, <1>2, SlotOf
<1> QED
  BY <1>2, <1>3

\* A request with the same first n tokens and slots.
LEMMA ComputesRequest ==
  ASSUME NEW k, NEW w, NEW q \in RequestType, NEW u \in RequestType, NEW n \in Nat,
         NEW m \in Nat, m <= n, Computes(k, w, q, n),
         BlocksNeededFor(m) <= Len(u.table),
         \A i \in DOMAIN q.table : i \in DOMAIN u.table => u.table[i] = q.table[i],
         \A p \in 1..m : SubSeq(u.tokens, 1, p) = SubSeq(q.tokens, 1, p)
  PROVE  Computes(k, w, u, m)
<1>1. q.table \in Seq(Blocks) /\ u.table \in Seq(Blocks)
  BY DEF RequestType
<1> SUFFICES ASSUME NEW p \in 1..m
             PROVE  /\ BlockIndex(p) <= Len(u.table)
                    /\ k[u.table[BlockIndex(p)]][Offset(p)] = <<w, SubSeq(u.tokens, 1, p)>>
  BY DEF Computes
<1>2. /\ BlockIndex(p) <= Len(q.table)
      /\ k[q.table[BlockIndex(p)]][Offset(p)] = <<w, SubSeq(q.tokens, 1, p)>>
  BY DEF Computes
<1>3. BlockIndex(p) <= BlockIndex(m) /\ BlockIndex(m) = BlocksNeededFor(m)
  <2>1. p \in Nat /\ p > 0 /\ p <= m /\ m > 0
    OBVIOUS
  <2>2. BlockIndex(p) <= BlockIndex(m)
    BY <2>1, LaterIndex
  <2>3. BlockIndex(m) = BlocksNeededFor(m)
    BY <2>1, NeededFor
  <2> QED
    BY <2>2, <2>3
<1>4. BlockIndex(p) \in Nat /\ Len(u.table) \in Nat /\ BlocksNeededFor(m) \in Nat
  <2>0. p \in Nat /\ p > 0
    OBVIOUS
  <2>1. BlockIndex(p) = BlocksNeededFor(p) /\ BlocksNeededFor(p) \in Nat
    BY <2>0, NeededFor
  <2>2. BlocksNeededFor(m) \in Nat
    BY NeededFor
  <2> QED
    BY <1>1, <2>1, <2>2, LenProperties
<1>5. BlockIndex(p) <= Len(u.table)
  BY <1>3, <1>4
<1>6. BlockIndex(p) \in DOMAIN q.table /\ BlockIndex(p) \in DOMAIN u.table
  BY <1>1, <1>2, <1>5, SlotOf
<1> QED
  BY <1>2, <1>5, <1>6

\* The computed tokens of a request have slots.
LEMMA ComputesLength ==
  ASSUME NEW k, NEW w, NEW q \in RequestType, NEW n \in Nat, Computes(k, w, q, n)
  PROVE  BlocksNeededFor(n) <= Len(q.table)
<1>1. q.table \in Seq(Blocks) /\ Len(q.table) \in Nat
  BY LenProperties DEF RequestType
<1>2. CASE n = 0
  <2>1. BlocksNeededFor(0) = 0
    BY BlockSizeAssumption DEF BlocksNeededFor
  <2> QED
    BY <1>1, <1>2, <2>1
<1>3. CASE n > 0
  BY <1>3, NeededFor, SMTT(30) DEF Computes
<1> QED
  BY <1>2, <1>3

(***************************************************************************)
(* Content: the pages of every live request and every cached copy.         *)
(***************************************************************************)
\* Giving pages back leaves the pages of the blocks in use as they are.
LEMMA ScrubInUse ==
  ASSUME NEW P, NEW R, Sound(P, R), NEW k
  PROVE  /\ \A r \in Requests : \A i \in DOMAIN R[r].table :
              Scrub(k, P.free)[R[r].table[i]] = k[R[r].table[i]]
         /\ \A e \in P.cache : Scrub(k, P.free)[e[2]] = k[e[2]]
<1>1. /\ TablesOf(R) \in [Requests -> Seq(Blocks)] /\ IsFiniteSet(Requests)
      /\ P \in PoolOf(Seq(Tokens)) /\ Exact(P, TablesOf(R))
      /\ P.cache \in SUBSET (Seq(Tokens) \X Blocks)
  BY SoundFacts
<1>2. \A b \in Blocks : b \in P.free => P.ref[b] = 0
  BY <1>1, ExactFacts
<1>3. ASSUME NEW b \in Blocks, P.ref[b] > 0
      PROVE  Scrub(k, P.free)[b] = k[b]
  <2>1. b \notin P.free
    BY <1>2, <1>3
  <2> QED
    BY <2>1 DEF Scrub
<1>4. \A r \in Requests : \A i \in DOMAIN R[r].table :
        R[r].table[i] \in Blocks /\ P.ref[R[r].table[i]] > 0
  BY SoundSlot
<1>5. \A e \in P.cache : e[2] \in Blocks /\ P.ref[e[2]] > 0
  <2> TAKE e \in P.cache
  <2>1. e[2] \in Blocks
    BY <1>1
  <2> QED
    BY <1>1, <2>1, ExactFacts
<1> QED
  BY <1>3, <1>4, <1>5

LEMMA ContentScrubbed ==
  ASSUME NEW P, NEW R, Sound(P, R), NEW k, NEW w, Content(P, R, k, w)
  PROVE  Content(P, R, Scrub(k, P.free), w)
<1> DEFINE s == Scrub(k, P.free)
<1>1. /\ \A r \in Requests : \A i \in DOMAIN R[r].table : s[R[r].table[i]] = k[R[r].table[i]]
      /\ \A e \in P.cache : s[e[2]] = k[e[2]]
  BY ScrubInUse
<1>2. R \in [Requests -> RequestType]
  BY SoundFacts
<1> HIDE DEF s
<1>3. ASSUME NEW r \in Requests, Good(k, w, R[r])
      PROVE  Good(s, w, R[r])
  <2>1. R[r] \in RequestType /\ R[r].computed \in Nat
    BY <1>2 DEF RequestType
  <2>2. Computes(k, w, R[r], R[r].computed)
    BY <1>3 DEF Good
  <2>3. Computes(s, w, R[r], R[r].computed)
    BY <1>1, <2>1, <2>2, ComputesPages
  <2> QED
    BY <1>3, <2>3 DEF Good
<1>4. \A e \in P.cache : Backed(k, w, e) => Backed(s, w, e)
  BY <1>1 DEF Backed
<1> QED
  BY <1>3, <1>4 DEF Content, s

\* One request changes, and the cache keeps some of its copies.
LEMMA ContentReplaced ==
  ASSUME NEW P, NEW R \in [Requests -> RequestType], NEW k, NEW w, Content(P, R, k, w),
         NEW Q, Q.cache \subseteq P.cache, NEW r \in Requests, NEW q \in RequestType,
         q.status \in LiveStates => Good(k, w, q)
  PROVE  Content(Q, Replaced(R, r, q), k, w)
<1>1. /\ Replaced(R, r, q)[r] = q
      /\ \A s \in Requests : s # r => Replaced(R, r, q)[s] = R[s]
  BY ReplacedFacts
<1> QED
  BY <1>1 DEF Content

(***************************************************************************)
(* The prefix cache: what is published, and what an attach gives.          *)
(***************************************************************************)
\* A hash that goes on from a sound parent digests the tokens from the first on.
LEMMA ChainedHash ==
  ASSUME NEW q \in RequestType, Chained(q), q.computed <= Len(q.tokens),
         NEW i \in Nat, i > q.published, i <= FullBlocks(q)
  PROVE  /\ PublishHash(q, i) = PrefixHash(q, i)
         /\ i * BlockSize \in Nat /\ i * BlockSize <= q.computed
<1>1. /\ q.published \in Nat /\ q.computed \in Nat /\ q.tokens \in Seq(Tokens)
      /\ Len(q.tokens) \in Nat
  BY LenProperties DEF RequestType
<1>2. /\ q.published * BlockSize \in Nat /\ i * BlockSize \in Nat
      /\ q.published * BlockSize <= i * BlockSize
  BY <1>1, BlockSizeAssumption
<1>3. i <= q.computed \div BlockSize
  <2>1. FullBlocks(q) \in Nat /\ FullBlocks(q) <= q.computed \div BlockSize
    BY FullBlocksFacts
  <2>2. q.computed \div BlockSize \in Nat
    BY <1>1, BlockSizeAssumption
  <2> QED
    BY <2>1, <2>2
<1>4. i * BlockSize <= q.computed
  BY <1>1, <1>3, DivBound
<1>5. i * BlockSize <= Len(q.tokens)
  BY <1>1, <1>2, <1>4
<1>6. SubSeq(q.tokens, 1, q.published * BlockSize)
        \o SubSeq(q.tokens, q.published * BlockSize + 1, i * BlockSize)
      = SubSeq(q.tokens, 1, i * BlockSize)
  BY <1>1, <1>2, <1>5, SubSeqJoin
<1> QED
  BY <1>2, <1>4, <1>6 DEF Chained, PublishHash, BlockHash, PrefixHash

\* Publishing leaves the chain sound, and the copies made are what they say.
LEMMA PublishedChained ==
  ASSUME NEW q \in RequestType, Chained(q), q.computed <= Len(q.tokens)
  PROVE  Chained(Published(q))
<1>1. CASE PrefixCaching /\ q.published < FullBlocks(q)
  <2>1. FullBlocks(q) \in Nat
    BY FullBlocksFacts
  <2>2. /\ PublishHash(q, FullBlocks(q)) = PrefixHash(q, FullBlocks(q))
        /\ FullBlocks(q) * BlockSize <= q.computed
    BY <1>1, <2>1, ChainedHash
  <2>3. /\ Published(q).published = FullBlocks(q)
        /\ Published(q).parent = PublishHash(q, FullBlocks(q))
    BY <1>1 DEF Published, RequestType
  <2>4. Published(q).tokens = q.tokens /\ Published(q).computed = q.computed
    BY PublishedFacts
  <2> QED
    BY <2>2, <2>3, <2>4 DEF Chained, PrefixHash
<1>2. CASE ~(PrefixCaching /\ q.published < FullBlocks(q))
  BY <1>2 DEF Published
<1> QED
  BY <1>1, <1>2

LEMMA PublishedBacked ==
  ASSUME NEW q \in RequestType, Chained(q), q.computed <= Len(q.tokens),
         NEW k, NEW w, Computes(k, w, q, q.computed), NEW e \in NewCopies(q)
  PROVE  Backed(k, w, e)
<1>1. /\ q.published \in Nat /\ q.computed \in Nat /\ q.tokens \in Seq(Tokens)
      /\ Len(q.tokens) \in Nat
  BY LenProperties DEF RequestType
<1>2. PICK i \in q.published + 1 .. FullBlocks(q) : e = <<PublishHash(q, i), q.table[i]>>
  BY DEF NewCopies
<1>3. i \in Nat /\ i > q.published /\ i <= FullBlocks(q) /\ i > 0
  BY <1>1, <1>2, FullBlocksFacts
<1>4. /\ PublishHash(q, i) = SubSeq(q.tokens, 1, i * BlockSize)
      /\ i * BlockSize \in Nat /\ i * BlockSize <= q.computed
  BY <1>3, ChainedHash DEF PrefixHash
<1>5. i * BlockSize <= Len(q.tokens)
  BY <1>1, <1>4
<1> SUFFICES ASSUME NEW o \in Offsets
             PROVE  k[e[2]][o] = <<w, SubSeq(e[1], 1, Len(e[1]) - BlockSize + o)>>
  BY DEF Backed
<1> DEFINE n == i - 1
           p == n * BlockSize + o
<1>6. n \in Nat /\ i = n + 1
  BY <1>3
<1>7. BlockIndex(p) = i /\ Offset(p) = o
  BY <1>6, SlotPosition
<1>8. /\ p \in Nat /\ p > 0 /\ p <= i * BlockSize
      /\ p = i * BlockSize - BlockSize + o
  BY <1>6, BlockSizeAssumption DEF Offsets
<1> HIDE DEF n, p
<1>9. p \in 1..q.computed
  BY <1>1, <1>4, <1>8
<1>10. k[q.table[i]][o] = <<w, SubSeq(q.tokens, 1, p)>>
  BY <1>7, <1>9 DEF Computes
<1>11. /\ Len(SubSeq(q.tokens, 1, i * BlockSize)) = i * BlockSize
       /\ SubSeq(SubSeq(q.tokens, 1, i * BlockSize), 1, p) = SubSeq(q.tokens, 1, p)
  BY <1>1, <1>4, <1>5, <1>8, SubSeqTwice
<1>12. e[1] = SubSeq(q.tokens, 1, i * BlockSize) /\ e[2] = q.table[i]
  BY <1>2, <1>4
<1> QED
  BY <1>8, <1>10, <1>11, <1>12

LEMMA ContentPublished ==
  ASSUME NEW P, NEW R, NEW k, NEW w, Content(P, R, k, w), NEW c \in RequestType,
         c.computed <= Len(c.tokens), Computes(k, w, c, c.computed),
         PrefixCaching => Chained(c)
  PROVE  Content(PublishPool(P, c), R, k, w)
<1>1. PublishPool(P, c).cache = P.cache \union (NewCopies(c) \ P.cache)
  BY DEF PublishPool, AddCopies, Incref, Caching
<1>2. ASSUME NEW e \in NewCopies(c)
      PROVE  Backed(k, w, e)
  <2>1. PrefixCaching
    BY <1>2 DEF NewCopies
  <2> QED
    BY <2>1, PublishedBacked
<1> QED
  BY <1>1, <1>2 DEF Content

LEMMA CachedLength ==
  ASSUME NEW q \in RequestType, NEW n \in Nat, n <= MaxCached(q)
  PROVE  n * BlockSize \in Nat /\ n * BlockSize <= Len(q.tokens)
<1>1. Len(q.tokens) \in Nat
  BY LenProperties DEF RequestType
<1>2. PICK l \in Nat : l = Len(q.tokens)
  BY <1>1
<1>3. n <= (l - 1) \div BlockSize
  BY <1>2 DEF MaxCached
<1>4. CASE l = 0
  <2>1. n <= (-1) \div BlockSize
    BY <1>3, <1>4
  <2>2. (-1) \div BlockSize = -1
    BY BlockSizeAssumption
  <2> QED
    BY <2>1, <2>2
<1>5. CASE l > 0
  <2>1. PICK m \in Nat : m = l - 1
    BY <1>5
  <2>2. n * BlockSize \in Nat /\ n * BlockSize <= m
    BY <1>3, <2>1, DivBound
  <2> QED
    BY <1>2, <2>1, <2>2
<1> QED
  BY <1>4, <1>5

\* What attach_cached_prefix shares is the KV of the request's own prefix.
LEMMA AttachedComputes ==
  ASSUME NEW q \in RequestType, NEW P, NEW a \in Attachments(P, q), NEW k, NEW w,
         \A e \in P.cache : Backed(k, w, e)
  PROVE  /\ Computes(k, w, Attached(q, a), Len(a) * BlockSize)
         /\ Len(a) \in Nat /\ Len(a) * BlockSize \in Nat
         /\ Len(a) * BlockSize <= Len(q.tokens)
         /\ Chained(Attached(q, a))
<1>1. q.tokens \in Seq(Tokens) /\ Len(q.tokens) \in Nat
  BY LenProperties DEF RequestType
<1>2. PICK n \in 0..MaxCached(q) :
        /\ a \in [1..n -> Blocks]
        /\ \A i \in 1..n : a[i] \in Lookup(P, PrefixHash(q, i))
  BY DEF Attachments, LongestHit
<1>3. n \in Nat /\ a \in Seq(Blocks) /\ Len(a) = n
  <2>1. n \in Nat
    BY <1>2
  <2> QED
    BY <1>2, <2>1
<1>4. ASSUME NEW i \in 1..n
      PROVE  i * BlockSize \in Nat /\ i * BlockSize <= Len(q.tokens)
  <2>1. i \in Nat /\ MaxCached(q) \in Int /\ i <= MaxCached(q)
    <3>1. Len(q.tokens) - 1 \in Int /\ MaxCached(q) = (Len(q.tokens) - 1) \div BlockSize
      BY <1>1 DEF MaxCached
    <3>2. MaxCached(q) \in Int
      BY <3>1, BlockSizeAssumption
    <3>3. n <= MaxCached(q)
      BY <3>2, <1>2
    <3> QED
      BY <3>2, <3>3, <1>3, <1>4
  <2> QED
    BY <2>1, CachedLength
<1>5. n * BlockSize \in Nat /\ n * BlockSize <= Len(q.tokens)
  <2>1. CASE n = 0
    BY <1>1, <2>1, BlockSizeAssumption
  <2>2. CASE n > 0
    BY <1>3, <1>4, <2>2
  <2> QED
    BY <1>3, <2>1, <2>2
<1>6. /\ Attached(q, a).table = a /\ Attached(q, a).tokens = q.tokens
      /\ Attached(q, a).computed = n * BlockSize
      /\ Attached(q, a).published = n /\ Attached(q, a).parent = PrefixHash(q, n)
  BY <1>3 DEF Attached, RequestType
<1>7. Chained(Attached(q, a))
  BY <1>5, <1>6 DEF Chained, PrefixHash
<1>8. ASSUME NEW p \in 1..n * BlockSize
      PROVE  /\ BlockIndex(p) <= Len(a)
             /\ k[a[BlockIndex(p)]][Offset(p)] = <<w, SubSeq(q.tokens, 1, p)>>
  <2> DEFINE i == BlockIndex(p)
  <2>1. p \in Nat /\ p > 0 /\ p <= n * BlockSize
    BY <1>5
  <2>2. i \in Nat \ {0} /\ i <= n /\ i * BlockSize - BlockSize + Offset(p) = p
    BY <1>3, <2>1, PositionSplit
  <2> HIDE DEF i
  <2>3. i \in 1..n
    BY <1>3, <2>2
  <2>4. <<PrefixHash(q, i), a[i]>> \in P.cache
    BY <1>2, <2>3 DEF Lookup
  <2>5. /\ i * BlockSize \in Nat /\ i * BlockSize <= Len(q.tokens)
    BY <1>4, <2>3
  <2>6. Offset(p) \in Offsets
    BY <2>1, OffsetType
  <2>7. p <= i * BlockSize
    BY <2>1, <2>2, <2>5, <2>6, BlockSizeAssumption DEF Offsets
  <2> DEFINE h == PrefixHash(q, i)
  <2>8. Len(h) = i * BlockSize /\ SubSeq(h, 1, p) = SubSeq(q.tokens, 1, p)
    BY <1>1, <2>1, <2>5, <2>7, SubSeqTwice DEF PrefixHash
  <2> HIDE DEF h
  <2>9. k[a[i]][Offset(p)] = <<w, SubSeq(h, 1, Len(h) - BlockSize + Offset(p))>>
    BY <2>4, <2>6 DEF Backed, h
  <2> QED
    BY <1>3, <2>2, <2>8, <2>9 DEF i
<1> QED
  BY <1>3, <1>5, <1>6, <1>7, <1>8 DEF Computes

(***************************************************************************)
(* A forward writes the pages of the spans it computes, and no others.     *)
(***************************************************************************)
\* The block a scheduled position is written to is in one slot of one table,
\* and no copy of it is cached.
LEMMA SpanCell ==
  ASSUME IInv, NEW r \in Requests, Placed(req[r]), req[r].sched > 0, NEW p \in Span(req[r])
  PROVE  /\ p \in Nat /\ p > req[r].computed
         /\ BlockIndex(p) <= Len(req[r].table)
         /\ BlockIndex(p) \in DOMAIN req[r].table
         /\ req[r].table[BlockIndex(p)] \in Blocks
         /\ \A e \in pool.cache : e[2] # req[r].table[BlockIndex(p)]
         /\ \A s \in Requests : \A j \in DOMAIN req[s].table :
              req[s].table[j] = req[r].table[BlockIndex(p)] => s = r /\ j = BlockIndex(p)
<1> DEFINE q == req[r]
           i == BlockIndex(p)
<1>1. Sound(pool, req)
  BY Parts
<1>2. req \in [Requests -> RequestType]
  BY <1>1, SoundFacts
<1>3. q \in RequestType /\ q.table \in Seq(Blocks) /\ q.computed \in Nat /\ q.sched \in Nat
  BY <1>2 DEF RequestType
<1>4. /\ p \in Nat /\ p > 0 /\ p > q.computed /\ p <= q.computed + q.sched
  BY <1>3 DEF Span
<1>5. Len(q.table) \in Nat
  BY <1>3, LenProperties
<1> HIDE DEF q
<1>6. i <= Len(q.table) /\ i \in Nat
  <2> DEFINE n == BlocksNeededFor(q.computed + q.sched)
  <2>1. n \in Nat /\ n <= Len(q.table)
    <3>1. q.computed + q.sched \in Nat /\ q.sched > 0
      BY <1>3 DEF q
    <3> QED
      BY <1>3, <3>1, NeededFor DEF Placed, q
  <2>2. n = BlockIndex(q.computed + q.sched)
    <3>1. q.computed + q.sched \in Nat /\ q.computed + q.sched > 0
      BY <1>3, <1>4
    <3> QED
      BY <3>1, NeededFor
  <2>3. i \in Nat
    BY <1>4, PositionSplit
  <2>4. i <= BlockIndex(q.computed + q.sched)
    <3>1. q.computed + q.sched \in Nat
      BY <1>3
    <3> QED
      BY <1>4, <3>1, LaterIndex
  <2> HIDE DEF n, i
  <2> QED
    BY <1>5, <2>1, <2>2, <2>3, <2>4
<1>7. i \in DOMAIN q.table /\ q.table[i] \in Blocks
  BY <1>3, <1>4, <1>6, SlotOf
<1>8. i > q.computed \div BlockSize
  <2>1. p - 1 \in Nat /\ q.computed <= p - 1
    BY <1>3, <1>4
  <2>2. q.computed \div BlockSize <= (p - 1) \div BlockSize
    BY <1>3, <2>1, DivMonotonic
  <2>3. q.computed \div BlockSize \in Nat /\ (p - 1) \div BlockSize \in Nat
    BY <1>3, <2>1, BlockSizeAssumption
  <2> QED
    BY <2>2, <2>3 DEF BlockIndex
<1> HIDE DEF i
<1>9. pool.ref[q.table[i]] = 1
  BY <1>1, <1>7, <1>8 DEF Sound, Private, q
<1>10. /\ TablesOf(req) \in [Requests -> Seq(Blocks)] /\ IsFiniteSet(Requests)
       /\ pool \in PoolOf(Seq(Tokens)) /\ Exact(pool, TablesOf(req))
       /\ \A s \in Requests : TablesOf(req)[s] = req[s].table
  BY <1>1, SoundFacts
<1>11. /\ \A e \in pool.cache : e[2] # q.table[i]
       /\ \A s \in Requests : \A j \in DOMAIN TablesOf(req)[s] :
            TablesOf(req)[s][j] = q.table[i] => s = r /\ j = i
  <2>1. i \in DOMAIN TablesOf(req)[r] /\ TablesOf(req)[r][i] = q.table[i]
    BY <1>7, <1>10 DEF q
  <2> QED
    BY <1>7, <1>9, <1>10, <2>1, TwoReferences
<1> QED
  BY <1>4, <1>6, <1>7, <1>10, <1>11 DEF q, i

\* The requests S are forwarded: their scheduled tokens are written, and
\* everything that was there to be read stays.
LEMMA WrittenCells ==
  ASSUME IInv, NEW S \in SUBSET Requests, \A r \in S : Placed(req[r]) /\ req[r].sched > 0
  PROVE  /\ \A e \in pool.cache : \A o \in Offsets : Written(kv, S)[e[2]][o] = kv[e[2]][o]
         /\ \A r \in Requests : \A p \in Nat : p > 0 =>
              (BlockIndex(p) \in DOMAIN req[r].table =>
                LET b == req[r].table[BlockIndex(p)]
                IN  Written(kv, S)[b][Offset(p)] =
                      IF r \in S /\ p \in Span(req[r])
                      THEN <<weights, SubSeq(req[r].tokens, 1, p)>> ELSE kv[b][Offset(p)])
<1>1. Sound(pool, req)
  BY Parts
<1>2. /\ req \in [Requests -> RequestType] /\ pool.cache \in SUBSET (Seq(Tokens) \X Blocks)
  BY <1>1, SoundFacts
<1>3. \A r \in S : \A p \in Span(req[r]) :
        /\ p \in Nat /\ p > 0
        /\ BlockIndex(p) \in DOMAIN req[r].table
        /\ req[r].table[BlockIndex(p)] \in Blocks
        /\ \A e \in pool.cache : e[2] # req[r].table[BlockIndex(p)]
        /\ \A s \in Requests : \A j \in DOMAIN req[s].table :
             req[s].table[j] = req[r].table[BlockIndex(p)] => s = r /\ j = BlockIndex(p)
  <2> TAKE r \in S
  <2> TAKE p \in Span(req[r])
  <2>1. r \in Requests /\ req[r].computed \in Nat
    BY <1>2 DEF RequestType
  <2>2. p \in Nat /\ p > req[r].computed
    BY <2>1, SpanCell
  <2> QED
    BY <2>1, <2>2, SpanCell
<1> DEFINE W(b, o) == {r \in S : WritesTo(r, b, o) # {}}
<1>4. \A b \in Blocks : \A o \in Offsets : W(b, o) = {} => Written(kv, S)[b][o] = kv[b][o]
  BY DEF Written
<1>5. ASSUME NEW e \in pool.cache, NEW o \in Offsets
      PROVE  Written(kv, S)[e[2]][o] = kv[e[2]][o]
  <2>1. e[2] \in Blocks
    BY <1>2
  <2>2. W(e[2], o) = {}
    BY <1>3 DEF WritesTo
  <2> QED
    BY <1>4, <2>1, <2>2
<1>6. ASSUME NEW r \in Requests, NEW p \in Nat, p > 0, BlockIndex(p) \in DOMAIN req[r].table
      PROVE  LET b == req[r].table[BlockIndex(p)]
             IN  Written(kv, S)[b][Offset(p)] =
                   IF r \in S /\ p \in Span(req[r])
                   THEN <<weights, SubSeq(req[r].tokens, 1, p)>> ELSE kv[b][Offset(p)]
  <2> DEFINE b == req[r].table[BlockIndex(p)]
             o == Offset(p)
  <2>1. b \in Blocks
    BY <1>1, <1>6, SoundSlot
  <2>2. o \in Offsets
    BY <1>6, OffsetType
  <2>3. ASSUME NEW s \in S, NEW x \in WritesTo(s, b, o)
        PROVE  s = r /\ x = p /\ p \in Span(req[r])
    <3>1. x \in Span(req[s]) /\ req[s].table[BlockIndex(x)] = b /\ Offset(x) = o
      BY DEF WritesTo
    <3>2. x \in Nat /\ x > 0
      BY <1>3, <3>1
    <3>3. s = r /\ BlockIndex(x) = BlockIndex(p)
      BY <1>3, <1>6, <3>1
    <3>4. x = p
      BY <1>6, <3>1, <3>2, <3>3, PositionsApart
    <3> QED
      BY <3>1, <3>3, <3>4
  <2>4. CASE ~(r \in S /\ p \in Span(req[r]))
    <3>1. W(b, o) = {}
      BY <2>3, <2>4
    <3> QED
      BY <1>4, <2>1, <2>2, <2>4, <3>1
  <2>5. CASE r \in S /\ p \in Span(req[r])
    <3>1. p \in WritesTo(r, b, o)
      BY <2>5 DEF WritesTo
    <3>2. WritesTo(r, b, o) = {p} /\ W(b, o) = {r}
      BY <2>3, <2>5, <3>1
    <3>3. (CHOOSE s \in W(b, o) : TRUE) = r /\ (CHOOSE x \in WritesTo(r, b, o) : TRUE) = p
      BY <3>2
    <3>4. Written(kv, S)[b][o] =
            (IF W(b, o) = {} THEN kv[b][o]
             ELSE <<weights, SubSeq(req[CHOOSE s \in W(b, o) : TRUE].tokens, 1,
                      CHOOSE x \in WritesTo(CHOOSE s \in W(b, o) : TRUE, b, o) : TRUE)>>)
      BY <2>1, <2>2 DEF Written
    <3> QED
      BY <2>5, <3>2, <3>3, <3>4
  <2> QED
    BY <2>4, <2>5
<1> QED
  BY <1>5, <1>6

LEMMA ContentWritten ==
  ASSUME IInv, NEW S \in SUBSET Requests, \A r \in S : Placed(req[r]) /\ req[r].sched > 0,
         Content(pool, req, kv, weights)
  PROVE  /\ Content(pool, req, Written(kv, S), weights)
         /\ \A r \in S : req[r].status \in LiveStates =>
              Computes(Written(kv, S), weights, req[r], req[r].computed + req[r].sched)
<1> DEFINE k == Written(kv, S)
<1>1. /\ req \in [Requests -> RequestType]
  <2>1. Sound(pool, req)
    BY Parts
  <2> QED
    BY <2>1, SoundFacts
<1>2. /\ \A e \in pool.cache : \A o \in Offsets : k[e[2]][o] = kv[e[2]][o]
      /\ \A r \in Requests : \A p \in Nat : p > 0 =>
           (BlockIndex(p) \in DOMAIN req[r].table =>
             LET b == req[r].table[BlockIndex(p)]
             IN  k[b][Offset(p)] =
                   IF r \in S /\ p \in Span(req[r])
                   THEN <<weights, SubSeq(req[r].tokens, 1, p)>> ELSE kv[b][Offset(p)])
  BY WrittenCells
<1> HIDE DEF k
<1>3. ASSUME NEW r \in Requests, Good(kv, weights, req[r])
      PROVE  Computes(k, weights, req[r], req[r].computed)
  <2>1. /\ req[r].computed \in Nat /\ req[r].sched \in Nat /\ req[r].table \in Seq(Blocks)
    BY <1>1 DEF RequestType
  <2> SUFFICES ASSUME NEW p \in 1..req[r].computed
               PROVE  /\ BlockIndex(p) <= Len(req[r].table)
                      /\ k[req[r].table[BlockIndex(p)]][Offset(p)]
                           = <<weights, SubSeq(req[r].tokens, 1, p)>>
    BY DEF Computes
  <2>2. p \in Nat /\ p > 0 /\ p \notin Span(req[r])
    BY <2>1 DEF Span
  <2>3. /\ BlockIndex(p) <= Len(req[r].table)
        /\ kv[req[r].table[BlockIndex(p)]][Offset(p)] = <<weights, SubSeq(req[r].tokens, 1, p)>>
    BY <1>3 DEF Good, Computes
  <2>4. BlockIndex(p) \in DOMAIN req[r].table
    BY <2>1, <2>2, <2>3, SlotOf
  <2> QED
    BY <1>2, <2>2, <2>3, <2>4
<1>4. ASSUME NEW r \in S, req[r].status \in LiveStates
      PROVE  Computes(k, weights, req[r], req[r].computed + req[r].sched)
  <2>1. r \in Requests /\ Placed(req[r]) /\ req[r].sched > 0 /\ Good(kv, weights, req[r])
    BY <1>4 DEF Content
  <2>2. /\ req[r].computed \in Nat /\ req[r].sched \in Nat
    BY <1>1, <2>1 DEF RequestType
  <2> SUFFICES ASSUME NEW p \in 1..req[r].computed + req[r].sched
               PROVE  /\ BlockIndex(p) <= Len(req[r].table)
                      /\ k[req[r].table[BlockIndex(p)]][Offset(p)]
                           = <<weights, SubSeq(req[r].tokens, 1, p)>>
    BY DEF Computes
  <2>3. CASE p \in 1..req[r].computed
    BY <1>3, <2>1, <2>3 DEF Computes
  <2>4. CASE p \in Span(req[r])
    <3>1. /\ p \in Nat /\ p > 0 /\ BlockIndex(p) <= Len(req[r].table)
          /\ BlockIndex(p) \in DOMAIN req[r].table
      BY <2>1, <2>2, <2>4, SpanCell
    <3> QED
      BY <1>2, <2>1, <2>4, <3>1
  <2>5. p \in 1..req[r].computed \/ p \in Span(req[r])
    BY <2>2 DEF Span
  <2> QED
    BY <2>3, <2>4, <2>5
<1>5. ASSUME NEW r \in Requests, req[r].status \in LiveStates
      PROVE  Good(k, weights, req[r])
  <2>1. Good(kv, weights, req[r])
    BY <1>5 DEF Content
  <2> QED
    BY <1>3, <2>1 DEF Good
<1>6. \A e \in pool.cache : Backed(k, weights, e)
  BY <1>2 DEF Content, Backed
<1> QED
  BY <1>4, <1>5, <1>6 DEF Content, k

(***************************************************************************)
(* Commits.                                                                *)
(***************************************************************************)
\* The tokens before and after the last d of s.
LEMMA CutTokens ==
  ASSUME NEW s \in Seq(Tokens), NEW a \in Nat, NEW d \in Nat, Len(s) = a + 1 + d
  PROVE  /\ SubSeq(s, 1, Len(s) - d) \in Seq(Tokens) /\ Len(SubSeq(s, 1, Len(s) - d)) = a + 1
         /\ \A i \in 1..a + 1 : SubSeq(s, 1, Len(s) - d)[i] = s[i]
         /\ Len(SubSeq(s, Len(s) - d + 1, Len(s))) = d
         /\ \A i \in 1..d : SubSeq(s, Len(s) - d + 1, Len(s))[i] = s[a + 1 + i]
<1>1. Len(s) - d = a + 1 /\ Len(s) - d + 1 = a + 2
  OBVIOUS
<1>2. /\ SubSeq(s, 1, a + 1) \in Seq(Tokens) /\ Len(SubSeq(s, 1, a + 1)) = a + 1
      /\ \A i \in 1..a + 1 : SubSeq(s, 1, a + 1)[i] = s[i]
  OBVIOUS
<1>3. /\ Len(SubSeq(s, a + 2, a + 1 + d)) = d
      /\ \A i \in 1..d : SubSeq(s, a + 2, a + 1 + d)[i] = s[a + 1 + i]
  OBVIOUS
<1> QED
  BY <1>1, <1>2, <1>3

\* The first a + 1 tokens t of s, and n tokens e that go on as s does but for
\* the last of them.
Splices(s, a, d, t, e, n) ==
  /\ s \in Seq(Tokens) /\ Len(s) = a + 1 + d
  /\ t \in Seq(Tokens) /\ Len(t) = a + 1 /\ \A i \in 1..a + 1 : t[i] = s[i]
  /\ e \in Seq(Tokens) /\ Len(e) = n /\ n > 0 /\ n <= d + 1
  /\ \A i \in 1..n - 1 : e[i] = s[a + 1 + i]

\* u has the n first tokens of s, and one more.
Extends(u, s, n) ==
  /\ u \in Seq(Tokens) /\ Len(u) = n + 1
  /\ \A p \in 1..n : SubSeq(u, 1, p) = SubSeq(s, 1, p)

LEMMA SpliceTokens ==
  ASSUME NEW a \in Nat, NEW d \in Nat, NEW n \in Nat, NEW s, NEW t, NEW e,
         Splices(s, a, d, t, e, n)
  PROVE  Extends(t \o e, s, a + n)
<1> USE DEF Splices
<1>1. t \o e \in Seq(Tokens) /\ Len(t \o e) = a + n + 1
  OBVIOUS
<1>2. ASSUME NEW i \in 1..a + n
      PROVE  (t \o e)[i] = s[i]
  <2>1. CASE i <= a + 1
    <3>1. (t \o e)[i] = t[i]
      BY <2>1
    <3>2. t[i] = s[i]
      BY <2>1
    <3> QED
      BY <3>1, <3>2
  <2>2. CASE i > a + 1
    <3>1. PICK j \in Nat : i = a + 1 + j
      BY <2>2
    <3>2. j \in 1..n - 1
      BY <2>2, <3>1
    <3>3. (t \o e)[i] = e[j]
      BY <3>1, <3>2
    <3>4. e[j] = s[a + 1 + j]
      BY <3>2
    <3> QED
      BY <3>1, <3>3, <3>4
  <2> QED
    BY <2>1, <2>2
<1> DEFINE u == t \o e
<1>3. a + n \in Nat /\ u \in Seq(Tokens) /\ \A i \in 1..a + n : u[i] = s[i]
  BY <1>1, <1>2
<1> HIDE DEF u
<1>4. \A p \in 1..a + n : SubSeq(u, 1, p) = SubSeq(s, 1, p)
  BY <1>3, SamePrefixes
<1> QED
  BY <1>1, <1>3, <1>4 DEF u, Extends

\* What the verifier emits goes along with the drafts up to its last token.
LEMMA EmissionFacts ==
  ASSUME NEW q \in RequestType, q.drafts > 0, Len(q.tokens) = q.computed + 1 + q.drafts,
         NEW room \in Nat, NEW e \in Emissions(Drafts(q), room)
  PROVE  /\ e \in Seq(Tokens) /\ Len(e) \in Nat /\ Len(e) > 0 /\ Len(e) <= q.drafts + 1
         /\ \A i \in 1..Len(e) - 1 : e[i] = q.tokens[q.computed + 1 + i]
<1> DEFINE d == Drafts(q)
           n == Lesser(Len(d) + 1, room)
<1>1. /\ q.tokens \in Seq(Tokens) /\ q.drafts \in Nat /\ q.computed \in Nat
      /\ Len(q.tokens) \in Nat
  BY LenProperties DEF RequestType
<1>2. Len(d) = q.drafts /\ \A i \in 1..q.drafts : d[i] = q.tokens[q.computed + 1 + i]
  BY <1>1, CutTokens, ZenonT(60) DEF Drafts
<1> HIDE DEF d
<1>3. e \in TokenLists(1..n) /\ \A i \in 1..Len(e) - 1 : e[i] = d[i]
  BY DEF Emissions, d
<1>4. PICK D \in {[1..k -> Tokens] : k \in 1..n} : e \in D
  BY <1>3 DEF TokenLists
<1>5. PICK k \in 1..n : e \in [1..k -> Tokens]
  BY <1>4
<1>6. k \in Nat /\ k > 0 /\ k <= n
  BY <1>5
<1>7. k <= q.drafts + 1
  BY <1>1, <1>2, <1>5, <1>6 DEF Lesser
<1> HIDE DEF n
<1>8. e \in Seq(Tokens) /\ Len(e) = k
  BY <1>5, <1>6
<1>9. ASSUME NEW i \in 1..Len(e) - 1
      PROVE  e[i] = q.tokens[q.computed + 1 + i]
  <2>1. i \in 1..q.drafts
    BY <1>1, <1>6, <1>7, <1>8
  <2> QED
    BY <1>2, <1>3, <2>1
<1> QED
  BY <1>6, <1>7, <1>8, <1>9

\* The drafts of q and the token they follow are the ones scheduled.
Drafting(q) == q.drafts > 0 /\ Len(q.tokens) = q.computed + 1 + q.drafts

\* After a verification the accepted tokens are the ones computed.
LEMMA CommitSpecContent ==
  ASSUME NEW q \in RequestType, Drafting(q), NEW room \in Nat,
         NEW e \in Emissions(Drafts(q), room), NEW m \in Nat, m = Len(q.tokens),
         NEW k, NEW w, Computes(k, w, q, m), PrefixCaching => Chained(q)
  PROVE  LET c == CommitSpec(q, e)
         IN  /\ c.computed <= Len(c.tokens)
             /\ Computes(k, w, c, c.computed)
             /\ PrefixCaching => Chained(c)
             /\ c.table # << >>
<1> DEFINE c == CommitSpec(q, e)
           t == CommittedTokens(q)
<1>1. /\ q.tokens \in Seq(Tokens) /\ q.drafts \in Nat /\ q.computed \in Nat
      /\ Len(q.tokens) \in Nat /\ q.published \in Nat /\ q.table \in Seq(Blocks)
      /\ Len(q.table) \in Nat
  BY LenProperties DEF RequestType
<1>2. PICK a \in Nat, d \in Nat : /\ a = q.computed /\ d = q.drafts /\ d > 0
                                 /\ Len(q.tokens) = a + 1 + d
  BY <1>1 DEF Drafting
<1>3. /\ t \in Seq(Tokens) /\ Len(t) = a + 1
      /\ \A i \in 1..a + 1 : t[i] = q.tokens[i]
  BY <1>1, <1>2, CutTokens, SMTT(30) DEF CommittedTokens
<1> HIDE DEF t
<1>4. PICK l \in Nat : /\ l = Len(e) /\ e \in Seq(Tokens) /\ l > 0 /\ l <= d + 1
                      /\ \A i \in 1..l - 1 : e[i] = q.tokens[a + 1 + i]
  <2>1. /\ e \in Seq(Tokens) /\ Len(e) \in Nat /\ Len(e) > 0 /\ Len(e) <= q.drafts + 1
        /\ \A i \in 1..Len(e) - 1 : e[i] = q.tokens[q.computed + 1 + i]
    BY EmissionFacts DEF Drafting
  <2> QED
    BY <1>2, <2>1
<1>a. PICK n \in Nat : n = a + l
  OBVIOUS
<1>b. n > 0 /\ a <= n /\ n <= a + 1 + d /\ n = (a + 1) + l - 1
  BY <1>4, <1>a
<1>c. n = Len(t) + Len(e) - 1 /\ n <= m
  BY <1>2, <1>3, <1>4, <1>b
<1>5. /\ c \in RequestType
      /\ c.computed = n /\ c.tokens = t \o e /\ c.parent = q.parent
      /\ c.published = Lesser(q.published, BlocksNeededFor(n))
      /\ c.table = SubSeq(q.table, 1, KeptBlocks(q, n))
      /\ KeptBlocks(q, n) = Lesser(Len(q.table), BlocksNeededFor(n))
  <2>1. c \in RequestType
    BY <1>4, CommitSpecFacts DEF Drafting
  <2> DEFINE p == [q EXCEPT !.tokens = t \o e, !.computed = n, !.drafts = 0, !.sched = 0]
  <2>2. c = Truncated(p, n)
    BY <1>c DEF CommitSpec, t
  <2> HIDE DEF c
  <2>3. /\ p.table = q.table /\ p.computed = n /\ p.tokens = t \o e /\ p.parent = q.parent
        /\ p.published = q.published
    BY DEF RequestType
  <2>4. DOMAIN p = DOMAIN q /\ {"table", "published", "tokens", "computed", "parent"} \subseteq DOMAIN p
    BY DEF RequestType
  <2> HIDE DEF p
  <2>5. c = [p EXCEPT !.table = SubSeq(q.table, 1, KeptBlocks(q, n)),
                      !.published = Lesser(@, BlocksNeededFor(n))]
    BY <2>2, <2>3 DEF Truncated, KeptBlocks
  <2> QED
    BY <2>1, <2>3, <2>4, <2>5 DEF KeptBlocks
<1> HIDE DEF c
<1>6. /\ t \o e \in Seq(Tokens) /\ Len(t \o e) = n + 1
      /\ \A p \in 1..n : SubSeq(t \o e, 1, p) = SubSeq(q.tokens, 1, p)
  <2>1. Extends(t \o e, q.tokens, a + l)
    <3>1. q.tokens \in Seq(Tokens) /\ Len(q.tokens) = a + 1 + d
      BY <1>1, <1>2
    <3>2. /\ t \in Seq(Tokens) /\ Len(t) = a + 1 /\ \A i \in 1..a + 1 : t[i] = q.tokens[i]
      BY <1>3
    <3>3. /\ e \in Seq(Tokens) /\ Len(e) = l /\ l > 0 /\ l <= d + 1
          /\ \A i \in 1..l - 1 : e[i] = q.tokens[a + 1 + i]
      BY <1>4
    <3>4. Splices(q.tokens, a, d, t, e, l)
      BY <3>1, <3>2, <3>3 DEF Splices
    <3> QED
      BY <3>4, SpliceTokens
  <2> QED
    BY <1>a, <2>1 DEF Extends
<1>9. BlocksNeededFor(n) \in Nat /\ BlocksNeededFor(n) <= Len(q.table) /\ BlocksNeededFor(n) > 0
  <2>1. BlocksNeededFor(n) = BlockIndex(n) /\ BlocksNeededFor(n) \in Nat /\ BlockIndex(n) > 0
    BY <1>b, NeededFor
  <2>2. BlockIndex(n) <= Len(q.table)
    <3>1. n \in 1..m
      BY <1>1, <1>b, <1>c
    <3> QED
      BY <3>1 DEF Computes
  <2> QED
    BY <2>1, <2>2
<1>10. KeptBlocks(q, n) = BlocksNeededFor(n)
  BY <1>1, <1>5, <1>9 DEF Lesser
<1>11. /\ Len(c.table) = BlocksNeededFor(n)
       /\ \A i \in DOMAIN q.table : i \in DOMAIN c.table => c.table[i] = q.table[i]
  <2> DEFINE b == BlocksNeededFor(n)
  <2>1. b \in Nat /\ b <= Len(q.table) /\ 1 <= b + 1 /\ 1 \in Nat \ {0}
    BY <1>9
  <2>2. c.table = SubSeq(q.table, 1, b)
    BY <1>5, <1>10
  <2> HIDE DEF b
  <2>3. /\ Len(c.table) = b - 1 + 1 /\ DOMAIN c.table = 1..b - 1 + 1
        /\ \A i \in 1..b - 1 + 1 : c.table[i] = q.table[1 + i - 1]
    BY <1>1, <2>1, <2>2, SubSeqFacts
  <2>4. \A i \in 1..b : c.table[i] = q.table[i]
    BY <2>1, <2>3
  <2> QED
    BY <2>1, <2>3, <2>4 DEF b
<1>12. Computes(k, w, c, n)
  <2>1. \A p \in 1..n : SubSeq(c.tokens, 1, p) = SubSeq(q.tokens, 1, p)
    BY <1>5, <1>6
  <2>2. BlocksNeededFor(n) <= Len(c.table)
    BY <1>9, <1>11
  <2> QED
    BY <1>5, <1>c, <1>11, <2>1, <2>2, ComputesRequest
<1>13. ASSUME PrefixCaching
       PROVE  Chained(c)
  <2>1. PICK x \in Nat, b \in Nat : x = q.published * BlockSize /\ b = q.published
    BY <1>1, BlockSizeAssumption
  <2>2. q.parent = SubSeq(q.tokens, 1, x) /\ x <= a
    BY <1>2, <1>13, <2>1 DEF Chained, PrefixHash
  <2>3. b <= BlocksNeededFor(n)
    <3>1. b * BlockSize <= n + BlockSize - 1
      <4>1. b * BlockSize = x
        BY <2>1
      <4> QED
        BY <1>b, <2>2, <4>1, BlockSizeAssumption
    <3>2. n + BlockSize - 1 \in Nat
      BY BlockSizeAssumption
    <3> QED
      BY <3>1, <3>2, DivBound DEF BlocksNeededFor
  <2>4. c.published = b
    BY <1>5, <1>9, <2>1, <2>3 DEF Lesser
  <2>5. SubSeq(t \o e, 1, x) = SubSeq(q.tokens, 1, x)
    <3>1. CASE x = 0
      BY <1>1, <1>6, <3>1
    <3>2. CASE x > 0
      <4>1. x \in 1..n
        BY <1>b, <2>2, <3>2
      <4> QED
        BY <1>6, <4>1
    <3>3. x = 0 \/ x > 0
      BY <2>1
    <3> QED
      BY <3>1, <3>2, <3>3
  <2>6. x <= n
    BY <1>b, <2>2
  <2> QED
    BY <1>5, <2>1, <2>2, <2>4, <2>5, <2>6 DEF Chained, PrefixHash
<1>14. c.table # << >>
  BY <1>9, <1>11
<1>15. c.computed <= Len(c.tokens)
  BY <1>5, <1>6
<1> QED
  BY <1>5, <1>12, <1>13, <1>14, <1>15 DEF c

\* A request whose scheduled tokens become computed ones.
LEMMA AdvancedContent ==
  ASSUME NEW q \in RequestType, NEW m \in Nat, m = q.computed + q.sched, m <= Len(q.tokens),
         NEW k, NEW w, Computes(k, w, q, m), PrefixCaching => Chained(q)
  PROVE  LET c == Advanced(q)
         IN  /\ c.computed <= Len(c.tokens)
             /\ Computes(k, w, c, c.computed)
             /\ PrefixCaching => Chained(c)
<1> DEFINE c == Advanced(q)
<1>1. /\ c.computed = m /\ c.tokens = q.tokens /\ c.table = q.table
      /\ c.parent = q.parent /\ c.published = q.published
  BY DEF Advanced, RequestType
<1> HIDE DEF c
<1>2. Computes(k, w, c, m)
  BY <1>1 DEF Computes
<1>3. Chained(q) => Chained(c)
  <2>1. q.published * BlockSize \in Nat /\ q.computed \in Nat /\ q.sched \in Nat
    BY BlockSizeAssumption DEF RequestType
  <2>2. q.published * BlockSize <= q.computed => q.published * BlockSize <= m
    BY <2>1
  <2> QED
    BY <1>1, <2>2 DEF Chained, PrefixHash
<1> QED
  BY <1>1, <1>2, <1>3 DEF c

\* A request that has the same computed tokens and the same table.
LEMMA ExtendedContent ==
  ASSUME NEW q \in RequestType, NEW u \in RequestType, u.table = q.table,
         u.computed = q.computed, u.published = q.published, u.parent = q.parent,
         q.computed <= Len(q.tokens), q.computed <= Len(u.tokens),
         \A i \in 1..q.computed : u.tokens[i] = q.tokens[i],
         NEW k, NEW w, Computes(k, w, q, q.computed), PrefixCaching => Chained(q)
  PROVE  /\ Computes(k, w, u, u.computed)
         /\ PrefixCaching => Chained(u)
<1>1. /\ q.tokens \in Seq(Tokens) /\ u.tokens \in Seq(Tokens) /\ q.computed \in Nat
      /\ q.published \in Nat
  BY DEF RequestType
<1>2. \A p \in 1..q.computed : SubSeq(u.tokens, 1, p) = SubSeq(q.tokens, 1, p)
  BY <1>1, SamePrefixes
<1>3. Computes(k, w, u, u.computed)
  BY <1>2 DEF Computes
<1>4. ASSUME Chained(q)
      PROVE  Chained(u)
  <2>1. PICK x \in Nat : x = q.published * BlockSize
    BY <1>1, BlockSizeAssumption
  <2>2. x <= q.computed /\ q.parent = SubSeq(q.tokens, 1, x)
    BY <1>4, <2>1 DEF Chained, PrefixHash
  <2>3. SubSeq(u.tokens, 1, x) = SubSeq(q.tokens, 1, x)
    <3>1. CASE x = 0
      BY <1>1, <3>1
    <3>2. CASE x > 0
      <4>1. x \in 1..q.computed
        BY <1>1, <2>2, <3>2
      <4> QED
        BY <1>2, <4>1
    <3> QED
      BY <3>1, <3>2
  <2> QED
    BY <2>1, <2>2, <2>3 DEF Chained, PrefixHash
<1> QED
  BY <1>3, <1>4

LEMMA SampledContent ==
  ASSUME NEW q \in RequestType, NEW t \in Tokens, q.computed <= Len(q.tokens),
         NEW k, NEW w, Computes(k, w, q, q.computed), PrefixCaching => Chained(q)
  PROVE  LET u == Sampled(q, t)
         IN  /\ u.computed <= Len(u.tokens)
             /\ Computes(k, w, u, u.computed)
             /\ PrefixCaching => Chained(u)
<1> DEFINE u == Sampled(q, t)
<1>1. q.tokens \in Seq(Tokens) /\ Len(q.tokens) \in Nat /\ q.computed \in Nat
  BY LenProperties DEF RequestType
<1>2. u \in RequestType /\ u.computed = q.computed /\ u.table = q.table
  BY SampledFacts
<1>3. /\ u.tokens = Append(q.tokens, t)
      /\ u.published = q.published /\ u.parent = q.parent
  BY DEF Sampled, RequestType
<1> HIDE DEF u
<1>4. Len(u.tokens) = Len(q.tokens) + 1 /\ \A i \in 1..Len(q.tokens) : u.tokens[i] = q.tokens[i]
  BY <1>1, <1>3
<1>5. q.computed <= Len(u.tokens) /\ \A i \in 1..q.computed : u.tokens[i] = q.tokens[i]
  BY <1>1, <1>4
<1>6. Computes(k, w, u, u.computed) /\ (PrefixCaching => Chained(u))
  BY <1>2, <1>3, <1>5, ExtendedContent
<1> QED
  BY <1>2, <1>5, <1>6 DEF u

(***************************************************************************)
(* The steps.                                                              *)
(***************************************************************************)
LEMMA SoundPrimed ==
  IInv' => OtherTypes' /\ Sound(pool', req') /\ RequestsOK' /\ StepOK' /\ QueuesOK'
<1> SUFFICES ASSUME IInv'
             PROVE  OtherTypes' /\ Sound(pool', req')
  BY DEF IInv
<1>1. OtherTypes' /\ pool' \in PoolOf(Seq(Tokens)) /\ req' \in [Requests -> RequestType]
  BY DEF IInv, TypeOK, OtherTypes, PoolType, PoolOf
<1>2. Tables' = TablesOf(req')
  BY DEF Tables, TablesOf
<1>3. Exact(pool', TablesOf(req')) /\ Private(pool', req')
  BY <1>2 DEF IInv, PoolOK, RefExact, FreeExact, Exact
<1> QED
  BY <1>1, <1>3 DEF Sound

\* What has been written stays as long as its request does.
LEMMA WrittenKept ==
  ASSUME Sound(pool', req'), kv' = Scrub(kv, pool'.free), weights' = weights,
         NEW r \in Requests, req'[r] = req[r], NEW n \in Nat, Computes(kv, weights, req[r], n)
  PROVE  Computes(kv', weights', req'[r], n)
<1>1. \A i \in DOMAIN req'[r].table : kv'[req'[r].table[i]] = kv[req'[r].table[i]]
  BY ScrubInUse
<1>2. req'[r] \in RequestType
  BY SoundFacts
<1> QED
  BY <1>1, <1>2, ComputesPages

\* The pages after a step that gives back whatever has become free.
LEMMA ScrubbedStep ==
  ASSUME IInv', kv' = Scrub(kv, pool'.free), weights' = weights,
         Content(pool', req', kv, weights)
  PROVE  Content(pool', req', kv', weights')
<1>1. Sound(pool', req')
  BY SoundPrimed
<1> QED
  BY <1>1, ContentScrubbed

\* What a verification or a commit needs of the request it settles.
Settled(q) ==
  /\ q.drafts = 0 /\ q.sched = 0
  /\ q.computed <= Len(q.tokens)
  /\ Computes(kv, weights, q, q.computed)
  /\ PrefixCaching => Chained(q) /\ q.table # << >>

LEMMA SettleKV ==
  ASSUME IInv, IInv', KVInv, pc \in {"verify", "commit"}, NEW r \in Requests,
         NEW q \in RequestType, Settled(q), NEW P, Content(P, req, kv, weights),
         NEW o \in {"running", "paused", "finished"}, Settle(r, q, P, o),
         pc' = (IF pc = "verify" THEN AfterVerify(req') ELSE AfterCommit(req')),
         UNCHANGED <<epoch, waiting, deferred, todo, batch, budget, passes, raised, engineVars>>
  PROVE  KVInv'
<1> DEFINE w == [q EXCEPT !.status = o, !.table = IF o = "finished" THEN << >> ELSE @]
<1>1. /\ req \in [Requests -> RequestType] /\ batch \in Seq(Requests)
  BY Parts, SoundFacts DEF OtherTypes
<1>2. /\ w \in RequestType /\ w.status = o /\ w.drafts = 0 /\ w.sched = 0
      /\ w.computed = q.computed /\ w.tokens = q.tokens /\ w.published = q.published
      /\ w.parent = q.parent /\ (o # "finished" => w.table = q.table)
  BY EmptySeq DEF RequestType, Settled
<1>3. /\ req' = Replaced(req, r, w) /\ kv' = Scrub(kv, pool'.free)
      /\ pool'.cache = P.cache
  BY DEF Settle, Replaced, Deallocate, Decref
<1>4. batch' = batch /\ todo' = todo /\ weights' = weights /\ asleep' = asleep
  BY DEF engineVars
<1> HIDE DEF w
<1>5. req'[r] = w /\ \A x \in Requests : x # r => req'[x] = req[x]
  BY <1>1, <1>2, <1>3, ReplacedFacts
<1>6. Content(pool, req, kv, weights) /\ BatchPlaced /\ TodoOK /\ WrittenOK /\ AsleepOK
  BY DEF KVInv
<1>7. ASSUME w.status \in LiveStates
      PROVE  Good(kv, weights, w)
  <2>1. o # "finished" /\ o # "waiting"
    BY <1>2, <1>7 DEF LiveStates
  <2>2. Computes(kv, weights, w, w.computed)
    BY <1>2, <2>1 DEF Settled, Computes
  <2>3. Chained(q) => Chained(w)
    BY <1>2 DEF Chained, PrefixHash
  <2> QED
    BY <1>2, <2>1, <2>2, <2>3 DEF Settled, Good
<1>8. Content(pool', req', kv', weights')
  <2>1. Content(pool', Replaced(req, r, w), kv, weights)
    BY <1>1, <1>2, <1>3, <1>7, ContentReplaced
  <2> QED
    BY <1>3, <1>4, <2>1, ScrubbedStep
<1>9. BatchPlaced'
  <2>1. Placed(w)
    BY <1>2 DEF Placed
  <2>2. \A x \in Members(batch) : x \in Requests /\ Placed(req[x])
    BY <1>1, <1>6, MembersType DEF BatchPlaced
  <2> QED
    BY <1>4, <1>5, <2>1, <2>2 DEF BatchPlaced
<1>10. TodoOK'
  BY <1>4, <1>6 DEF TodoOK
<1>11. WrittenOK'
  <2> SUFFICES ASSUME NEW x \in Members(batch'), WaitsAt(pc', req'[x])
               PROVE  Computes(kv', weights', req'[x], req'[x].computed + req'[x].sched)
    BY DEF WrittenOK
  <2>1. x \in Members(batch) /\ x \in Requests
    BY <1>1, <1>4, MembersType
  <2>2. pc' \in {"verify", "forward", "commit", "return"} /\ (pc' \in {"verify", "commit"} => pc' = pc)
    BY DEF AfterVerify, AfterCommit
  <2>3. pc' = pc /\ x # r
    <3>1. ~WaitsAt(pc', w)
      BY <1>2, <2>2 DEF WaitsAt
    <3>2. pc' = pc
      BY <2>2 DEF WaitsAt
    <3> QED
      BY <1>5, <3>1, <3>2
  <2>4. req'[x] = req[x]
    BY <1>5, <2>1, <2>3
  <2>5. WaitsAt(pc, req[x])
    BY <2>3, <2>4 DEF WaitsAt
  <2> DEFINE n == req[x].computed + req[x].sched
  <2>6. Computes(kv, weights, req[x], n) /\ n \in Nat
    <3>1. req[x] \in RequestType
      BY <1>1, <2>1
    <3>2. n \in Nat
      <4>1. req[x].computed \in Nat /\ req[x].sched \in Nat
        BY <3>1 DEF RequestType
      <4> QED
        BY <4>1
    <3>3. Computes(kv, weights, req[x], n)
      BY <1>6, <2>1, <2>5 DEF WrittenOK
    <3> QED
      BY <3>2, <3>3
  <2> HIDE DEF n
  <2>7. Sound(pool', req')
    BY SoundPrimed
  <2>8. PICK m \in Nat : m = n
    BY <2>6
  <2>9. Computes(kv', weights', req'[x], m)
    BY <1>3, <1>4, <2>1, <2>4, <2>6, <2>7, <2>8, WrittenKept
  <2> QED
    BY <2>4, <2>8, <2>9 DEF n
<1>12. AsleepOK'
  <2>1. ~asleep
    BY <1>6 DEF AsleepOK
  <2> QED
    BY <1>4, <2>1 DEF AsleepOK
<1> QED
  BY <1>8, <1>9, <1>10, <1>11, <1>12 DEF KVInv

LEMMA RoomType ==
  ASSUME NEW q \in RequestType
  PROVE  Room(q) \in Nat
<1>1. q.maxNew \in Nat /\ Len(q.tokens) \in Nat /\ q.drafts \in Nat /\ q.nPrompt \in Nat
  BY LenProperties DEF RequestType
<1> QED
  BY <1>1 DEF Room, NumOut, Greater

LEMMA VerifySpecKV ==
  ASSUME IInv, IInv', KVInv, VerifySpec
  PROVE  KVInv'
<1> DEFINE i == First(SpecPositions(req))
           r == batch[i]
           q == req[r]
<1>1. OtherTypes /\ Sound(pool, req) /\ RequestsOK /\ StepOK /\ QueuesOK
  BY Parts
<1>2. /\ pc = "verify" /\ pc' = AfterVerify(req')
      /\ UNCHANGED <<epoch, waiting, deferred, todo, batch, budget, passes, raised, engineVars>>
  BY DEF VerifySpec
<1>3. batch \in Seq(Requests) /\ req \in [Requests -> RequestType]
  BY <1>1, SoundFacts DEF OtherTypes
<1>4. i \in SpecPositions(req)
  <2>1. SpecPositions(req) \in SUBSET Nat /\ SpecPositions(req) # {}
    BY <1>1, <1>2, <1>3 DEF StepOK, SpecPositions
  <2> QED
    BY <2>1, FirstIsLeast
<1> HIDE DEF i
<1>5. r \in Requests /\ r \in Members(batch) /\ q.drafts > 0 /\ q \in RequestType
  BY <1>3, <1>4 DEF SpecPositions, Members
<1>6. q.status = "running" /\ q.table # << >> /\ Drafting(q)
  BY <1>1, <1>5 DEF StepOK, RequestsOK, RequestOK, Drafting
<1>7. PICK e \in Emissions(Drafts(q), Room(q)) :
        LET c == CommitSpec(q, e)
            P == TruncatePool(pool, q, c.computed)
        IN  \E o \in Outcomes(c) : Settle(r, Published(c), PublishPool(P, c), o)
  BY DEF VerifySpec, i
<1> DEFINE c == CommitSpec(q, e)
           P == TruncatePool(pool, q, c.computed)
<1>8. PICK o \in Outcomes(c) : Settle(r, Published(c), PublishPool(P, c), o)
  BY <1>7
<1> HIDE DEF r
<1>9. Content(pool, req, kv, weights) /\ BatchPlaced /\ WrittenOK
  BY DEF KVInv
<1>10. /\ q.status \in LiveStates /\ Good(kv, weights, q) /\ Placed(q)
       /\ Computes(kv, weights, q, q.computed + q.sched)
  BY <1>2, <1>5, <1>6, <1>9 DEF Content, LiveStates, BatchPlaced, WrittenOK, WaitsAt
<1>11. PICK m \in Nat : m = Len(q.tokens) /\ m = q.computed + q.sched
  <2>1. Len(q.tokens) \in Nat
    BY <1>5, LenProperties DEF RequestType
  <2>2. q.computed \in Nat /\ q.drafts \in Nat /\ q.sched = 1 + q.drafts
    BY <1>5, <1>10 DEF RequestType, Placed
  <2>3. Len(q.tokens) = q.computed + q.sched
    BY <1>6, <2>2 DEF Drafting
  <2> QED
    BY <2>1, <2>3
<1>12. Computes(kv, weights, q, m) /\ (PrefixCaching => Chained(q))
  BY <1>6, <1>10, <1>11 DEF Good
<1>13. Room(q) \in Nat
  BY <1>5, RoomType
<1>14. /\ c.computed <= Len(c.tokens) /\ Computes(kv, weights, c, c.computed)
       /\ (PrefixCaching => Chained(c)) /\ c.table # << >>
  BY <1>5, <1>6, <1>7, <1>11, <1>12, <1>13, CommitSpecContent
<1>15. c \in RequestType /\ c.drafts = 0 /\ c.sched = 0
  <2>1. e \in Seq(Tokens) /\ Len(e) > 0
    BY <1>5, <1>6, <1>13, EmissionFacts DEF Drafting
  <2> QED
    BY <1>5, <1>6, <2>1, CommitSpecFacts DEF Drafting
<1> HIDE DEF c
<1>16. Content(P, req, kv, weights)
  <2>1. P.cache = pool.cache
    BY DEF TruncatePool, Deallocate, Decref
  <2> HIDE DEF P
  <2> QED
    BY <1>9, <2>1 DEF Content
<1> HIDE DEF P
<1>17. Content(PublishPool(P, c), req, kv, weights)
  BY <1>14, <1>15, <1>16, ContentPublished
<1>18. PICK p \in RequestType :
         /\ p = Published(c) /\ p.table = c.table /\ p.computed = c.computed
         /\ p.tokens = c.tokens /\ p.drafts = 0 /\ p.sched = 0
  BY <1>15, PublishedFacts
<1>19. Settled(p)
  <2>1. Computes(kv, weights, p, p.computed)
    BY <1>14, <1>18 DEF Computes
  <2>2. PrefixCaching => Chained(p)
    BY <1>14, <1>15, <1>18, PublishedChained
  <2> QED
    BY <1>14, <1>18, <2>1, <2>2 DEF Settled
<1>20. o \in {"running", "paused", "finished"}
  BY <1>8, OutcomesType
<1>21. /\ pc \in {"verify", "commit"} /\ Settle(r, p, PublishPool(P, c), o)
       /\ pc' = (IF pc = "verify" THEN AfterVerify(req') ELSE AfterCommit(req'))
  BY <1>2, <1>8, <1>18
<1> QED
  BY <1>2, <1>5, <1>17, <1>19, <1>20, <1>21, SettleKV

LEMMA PostprocessKV ==
  ASSUME IInv, IInv', KVInv, Postprocess
  PROVE  KVInv'
<1> DEFINE i == First(RestPositions(req))
           r == batch[i]
           c == Advanced(req[r])
           q == Published(c)
           P == PublishPool(pool, c)
<1>1. OtherTypes /\ Sound(pool, req) /\ RequestsOK /\ StepOK /\ QueuesOK
  BY Parts
<1>2. /\ pc = "commit" /\ pc' = AfterCommit(req')
      /\ UNCHANGED <<epoch, waiting, deferred, todo, batch, budget, passes, raised, engineVars>>
  BY DEF Postprocess
<1>3. batch \in Seq(Requests) /\ req \in [Requests -> RequestType]
  BY <1>1, SoundFacts DEF OtherTypes
<1>4. i \in RestPositions(req)
  <2>1. RestPositions(req) \in SUBSET Nat /\ RestPositions(req) # {}
    BY <1>1, <1>2, <1>3 DEF StepOK, RestPositions
  <2> QED
    BY <2>1, FirstIsLeast
<1> HIDE DEF i
<1>5. /\ r \in Requests /\ r \in Members(batch) /\ req[r].drafts = 0 /\ req[r].sched > 0
      /\ req[r] \in RequestType
  BY <1>3, <1>4 DEF RestPositions, Members
<1>6. req[r].status = "running"
  BY <1>1, <1>5 DEF StepOK
<1>7. \/ Settle(r, q, P, "running")
      \/ \E t \in Tokens : \E o \in Outcomes(Sampled(q, t)) : Settle(r, Sampled(q, t), P, o)
  BY DEF Postprocess, i
<1> HIDE DEF r
<1>8. Content(pool, req, kv, weights) /\ BatchPlaced /\ WrittenOK
  BY DEF KVInv
<1>9. /\ Good(kv, weights, req[r]) /\ Placed(req[r])
      /\ Computes(kv, weights, req[r], req[r].computed + req[r].sched)
  BY <1>2, <1>5, <1>6, <1>8 DEF Content, LiveStates, BatchPlaced, WrittenOK, WaitsAt
<1>10. PICK m \in Nat : m = req[r].computed + req[r].sched /\ m <= Len(req[r].tokens)
  <2>1. req[r].computed + req[r].sched \in Nat
    BY <1>5 DEF RequestType
  <2> QED
    BY <1>5, <1>9, <2>1 DEF Placed
<1>11. /\ c \in RequestType /\ c.sched = 0 /\ c.table = req[r].table /\ c.drafts = 0
  BY <1>5, AdvancedFacts
<1>12. PrefixCaching => Chained(req[r]) /\ req[r].table # << >>
  BY <1>6, <1>9 DEF Good
<1>13. /\ c.computed <= Len(c.tokens) /\ Computes(kv, weights, c, c.computed)
       /\ (PrefixCaching => Chained(c))
  BY <1>5, <1>9, <1>10, <1>12, AdvancedContent
<1> HIDE DEF c
<1>14. Content(P, req, kv, weights)
  BY <1>8, <1>11, <1>13, ContentPublished
<1>15. /\ q \in RequestType /\ q.table = c.table /\ q.computed = c.computed
       /\ q.tokens = c.tokens /\ q.drafts = 0 /\ q.sched = 0
  BY <1>11, PublishedFacts
<1>16. PrefixCaching => Chained(q)
  BY <1>11, <1>13, PublishedChained
<1> HIDE DEF q, P
<1>17. Computes(kv, weights, q, q.computed) /\ q.computed <= Len(q.tokens)
  BY <1>13, <1>15 DEF Computes
<1>18. ASSUME NEW s \in RequestType, Settled(s), NEW o \in {"running", "paused", "finished"},
              Settle(r, s, P, o)
       PROVE  KVInv'
  <2>1. /\ pc \in {"verify", "commit"}
        /\ pc' = (IF pc = "verify" THEN AfterVerify(req') ELSE AfterCommit(req'))
    BY <1>2
  <2> QED
    BY <1>2, <1>5, <1>14, <1>18, <2>1, SettleKV
<1>19. Settled(q)
  BY <1>11, <1>12, <1>15, <1>16, <1>17 DEF Settled
<1>20. CASE Settle(r, q, P, "running")
  BY <1>15, <1>18, <1>19, <1>20
<1>21. ASSUME NEW t \in Tokens, NEW o \in Outcomes(Sampled(q, t)), Settle(r, Sampled(q, t), P, o)
       PROVE  KVInv'
  <2> DEFINE s == Sampled(q, t)
  <2>1. s \in RequestType /\ s.table = q.table /\ s.drafts = 0 /\ s.sched = 0
    BY <1>15, SampledFacts
  <2>2. /\ s.computed <= Len(s.tokens) /\ Computes(kv, weights, s, s.computed)
        /\ (PrefixCaching => Chained(s))
    BY <1>15, <1>16, <1>17, SampledContent
  <2> HIDE DEF s
  <2>3. Settled(s)
    BY <1>19, <2>1, <2>2 DEF Settled
  <2>4. o \in {"running", "paused", "finished"} /\ Settle(r, s, P, o)
    BY <1>21, OutcomesType DEF s
  <2> QED
    BY <1>18, <2>1, <2>3, <2>4
<1> QED
  BY <1>7, <1>20, <1>21

\* A forward.
LEMMA ForwardedRequests ==
  ASSUME IInv, KVInv, NEW S, S = SpecPositions(req) \/ S = RestPositions(req)
  PROVE  /\ {batch[i] : i \in S} \in SUBSET Requests
         /\ \A r \in {batch[i] : i \in S} : Placed(req[r]) /\ req[r].sched > 0
         /\ \A r \in {batch[i] : i \in S} : r \in Members(batch) /\ req[r].status = "running"
<1>1. OtherTypes /\ StepOK /\ req \in [Requests -> RequestType]
  BY Parts, SoundFacts
<1>2. BatchPlaced
  BY DEF KVInv
<1>3. ASSUME NEW i \in S
      PROVE  /\ batch[i] \in Requests /\ Placed(req[batch[i]]) /\ req[batch[i]].sched > 0
             /\ batch[i] \in Members(batch) /\ req[batch[i]].status = "running"
  <2>1. /\ i \in DOMAIN batch
        /\ req[batch[i]].drafts > 0 \/ req[batch[i]].sched > 0
    BY DEF SpecPositions, RestPositions
  <2>2. batch[i] \in Members(batch) /\ batch[i] \in Requests
    BY <1>1, <2>1 DEF Members, OtherTypes
  <2>3. Placed(req[batch[i]]) /\ req[batch[i]].status = "running"
    BY <1>1, <1>2, <2>1, <2>2 DEF BatchPlaced, StepOK
  <2>4. req[batch[i]].drafts \in Nat
    BY <1>1, <2>2 DEF RequestType
  <2>5. req[batch[i]].sched > 0
    BY <2>1, <2>3, <2>4 DEF Placed
  <2> QED
    BY <2>2, <2>3, <2>5
<1> QED
  BY <1>3

LEMMA ForwardKV ==
  ASSUME IInv, KVInv, RunLogits \/ RunForward
  PROVE  KVInv'
<1> DEFINE T == IF pc = "logits" THEN SpecPositions(req) ELSE RestPositions(req)
           S == {batch[i] : i \in T}
<1>1. /\ pc \in {"logits", "forward"} /\ kv' = Written(kv, S)
      /\ pc' = (IF pc = "logits" THEN "verify" ELSE "commit")
      /\ UNCHANGED <<pool, epoch, req, waiting, running, deferred, todo, batch, budget, passes,
                     raised, engineVars>>
  BY DEF RunLogits, RunForward, Forward
<1>2. /\ S \in SUBSET Requests /\ \A r \in S : Placed(req[r]) /\ req[r].sched > 0
      /\ \A r \in S : r \in Members(batch) /\ req[r].status = "running"
  BY ForwardedRequests
<1>3. Content(pool, req, kv, weights) /\ BatchPlaced /\ TodoOK /\ AsleepOK
  BY DEF KVInv
<1>4. \A r \in Members(batch) : WaitsAt(pc', req[r]) => r \in S
  BY <1>1 DEF WaitsAt, Members, SpecPositions, RestPositions
<1> HIDE DEF S
<1>5. /\ Content(pool, req, Written(kv, S), weights)
      /\ \A r \in S : req[r].status \in LiveStates =>
           Computes(Written(kv, S), weights, req[r], req[r].computed + req[r].sched)
  BY <1>2, <1>3, ContentWritten
<1>6. UNCHANGED <<pool, req, waiting, running, todo, batch, weights, asleep>>
  BY <1>1 DEF engineVars
<1>7. Content(pool', req', kv', weights')
  BY <1>1, <1>5, <1>6
<1>8. BatchPlaced' /\ TodoOK'
  BY <1>3, <1>6 DEF BatchPlaced, TodoOK
<1>9. WrittenOK'
  <2> SUFFICES ASSUME NEW r \in Members(batch), WaitsAt(pc', req[r])
               PROVE  Computes(kv', weights, req[r], req[r].computed + req[r].sched)
    BY <1>6 DEF WrittenOK
  <2>1. r \in S /\ req[r].status \in LiveStates
    BY <1>2, <1>4 DEF LiveStates
  <2> QED
    BY <1>1, <1>5, <2>1
<1>10. AsleepOK'
  BY <1>1, <1>3, <1>6 DEF AsleepOK
<1> QED
  BY <1>7, <1>8, <1>9, <1>10 DEF KVInv

LEMMA ForwardFailsKV ==
  ASSUME IInv, KVInv, ForwardFails
  PROVE  KVInv'
<1> DEFINE T == IF pc = "logits" THEN SpecPositions(req) ELSE RestPositions(req)
<1>1. PICK W \in SUBSET T : kv' = Written(kv, {batch[i] : i \in W})
  BY DEF ForwardFails
<1>2. /\ pc \in {"logits", "forward"} /\ pc' = "idle" /\ batch' = << >>
      /\ UNCHANGED <<pool, req, waiting, running, todo, weights, asleep>>
  BY DEF ForwardFails
<1>3. Content(pool, req, kv, weights) /\ TodoOK /\ AsleepOK
  BY DEF KVInv
<1> DEFINE S == {batch[i] : i \in W}
<1>4. S \in SUBSET Requests /\ \A r \in S : Placed(req[r]) /\ req[r].sched > 0
  <2>1. \A i \in T : batch[i] \in Requests /\ Placed(req[batch[i]]) /\ req[batch[i]].sched > 0
    BY ForwardedRequests
  <2> QED
    BY <2>1
<1> HIDE DEF S
<1>5. Content(pool, req, Written(kv, S), weights)
  BY <1>3, <1>4, ContentWritten
<1>6. Content(pool', req', kv', weights')
  BY <1>1, <1>2, <1>5 DEF S
<1>7. Members(batch') = {}
  BY <1>2, EmptyQueue
<1>8. BatchPlaced' /\ TodoOK' /\ WrittenOK'
  BY <1>2, <1>3, <1>7 DEF BatchPlaced, TodoOK, WrittenOK
<1>9. AsleepOK'
  BY <1>2, <1>3 DEF AsleepOK
<1> QED
  BY <1>6, <1>8, <1>9 DEF KVInv

(***************************************************************************)
(* The operations between steps.                                           *)
(***************************************************************************)
\* With nothing scheduled only the content and the sleep are left to show.
LEMMA BetweenSteps ==
  ASSUME batch' = << >>, todo' = << >>
  PROVE  BatchPlaced' /\ TodoOK' /\ WrittenOK'
<1>1. Members(batch') = {} /\ IsInjective(todo')
  BY EmptyQueue
<1> QED
  BY <1>1 DEF BatchPlaced, TodoOK, WrittenOK

LEMMA InitKV == Init => KVInv
<1> SUFFICES ASSUME Init
             PROVE  KVInv
  OBVIOUS
<1>1. /\ pool.cache = {} /\ \A r \in Requests : req[r].status = "absent"
      /\ batch = << >> /\ todo = << >> /\ ~asleep
  BY DEF Init, EmptyPool, NoRequest
<1>2. Content(pool, req, kv, weights)
  BY <1>1 DEF Content, LiveStates
<1>3. Members(batch) = {} /\ IsInjective(todo)
  BY <1>1, EmptyQueue
<1> QED
  BY <1>1, <1>2, <1>3 DEF KVInv, BatchPlaced, TodoOK, WrittenOK, AsleepOK

LEMMA AddRequestKV ==
  ASSUME IInv, KVInv, NEW r \in Requests, NEW p \in TokenLists(PromptLengths), NEW m \in MaxTokens,
         NEW h \in Holds, AddRequest(r, p, m, h)
  PROVE  KVInv'
<1> DEFINE q == [NoRequest EXCEPT !.status = "waiting", !.tokens = p, !.nPrompt = Len(p),
                                  !.maxNew = m, !.hold = h]
<1>1. OtherTypes /\ StepOK /\ req \in [Requests -> RequestType] /\ Content(pool, req, kv, weights)
  BY Parts, SoundFacts DEF KVInv
<1>2. p \in Seq(Tokens) /\ Len(p) \in Nat /\ m \in Nat /\ h \in BOOLEAN
  BY InputsAssumption DEF TokenLists
<1>3. /\ q \in RequestType /\ q.status = "waiting" /\ q.drafts = 0 /\ q.table = << >>
      /\ q.computed = 0 /\ q.published = 0 /\ q.parent = << >>
  BY <1>2, EmptySeq DEF NoRequest, RequestType, ROOT_HASH
<1>4. PICK a \in IF PrefixCaching THEN Attachments(pool, q) ELSE {<< >>} :
        pool' = AttachPool(pool, a) /\ req' = [req EXCEPT ![r] = Attached(q, a)]
  BY DEF AddRequest
<1> HIDE DEF q
<1> DEFINE u == Attached(q, a)
<1>5. /\ u \in RequestType /\ u.status = "waiting" /\ u.drafts = 0 /\ u.tokens = q.tokens
      /\ u.table = a /\ u.computed = Len(a) * BlockSize
  BY <1>3, <1>4, AttachedNone, AttachedFacts
<1>6. /\ Computes(kv, weights, u, u.computed) /\ u.computed <= Len(u.tokens)
      /\ (PrefixCaching => Chained(u))
  <2>1. CASE ~PrefixCaching
    <3>1. a = << >> /\ u.computed = 0
      BY <1>4, <1>5, <2>1, BlockSizeAssumption
    <3>2. Len(u.tokens) \in Nat
      BY <1>5, LenProperties DEF RequestType
    <3> HIDE DEF u
    <3> QED
      BY <2>1, <3>1, <3>2 DEF Computes
  <2>2. CASE PrefixCaching
    <3>1. a \in Attachments(pool, q)
      BY <1>4, <2>2
    <3>2. \A e \in pool.cache : Backed(kv, weights, e)
      BY <1>1 DEF Content
    <3>3. /\ Computes(kv, weights, u, Len(a) * BlockSize) /\ Len(a) * BlockSize <= Len(q.tokens)
          /\ Chained(u)
      BY <1>3, <3>1, <3>2, AttachedComputes
    <3> HIDE DEF u
    <3> QED
      BY <1>5, <3>3
  <2> QED
    BY <2>1, <2>2
<1>7. req' = Replaced(req, r, u) /\ pool'.cache = pool.cache
  BY <1>4 DEF Replaced, AttachPool, Incref
<1> HIDE DEF u
<1>8. Good(kv, weights, u)
  BY <1>5, <1>6 DEF Good
<1>9. Content(pool', req', kv, weights)
  BY <1>1, <1>5, <1>7, <1>8, ContentReplaced
<1>10. kv' = kv /\ weights' = weights /\ batch' = << >> /\ todo' = << >> /\ ~asleep'
  BY <1>1 DEF AddRequest, StepOK, stepVars
<1>11. Content(pool', req', kv', weights') /\ AsleepOK'
  BY <1>9, <1>10 DEF AsleepOK
<1> QED
  BY <1>10, <1>11, BetweenSteps DEF KVInv

LEMMA ResumeRequestKV ==
  ASSUME IInv, KVInv, NEW r \in Requests, NEW s \in TokenLists(SuffixLengths), NEW m \in MaxTokens,
         NEW h \in Holds, ResumeRequest(r, s, m, h)
  PROVE  KVInv'
<1> DEFINE q == req[r]
           u == [q EXCEPT !.status = "waiting", !.tokens = @ \o s,
                          !.nPrompt = Len(q.tokens) + Len(s), !.maxNew = m, !.hold = h]
<1>1. /\ OtherTypes /\ StepOK /\ RequestsOK /\ req \in [Requests -> RequestType]
      /\ Content(pool, req, kv, weights)
  BY Parts, SoundFacts DEF KVInv
<1>2. s \in Seq(Tokens) /\ Len(s) \in Nat /\ m \in Nat /\ h \in BOOLEAN
  BY InputsAssumption DEF TokenLists
<1>3. q.status = "paused" /\ req' = Replaced(req, r, u)
  BY DEF ResumeRequest, Replaced
<1>4. q \in RequestType /\ q.drafts = 0 /\ Good(kv, weights, q)
  BY <1>1, <1>3 DEF RequestsOK, RequestOK, Content, LiveStates
<1>5. /\ q.tokens \in Seq(Tokens) /\ Len(q.tokens) \in Nat /\ q.computed \in Nat
  BY <1>4, LenProperties DEF RequestType
<1>6. /\ q.tokens \o s \in Seq(Tokens) /\ Len(q.tokens \o s) = Len(q.tokens) + Len(s)
      /\ \A i \in 1..Len(q.tokens) : (q.tokens \o s)[i] = q.tokens[i]
      /\ Len(q.tokens) + Len(s) \in Nat
  BY <1>2, <1>5, ConcatProperties
<1>7. /\ u \in RequestType /\ u.status = "waiting" /\ u.table = q.table /\ u.computed = q.computed
      /\ u.published = q.published /\ u.parent = q.parent /\ u.tokens = q.tokens \o s
      /\ u.drafts = 0
  <2>1. q \in RequestType /\ q.drafts = 0
    BY <1>4
  <2> HIDE DEF q
  <2> QED
    BY <1>2, <1>6, <2>1 DEF RequestType
<1> HIDE DEF u, q
<1>8. q.computed <= Len(q.tokens)
  BY <1>4 DEF Good
<1>9. q.computed <= Len(u.tokens) /\ \A i \in 1..q.computed : u.tokens[i] = q.tokens[i]
  BY <1>2, <1>5, <1>6, <1>7, <1>8
<1>10. Good(kv, weights, u)
  <2>1. Computes(kv, weights, q, q.computed)
    BY <1>4 DEF Good
  <2>2. CASE PrefixCaching => Chained(q)
    BY <1>4, <1>7, <1>8, <1>9, <2>1, <2>2, ExtendedContent DEF Good
  <2>3. CASE PrefixCaching /\ q.table = << >>
    <3>1. Computes(kv, weights, u, u.computed)
      <4>1. \A p \in 1..q.computed : BlockIndex(p) <= Len(q.table)
        BY <2>1 DEF Computes
      <4>2. q.computed = 0
        <5>1. BlocksNeededFor(q.computed) <= Len(q.table)
          BY <1>4, <1>5, <2>1, ComputesLength
        <5>2. Len(q.table) = 0
          BY <2>3, EmptySeq
        <5> QED
          BY <1>5, <5>1, <5>2, NeededFor
      <4> QED
        BY <1>7, <4>2 DEF Computes
    <3> QED
      BY <1>7, <1>9, <2>3, <3>1 DEF Good
  <2> QED
    BY <1>4, <2>2, <2>3 DEF Good
<1>11. Content(pool', req', kv, weights)
  <2>1. pool' = pool
    BY DEF ResumeRequest, poolVars
  <2> QED
    BY <1>1, <1>3, <1>7, <1>10, <2>1, ContentReplaced
<1>12. kv' = kv /\ weights' = weights /\ batch' = << >> /\ todo' = << >> /\ ~asleep'
  BY <1>1 DEF ResumeRequest, StepOK, stepVars, poolVars, engineVars
<1>13. Content(pool', req', kv', weights') /\ AsleepOK'
  BY <1>11, <1>12 DEF AsleepOK
<1> QED
  BY <1>12, <1>13, BetweenSteps DEF KVInv

\* Releasing requests takes nothing from the others, or from the cached copies.
LEMMA ReleaseKV ==
  ASSUME IInv, IInv', KVInv, NEW S \in SUBSET Requests, Release(S),
         pc = "idle", UNCHANGED <<epoch, stepVars, weights>>
  PROVE  /\ Content(pool', req', kv', weights') /\ BatchPlaced' /\ TodoOK' /\ WrittenOK'
         /\ \A r \in Requests : req[r].table = << >> => req'[r].table = << >>
         /\ pool'.cache = pool.cache
<1>1. /\ \A r \in Requests : /\ r \in S => req'[r].status = "gone" /\ req'[r].table = << >>
                             /\ r \notin S => req'[r] = req[r]
  BY ReleaseFacts
<1>2. pool'.cache = pool.cache /\ kv' = Scrub(kv, pool'.free)
  BY DEF Release, DeallocateAll, Decref
<1>3. Content(pool, req, kv, weights) /\ StepOK
  BY Parts DEF KVInv
<1>4. Content(pool', req', kv, weights)
  BY <1>1, <1>2, <1>3 DEF Content, LiveStates
<1>5. Content(pool', req', kv', weights')
  BY <1>2, <1>4, ScrubbedStep
<1>6. batch' = << >> /\ todo' = << >>
  BY <1>3 DEF StepOK, stepVars
<1> QED
  BY <1>1, <1>2, <1>5, <1>6, BetweenSteps

LEMMA FinishRequestKV ==
  ASSUME IInv, IInv', KVInv, NEW r \in Requests, FinishRequest(r)
  PROVE  KVInv'
<1>1. /\ Release({r}) /\ pc = "idle" /\ waiting' = Without(waiting, r)
      /\ running' = Without(running, r) /\ UNCHANGED <<epoch, stepVars, weights, asleep>>
  BY DEF FinishRequest
<1>2. /\ Content(pool', req', kv', weights') /\ BatchPlaced' /\ TodoOK' /\ WrittenOK'
      /\ \A x \in Requests : req[x].table = << >> => req'[x].table = << >>
      /\ pool'.cache = pool.cache
  BY <1>1, ReleaseKV
<1>3. AsleepOK'
  <2>1. Without(<< >>, r) = << >>
    BY DEF Without, Range
  <2>2. AsleepOK
    BY DEF KVInv
  <2> QED
    BY <1>1, <1>2, <2>1, <2>2 DEF AsleepOK, stepVars
<1> QED
  BY <1>2, <1>3 DEF KVInv

LEMMA AbortGenerationKV ==
  ASSUME IInv, IInv', KVInv, AbortGeneration
  PROVE  KVInv'
<1> DEFINE S == Members(waiting) \union Members(running)
<1>1. /\ Release(S) /\ pc = "idle" /\ waiting' = << >> /\ running' = << >>
      /\ UNCHANGED <<epoch, stepVars, weights, asleep>>
  BY DEF AbortGeneration
<1>2. S \in SUBSET Requests
  BY Parts, MembersType DEF OtherTypes
<1> HIDE DEF S
<1>3. /\ Content(pool', req', kv', weights') /\ BatchPlaced' /\ TodoOK' /\ WrittenOK'
      /\ \A x \in Requests : req[x].table = << >> => req'[x].table = << >>
      /\ pool'.cache = pool.cache
  BY <1>1, <1>2, ReleaseKV
<1>4. AsleepOK'
  <2>1. AsleepOK
    BY DEF KVInv
  <2> QED
    BY <1>1, <1>3, <2>1 DEF AsleepOK, stepVars
<1> QED
  BY <1>3, <1>4 DEF KVInv

LEMMA ResetPrefixCacheKV ==
  ASSUME IInv, IInv', KVInv, ResetPrefixCache
  PROVE  KVInv'
<1>1. PICK V \in Victims(pool, Cardinality(pool.cache)) : pool' = EvictUnused(pool, V)
  BY DEF ResetPrefixCache
<1>2. pool'.cache \subseteq pool.cache
  BY <1>1 DEF EvictUnused, Decref, Caching
<1>3. /\ pc = "idle" /\ kv' = Scrub(kv, pool'.free) /\ req' = req /\ weights' = weights
      /\ batch' = batch /\ todo' = todo /\ asleep' = asleep
  BY DEF ResetPrefixCache, schedVars, stepVars, engineVars
<1>4. Content(pool, req, kv, weights) /\ AsleepOK /\ StepOK
  BY Parts DEF KVInv
<1>5. Content(pool', req', kv', weights')
  <2>1. Content(pool', req', kv, weights)
    BY <1>2, <1>3, <1>4 DEF Content
  <2> QED
    BY <1>3, <2>1, ScrubbedStep
<1>6. ~asleep'
  BY <1>3, <1>4 DEF AsleepOK, ResetPrefixCache, Evictable
<1>7. batch' = << >> /\ todo' = << >>
  BY <1>3, <1>4 DEF StepOK
<1> QED
  BY <1>5, <1>6, <1>7, BetweenSteps DEF KVInv, AsleepOK

(***************************************************************************)
(* The beginning and the end of a pass and of a step.                      *)
(***************************************************************************)
LEMMA StartStepKV ==
  ASSUME IInv, KVInv, StartStep
  PROVE  KVInv'
<1>1. /\ pool' = pool /\ req' = req /\ kv' = kv /\ weights' = weights /\ asleep' = asleep
      /\ todo' = running /\ batch' = << >> /\ waiting \o running # << >>
  BY DEF StartStep, StartSchedule, poolVars, engineVars
<1>2. Content(pool, req, kv, weights) /\ AsleepOK /\ IsInjective(running)
  BY Parts DEF KVInv, QueuesOK
<1>3. Members(batch') = {}
  BY <1>1, EmptyQueue
<1>4. BatchPlaced' /\ TodoOK' /\ WrittenOK'
  BY <1>1, <1>2, <1>3 DEF BatchPlaced, TodoOK, WrittenOK
<1>5. Content(pool', req', kv', weights')
  BY <1>1, <1>2
<1>6. ~asleep'
  <2>1. << >> \o << >> = << >>
    OBVIOUS
  <2> QED
    BY <1>1, <1>2, <2>1 DEF AsleepOK
<1> QED
  BY <1>4, <1>5, <1>6 DEF KVInv, AsleepOK

LEMMA ReturnBatchKV ==
  ASSUME IInv, KVInv, ReturnBatch, UNCHANGED engineVars
  PROVE  KVInv'
<1>1. /\ pool' = pool /\ req' = req /\ kv' = kv /\ weights' = weights /\ asleep' = asleep
      /\ batch' = batch /\ todo' = << >> /\ pc = "pass" /\ pc' \in {"logits", "forward"}
  BY DEF ReturnBatch, PassOver, poolVars, engineVars
<1>2. Content(pool, req, kv, weights) /\ BatchPlaced /\ AsleepOK
  BY DEF KVInv
<1>3. TodoOK'
  BY <1>1, EmptyQueue DEF TodoOK
<1>4. WrittenOK'
  BY <1>1 DEF WrittenOK, WaitsAt
<1>5. Content(pool', req', kv', weights')
  BY <1>1, <1>2
<1> QED
  BY <1>1, <1>2, <1>3, <1>4, <1>5 DEF KVInv, BatchPlaced, AsleepOK

LEMMA GiveUpKV ==
  ASSUME IInv, KVInv, GiveUp, UNCHANGED engineVars
  PROVE  KVInv'
<1>1. /\ pool' = pool /\ req' = req /\ kv' = kv /\ weights' = weights /\ asleep' = asleep
      /\ batch' = << >> /\ todo' = << >> /\ pc = "pass"
  BY DEF GiveUp, PassOver, poolVars, engineVars
<1>2. Content(pool, req, kv, weights) /\ AsleepOK
  BY DEF KVInv
<1>3. Content(pool', req', kv', weights')
  BY <1>1, <1>2
<1> QED
  BY <1>1, <1>2, <1>3, BetweenSteps DEF KVInv, AsleepOK

LEMMA ReturnKV ==
  ASSUME IInv, KVInv, Return
  PROVE  KVInv'
<1> DEFINE S == {r \in Members(batch) : req[r].status = "finished"}
<1>1. /\ pool' = pool /\ kv' = kv /\ weights' = weights /\ asleep' = asleep
      /\ req' = [r \in Requests |-> IF r \in S THEN Gone ELSE req[r]]
      /\ batch' = << >> /\ todo' = todo /\ pc = "return"
  BY DEF Return, poolVars
<1>2. Content(pool, req, kv, weights) /\ AsleepOK /\ StepOK
  BY Parts DEF KVInv
<1> HIDE DEF S
<1>3. Content(pool', req', kv', weights')
  BY <1>1, <1>2 DEF Content, Gone, LiveStates
<1>4. todo' = << >>
  BY <1>1, <1>2 DEF StepOK
<1> QED
  BY <1>1, <1>2, <1>3, <1>4, BetweenSteps DEF KVInv, AsleepOK

LEMMA PreemptKV ==
  ASSUME IInv, IInv', KVInv, Preempt, UNCHANGED engineVars
  PROVE  KVInv'
<1> DEFINE r == Last(running)
           u == [Cold(StripSpecDrafts(req[r])) EXCEPT !.status = "waiting"]
<1>1. /\ pc = "pass" /\ running # << >> /\ req' = Replaced(req, r, u)
      /\ kv' = Scrub(kv, pool'.free) /\ pool'.cache = pool.cache /\ batch' = << >>
      /\ todo' \in {<< >>, Front(running)} /\ weights' = weights /\ asleep' = asleep
  BY DEF Preempt, PassOver, Replaced, Deallocate, Decref, engineVars
<1>2. /\ OtherTypes /\ RequestsOK /\ QueuesOK /\ req \in [Requests -> RequestType]
      /\ Content(pool, req, kv, weights) /\ AsleepOK
  BY Parts, SoundFacts DEF KVInv
<1>3. running \in Seq(Requests) /\ IsInjective(running) /\ r \in Requests
  BY <1>1, <1>2, NonemptyQueue DEF OtherTypes, QueuesOK
<1> HIDE DEF r
<1>4. /\ u \in RequestType /\ u.status = "waiting" /\ u.table = << >> /\ u.computed = 0
      /\ u.drafts = 0
  <2> DEFINE s == StripSpecDrafts(req[r])
  <2>1. s \in RequestType
    <3>1. req[r] \in RequestType /\ RequestOK(req[r], epoch)
      BY <1>2, <1>3 DEF RequestsOK
    <3>2. req[r].drafts \in Nat /\ req[r].computed \in Nat /\ Len(req[r].tokens) \in Nat
      BY <3>1, LenProperties DEF RequestType
    <3>3. req[r].drafts <= Len(req[r].tokens)
      BY <3>1, <3>2 DEF RequestOK
    <3> QED
      BY <3>1, <3>3, StripFacts
  <2> HIDE DEF s
  <2>2. Cold(s) \in RequestType /\ Cold(s).table = << >> /\ Cold(s).computed = 0 /\ Cold(s).drafts = 0
    BY <2>1, ColdFacts
  <2>3. u = [Cold(s) EXCEPT !.status = "waiting"]
    BY DEF s
  <2> HIDE DEF u
  <2> QED
    BY <2>2, <2>3 DEF RequestType
<1> HIDE DEF u
<1>5. Good(kv, weights, u)
  <2>1. Len(u.tokens) \in Nat
    BY <1>4, LenProperties DEF RequestType
  <2> QED
    BY <1>4, <2>1 DEF Good, Computes
<1>6. Content(pool', req', kv', weights')
  <2>1. Content(pool', req', kv, weights)
    BY <1>1, <1>2, <1>3, <1>4, <1>5, ContentReplaced
  <2> QED
    BY <1>1, <2>1, ScrubbedStep
<1>7. BatchPlaced' /\ TodoOK' /\ WrittenOK'
  <2>1. Members(batch') = {} /\ IsInjective(todo')
    BY <1>1, <1>3, EmptyQueue, FrontQueue
  <2> QED
    BY <2>1 DEF BatchPlaced, TodoOK, WrittenOK
<1> QED
  BY <1>1, <1>2, <1>6, <1>7 DEF KVInv, AsleepOK

(***************************************************************************)
(* Weight updates, sleep and wake-up, which drop every page.               *)
(***************************************************************************)
\* A live request without a table has no computed token: any pages and any
\* weights will do for it.
LEMMA GoodWithoutTable ==
  ASSUME NEW q \in RequestType, q.table = << >>, NEW k, NEW w, Good(k, w, q),
         NEW k2, NEW w2
  PROVE  Good(k2, w2, q)
<1>1. q.computed \in Nat /\ Computes(k, w, q, q.computed)
  BY DEF RequestType, Good
<1>2. BlocksNeededFor(q.computed) <= Len(q.table) /\ Len(q.table) = 0
  BY <1>1, ComputesLength, EmptySeq
<1>3. q.computed = 0
  BY <1>1, <1>2, NeededFor
<1>4. Computes(k2, w2, q, q.computed)
  BY <1>3 DEF Computes
<1> QED
  BY <1>4 DEF Good

LEMMA GoodCold ==
  ASSUME NEW q \in RequestType, q.table = << >>, q.computed = 0, q.drafts = 0,
         q.status # "running" \/ ~PrefixCaching, NEW k, NEW w
  PROVE  Good(k, w, q)
<1>1. Len(q.tokens) \in Nat
  BY LenProperties DEF RequestType
<1>2. Computes(k, w, q, q.computed)
  BY DEF Computes
<1> QED
  BY <1>1, <1>2, PrefixCachingAssumption DEF Good

\* A weight copy that fails leaves running requests without their tables, and
\* with prefix caching on they go on publishing from the hash of their old ones.
Reset == /\ pc = "idle" /\ pool' = EmptyPool /\ UNCHANGED stepVars
         /\ req' = Parked(AllCold) \/ (req' = AllCold /\ ~PrefixCaching)

LEMMA ResetKV ==
  ASSUME IInv, KVInv, Reset
  PROVE  /\ Content(pool', req', kv', weights') /\ BatchPlaced' /\ TodoOK' /\ WrittenOK'
         /\ \A r \in Requests : req'[r].table = << >>
<1>1. /\ QueuesOK /\ StepOK /\ req \in [Requests -> RequestType]
      /\ Content(pool, req, kv, weights)
      /\ pool' = EmptyPool /\ UNCHANGED stepVars /\ pc = "idle"
      /\ req' = Parked(AllCold) \/ (req' = AllCold /\ ~PrefixCaching)
  BY Parts, SoundFacts DEF KVInv, Reset
<1>2. ASSUME NEW r \in Requests
      PROVE  /\ req'[r].table = << >>
             /\ req'[r].status \in LiveStates => Good(kv', weights', req'[r])
  <2>1. req[r] \in RequestType
    BY <1>1
  <2>2. CASE r \notin registry
    <3>1. req'[r] = req[r]
      BY <1>1, <2>2 DEF Parked, AllCold
    <3>2. req[r].table = << >>
      BY <1>1, <2>2 DEF QueuesOK
    <3>3. req[r].status \in LiveStates => Good(kv, weights, req[r])
      BY <1>1 DEF Content
    <3> QED
      BY <2>1, <3>1, <3>2, <3>3, GoodWithoutTable
  <2>3. CASE r \in registry
    <3> DEFINE c == Cold(req[r])
    <3>1. c \in RequestType /\ c.table = << >> /\ c.computed = 0 /\ c.drafts = 0
      BY <2>1, ColdFacts
    <3>2. CASE req' = AllCold /\ ~PrefixCaching
      <4>1. req'[r] = c
        BY <2>3, <3>2 DEF AllCold
      <4> HIDE DEF c
      <4> QED
        BY <3>1, <3>2, <4>1, GoodCold
    <3>3. CASE req' = Parked(AllCold)
      <4> DEFINE d == Cold(c)
                 u == [d EXCEPT !.status = "paused"]
      <4>1. req'[r] = u
        BY <2>3, <3>3 DEF Parked, AllCold
      <4> HIDE DEF c
      <4>2. d \in RequestType /\ d.table = << >> /\ d.computed = 0 /\ d.drafts = 0
        BY <3>1, ColdFacts
      <4> HIDE DEF d
      <4>3. /\ u \in RequestType /\ u.table = << >> /\ u.computed = 0 /\ u.drafts = 0
            /\ u.status = "paused"
        BY <4>2 DEF RequestType
      <4> HIDE DEF u
      <4> QED
        BY <4>1, <4>3, GoodCold
    <3> QED
      BY <1>1, <3>2, <3>3
  <2> QED
    BY <2>2, <2>3
<1>3. Content(pool', req', kv', weights')
  BY <1>1, <1>2 DEF Content, EmptyPool
<1>4. batch' = << >> /\ todo' = << >>
  BY <1>1 DEF StepOK, stepVars
<1> QED
  BY <1>2, <1>3, <1>4, BetweenSteps

LEMMA UpdateWeightsKV ==
  ASSUME IInv, KVInv, ~PrefixCaching \/ ~UpdateMayFail, UpdateWeights
  PROVE  KVInv'
<1>1. /\ pc = "idle" /\ pool' = EmptyPool /\ UNCHANGED stepVars /\ asleep' = asleep
      /\ \/ req' = Parked(AllCold) /\ waiting' = << >> /\ running' = << >>
         \/ UpdateMayFail /\ req' = AllCold /\ UNCHANGED <<waiting, running>>
  BY DEF UpdateWeights, ResetPool
<1>2. /\ Content(pool', req', kv', weights') /\ BatchPlaced' /\ TodoOK' /\ WrittenOK'
      /\ \A r \in Requests : req'[r].table = << >>
  <2>1. Reset
    BY <1>1 DEF Reset
  <2> QED
    BY <2>1, ResetKV
<1>3. AsleepOK'
  <2>1. AsleepOK
    BY DEF KVInv
  <2> QED
    BY <1>1, <1>2, <2>1 DEF AsleepOK, stepVars, EmptyPool
<1> QED
  BY <1>2, <1>3 DEF KVInv

LEMMA SleepKV ==
  ASSUME IInv, KVInv, Sleep
  PROVE  KVInv'
<1>1. /\ pc = "idle" /\ pool' = EmptyPool /\ UNCHANGED stepVars
      /\ req' = Parked(AllCold) /\ waiting' = << >> /\ running' = << >>
  BY DEF Sleep, ResetPool
<1>2. /\ Content(pool', req', kv', weights') /\ BatchPlaced' /\ TodoOK' /\ WrittenOK'
      /\ \A r \in Requests : req'[r].table = << >>
  <2>1. Reset
    BY <1>1 DEF Reset
  <2> QED
    BY <2>1, ResetKV
<1>3. AsleepOK'
  BY <1>1, <1>2 DEF AsleepOK, stepVars, EmptyPool
<1> QED
  BY <1>2, <1>3 DEF KVInv

\* Only a sleeping engine has nothing to lose when its pages are replaced.
LEMMA WakeUpKV ==
  ASSUME IInv, KVInv, ~WakeWhenAwake, WakeUp
  PROVE  KVInv'
<1>1. /\ pc = "idle" /\ asleep /\ ~asleep'
      /\ pool' = pool /\ req' = req /\ batch' = batch /\ todo' = todo
  BY DEF WakeUp, schedVars, stepVars
<1>2. /\ pool.cache = {} /\ \A r \in Requests : req[r].table = << >>
  BY <1>1 DEF KVInv, AsleepOK
<1>3. StepOK /\ req \in [Requests -> RequestType] /\ Content(pool, req, kv, weights)
  BY Parts, SoundFacts DEF KVInv
<1>4. Content(pool', req', kv', weights')
  <2>1. \A r \in Requests : req[r].status \in LiveStates => Good(kv', weights', req[r])
    BY <1>2, <1>3, GoodWithoutTable DEF Content
  <2> QED
    BY <1>1, <1>2, <2>1 DEF Content
<1>5. batch' = << >> /\ todo' = << >>
  BY <1>1, <1>3 DEF StepOK
<1> QED
  BY <1>1, <1>4, <1>5, BetweenSteps DEF KVInv, AsleepOK

(***************************************************************************)
(* One request of a pass.                                                  *)
(***************************************************************************)
\* No more tokens are scheduled than are left to compute.
LEMMA AllocatedTokens ==
  ASSUME NEW P \in PoolOf(Seq(Tokens)), NEW q \in RequestType, budget \in Nat,
         NEW n \in Nat, n > 0, n <= MaxAllocatable(P, q, Want(q))
  PROVE  q.computed + n <= Len(q.tokens)
<1>1. PICK c \in Nat : c = q.computed
  BY DEF RequestType
<1>2. PICK l \in Nat : l = Len(q.tokens)
  BY LenProperties DEF RequestType
<1>3. PICK u \in Nat : u = Want(q) /\ (u > 0 => u <= l - c)
  BY <1>1, <1>2 DEF Want, Uncomputed, Lesser, Greater
<1>4. MaxAllocatable(P, q, Want(q)) \in Nat
  BY AllocatableFacts
<1>5. MaxAllocatable(P, q, u) <= u
  <2>1. Len(q.table) \in Nat /\ Cardinality(P.free) \in Nat
    <3>1. IsFiniteSet(P.free)
      BY BlocksAssumption, FS_Subset DEF PoolOf
    <3> QED
      BY <3>1, FS_CardinalityType, LenProperties DEF RequestType
  <2>2. PICK z \in Int : z = (Len(q.table) + Cardinality(P.free)) * BlockSize - c
    BY <1>1, <2>1, BlockSizeAssumption
  <2>3. MaxAllocatable(P, q, u) = Greater(0, Lesser(u, z))
    BY <1>1, <2>2 DEF MaxAllocatable
  <2> QED
    BY <1>3, <2>2, <2>3 DEF Greater, Lesser
<1>6. n <= u
  BY <1>3, <1>4, <1>5
<1> QED
  BY <1>1, <1>2, <1>3, <1>6

\* A running request keeps what it has computed when its tokens change after it.
LEMMA GoodExtended ==
  ASSUME NEW q \in RequestType, NEW u \in RequestType, u.table = q.table,
         u.computed = q.computed, u.published = q.published, u.parent = q.parent,
         q.status = "running", u.status = "running", q.computed <= Len(u.tokens),
         \A i \in 1..q.computed : u.tokens[i] = q.tokens[i],
         NEW k, NEW w, Good(k, w, q)
  PROVE  Good(k, w, u)
<1>1. /\ Computes(k, w, q, q.computed) /\ q.computed <= Len(q.tokens)
      /\ PrefixCaching => q.table # << >> /\ Chained(q)
  BY DEF Good
<1>2. Computes(k, w, u, u.computed) /\ (PrefixCaching => Chained(u))
  BY <1>1, ExtendedContent
<1> QED
  BY <1>1, <1>2 DEF Good

LEMMA DraftedGood ==
  ASSUME NEW q \in RequestType, RequestOK(q, epoch), q.status = "running", budget \in Nat,
         NEW p \in Drafted(q), NEW k, NEW w, Good(k, w, q)
  PROVE  Good(k, w, p)
<1>1. p \in RequestType /\ p.table = q.table /\ p.computed = q.computed /\ p.status = "running"
  BY DraftedFacts
<1>2. CASE p = q
  BY <1>2
<1>3. ASSUME NEW d \in Seq(Tokens), p = WithDrafts(q, d)
      PROVE  Good(k, w, p)
  <2>1. p.published = q.published /\ p.parent = q.parent /\ p.tokens = q.tokens \o d
    BY <1>3 DEF WithDrafts, RequestType
  <2>2. /\ q.tokens \in Seq(Tokens) /\ Len(q.tokens) \in Nat /\ Len(d) \in Nat
        /\ q.computed \in Nat /\ q.computed <= Len(q.tokens)
    BY LenProperties DEF RequestType, Good
  <2>3. /\ Len(q.tokens \o d) = Len(q.tokens) + Len(d)
        /\ \A i \in 1..Len(q.tokens) : (q.tokens \o d)[i] = q.tokens[i]
    BY <2>2, ConcatProperties
  <2>4. /\ q.computed <= Len(p.tokens)
        /\ \A i \in 1..q.computed : p.tokens[i] = q.tokens[i]
    BY <2>1, <2>2, <2>3
  <2> QED
    BY <1>1, <2>1, <2>4, GoodExtended
<1>4. p = q \/ \E d \in UNION {[1..n -> Tokens] : n \in 1..MaxDraft(q)} : p = WithDrafts(q, d)
  BY DEF Drafted
<1>5. \A d \in UNION {[1..n -> Tokens] : n \in 1..MaxDraft(q)} : d \in Seq(Tokens)
  OBVIOUS
<1> QED
  BY <1>2, <1>3, <1>4, <1>5

LEMMA StrippedGood ==
  ASSUME NEW q \in RequestType, q.status = "running", Drafting(q),
         NEW k, NEW w, Good(k, w, q)
  PROVE  LET u == StripSpecDrafts(q)
         IN  /\ u \in RequestType /\ Good(k, w, u) /\ u.drafts = 0
             /\ u.computed = q.computed /\ u.table = q.table /\ u.status = "running"
             /\ u.computed + 1 <= Len(u.tokens)
<1> DEFINE u == StripSpecDrafts(q)
<1>1. PICK a \in Nat : a = q.computed
  BY DEF RequestType
<1>2. PICK d \in Nat : d = q.drafts
  BY DEF RequestType
<1>3. Len(q.tokens) = a + 1 + d /\ q.tokens \in Seq(Tokens) /\ d <= Len(q.tokens)
  BY <1>1, <1>2 DEF Drafting, RequestType
<1>4. /\ Len(SubSeq(q.tokens, 1, Len(q.tokens) - d)) = a + 1
      /\ \A i \in 1..a + 1 : SubSeq(q.tokens, 1, Len(q.tokens) - d)[i] = q.tokens[i]
  BY <1>3, CutTokens
<1>5. u.published = q.published /\ u.parent = q.parent
      /\ u.tokens = SubSeq(q.tokens, 1, Len(q.tokens) - d)
  BY <1>2 DEF StripSpecDrafts, RequestType
<1>6. /\ u \in RequestType /\ u.drafts = 0 /\ u.computed = q.computed /\ u.table = q.table
      /\ u.status = "running"
  BY <1>2, <1>3, StripFacts
<1> HIDE DEF u
<1>7. q.computed <= Len(u.tokens) /\ u.computed + 1 <= Len(u.tokens)
      /\ \A i \in 1..q.computed : u.tokens[i] = q.tokens[i]
  BY <1>1, <1>4, <1>5, <1>6
<1>8. Good(k, w, u)
  BY <1>5, <1>6, <1>7, GoodExtended
<1> QED
  BY <1>6, <1>7, <1>8 DEF u

\* The request that is given n tokens, with the table t: it keeps its pages,
\* and has a slot for every token.
Slotted(q, n, t) ==
  /\ t \in Seq(Blocks) /\ t # << >>
  /\ Len(t) >= BlocksNeededFor(q.computed + n)
  /\ Len(t) >= Len(q.table)
  /\ \A i \in DOMAIN q.table : t[i] = q.table[i]

LEMMA ReservedPages ==
  ASSUME epoch \in Nat, req \in [Requests -> RequestType], NEW r \in Requests,
         NEW q \in RequestType, NEW n \in Nat, n > 0,
         NEW P, Sound(P, Replaced(req, r, q)), Reserve(r, q, n, P)
  PROVE  \E t : /\ Slotted(q, n, t) /\ req' = Replaced(req, r, Scheduled(q, t, n))
                /\ pool'.cache = P.cache /\ kv' = Scrub(kv, P.free)
<1>1. PICK g \in Fresh(P, Growth(q, n)) :
        LET t  == q.table \o g
            P1 == AllocBlocks(P, g)
        IN \E c \in Fresh(P1, SharedSpan(P1, t, q.computed, n)) :
             /\ pool' = CowPool(P1, t, c)
             /\ kv' = CowPages(Scrub(kv, P.free), t, c)
             /\ req' = Replaced(req, r, Scheduled(q, CowTable(t, c), n))
  BY DEF Reserve, Replaced, Scheduled
<1> DEFINE t == q.table \o g
           P1 == AllocBlocks(P, g)
           w == Scheduled(q, t, n)
<1>2. /\ FreshBlocks(P, g) /\ t \in Seq(Blocks) /\ t # << >>
      /\ Len(t) >= BlocksNeededFor(q.computed + n)
  BY GrowthFacts, SoundFacts
<1>3. PICK c \in Fresh(P1, SharedSpan(P1, t, q.computed, n)) :
             /\ pool' = CowPool(P1, t, c)
             /\ kv' = CowPages(Scrub(kv, P.free), t, c)
             /\ req' = Replaced(req, r, Scheduled(q, CowTable(t, c), n))
  BY <1>1
<1>4. Grown(q.table, g, t)
  BY DEF Grown
<1>5. /\ Len(t) >= Len(q.table) /\ \A i \in DOMAIN q.table : t[i] = q.table[i]
  <2>1. q.table \in Seq(Blocks) /\ g \in Seq(Blocks)
    BY <1>2 DEF FreshBlocks, RequestType
  <2>2. Len(q.table) \in Nat /\ Len(g) \in Nat /\ DOMAIN q.table = 1..Len(q.table)
    BY <2>1, LenProperties
  <2> QED
    BY <2>1, <2>2, ConcatProperties
<1>6. P1.cache = P.cache
  BY DEF AllocBlocks
<1> HIDE DEF t, P1
<1>7. w \in RequestType /\ w.table = t /\ w.computed = q.computed
  BY <1>2, ScheduledFacts
<1> HIDE DEF w
<1> DEFINE R == Replaced(req, r, q)
<1>8. R[r] = q /\ Replaced(R, r, w) = Replaced(req, r, w) /\ Replaced(R, r, w)[r] = w
  BY DEF Replaced
<1>9. Sound(P1, Replaced(req, r, w))
  <2> HIDE DEF R
  <2>1. Grown(R[r].table, g, w.table) /\ w.computed = R[r].computed /\ Sound(P, R)
    BY <1>4, <1>7, <1>8 DEF R
  <2> QED
    BY <1>2, <1>7, <1>8, <2>1, SoundAlloc DEF P1
<1>10. SharedSpan(P1, t, q.computed, n) = {}
  <2> DEFINE N == Replaced(req, r, w)
  <2>1. N[r].table = t /\ N[r].computed = q.computed /\ Sound(P1, N)
    BY <1>7, <1>8, <1>9
  <2> HIDE DEF N
  <2> QED
    BY <1>2, <2>1, NothingShared
<1>11. DOMAIN c = {}
  BY <1>3, <1>10 DEF Fresh
<1>12. CowPool(P1, t, c) = P1 /\ CowTable(t, c) = t
  <2>1. P1 \in PoolOf(Seq(Tokens))
    BY <1>9, SoundFacts
  <2> QED
    BY <1>2, <1>11, <2>1, CowNone
<1>13. CowPages(Scrub(kv, P.free), t, c) = Scrub(kv, P.free)
  <2>1. Range(c) = {}
    BY <1>11 DEF Range
  <2> QED
    BY <2>1 DEF CowPages, Scrub
<1>14. Slotted(q, n, t)
  BY <1>2, <1>5 DEF Slotted
<1> QED
  BY <1>3, <1>6, <1>12, <1>13, <1>14

\* The scheduled request counts on nothing it did not have.
LEMMA ScheduledGood ==
  ASSUME epoch \in Nat, NEW q \in RequestType, NEW n \in Nat, n > 0, NEW t, Slotted(q, n, t),
         NEW k, NEW w, Good(k, w, q), PrefixCaching => Chained(q),
         q.computed + n <= Len(q.tokens), q.drafts > 0 => n = 1 + q.drafts
  PROVE  LET u == Scheduled(q, t, n)
         IN  u \in RequestType /\ Good(k, w, u) /\ Placed(u)
<1> DEFINE u == Scheduled(q, t, n)
<1>1. t \in Seq(Blocks) /\ t # << >>
  BY DEF Slotted
<1>2. /\ u \in RequestType /\ u.table = t /\ u.sched = n /\ u.status = "running"
      /\ u.tokens = q.tokens /\ u.drafts = q.drafts /\ u.computed = q.computed
  BY <1>1, ScheduledFacts
<1>3. u.published = q.published /\ u.parent = q.parent
  BY DEF Scheduled, RequestType
<1> HIDE DEF u
<1>4. PICK m \in Nat : m = q.computed
  BY DEF RequestType
<1>5. Computes(k, w, q, m) /\ m <= Len(q.tokens)
  BY <1>4 DEF Good
<1>6. Computes(k, w, u, m)
  <2>1. BlocksNeededFor(m) <= Len(u.table)
    <3>1. BlocksNeededFor(m) <= Len(q.table)
      BY <1>5, ComputesLength
    <3>2. Len(q.table) \in Nat /\ Len(t) \in Nat /\ BlocksNeededFor(m) \in Nat
      BY <1>1, NeededFor, LenProperties DEF RequestType
    <3> QED
      BY <1>2, <3>1, <3>2 DEF Slotted
  <2>2. \A i \in DOMAIN q.table : u.table[i] = q.table[i]
    BY <1>2 DEF Slotted
  <2>3. \A p \in 1..m : SubSeq(u.tokens, 1, p) = SubSeq(q.tokens, 1, p)
    BY <1>2
  <2> QED
    BY <1>2, <1>5, <2>1, <2>2, <2>3, ComputesRequest
<1>7. Chained(q) => Chained(u)
  BY <1>2, <1>3 DEF Chained, PrefixHash
<1>8. Good(k, w, u)
  BY <1>1, <1>2, <1>4, <1>5, <1>6, <1>7 DEF Good
<1>9. Placed(u)
  BY <1>2 DEF Placed, Slotted
<1> QED
  BY <1>2, <1>8, <1>9 DEF u

LEMMA ReserveKV ==
  ASSUME IInv, IInv', KVInv, pc = "pass", NEW r \in Requests,
         NEW q \in RequestType, NEW n \in Nat, n > 0, NEW P, Sound(P, Replaced(req, r, q)),
         P.cache \subseteq pool.cache, Reserve(r, q, n, P),
         Good(kv, weights, q), PrefixCaching => Chained(q),
         q.computed + n <= Len(q.tokens), q.drafts > 0 => n = 1 + q.drafts,
         IsInjective(todo'), Members(todo') \subseteq Members(todo) \ {r},
         pc' = pc, UNCHANGED engineVars
  PROVE  KVInv'
<1>1. /\ OtherTypes /\ req \in [Requests -> RequestType] /\ epoch \in Nat
      /\ batch \in Seq(Requests)
  BY Parts, SoundFacts DEF OtherTypes
<1>2. PICK t : /\ Slotted(q, n, t) /\ req' = Replaced(req, r, Scheduled(q, t, n))
               /\ pool'.cache = P.cache /\ kv' = Scrub(kv, P.free)
  BY <1>1, ReservedPages
<1>3. Content(pool, req, kv, weights) /\ BatchPlaced /\ TodoOK /\ AsleepOK
  BY DEF KVInv
<1> DEFINE R == Replaced(req, r, q)
           k == Scrub(kv, P.free)
           u == Scheduled(q, t, n)
<1>4. /\ R \in [Requests -> RequestType] /\ R[r] = q /\ Replaced(R, r, u) = Replaced(req, r, u)
      /\ Sound(P, R)
  BY <1>1, ReplacedFacts DEF Replaced
<1>5. Content(P, R, kv, weights)
  BY <1>1, <1>3, ContentReplaced
<1> HIDE DEF R
<1>6. Content(P, R, k, weights)
  BY <1>4, <1>5, ContentScrubbed
<1> HIDE DEF k
<1>7. Good(k, weights, q)
  <2>1. Computes(kv, weights, q, q.computed) /\ q.computed \in Nat
    BY DEF Good, RequestType
  <2>2. \A i \in DOMAIN q.table : k[q.table[i]] = kv[q.table[i]]
    BY <1>4, ScrubInUse DEF k
  <2>3. Computes(k, weights, q, q.computed)
    BY <2>1, <2>2, ComputesPages
  <2> QED
    BY <2>3 DEF Good
<1>8. u \in RequestType /\ Good(k, weights, u) /\ Placed(u)
  BY <1>1, <1>2, <1>7, ScheduledGood
<1> HIDE DEF u
<1>9. req' = Replaced(req, r, u) /\ batch' = Append(batch, r) /\ kv' = k
  BY <1>2 DEF u, k, Reserve
<1>10. weights' = weights /\ asleep' = asleep
  BY DEF engineVars
<1>11. Content(pool', req', kv', weights')
  BY <1>2, <1>4, <1>6, <1>8, <1>9, <1>10, ContentReplaced
<1>12. /\ req'[r] = u /\ \A x \in Requests : x # r => req'[x] = req[x]
       /\ Members(batch') = Members(batch) \union {r} /\ Members(batch) \subseteq Requests
  BY <1>1, <1>8, <1>9, ReplacedFacts, AppendQueue, MembersType
<1>13. BatchPlaced'
  BY <1>3, <1>8, <1>12 DEF BatchPlaced
<1>14. TodoOK'
  BY <1>3, <1>12 DEF TodoOK
<1>15. WrittenOK' /\ AsleepOK'
  BY <1>3, <1>10 DEF WrittenOK, WaitsAt, AsleepOK
<1> QED
  BY <1>11, <1>13, <1>14, <1>15 DEF KVInv

\* A request that is considered and gets no token.
LEMMA PassedOverKV ==
  ASSUME IInv, IInv', KVInv, pc = "pass", NEW r \in Requests, r \notin Members(batch),
         NEW q \in RequestType, req' = Replaced(req, r, q), Good(kv, weights, q),
         pool'.cache \subseteq pool.cache, kv' = Scrub(kv, pool'.free),
         IsInjective(todo'), Members(todo') \subseteq Members(todo),
         pc' = pc, batch' = batch, UNCHANGED engineVars
  PROVE  KVInv'
<1>1. /\ req \in [Requests -> RequestType] /\ batch \in Seq(Requests)
      /\ Content(pool, req, kv, weights) /\ BatchPlaced /\ TodoOK /\ AsleepOK
  BY Parts, SoundFacts DEF OtherTypes, KVInv
<1>2. weights' = weights /\ asleep' = asleep
  BY DEF engineVars
<1>3. Content(pool', req', kv', weights')
  <2>1. Content(pool', req', kv, weights)
    BY <1>1, ContentReplaced
  <2> QED
    BY <1>2, <2>1, ScrubbedStep
<1>4. Members(batch) \subseteq Requests /\ \A x \in Requests : x # r => req'[x] = req[x]
  BY <1>1, ReplacedFacts, MembersType
<1>5. BatchPlaced' /\ TodoOK'
  BY <1>1, <1>4 DEF BatchPlaced, TodoOK
<1>6. WrittenOK' /\ AsleepOK'
  BY <1>1, <1>2 DEF WrittenOK, WaitsAt, AsleepOK
<1> QED
  BY <1>3, <1>5, <1>6 DEF KVInv

LEMMA ConsiderRunningKV ==
  ASSUME IInv, IInv', KVInv, ConsiderRunning, UNCHANGED engineVars
  PROVE  KVInv'
<1> DEFINE r == Head(todo)
<1>1. OtherTypes /\ Sound(pool, req) /\ RequestsOK /\ QueuesOK
  BY Parts
<1>2. pc = "pass" /\ todo # << >> /\ todo' = Tail(todo) /\ pc' = pc
  BY DEF ConsiderRunning
<1>3. /\ todo \in Seq(Requests) /\ budget \in Nat /\ req \in [Requests -> RequestType]
      /\ Content(pool, req, kv, weights) /\ TodoOK
  BY <1>1, SoundFacts DEF OtherTypes, KVInv
<1>4. /\ r \in Requests /\ r \in Members(todo) /\ r \notin Members(batch)
      /\ IsInjective(todo') /\ Members(todo') = Members(todo) \ {r}
  BY <1>2, <1>3, NonemptyQueue, TailQueue DEF TodoOK
<1>5. /\ req[r] \in RequestType /\ req[r].status = "running" /\ RequestOK(req[r], epoch)
      /\ Good(kv, weights, req[r])
  BY <1>1, <1>3, <1>4 DEF QueuesOK, RequestsOK, Content, LiveStates
<1>6. PICK p \in Drafted(req[r]) :
        \E V \in Victims(pool, Shortfall(pool, p, Want(p))) :
          LET P == EvictUnused(pool, V)
              m == MaxAllocatable(P, p, Want(p))
              fits == p.drafts = 0 \/ m = 1 + p.drafts
              q == IF fits THEN p ELSE StripSpecDrafts(p)
              n == IF fits THEN m ELSE Lesser(m, 1)
          IN \/ /\ n = 0
                /\ pool' = P
                /\ kv' = Scrub(kv, P.free)
                /\ req' = Replaced(req, r, q)
                /\ UNCHANGED <<batch, budget>>
             \/ /\ n > 0
                /\ Reserve(r, q, n, P)
  BY DEF ConsiderRunning, Replaced
<1>7. PICK V \in Victims(pool, Shortfall(pool, p, Want(p))) :
          LET P == EvictUnused(pool, V)
              m == MaxAllocatable(P, p, Want(p))
              fits == p.drafts = 0 \/ m = 1 + p.drafts
              q == IF fits THEN p ELSE StripSpecDrafts(p)
              n == IF fits THEN m ELSE Lesser(m, 1)
          IN \/ /\ n = 0
                /\ pool' = P
                /\ kv' = Scrub(kv, P.free)
                /\ req' = Replaced(req, r, q)
                /\ UNCHANGED <<batch, budget>>
             \/ /\ n > 0
                /\ Reserve(r, q, n, P)
  BY <1>6
<1> DEFINE P == EvictUnused(pool, V)
           m == MaxAllocatable(P, p, Want(p))
           fits == p.drafts = 0 \/ m = 1 + p.drafts
           q == IF fits THEN p ELSE StripSpecDrafts(p)
           n == IF fits THEN m ELSE Lesser(m, 1)
<1>8. \/ n = 0 /\ pool' = P /\ kv' = Scrub(kv, P.free) /\ req' = Replaced(req, r, q)
         /\ UNCHANGED <<batch, budget>>
      \/ n > 0 /\ Reserve(r, q, n, P)
  BY <1>7
<1> HIDE DEF r
<1>9. /\ p \in RequestType /\ p.table = req[r].table /\ p.computed = req[r].computed
      /\ p.status = "running" /\ p.drafts \in Nat
      /\ (p.drafts > 0 => Drafting(p)) /\ Good(kv, weights, p)
  <2>1. p \in Drafted(req[r])
    BY <1>6
  <2>2. Good(kv, weights, p)
    BY <1>3, <1>5, <2>1, DraftedGood
  <2> QED
    BY <1>3, <1>5, <2>1, <2>2, DraftedFacts DEF Drafting
<1>10. Sound(P, req) /\ P \in PoolOf(Seq(Tokens)) /\ P.cache \subseteq pool.cache
  <2>1. P.cache \subseteq pool.cache
    BY DEF EvictUnused, Decref, Caching
  <2> QED
    BY <1>1, <2>1, SoundEvict, SoundFacts
<1> HIDE DEF P
<1>11. m \in Nat
  BY <1>3, <1>9, <1>10, AllocatableFacts
<1>12. m > 0 => p.computed + m <= Len(p.tokens)
  <2> DEFINE x == m
  <2>1. x \in Nat /\ x <= MaxAllocatable(P, p, Want(p))
    BY <1>11
  <2> HIDE DEF x
  <2>2. x > 0 => p.computed + x <= Len(p.tokens)
    BY <1>3, <1>9, <1>10, <2>1, AllocatedTokens
  <2> QED
    BY <2>2 DEF x
<1> HIDE DEF m
<1>13. /\ n \in Nat /\ q \in RequestType /\ q.table = req[r].table
       /\ q.computed = req[r].computed /\ Good(kv, weights, q) /\ q.status = "running"
       /\ n > 0 => q.computed + n <= Len(q.tokens)
       /\ n > 0 /\ q.drafts > 0 => n = 1 + q.drafts
  <2>1. CASE fits
    BY <1>9, <1>11, <1>12, <2>1
  <2>2. CASE ~fits
    <3>1. Drafting(p) /\ q = StripSpecDrafts(p) /\ n = Lesser(m, 1)
      BY <1>9, <2>2
    <3>2. n \in Nat /\ n <= 1
      BY <1>11, <3>1 DEF Lesser
    <3> HIDE DEF q, n
    <3>3. /\ q \in RequestType /\ Good(kv, weights, q) /\ q.drafts = 0
          /\ q.computed = p.computed /\ q.table = p.table /\ q.status = "running"
          /\ q.computed + 1 <= Len(q.tokens)
      BY <1>9, <3>1, StrippedGood
    <3>4. n > 0 => n = 1
      BY <3>2
    <3> QED
      BY <1>9, <3>2, <3>3, <3>4
  <2> QED
    BY <2>1, <2>2
<1> HIDE DEF n, q
<1>14. CASE n = 0
  <2>1. /\ pool' = P /\ kv' = Scrub(kv, P.free) /\ req' = Replaced(req, r, q) /\ batch' = batch
    BY <1>8, <1>14
  <2>2. Members(todo') \subseteq Members(todo)
    BY <1>4
  <2> QED
    BY <1>2, <1>4, <1>10, <1>13, <2>1, <2>2, PassedOverKV
<1>15. CASE n # 0
  <2>1. n > 0 /\ Reserve(r, q, n, P)
    BY <1>8, <1>13, <1>15
  <2>2. Sound(P, Replaced(req, r, q))
    <3>1. q.computed >= req[r].computed
      BY <1>13 DEF RequestType
    <3> QED
      BY <1>4, <1>10, <1>13, <3>1, SoundSame
  <2>3. PrefixCaching => Chained(q)
    BY <1>13 DEF Good
  <2>4. Members(todo') \subseteq Members(todo) \ {r}
    BY <1>4
  <2> QED
    BY <1>2, <1>4, <1>10, <1>13, <2>1, <2>2, <2>3, <2>4, ReserveKV
<1> QED
  BY <1>14, <1>15

\* A waiting request with what it may have found in the prefix cache.
LEMMA ReattachKV ==
  ASSUME IInv, KVInv, NEW r \in Requests, req[r].status = "waiting",
         NEW a \in (IF Reattaches(req[r]) THEN Attachments(pool, req[r]) ELSE {<< >>}), NEW q,
         q = (IF Reattaches(req[r]) THEN Attached(req[r], a) ELSE req[r])
  PROVE  Good(kv, weights, q) /\ q.drafts = 0 /\ (PrefixCaching => Chained(q))
<1>1. /\ req[r] \in RequestType /\ Good(kv, weights, req[r])
      /\ \A e \in pool.cache : Backed(kv, weights, e)
  BY Parts, SoundFacts DEF KVInv, Content, LiveStates
<1>2. req[r].drafts = 0
  BY <1>1 DEF Good
<1>3. CASE Reattaches(req[r])
  <2>1. a \in Attachments(pool, req[r]) /\ q = Attached(req[r], a) /\ PrefixCaching
    BY <1>3 DEF Reattaches
  <2>2. /\ Computes(kv, weights, q, Len(a) * BlockSize)
        /\ Len(a) * BlockSize <= Len(req[r].tokens) /\ Chained(q)
    BY <1>1, <2>1, AttachedComputes
  <2>3. /\ q.computed = Len(a) * BlockSize /\ q.tokens = req[r].tokens
        /\ q.drafts = 0 /\ q.status = "waiting"
    BY <1>1, <1>2, <2>1, AttachedFacts
  <2> QED
    BY <2>2, <2>3 DEF Good
<1>4. CASE ~Reattaches(req[r])
  <2>1. q = req[r]
    BY <1>4
  <2>2. PrefixCaching => req[r].table # << >>
    <3> SUFFICES ASSUME PrefixCaching, req[r].table = << >>
                 PROVE  FALSE
      OBVIOUS
    <3>1. req[r].computed # 0 /\ req[r].computed \in Nat
      BY <1>1, <1>4 DEF Reattaches, RequestType
    <3>2. BlocksNeededFor(req[r].computed) <= Len(req[r].table)
      BY <1>1, <3>1, ComputesLength DEF Good
    <3>3. Len(req[r].table) = 0
      BY EmptySeq
    <3> QED
      BY <3>1, <3>2, <3>3, NeededFor
  <2> QED
    BY <1>1, <1>2, <2>1, <2>2 DEF Good
<1> QED
  BY <1>3, <1>4

LEMMA ConsiderWaitingKV ==
  ASSUME IInv, IInv', KVInv, ConsiderWaiting, UNCHANGED engineVars
  PROVE  KVInv'
<1> DEFINE r == Head(waiting)
           again == Reattaches(req[r])
<1>1. OtherTypes /\ Sound(pool, req) /\ StepOK /\ QueuesOK
  BY Parts
<1>2. pc = "pass" /\ todo = << >> /\ waiting # << >> /\ todo' = todo /\ pc' = pc
  BY DEF ConsiderWaiting
<1>3. waiting \in Seq(Requests) /\ budget \in Nat /\ req \in [Requests -> RequestType]
  BY <1>1, SoundFacts DEF OtherTypes
<1>4. /\ r \in Requests /\ req[r].status = "waiting"
  BY <1>1, <1>2, <1>3, NonemptyQueue DEF QueuesOK
<1>5. r \notin Members(batch)
  BY <1>1, <1>2, <1>4 DEF StepOK
<1>6. IsInjective(todo') /\ Members(todo') \subseteq Members(todo) \ {r}
      /\ Members(todo') \subseteq Members(todo)
  BY <1>2, EmptyQueue
<1>7. PICK a \in IF again THEN Attachments(pool, req[r]) ELSE {<< >>} :
        LET q == IF again THEN Attached(req[r], a) ELSE req[r]
            PA == AttachPool(pool, a)
        IN
        \E V \in Victims(PA, Shortfall(PA, q, Want(q))) :
          LET P == EvictUnused(PA, V)
              n == MaxAllocatable(P, q, Want(q))
              Detach == Deallocate(P, a)
          IN \/ /\ n = 0
                /\ pool' = Detach
                /\ kv' = Scrub(kv, Detach.free)
                /\ req' = [req EXCEPT ![r] = IF a # << >> THEN Cold(q) ELSE q]
                /\ deferred' = Append(deferred, r)
                /\ UNCHANGED <<running, batch, budget>>
             \/ /\ n > 0
                /\ Reserve(r, q, n, P)
                /\ running' = Append(running, r)
                /\ UNCHANGED deferred
  BY DEF ConsiderWaiting
<1> DEFINE q == IF again THEN Attached(req[r], a) ELSE req[r]
           PA == AttachPool(pool, a)
           w == IF a # << >> THEN Cold(q) ELSE q
<1>8. PICK V \in Victims(PA, Shortfall(PA, q, Want(q))) :
        LET P == EvictUnused(PA, V)
            n == MaxAllocatable(P, q, Want(q))
        IN \/ /\ n = 0
              /\ pool' = Deallocate(P, a)
              /\ kv' = Scrub(kv, Deallocate(P, a).free)
              /\ req' = Replaced(req, r, w)
              /\ batch' = batch
           \/ n > 0 /\ Reserve(r, q, n, P)
  BY <1>7 DEF Replaced
<1> DEFINE P == EvictUnused(PA, V)
           n == MaxAllocatable(P, q, Want(q))
<1>9. \/ /\ n = 0
         /\ pool' = Deallocate(P, a) /\ kv' = Scrub(kv, Deallocate(P, a).free)
         /\ req' = Replaced(req, r, w) /\ batch' = batch
      \/ n > 0 /\ Reserve(r, q, n, P)
  BY <1>8
<1>10. /\ q \in RequestType /\ q.status = "waiting"
       /\ Sound(PA, Replaced(req, r, q))
       /\ Good(kv, weights, q) /\ q.drafts = 0 /\ (PrefixCaching => Chained(q))
  <2> HIDE DEF r, q
  <2>1. q = (IF Reattaches(req[r]) THEN Attached(req[r], a) ELSE req[r])
    BY DEF q
  <2> QED
    BY <1>4, <1>7, <2>1, ReattachFacts, ReattachKV
<1>11. PA.cache = pool.cache
  BY DEF AttachPool, Incref
<1> HIDE DEF r, q, PA
<1>12. /\ Sound(P, Replaced(req, r, q)) /\ P \in PoolOf(Seq(Tokens))
       /\ P.cache \subseteq pool.cache
  <2>1. P.cache \subseteq PA.cache
    BY DEF EvictUnused, Decref, Caching
  <2> QED
    BY <1>8, <1>10, <1>11, <2>1, SoundEvict, SoundFacts
<1> HIDE DEF P
<1>13. n \in Nat
  BY <1>3, <1>10, <1>12, AllocatableFacts
<1>14. n > 0 => q.computed + n <= Len(q.tokens)
  <2> DEFINE x == n
  <2>1. x \in Nat /\ x <= MaxAllocatable(P, q, Want(q))
    BY <1>13
  <2> HIDE DEF x
  <2>2. x > 0 => q.computed + x <= Len(q.tokens)
    BY <1>3, <1>10, <1>12, <2>1, AllocatedTokens
  <2> QED
    BY <2>2 DEF x
<1> HIDE DEF n
<1>15. CASE n = 0
  <2>1. /\ pool' = Deallocate(P, a) /\ kv' = Scrub(kv, Deallocate(P, a).free)
        /\ req' = Replaced(req, r, w) /\ batch' = batch
    BY <1>9, <1>15
  <2>2. w \in RequestType /\ Good(kv, weights, w)
    <3>1. CASE a = << >>
      BY <1>10, <3>1
    <3>2. CASE a # << >>
      <4>1. /\ Cold(q) \in RequestType /\ Cold(q).table = << >> /\ Cold(q).computed = 0
            /\ Cold(q).drafts = 0 /\ Cold(q).status # "running"
        BY <1>10, ColdFacts
      <4> QED
        BY <3>2, <4>1, GoodCold
    <3> QED
      BY <3>1, <3>2
  <2>3. pool'.cache \subseteq pool.cache /\ kv' = Scrub(kv, pool'.free)
    BY <1>12, <2>1 DEF Deallocate, Decref
  <2> HIDE DEF w
  <2> QED
    BY <1>2, <1>4, <1>5, <1>6, <2>1, <2>2, <2>3, PassedOverKV
<1>16. CASE n # 0
  <2>1. n > 0 /\ Reserve(r, q, n, P)
    BY <1>9, <1>13, <1>16
  <2>2. ~(q.drafts > 0)
    BY <1>10
  <2> QED
    BY <1>2, <1>4, <1>6, <1>10, <1>12, <1>13, <1>14, <2>1, <2>2, ReserveKV
<1> QED
  BY <1>15, <1>16

(***************************************************************************)
(* The theorems.                                                           *)
(***************************************************************************)
LEMMA NextKV ==
  ASSUME OrderlyResets
  PROVE  EngineInv /\ [Next]_vars => EngineInv'
<1> SUFFICES ASSUME IInv, KVInv, [Next]_vars
             PROVE  KVInv'
  BY NextInvariant DEF EngineInv
<1>1. IInv'
  BY NextInvariant
<1>2. ~WakeWhenAwake /\ (~PrefixCaching \/ ~UpdateMayFail)
  BY DEF OrderlyResets
<1>3. CASE UNCHANGED vars
  <2>1. UNCHANGED <<pool, kv, req, waiting, running, todo, batch, pc, weights, asleep>>
    BY <1>3 DEF vars, poolVars, schedVars, stepVars
  <2>2. Content(pool, req, kv, weights) /\ BatchPlaced /\ TodoOK /\ WrittenOK /\ AsleepOK
    BY DEF KVInv
  <2>3. Content(pool', req', kv', weights')
    BY <2>1, <2>2
  <2> QED
    BY <1>1, <2>1, <2>2, <2>3 DEF KVInv, BatchPlaced, TodoOK, WrittenOK, AsleepOK
<1>4. ASSUME NEW r \in Requests, NEW m \in MaxTokens, NEW h \in Holds,
             NEW p \in TokenLists(PromptLengths), AddRequest(r, p, m, h)
      PROVE  KVInv'
  BY <1>4, AddRequestKV
<1>5. ASSUME NEW r \in Requests, NEW m \in MaxTokens, NEW h \in Holds,
             NEW s \in TokenLists(SuffixLengths), ResumeRequest(r, s, m, h)
      PROVE  KVInv'
  BY <1>5, ResumeRequestKV
<1>6. ASSUME NEW r \in Requests, FinishRequest(r)
      PROVE  KVInv'
  BY <1>1, <1>6, FinishRequestKV
<1>7. CASE AbortGeneration
  BY <1>1, <1>7, AbortGenerationKV
<1>8. CASE Step
  <2>1. CASE StartStep
    BY <2>1, StartStepKV
  <2>2. CASE Schedule
    <3>1. UNCHANGED engineVars
      BY <2>2 DEF Schedule
    <3> QED
      BY <1>1, <2>2, <3>1, ConsiderRunningKV, ConsiderWaitingKV, ReturnBatchKV, PreemptKV,
         GiveUpKV DEF Schedule
  <2>3. CASE RunLogits \/ RunForward
    BY <2>3, ForwardKV
  <2>4. CASE VerifySpec
    BY <1>1, <2>4, VerifySpecKV
  <2>5. CASE Postprocess
    BY <1>1, <2>5, PostprocessKV
  <2>6. CASE Return
    BY <2>6, ReturnKV
  <2> QED
    BY <1>8, <2>1, <2>2, <2>3, <2>4, <2>5, <2>6 DEF Step
<1>9. CASE ForwardFails
  BY <1>9, ForwardFailsKV
<1>10. CASE UpdateWeights
  BY <1>2, <1>10, UpdateWeightsKV
<1>11. CASE Sleep
  BY <1>11, SleepKV
<1>12. CASE WakeUp
  BY <1>2, <1>12, WakeUpKV
<1>13. CASE ResetPrefixCache
  BY <1>1, <1>13, ResetPrefixCacheKV
<1> QED
  BY <1>1, <1>3, <1>4, <1>5, <1>6, <1>7, <1>8, <1>9, <1>10, <1>11, <1>12, <1>13 DEF Next

\* With orderly resets the whole invariant of the engine holds in every state,
\* in the middle of a step too, and with forwards that raise.
THEOREM EngineInvariance ==
  ASSUME OrderlyResets
  PROVE  Spec => []EngineInv
<1>1. Init => EngineInv
  BY InitInvariant, InitKV DEF EngineInv
<1>2. EngineInv /\ [Next]_vars => EngineInv'
  BY NextKV
<1> QED
  BY <1>1, <1>2, PTL DEF Spec

\* The KV that a live request counts as computed is that of its own tokens
\* under the weights on the device.
THEOREM KVIsSound ==
  ASSUME OrderlyResets
  PROVE  Spec => []KVSound
<1>1. EngineInv => KVSound
  BY DEF EngineInv, KVInv, Content, Good, Computes, KVSound, Live, LiveStates
<1> QED
  BY <1>1, EngineInvariance, PTL

\* A cached copy holds the KV of the tokens it is found by.
THEOREM CacheIsSound ==
  ASSUME OrderlyResets
  PROVE  Spec => []CacheSound
<1>1. EngineInv => CacheSound
  BY DEF EngineInv, KVInv, Content, Backed, CacheSound
<1> QED
  BY <1>1, EngineInvariance, PTL

(***************************************************************************)
(* What the protocol sees of a request.                                    *)
(***************************************************************************)
LEMMA PhaseFacts ==
  ASSUME NEW q \in RequestType
  PROVE  /\ q.status = "absent" <=> PhaseOf(q) = "new"
         /\ q.status \in {"waiting", "running"} <=> PhaseOf(q) = "open"
         /\ q.status = "paused" <=> PhaseOf(q) = "held"
         /\ q.status = "finished" <=> PhaseOf(q) = "closed"
         /\ q.status = "gone" <=> PhaseOf(q) = "gone"
<1>1. CASE q.status = "absent"
  BY <1>1 DEF PhaseOf
<1>2. CASE q.status \in {"waiting", "running"}
  BY <1>2 DEF PhaseOf
<1>3. CASE q.status = "paused"
  BY <1>3 DEF PhaseOf
<1>4. CASE q.status = "finished"
  BY <1>4 DEF PhaseOf
<1>5. CASE q.status = "gone"
  BY <1>5 DEF PhaseOf
<1> QED
  BY <1>1, <1>2, <1>3, <1>4, <1>5 DEF RequestType

\* The history is token_ids without the drafts, and the output counts it.
LEMMA HistoryOf ==
  ASSUME NEW q \in RequestType, q.drafts <= Len(q.tokens)
  PROVE  /\ CommittedTokens(q) \in Seq(Tokens)
         /\ Len(CommittedTokens(q)) = Len(q.tokens) - q.drafts
         /\ NumOut(q) = Len(CommittedTokens(q)) - q.nPrompt /\ NumOut(q) \in Int
         /\ q.drafts = 0 => CommittedTokens(q) = q.tokens
<1>1. q.tokens \in Seq(Tokens) /\ q.nPrompt \in Nat
  BY DEF RequestType
<1>2. PICK d \in Nat : d = q.drafts
  BY DEF RequestType
<1>3. PICK l \in Nat : l = Len(q.tokens)
  BY <1>1, LenProperties
<1>4. PICK n \in Nat : n = l - d /\ n <= l
  BY <1>2, <1>3
<1> DEFINE s == SubSeq(q.tokens, 1, n)
<1>5. s \in Seq(Tokens) /\ Len(s) = n /\ \A i \in 1..n : s[i] = q.tokens[i]
  <2>1. n \in Nat /\ 1 <= n + 1 /\ n <= Len(q.tokens) /\ 1 \in Nat \ {0}
    BY <1>3, <1>4
  <2> QED
    BY <1>1, <2>1, SubSeqFacts
<1>6. CommittedTokens(q) = s
  BY <1>2, <1>3, <1>4 DEF CommittedTokens
<1>7. d = 0 => s = q.tokens
  <2> SUFFICES ASSUME d = 0
               PROVE  s = q.tokens
    OBVIOUS
  <2>1. n = l
    BY <1>2, <1>3, <1>4
  <2> HIDE DEF s
  <2> QED
    BY <1>1, <1>3, <1>5, <2>1, SeqEqual
<1> HIDE DEF s
<1>8. NumOut(q) = n - q.nPrompt
  BY <1>2, <1>3, <1>4 DEF NumOut
<1> QED
  BY <1>1, <1>2, <1>3, <1>4, <1>5, <1>6, <1>7, <1>8

\* The limits of a turn change only with the turn.
SameLimits(q, u) == u.nPrompt = q.nPrompt /\ u.maxNew = q.maxNew

LEMMA LimitsKept ==
  ASSUME NEW q \in RequestType
  PROVE  /\ SameLimits(q, Cold(q)) /\ SameLimits(q, StripSpecDrafts(q))
         /\ SameLimits(q, Published(q)) /\ SameLimits(q, Advanced(q))
         /\ \A d : SameLimits(q, WithDrafts(q, d))
         /\ \A a : SameLimits(q, Attached(q, a))
         /\ \A e : SameLimits(q, CommitSpec(q, e))
         /\ \A t : SameLimits(q, Sampled(q, t))
         /\ \A t, n : SameLimits(q, Scheduled(q, t, n))
         /\ \A o, t : SameLimits(q, [q EXCEPT !.status = o, !.table = t])
         /\ \A o : SameLimits(q, [q EXCEPT !.status = o])
  BY DEF SameLimits, RequestType, Cold, ResetKvState, StripSpecDrafts, Published, Advanced,
         WithDrafts, Attached, CommitSpec, Truncated, Sampled, Scheduled

\* u looks to the protocol like q.
SameTurn(q, u) ==
  PhaseOf(u) = PhaseOf(q) /\ CommittedTokens(u) = CommittedTokens(q) /\ QuotaOf(u) = QuotaOf(q)

LEMMA TurnKept ==
  ASSUME NEW q \in RequestType, NEW u \in RequestType, q.drafts <= Len(q.tokens),
         u.drafts <= Len(u.tokens), PhaseOf(u) = PhaseOf(q),
         CommittedTokens(u) = CommittedTokens(q), SameLimits(q, u)
  PROVE  /\ SameTurn(q, u)
         /\ NumOut(u) = NumOut(q) /\ u.maxNew = q.maxNew
<1>1. NumOut(u) = NumOut(q) /\ u.maxNew = q.maxNew
  BY HistoryOf DEF SameLimits
<1> QED
  BY <1>1 DEF SameTurn, QuotaOf, Room

LEMMA Stutters ==
  ASSUME \A r \in Requests : SameTurn(req[r], req'[r])
  PROVE  UNCHANGED <<Phase, History, Quota>>
  BY DEF SameTurn, Phase, History, Quota

LEMMA ReplacedTurn ==
  ASSUME req \in [Requests -> RequestType], NEW r \in Requests, NEW w \in RequestType,
         req' = Replaced(req, r, w)
  PROVE  /\ Phase' = [Phase EXCEPT ![r] = PhaseOf(w)] /\ Phase[r] = PhaseOf(req[r])
         /\ History' = [History EXCEPT ![r] = CommittedTokens(w)]
         /\ History[r] = CommittedTokens(req[r])
         /\ Quota' = [Quota EXCEPT ![r] = QuotaOf(w)] /\ Quota[r] = QuotaOf(req[r])
         /\ SameTurn(req[r], w) => UNCHANGED <<Phase, History, Quota>>
<1>1. req'[r] = w /\ \A x \in Requests : x # r => req'[x] = req[x]
  BY ReplacedFacts
<1>2. SameTurn(req[r], w) => UNCHANGED <<Phase, History, Quota>>
  BY <1>1, Stutters DEF SameTurn
<1> QED
  BY <1>1, <1>2 DEF Phase, History, Quota

\* Steps of the protocol, seen from the engine.
LEMMA OpensTurn ==
  ASSUME req \in [Requests -> RequestType], NEW r \in Requests, NEW w \in RequestType,
         req' = Replaced(req, r, w), PhaseOf(w) = "open", PhaseOf(req[r]) \in {"new", "held"},
         NEW k, k \in (IF PhaseOf(req[r]) = "new" THEN PromptLengths ELSE SuffixLengths),
         NEW p \in [1..k -> Tokens], CommittedTokens(w) = CommittedTokens(req[r]) \o p,
         NEW m \in MaxTokens, QuotaOf(w) = m
  PROVE  Turn!Next
<1>1. /\ Phase' = [Phase EXCEPT ![r] = PhaseOf(w)] /\ Phase[r] = PhaseOf(req[r])
      /\ History' = [History EXCEPT ![r] = CommittedTokens(w)]
      /\ History[r] = CommittedTokens(req[r])
      /\ Quota' = [Quota EXCEPT ![r] = QuotaOf(w)] /\ Quota[r] = QuotaOf(req[r])
  BY ReplacedTurn
<1>2. k \in (IF Phase[r] = "new" THEN PromptLengths ELSE SuffixLengths)
  BY <1>1
<1>3. /\ Phase' = [Phase EXCEPT ![r] = "open"] /\ Phase[r] \in {"new", "held"}
      /\ History' = [History EXCEPT ![r] = @ \o p]
      /\ Quota' = [Quota EXCEPT ![r] = m]
  BY <1>1
<1>4. Turn!OpenTurn(r)
  BY <1>2, <1>3 DEF Turn!OpenTurn
<1> QED
  BY <1>4 DEF Turn!Next

LEMMA EmitsTokens ==
  ASSUME req \in [Requests -> RequestType], NEW r \in Requests, NEW w \in RequestType,
         req' = Replaced(req, r, w), PhaseOf(req[r]) = "open",
         NEW k \in 1..NumSpec + 1, k <= QuotaOf(req[r]),
         NEW e \in [1..k -> Tokens], CommittedTokens(w) = CommittedTokens(req[r]) \o e,
         \/ k < QuotaOf(req[r]) /\ QuotaOf(w) = QuotaOf(req[r]) - k /\ PhaseOf(w) = "open"
         \/ QuotaOf(w) = 0 /\ PhaseOf(w) \in {"held", "closed"}
  PROVE  Turn!Next
<1>1. /\ Phase' = [Phase EXCEPT ![r] = PhaseOf(w)] /\ Phase[r] = PhaseOf(req[r])
      /\ History' = [History EXCEPT ![r] = CommittedTokens(w)]
      /\ History[r] = CommittedTokens(req[r])
      /\ Quota' = [Quota EXCEPT ![r] = QuotaOf(w)] /\ Quota[r] = QuotaOf(req[r])
  BY ReplacedTurn
<1>2. PhaseOf(w) = "open" => Phase' = Phase
  BY <1>1 DEF Phase
<1>3. Turn!Emit(r)
  BY <1>1, <1>2 DEF Turn!Emit
<1> QED
  BY <1>3 DEF Turn!Next

LEMMA ParksTurns ==
  ASSUME NEW S \in SUBSET Requests,
         \A r \in S : /\ PhaseOf(req[r]) \in {"open", "held"} /\ PhaseOf(req'[r]) = "held"
                      /\ CommittedTokens(req'[r]) = CommittedTokens(req[r]),
         \A r \in Requests \ S : SameTurn(req[r], req'[r])
  PROVE  Turn!Next
<1>1. /\ Phase' = [r \in Requests |-> IF r \in S THEN "held" ELSE Phase[r]]
      /\ Quota' = [r \in Requests |-> IF r \in S THEN 0 ELSE Quota[r]]
      /\ History' = History /\ \A r \in S : Phase[r] \in {"open", "held"}
  BY DEF SameTurn, QuotaOf, Phase, History, Quota
<1>2. Turn!Park(S)
  BY <1>1 DEF Turn!Park
<1> QED
  BY <1>2 DEF Turn!Next

LEMMA DropsTurns ==
  ASSUME NEW S \in SUBSET Requests,
         \A r \in S : /\ PhaseOf(req[r]) \in {"open", "held", "closed"}
                      /\ PhaseOf(req'[r]) = "gone" /\ CommittedTokens(req'[r]) = << >>,
         \A r \in Requests \ S : SameTurn(req[r], req'[r])
  PROVE  Turn!Next
<1>1. /\ Phase' = [r \in Requests |-> IF r \in S THEN "gone" ELSE Phase[r]]
      /\ Quota' = [r \in Requests |-> IF r \in S THEN 0 ELSE Quota[r]]
      /\ History' = [r \in Requests |-> IF r \in S THEN << >> ELSE History[r]]
      /\ \A r \in S : Phase[r] \in {"open", "held", "closed"}
  BY DEF SameTurn, QuotaOf, Phase, History, Quota
<1>2. Turn!Drop(S)
  BY <1>1 DEF Turn!Drop
<1> QED
  BY <1>2 DEF Turn!Next

(***************************************************************************)
(* The invariant, one request at a time.                                   *)
(***************************************************************************)
\* Outside a batch a request has no drafts and is not finished, whatever the
\* owner thread does.
LEMMA QuietTurn ==
  ASSUME NEW q \in RequestType, NEW g, NEW b, NEW at, TurnOK(q, g, b, at), ~b
  PROVE  /\ q.drafts = 0 /\ q.status # "finished"
         /\ \A b2, at2 : TurnOK(q, g, b2, at2)
<1>1. q.drafts \in Nat /\ NumSpec \in Nat
  BY NumSpecAssumption DEF RequestType
<1>2. q.drafts = 0 /\ q.status # "finished"
  BY <1>1 DEF TurnOK
<1> QED
  BY <1>1, <1>2 DEF TurnOK

LEMMA OneTurn ==
  ASSUME req \in [Requests -> RequestType], NEW r \in Requests, NEW w \in RequestType,
         req' = Replaced(req, r, w),
         TurnOK(w, r \in registry', r \in Members(batch'), pc'),
         \A x \in Requests : x # r =>
           TurnOK(req[x], x \in registry', x \in Members(batch'), pc')
  PROVE  TurnsInv'
<1>1. req'[r] = w /\ \A x \in Requests : x # r => req'[x] = req[x]
  BY ReplacedFacts
<1> QED
  BY <1>1 DEF TurnsInv

\* A state is quiet when no step is in progress.
LEMMA QuietState ==
  ASSUME IInv, TurnsInv, batch = << >>
  PROVE  /\ req \in [Requests -> RequestType]
         /\ \A r \in Requests : /\ req[r].drafts = 0 /\ req[r].status # "finished"
                                /\ \A b, at : TurnOK(req[r], r \in registry, b, at)
<1>1. req \in [Requests -> RequestType] /\ Members(batch) = {}
  BY Parts, SoundFacts, EmptyQueue
<1>2. ASSUME NEW r \in Requests
      PROVE  /\ req[r].drafts = 0 /\ req[r].status # "finished"
             /\ \A b, at : TurnOK(req[r], r \in registry, b, at)
  <2>1. /\ req[r] \in RequestType /\ r \notin Members(batch)
        /\ TurnOK(req[r], r \in registry, r \in Members(batch), pc)
    BY <1>1 DEF TurnsInv
  <2>2. TurnOK(req[r], r \in registry, FALSE, pc)
    BY <2>1 DEF TurnOK
  <2> HIDE DEF TurnOK
  <2> QED
    BY <2>1, <2>2, QuietTurn
<1> QED
  BY <1>1, <1>2

LEMMA SameRequests ==
  ASSUME req' = req, req \in [Requests -> RequestType]
  PROVE  UNCHANGED <<Phase, History, Quota>>
  BY DEF Phase, History, Quota

(***************************************************************************)
(* The operations between steps.                                           *)
(***************************************************************************)
LEMMA InitTurns == Init => TurnsInv /\ Turn!Init
<1> SUFFICES ASSUME Init
             PROVE  TurnsInv /\ Turn!Init
  OBVIOUS
<1>1. /\ req = [r \in Requests |-> NoRequest] /\ registry = {}
  BY DEF Init
<1>2. /\ NoRequest \in RequestType /\ NoRequest.status = "absent" /\ NoRequest.drafts = 0
      /\ NoRequest.tokens = << >>
  BY EmptySeq DEF NoRequest, RequestType, ROOT_HASH
<1> HIDE DEF NoRequest
<1>3. TurnsInv
  BY <1>1, <1>2, NumSpecAssumption DEF TurnsInv, TurnOK
<1>4. PhaseOf(NoRequest) = "new" /\ QuotaOf(NoRequest) = 0 /\ CommittedTokens(NoRequest) = << >>
  <2>1. NoRequest.drafts <= Len(NoRequest.tokens)
    BY <1>2, EmptySeq
  <2> QED
    BY <1>2, <2>1, PhaseFacts, HistoryOf DEF QuotaOf
<1>5. Turn!Init
  BY <1>1, <1>4 DEF Turn!Init, Phase, History, Quota
<1> QED
  BY <1>3, <1>5

\* A turn that opens has its whole quota ahead of it.
LEMMA OpenedTurn ==
  ASSUME NEW w \in RequestType, w.drafts = 0, w.nPrompt = Len(w.tokens), w.maxNew > 0,
         w.status \in {"waiting", "running"}
  PROVE  /\ PhaseOf(w) = "open" /\ CommittedTokens(w) = w.tokens /\ QuotaOf(w) = w.maxNew
         /\ \A b, at : TurnOK(w, TRUE, b, at)
<1>1. w.drafts <= Len(w.tokens) /\ Len(w.tokens) \in Nat /\ w.maxNew \in Nat
  BY LenProperties DEF RequestType
<1>2. CommittedTokens(w) = w.tokens /\ NumOut(w) = 0
  BY <1>1, HistoryOf
<1>3. PhaseOf(w) = "open"
  BY PhaseFacts
<1>4. Room(w) = w.maxNew
  BY <1>1, <1>2 DEF Room, Greater
<1> QED
  BY <1>1, <1>2, <1>3, <1>4, NumSpecAssumption DEF QuotaOf, TurnOK

LEMMA AddRequestTurn ==
  ASSUME IInv, TurnsInv, NEW r \in Requests, NEW p \in TokenLists(PromptLengths), NEW m \in MaxTokens,
         NEW h \in Holds, AddRequest(r, p, m, h)
  PROVE  TurnsInv' /\ Turn!Next
<1> DEFINE q == [NoRequest EXCEPT !.status = "waiting", !.tokens = p, !.nPrompt = Len(p),
                                  !.maxNew = m, !.hold = h]
<1>1. batch = << >> /\ batch' = << >> /\ pc' = "idle" /\ req[r].status = "absent"
      /\ registry' = registry \union {r}
  BY Parts DEF StepOK, AddRequest, stepVars
<1>2. /\ req \in [Requests -> RequestType]
      /\ \A x \in Requests : \A b, at : TurnOK(req[x], x \in registry, b, at)
  BY <1>1, QuietState
<1>3. PICK k \in PromptLengths : p \in [1..k -> Tokens]
  BY DEF TokenLists
<1>4. p \in Seq(Tokens) /\ Len(p) \in Nat /\ m \in Nat /\ m > 0 /\ h \in BOOLEAN
  BY <1>3, InputsAssumption, LenProperties
<1>5. /\ q \in RequestType /\ q.status = "waiting" /\ q.drafts = 0 /\ q.tokens = p
      /\ q.nPrompt = Len(p) /\ q.maxNew = m
  BY <1>4, EmptySeq DEF NoRequest, RequestType, ROOT_HASH
<1>6. PICK a \in IF PrefixCaching THEN Attachments(pool, q) ELSE {<< >>} :
        req' = [req EXCEPT ![r] = Attached(q, a)]
  BY DEF AddRequest
<1> HIDE DEF q
<1> DEFINE w == Attached(q, a)
<1>7. /\ w \in RequestType /\ w.drafts = 0 /\ w.status = "waiting" /\ w.tokens = p
      /\ w.nPrompt = Len(p) /\ w.maxNew = m
  <2>1. SameLimits(q, w)
    BY <1>5, LimitsKept
  <2> QED
    BY <1>5, <1>6, <2>1, AttachedNone, AttachedFacts DEF SameLimits
<1>8. req' = Replaced(req, r, w)
  BY <1>6 DEF Replaced
<1> HIDE DEF w
<1>9. /\ PhaseOf(w) = "open" /\ CommittedTokens(w) = p /\ QuotaOf(w) = m
      /\ \A b, at : TurnOK(w, TRUE, b, at)
  BY <1>4, <1>7, OpenedTurn
<1>10. PhaseOf(req[r]) = "new" /\ CommittedTokens(req[r]) = << >>
  <2>1. req[r].tokens = << >> /\ req[r].drafts = 0
    BY <1>1, <1>2 DEF TurnOK
  <2>2. req[r].drafts <= Len(req[r].tokens)
    BY <2>1, EmptySeq
  <2> QED
    BY <1>1, <1>2, <2>1, <2>2, PhaseFacts, HistoryOf
<1>11. TurnsInv'
  <2>1. \A x \in Requests : x # r => TurnOK(req[x], x \in registry', x \in Members(batch'), pc')
    BY <1>1, <1>2
  <2> QED
    BY <1>1, <1>2, <1>7, <1>8, <1>9, <2>1, OneTurn
<1>12. CommittedTokens(w) = CommittedTokens(req[r]) \o p
  <2>1. << >> \o p = p
    BY <1>4, ConcatEmptySeq
  <2> QED
    BY <1>9, <1>10, <2>1
<1> QED
  BY <1>2, <1>3, <1>7, <1>8, <1>9, <1>10, <1>11, <1>12, OpensTurn

LEMMA ResumeRequestTurn ==
  ASSUME IInv, TurnsInv, NEW r \in Requests, NEW s \in TokenLists(SuffixLengths), NEW m \in MaxTokens,
         NEW h \in Holds, ResumeRequest(r, s, m, h)
  PROVE  TurnsInv' /\ Turn!Next
<1> DEFINE w == [req[r] EXCEPT !.status = "waiting", !.tokens = @ \o s,
                               !.nPrompt = Len(req[r].tokens) + Len(s), !.maxNew = m, !.hold = h]
<1>1. /\ batch = << >> /\ batch' = << >> /\ pc' = "idle" /\ req[r].status = "paused"
      /\ registry' = registry /\ r \in registry /\ req' = Replaced(req, r, w)
  BY Parts DEF StepOK, ResumeRequest, stepVars, engineVars, Replaced
<1>2. /\ req \in [Requests -> RequestType]
      /\ \A x \in Requests : \A b, at : TurnOK(req[x], x \in registry, b, at)
      /\ req[r].drafts = 0
  BY <1>1, QuietState
<1>3. PICK k \in SuffixLengths : s \in [1..k -> Tokens]
  BY DEF TokenLists
<1>4. s \in Seq(Tokens) /\ Len(s) \in Nat /\ m \in Nat /\ m > 0 /\ h \in BOOLEAN
  BY <1>3, InputsAssumption, LenProperties
<1>5. req[r].tokens \in Seq(Tokens) /\ Len(req[r].tokens) \in Nat /\ req[r] \in RequestType
  BY <1>2, LenProperties DEF RequestType
<1>6. /\ req[r].tokens \o s \in Seq(Tokens)
      /\ Len(req[r].tokens \o s) = Len(req[r].tokens) + Len(s)
      /\ Len(req[r].tokens) + Len(s) \in Nat
  BY <1>4, <1>5, ConcatProperties
<1>7. /\ w \in RequestType /\ w.drafts = 0 /\ w.status = "waiting"
      /\ w.tokens = req[r].tokens \o s /\ w.nPrompt = Len(req[r].tokens \o s) /\ w.maxNew = m
  BY <1>2, <1>4, <1>5, <1>6 DEF RequestType
<1> HIDE DEF w
<1>8. /\ PhaseOf(w) = "open" /\ CommittedTokens(w) = req[r].tokens \o s /\ QuotaOf(w) = m
      /\ \A b, at : TurnOK(w, TRUE, b, at)
  <2>1. w.nPrompt = Len(w.tokens) /\ w.maxNew > 0 /\ w.status \in {"waiting", "running"}
    BY <1>4, <1>7
  <2> QED
    BY <1>7, <2>1, OpenedTurn
<1>9. PhaseOf(req[r]) = "held" /\ CommittedTokens(req[r]) = req[r].tokens
  <2>1. req[r].drafts <= Len(req[r].tokens)
    BY <1>2, <1>5
  <2> QED
    BY <1>1, <1>2, <1>5, <2>1, PhaseFacts, HistoryOf
<1>10. TurnsInv'
  BY <1>1, <1>2, <1>7, <1>8, OneTurn
<1>11. k \in (IF PhaseOf(req[r]) = "new" THEN PromptLengths ELSE SuffixLengths)
  BY <1>3, <1>9
<1>12. /\ PhaseOf(req[r]) \in {"new", "held"}
       /\ CommittedTokens(w) = CommittedTokens(req[r]) \o s
  BY <1>8, <1>9
<1> QED
  BY <1>1, <1>2, <1>3, <1>7, <1>8, <1>10, <1>11, <1>12, OpensTurn

\* What is left of a request that has been dropped.
LEMMA GoneTurn ==
  /\ Gone \in RequestType /\ PhaseOf(Gone) = "gone" /\ CommittedTokens(Gone) = << >>
  /\ \A b, at : TurnOK(Gone, FALSE, b, at)
<1>1. /\ Gone \in RequestType /\ Gone.status = "gone" /\ Gone.drafts = 0 /\ Gone.tokens = << >>
  BY EmptySeq DEF Gone, NoRequest, RequestType, ROOT_HASH
<1> HIDE DEF Gone
<1>2. Gone.drafts <= Len(Gone.tokens)
  BY <1>1, EmptySeq
<1> QED
  BY <1>1, <1>2, PhaseFacts, HistoryOf, NumSpecAssumption DEF TurnOK

\* Requests that are released are dropped; the others do not notice.
LEMMA ReleasedTurns ==
  ASSUME IInv, TurnsInv, batch = << >>, NEW S \in SUBSET Requests, Release(S), epoch' = epoch,
         S \subseteq registry
  PROVE  TurnsInv' /\ Turn!Next
<1>1. /\ req \in [Requests -> RequestType]
      /\ \A r \in Requests : \A b, at : TurnOK(req[r], r \in registry, b, at)
      /\ \A r \in Requests : req[r].status # "finished"
  BY QuietState
<1>2. registry' = registry \ S /\ req' = [r \in Requests |-> IF r \in S THEN Gone ELSE req[r]]
  BY DEF Release
<1>3. /\ PhaseOf(Gone) = "gone" /\ CommittedTokens(Gone) = << >>
      /\ \A b, at : TurnOK(Gone, FALSE, b, at)
  BY GoneTurn
<1> HIDE DEF Gone
<1>4. TurnsInv'
  <2> SUFFICES ASSUME NEW r \in Requests
               PROVE  TurnOK(req'[r], r \in registry', r \in Members(batch'), pc')
    BY DEF TurnsInv
  <2>1. CASE r \in S
    <3>1. req'[r] = Gone /\ r \notin registry'
      BY <1>2, <2>1
    <3>2. TurnOK(Gone, FALSE, r \in Members(batch'), pc')
      BY <1>3
    <3> QED
      BY <3>1, <3>2 DEF TurnOK
  <2>2. CASE r \notin S
    <3>1. req'[r] = req[r] /\ (r \in registry' <=> r \in registry)
      BY <1>2, <2>2
    <3>2. (r \in registry') = (r \in registry)
      BY <3>1
    <3>3. TurnOK(req[r], r \in registry, r \in Members(batch'), pc')
      BY <1>1
    <3> QED
      BY <3>1, <3>3 DEF TurnOK
  <2> QED
    BY <2>1, <2>2
<1>5. ASSUME NEW r \in S
      PROVE  /\ PhaseOf(req[r]) \in {"open", "held", "closed"}
             /\ PhaseOf(req'[r]) = "gone" /\ CommittedTokens(req'[r]) = << >>
  <2>1. req[r].status \notin {"absent", "gone"} /\ req[r] \in RequestType
    <3>1. TurnOK(req[r], r \in registry, FALSE, pc) /\ r \in registry
      BY <1>1
    <3> QED
      BY <1>1, <3>1 DEF TurnOK
  <2>2. PhaseOf(req[r]) \in {"open", "held", "closed"}
    <3>1. req[r].status \in {"waiting", "running", "paused"}
      BY <1>1, <2>1 DEF RequestType
    <3> QED
      BY <2>1, <3>1, PhaseFacts
  <2> QED
    BY <1>2, <1>3, <2>2
<1>6. \A r \in Requests \ S : SameTurn(req[r], req'[r])
  BY <1>2 DEF SameTurn
<1> QED
  BY <1>4, <1>5, <1>6, DropsTurns

LEMMA FinishRequestTurn ==
  ASSUME IInv, TurnsInv, NEW r \in Requests, FinishRequest(r)
  PROVE  TurnsInv' /\ Turn!Next
<1>1. batch = << >> /\ Release({r}) /\ epoch' = epoch /\ r \in registry
  BY Parts DEF StepOK, FinishRequest
<1> QED
  BY <1>1, ReleasedTurns

LEMMA AbortGenerationTurn ==
  ASSUME IInv, TurnsInv, AbortGeneration
  PROVE  TurnsInv' /\ Turn!Next
<1> DEFINE S == Members(waiting) \union Members(running)
<1>1. batch = << >> /\ Release(S) /\ epoch' = epoch
  BY Parts DEF StepOK, AbortGeneration
<1>2. S \subseteq Requests /\ S \subseteq registry
  <2>1. Members(waiting) \subseteq Requests /\ Members(running) \subseteq Requests
    BY Parts, MembersType DEF OtherTypes
  <2> QED
    BY <2>1, Parts DEF QueuesOK
<1> HIDE DEF S
<1> QED
  BY <1>1, <1>2, ReleasedTurns

(***************************************************************************)
(* Operations that change no request.                                      *)
(***************************************************************************)
LEMMA QuietTurns ==
  ASSUME IInv, TurnsInv, batch = << >>, req' = req, registry' = registry
  PROVE  TurnsInv' /\ UNCHANGED <<Phase, History, Quota>>
<1>1. /\ req \in [Requests -> RequestType]
      /\ \A r \in Requests : \A b, at : TurnOK(req[r], r \in registry, b, at)
  BY QuietState
<1> QED
  BY <1>1, SameRequests DEF TurnsInv

LEMMA BetweenStepsTurns ==
  ASSUME IInv, TurnsInv, StartStep \/ WakeUp \/ ResetPrefixCache
  PROVE  TurnsInv' /\ UNCHANGED <<Phase, History, Quota>>
<1>1. pc = "idle" /\ req' = req /\ registry' = registry
  BY DEF StartStep, StartSchedule, WakeUp, ResetPrefixCache, schedVars, engineVars
<1>2. batch = << >>
  BY <1>1, Parts DEF StepOK
<1> QED
  BY <1>1, <1>2, QuietTurns

LEMMA GiveUpTurns ==
  ASSUME IInv, TurnsInv, GiveUp, UNCHANGED engineVars
  PROVE  TurnsInv' /\ UNCHANGED <<Phase, History, Quota>>
<1>1. batch = << >> /\ req' = req /\ registry' = registry
  BY DEF GiveUp, engineVars
<1> QED
  BY <1>1, QuietTurns

\* A batch with drafts is verified.
LEMMA DraftsAreSpec ==
  ASSUME NEW R \in [Requests -> RequestType], NEW r \in Members(batch), R[r].drafts > 0
  PROVE  SpecPositions(R) # {}
  BY DEF SpecPositions, Members

\* The step moves on to another phase, with the same requests.
LEMMA MovesOn ==
  ASSUME IInv, TurnsInv, req' = req, registry' = registry, batch' = batch,
         \A r \in Requests : TurnOK(req[r], r \in registry, r \in Members(batch), pc)
           => TurnOK(req[r], r \in registry, r \in Members(batch), pc')
  PROVE  TurnsInv' /\ UNCHANGED <<Phase, History, Quota>>
<1>1. req \in [Requests -> RequestType]
  BY Parts, SoundFacts
<1> QED
  BY <1>1, SameRequests DEF TurnsInv

LEMMA ReturnBatchTurns ==
  ASSUME IInv, TurnsInv, ReturnBatch, UNCHANGED engineVars
  PROVE  TurnsInv' /\ UNCHANGED <<Phase, History, Quota>>
<1>1. /\ pc = "pass" /\ batch' = batch /\ req' = req /\ registry' = registry
      /\ pc' = IF SpecPositions(req) # {} THEN "logits" ELSE "forward"
  BY DEF ReturnBatch, PassOver, engineVars
<1>2. req \in [Requests -> RequestType]
  BY Parts, SoundFacts
<1>3. ASSUME NEW r \in Requests, TurnOK(req[r], r \in registry, r \in Members(batch), pc)
      PROVE  TurnOK(req[r], r \in registry, r \in Members(batch), pc')
  <2>1. req[r].status # "finished"
    BY <1>1, <1>3 DEF TurnOK
  <2>2. req[r].drafts > 0 => pc' = "logits"
    <3>1. req[r].drafts > 0 => r \in Members(batch)
      BY <1>3 DEF TurnOK
    <3> QED
      BY <1>1, <1>2, <3>1, DraftsAreSpec
  <2> QED
    BY <1>3, <2>1, <2>2 DEF TurnOK
<1> QED
  BY <1>1, <1>3, MovesOn

LEMMA ForwardTurns ==
  ASSUME IInv, TurnsInv, RunLogits \/ RunForward
  PROVE  TurnsInv' /\ UNCHANGED <<Phase, History, Quota>>
<1>1. /\ batch' = batch /\ req' = req /\ registry' = registry
      /\ \/ pc = "logits" /\ pc' = "verify"
         \/ pc = "forward" /\ pc' = "commit"
  BY DEF RunLogits, RunForward, Forward, engineVars
<1>2. \A r \in Requests : TurnOK(req[r], r \in registry, r \in Members(batch), pc)
        => TurnOK(req[r], r \in registry, r \in Members(batch), pc')
  BY <1>1 DEF TurnOK
<1> QED
  BY <1>1, <1>2, MovesOn

\* When a forward raises, the drafts of the batch stay in token_ids, and what
\* has finished stays registered: the protocol only survives if there are no
\* drafts to verify.
LEMMA ForwardFailsTurns ==
  ASSUME IInv, TurnsInv, ForwardFails, NumSpec = 0
  PROVE  TurnsInv' /\ UNCHANGED <<Phase, History, Quota>>
<1>1. /\ batch' = << >> /\ req' = req /\ registry' = registry
      /\ pc \in {"logits", "forward"}
  BY DEF ForwardFails
<1>2. req \in [Requests -> RequestType]
  BY Parts, SoundFacts
<1>3. ASSUME NEW r \in Requests
      PROVE  TurnOK(req[r], r \in registry, r \in Members(batch'), pc')
  <2>1. TurnOK(req[r], r \in registry, r \in Members(batch), pc)
    BY DEF TurnsInv
  <2>2. req[r].drafts = 0 /\ req[r].status # "finished"
    <3>1. req[r].drafts \in Nat
      BY <1>2 DEF RequestType
    <3> QED
      BY <1>1, <2>1, <3>1 DEF TurnOK
  <2> QED
    BY <2>1, <2>2 DEF TurnOK
<1> QED
  BY <1>1, <1>2, <1>3, SameRequests DEF TurnsInv

(***************************************************************************)
(* Weight updates and sleep.                                               *)
(***************************************************************************)
\* Without its KV a request is the same to the protocol, once it has no drafts.
LEMMA ColdTurn ==
  ASSUME NEW q \in RequestType, q.drafts = 0
  PROVE  /\ Cold(q) \in RequestType /\ CommittedTokens(Cold(q)) = CommittedTokens(q)
         /\ SameTurn(q, Cold(q))
         /\ \A g, b, at : TurnOK(q, g, b, at) => TurnOK(Cold(q), g, b, at)
<1>1. /\ Cold(q) \in RequestType /\ Cold(q).drafts = 0 /\ Cold(q).tokens = q.tokens
      /\ Cold(q).status = q.status /\ SameLimits(q, Cold(q))
  BY ColdFacts, LimitsKept
<1>2. q.drafts <= Len(q.tokens) /\ Cold(q).drafts <= Len(Cold(q).tokens)
  BY <1>1, LenProperties DEF RequestType
<1>3. CommittedTokens(Cold(q)) = CommittedTokens(q)
  BY <1>1, <1>2, HistoryOf
<1>4. PhaseOf(Cold(q)) = PhaseOf(q)
  BY <1>1 DEF PhaseOf
<1>5. /\ SameTurn(q, Cold(q)) /\ NumOut(Cold(q)) = NumOut(q)
      /\ Cold(q).maxNew = q.maxNew
  BY <1>1, <1>2, <1>3, <1>4, TurnKept
<1> QED
  BY <1>1, <1>3, <1>5 DEF TurnOK

\* A reset that parks: every registered turn is cut short, none forgets a token.
LEMMA ParkedTurns ==
  ASSUME IInv, TurnsInv, batch = << >>, req' = Parked(AllCold), registry' = registry
  PROVE  TurnsInv' /\ Turn!Next
<1>1. /\ req \in [Requests -> RequestType]
      /\ \A r \in Requests : /\ req[r].drafts = 0 /\ req[r].status # "finished"
                             /\ \A b, at : TurnOK(req[r], r \in registry, b, at)
  BY QuietState
<1>2. registry \subseteq Requests
  BY Parts DEF OtherTypes
<1>3. ASSUME NEW r \in registry
      PROVE  /\ PhaseOf(req[r]) \in {"open", "held"} /\ PhaseOf(req'[r]) = "held"
             /\ CommittedTokens(req'[r]) = CommittedTokens(req[r])
             /\ \A b, at : TurnOK(req'[r], TRUE, b, at)
  <2> DEFINE c == Cold(Cold(req[r]))
             w == [c EXCEPT !.status = "paused"]
  <2>1. req'[r] = w
    BY <1>2 DEF Parked, AllCold
  <2>2. /\ r \in Requests /\ req[r] \in RequestType /\ req[r].drafts = 0
        /\ req[r].status # "finished" /\ TurnOK(req[r], TRUE, FALSE, pc)
    <3>1. TurnOK(req[r], r \in registry, FALSE, pc)
      BY <1>1, <1>2
    <3> QED
      BY <1>1, <1>2, <3>1 DEF TurnOK
  <2>3. /\ c \in RequestType /\ CommittedTokens(c) = CommittedTokens(req[r])
        /\ c.drafts = 0
    BY <2>2, ColdFacts, ColdTurn
  <2> HIDE DEF c
  <2>4. w \in RequestType /\ w.status = "paused" /\ w.drafts = 0 /\ w.tokens = c.tokens
    BY <2>3 DEF RequestType
  <2> HIDE DEF w
  <2>5. CommittedTokens(w) = CommittedTokens(c)
    BY <2>3, <2>4 DEF CommittedTokens
  <2>6. PhaseOf(w) = "held"
    BY <2>4, PhaseFacts
  <2>7. \A b, at : TurnOK(w, TRUE, b, at)
    BY <2>4, NumSpecAssumption DEF TurnOK
  <2>8. PhaseOf(req[r]) \in {"open", "held"}
    <3>1. req[r].status \in {"waiting", "running", "paused"}
      BY <2>2 DEF TurnOK, RequestType
    <3> QED
      BY <2>2, <3>1, PhaseFacts
  <2> QED
    BY <2>1, <2>3, <2>5, <2>6, <2>7, <2>8
<1>4. ASSUME NEW r \in Requests \ registry
      PROVE  req'[r] = req[r]
  BY DEF Parked, AllCold
<1>5. TurnsInv'
  <2> SUFFICES ASSUME NEW r \in Requests
               PROVE  TurnOK(req'[r], r \in registry, r \in Members(batch'), pc')
    BY DEF TurnsInv
  <2>1. CASE r \in registry
    <3>1. TurnOK(req'[r], TRUE, r \in Members(batch'), pc')
      BY <1>3, <2>1
    <3> QED
      BY <2>1, <3>1 DEF TurnOK
  <2>2. CASE r \notin registry
    BY <1>1, <1>4, <2>2
  <2> QED
    BY <2>1, <2>2
<1>6. \A r \in Requests \ registry : SameTurn(req[r], req'[r])
  BY <1>4 DEF SameTurn
<1> QED
  BY <1>2, <1>3, <1>5, <1>6, ParksTurns

\* A weight copy that raises: every turn goes on, from its first token.
LEMMA ColdTurns ==
  ASSUME IInv, TurnsInv, batch = << >>, req' = AllCold, registry' = registry
  PROVE  TurnsInv' /\ UNCHANGED <<Phase, History, Quota>>
<1>1. /\ req \in [Requests -> RequestType]
      /\ \A r \in Requests : /\ req[r].drafts = 0
                             /\ \A b, at : TurnOK(req[r], r \in registry, b, at)
  BY QuietState
<1>2. ASSUME NEW r \in Requests
      PROVE  /\ SameTurn(req[r], req'[r])
             /\ TurnOK(req'[r], r \in registry, r \in Members(batch'), pc')
  <2>1. req'[r] = Cold(req[r]) \/ req'[r] = req[r]
    BY DEF AllCold
  <2>2. /\ SameTurn(req[r], Cold(req[r]))
        /\ TurnOK(Cold(req[r]), r \in registry, r \in Members(batch'), pc')
    BY <1>1, ColdTurn
  <2>3. /\ SameTurn(req[r], req[r])
        /\ TurnOK(req[r], r \in registry, r \in Members(batch'), pc')
    BY <1>1 DEF SameTurn
  <2> QED
    BY <2>1, <2>2, <2>3
<1> QED
  BY <1>2, Stutters DEF TurnsInv

LEMMA ResetTurns ==
  ASSUME IInv, TurnsInv, UpdateWeights \/ Sleep
  PROVE  TurnsInv' /\ (Turn!Next \/ UNCHANGED <<Phase, History, Quota>>)
<1>1. /\ pc = "idle" /\ registry' = registry
      /\ req' = Parked(AllCold) \/ req' = AllCold
  BY DEF UpdateWeights, Sleep
<1>2. batch = << >>
  BY <1>1, Parts DEF StepOK
<1> QED
  BY <1>1, <1>2, ParkedTurns, ColdTurns

(***************************************************************************)
(* A pass of the scheduler.                                                *)
(***************************************************************************)
\* An open turn stays what it is when its history and its limits do.
LEMMA OpenKept ==
  ASSUME NEW q \in RequestType, NEW u \in RequestType,
         q.drafts <= Len(q.tokens), u.drafts <= Len(u.tokens),
         q.status \in {"waiting", "running"}, u.status \in {"waiting", "running"},
         CommittedTokens(u) = CommittedTokens(q), SameLimits(q, u),
         NEW g, NEW b, NEW at, TurnOK(q, g, b, at),
         NEW b2, NEW at2, u.drafts <= NumSpec,
         u.drafts > 0 => b2 /\ at2 \in {"pass", "logits", "verify"}
  PROVE  SameTurn(q, u) /\ TurnOK(u, g, b2, at2)
<1>1. PhaseOf(u) = PhaseOf(q)
  BY PhaseFacts
<1>2. SameTurn(q, u) /\ NumOut(u) = NumOut(q) /\ u.maxNew = q.maxNew
  BY <1>1, TurnKept
<1>3. NumOut(q) < q.maxNew
  BY DEF TurnOK
<1> QED
  BY <1>2, <1>3 DEF TurnOK

LEMMA StripKeeps ==
  ASSUME NEW q \in RequestType, q.drafts <= Len(q.tokens)
  PROVE  CommittedTokens(StripSpecDrafts(q)) = CommittedTokens(q)
<1>1. StripSpecDrafts(q) \in RequestType /\ StripSpecDrafts(q).drafts = 0
  BY StripFacts
<1>2. StripSpecDrafts(q).tokens = CommittedTokens(q)
  BY DEF StripSpecDrafts, CommittedTokens, RequestType
<1>3. StripSpecDrafts(q).drafts <= Len(StripSpecDrafts(q).tokens)
  BY <1>1, LenProperties DEF RequestType
<1> QED
  BY <1>1, <1>2, <1>3, HistoryOf

\* A proposal is at most NumSpec tokens, after those the request has.
LEMMA DraftedKeeps ==
  ASSUME NEW q \in RequestType, RequestOK(q, epoch), budget \in Nat, q.drafts <= NumSpec,
         NEW p \in Drafted(q)
  PROVE  /\ q.drafts <= Len(q.tokens) /\ p.drafts <= Len(p.tokens)
         /\ p.drafts <= NumSpec /\ CommittedTokens(p) = CommittedTokens(q) /\ SameLimits(q, p)
<1>1. q.tokens \in Seq(Tokens) /\ Len(q.tokens) \in Nat /\ q.drafts \in Nat /\ q.computed \in Nat
  BY LenProperties DEF RequestType
<1>2. q.drafts <= Len(q.tokens)
  BY <1>1 DEF RequestOK
<1>3. CASE p = q
  BY <1>2, <1>3 DEF SameLimits
<1>4. CASE p # q
  <2>1. PICK D \in {[1..k -> Tokens] : k \in 1..MaxDraft(q)} :
          \E d \in D : p = WithDrafts(q, d)
    BY <1>4 DEF Drafted
  <2>2. PICK k \in 1..MaxDraft(q) : \E d \in [1..k -> Tokens] : p = WithDrafts(q, d)
    BY <2>1
  <2>3. PICK d \in [1..k -> Tokens] : p = WithDrafts(q, d)
    BY <2>2
  <2>4. q.drafts = 0 /\ k \in Nat /\ k > 0 /\ k <= NumSpec
    <3>1. PICK m \in Int : m = Room(q)
      <4>1. NumOut(q) \in Int
        BY <1>2, HistoryOf
      <4>2. q.maxNew \in Nat
        BY DEF RequestType
      <4> QED
        BY <4>1, <4>2 DEF Room, Greater
    <3>2. MaxDraft(q) \in Int
      BY <3>1, NumSpecAssumption DEF MaxDraft, Lesser, Greater
    <3>3. k \in Nat /\ k > 0 /\ k <= MaxDraft(q) /\ MaxDraft(q) > 0
      BY <2>2, <3>2
    <3>4. q.drafts = 0 /\ MaxDraft(q) = Greater(0, Lesser(Lesser(NumSpec, Room(q)), budget - 1))
      BY <3>3 DEF MaxDraft
    <3> QED
      BY <3>1, <3>3, <3>4, NumSpecAssumption DEF Lesser, Greater
  <2>5. d \in Seq(Tokens) /\ Len(d) = k
    BY <2>3, <2>4
  <2>6. /\ p \in RequestType /\ p.drafts = k /\ Len(p.tokens) = Len(q.tokens) + k
    BY <2>3, <2>5, WithDraftsFacts
  <2>7. p.tokens = q.tokens \o d
    BY <2>3 DEF WithDrafts, RequestType
  <2>8. p.drafts <= Len(p.tokens) /\ p.drafts <= NumSpec
    BY <1>1, <2>4, <2>6
  <2>9. CommittedTokens(p) = q.tokens
    <3>1. PICK l \in Nat : l = Len(q.tokens)
      BY <1>1
    <3>2. CommittedTokens(p) = SubSeq(q.tokens \o d, 1, l)
      BY <2>4, <2>6, <2>7, <3>1 DEF CommittedTokens
    <3>3. /\ q.tokens \o d \in Seq(Tokens) /\ Len(q.tokens \o d) = l + k
          /\ \A i \in 1..l : (q.tokens \o d)[i] = q.tokens[i]
      <4>1. /\ q.tokens \o d \in Seq(Tokens) /\ Len(q.tokens \o d) = Len(q.tokens) + Len(d)
            /\ \A i \in 1..Len(q.tokens) + Len(d) :
                 (q.tokens \o d)[i] = IF i <= Len(q.tokens) THEN q.tokens[i]
                                      ELSE d[i - Len(q.tokens)]
        BY <1>1, <2>5, ConcatProperties
      <4>2. l \in Nat /\ k \in Nat /\ l = Len(q.tokens) /\ k = Len(d)
        BY <2>4, <2>5, <3>1
      <4> QED
        BY <4>1, <4>2
    <3>4. /\ SubSeq(q.tokens \o d, 1, l) \in Seq(Tokens)
          /\ Len(SubSeq(q.tokens \o d, 1, l)) = l
          /\ \A i \in 1..l : SubSeq(q.tokens \o d, 1, l)[i] = (q.tokens \o d)[i]
      <4>1. l \in Nat /\ 1 <= l + 1 /\ l <= Len(q.tokens \o d) /\ 1 \in Nat \ {0}
        BY <2>4, <3>1, <3>3
      <4> QED
        BY <3>3, <4>1, SubSeqFacts
    <3> QED
      BY <1>1, <3>1, <3>2, <3>3, <3>4, SeqEqual
  <2>10. CommittedTokens(q) = q.tokens
    BY <1>2, <2>4, HistoryOf
  <2>11. SameLimits(q, p)
    BY <2>3, LimitsKept
  <2> QED
    BY <1>2, <2>8, <2>9, <2>10, <2>11
<1> QED
  BY <1>3, <1>4

\* A pass considers r: its turn and all others go on as they are.
LEMMA ConsideredTurns ==
  ASSUME IInv, TurnsInv, pc = "pass", pc' = pc, registry' = registry, NEW r \in Requests,
         NEW w \in RequestType, req' = Replaced(req, r, w), SameTurn(req[r], w),
         TurnOK(w, r \in registry, r \in Members(batch'), pc'),
         Members(batch) \subseteq Members(batch')
  PROVE  TurnsInv' /\ UNCHANGED <<Phase, History, Quota>>
<1>1. req \in [Requests -> RequestType]
  BY Parts, SoundFacts
<1>2. ASSUME NEW x \in Requests, x # r
      PROVE  TurnOK(req[x], x \in registry', x \in Members(batch'), pc')
  <2>1. TurnOK(req[x], x \in registry, x \in Members(batch), pc)
    BY DEF TurnsInv
  <2> QED
    BY <2>1 DEF TurnOK
<1>3. TurnsInv'
  BY <1>1, <1>2, OneTurn
<1> QED
  BY <1>1, <1>3, ReplacedTurn

\* n tokens of r are scheduled.
LEMMA ReservedTurns ==
  ASSUME IInv, TurnsInv, pc = "pass", pc' = pc, registry' = registry, NEW r \in Requests,
         req[r].status \in {"waiting", "running"},
         NEW q \in RequestType, q.drafts <= Len(q.tokens), q.drafts <= NumSpec,
         CommittedTokens(q) = CommittedTokens(req[r]), SameLimits(req[r], q),
         req[r].drafts <= Len(req[r].tokens),
         NEW n \in Nat, n > 0, NEW P, Sound(P, Replaced(req, r, q)), Reserve(r, q, n, P)
  PROVE  TurnsInv' /\ UNCHANGED <<Phase, History, Quota>>
<1>1. req \in [Requests -> RequestType] /\ epoch \in Nat /\ batch \in Seq(Requests)
  BY Parts, SoundFacts DEF OtherTypes
<1>2. PICK t \in Seq(Blocks) : req' = Replaced(req, r, Scheduled(q, t, n))
  BY <1>1, ReserveFacts
<1> DEFINE w == Scheduled(q, t, n)
<1>3. /\ w \in RequestType /\ w.tokens = q.tokens /\ w.drafts = q.drafts /\ w.status = "running"
  BY <1>1, <1>2, ScheduledFacts
<1>4. SameLimits(req[r], w)
  <2>1. SameLimits(q, w)
    BY LimitsKept
  <2> QED
    BY <2>1 DEF SameLimits
<1>5. req' = Replaced(req, r, w)
  BY <1>2
<1> HIDE DEF w
<1>6. CommittedTokens(w) = CommittedTokens(req[r]) /\ w.drafts <= Len(w.tokens)
  BY <1>3 DEF CommittedTokens
<1>7. Members(batch') = Members(batch) \union {r}
  <2>1. batch' = Append(batch, r)
    BY <1>1, ReserveFacts
  <2> QED
    BY <1>1, <2>1, AppendQueue
<1>8. TurnOK(req[r], r \in registry, r \in Members(batch), pc)
  BY DEF TurnsInv
<1>9. SameTurn(req[r], w) /\ TurnOK(w, r \in registry, r \in Members(batch'), pc')
  <2>1. w.drafts <= NumSpec /\ r \in Members(batch') /\ pc' \in {"pass", "logits", "verify"}
    BY <1>3, <1>7
  <2>2. w.status \in {"waiting", "running"} /\ req[r] \in RequestType
    BY <1>1, <1>3
  <2> QED
    BY <1>3, <1>4, <1>6, <1>8, <2>1, <2>2, OpenKept
<1> QED
  BY <1>3, <1>5, <1>7, <1>9, ConsideredTurns

LEMMA ConsiderRunningTurns ==
  ASSUME IInv, TurnsInv, ConsiderRunning, UNCHANGED engineVars
  PROVE  TurnsInv' /\ UNCHANGED <<Phase, History, Quota>>
<1> DEFINE r == Head(todo)
<1>1. OtherTypes /\ Sound(pool, req) /\ RequestsOK /\ QueuesOK
  BY Parts
<1>2. pc = "pass" /\ todo # << >> /\ pc' = pc /\ registry' = registry
  BY DEF ConsiderRunning, engineVars
<1>3. todo \in Seq(Requests) /\ budget \in Nat /\ req \in [Requests -> RequestType]
  BY <1>1, SoundFacts DEF OtherTypes
<1>4. r \in Requests /\ r \in Members(todo)
  BY <1>2, <1>3, NonemptyQueue
<1>5. /\ req[r] \in RequestType /\ req[r].status = "running" /\ RequestOK(req[r], epoch)
      /\ TurnOK(req[r], r \in registry, r \in Members(batch), pc) /\ req[r].drafts <= NumSpec
  BY <1>1, <1>3, <1>4 DEF QueuesOK, RequestsOK, TurnsInv, TurnOK
<1>6. PICK p \in Drafted(req[r]) :
        \E V \in Victims(pool, Shortfall(pool, p, Want(p))) :
          LET P == EvictUnused(pool, V)
              m == MaxAllocatable(P, p, Want(p))
              fits == p.drafts = 0 \/ m = 1 + p.drafts
              q == IF fits THEN p ELSE StripSpecDrafts(p)
              n == IF fits THEN m ELSE Lesser(m, 1)
          IN \/ /\ n = 0
                /\ req' = [req EXCEPT ![r] = q]
                /\ UNCHANGED <<batch, budget>>
             \/ /\ n > 0
                /\ Reserve(r, q, n, P)
  BY DEF ConsiderRunning
<1>7. PICK V \in Victims(pool, Shortfall(pool, p, Want(p))) :
          LET P == EvictUnused(pool, V)
              m == MaxAllocatable(P, p, Want(p))
              fits == p.drafts = 0 \/ m = 1 + p.drafts
              q == IF fits THEN p ELSE StripSpecDrafts(p)
              n == IF fits THEN m ELSE Lesser(m, 1)
          IN \/ /\ n = 0
                /\ req' = [req EXCEPT ![r] = q]
                /\ UNCHANGED <<batch, budget>>
             \/ /\ n > 0
                /\ Reserve(r, q, n, P)
  BY <1>6
<1> DEFINE P == EvictUnused(pool, V)
           m == MaxAllocatable(P, p, Want(p))
           fits == p.drafts = 0 \/ m = 1 + p.drafts
           q == IF fits THEN p ELSE StripSpecDrafts(p)
           n == IF fits THEN m ELSE Lesser(m, 1)
<1>8. \/ n = 0 /\ req' = Replaced(req, r, q) /\ batch' = batch
      \/ n > 0 /\ Reserve(r, q, n, P)
  BY <1>7 DEF Replaced
<1> HIDE DEF r
<1>9. /\ p \in RequestType /\ p.table = req[r].table /\ p.computed = req[r].computed
      /\ p.status = "running" /\ p.drafts \in Nat /\ p.computed \in Nat
  <2>1. p \in RequestType /\ p.table = req[r].table /\ p.computed = req[r].computed
        /\ p.status = req[r].status /\ p.drafts \in Nat
    BY <1>3, <1>5, <1>6, DraftedFacts
  <2> QED
    BY <1>5, <2>1 DEF RequestType
<1>10. /\ req[r].drafts <= Len(req[r].tokens) /\ p.drafts <= Len(p.tokens) /\ p.drafts <= NumSpec
       /\ CommittedTokens(p) = CommittedTokens(req[r]) /\ SameLimits(req[r], p)
  BY <1>3, <1>5, <1>6, DraftedKeeps
<1>11. Sound(P, req) /\ P \in PoolOf(Seq(Tokens))
  BY <1>1, SoundEvict, SoundFacts
<1>12. m \in Nat
  <2> HIDE DEF P
  <2> QED
    BY <1>3, <1>9, <1>11, AllocatableFacts
<1> HIDE DEF P, m
<1>13. n \in Nat
  BY <1>12 DEF Lesser
<1>14. /\ q \in RequestType /\ q.table = req[r].table /\ q.computed = req[r].computed
       /\ q.status = "running" /\ q.drafts <= Len(q.tokens) /\ q.drafts <= NumSpec
       /\ CommittedTokens(q) = CommittedTokens(req[r]) /\ SameLimits(req[r], q)
       /\ n = 0 => q.drafts = 0
  <2>1. CASE fits
    BY <1>9, <1>10, <1>12, <2>1
  <2>2. CASE ~fits
    <3>1. q = StripSpecDrafts(p)
      BY <2>2
    <3> HIDE DEF q
    <3>2. /\ q \in RequestType /\ q.drafts = 0 /\ q.table = p.table /\ q.computed = p.computed
          /\ q.status = p.status /\ CommittedTokens(q) = CommittedTokens(p)
      BY <1>9, <1>10, <3>1, StripFacts, StripKeeps
    <3>3. SameLimits(req[r], q)
      BY <1>9, <1>10, <3>1, LimitsKept DEF SameLimits
    <3>4. Len(q.tokens) \in Nat
      BY <3>2, LenProperties DEF RequestType
    <3> QED
      BY <1>9, <1>10, <3>2, <3>3, <3>4, NumSpecAssumption
  <2> QED
    BY <2>1, <2>2
<1> HIDE DEF n, q
<1>15. CASE n = 0
  <2>1. req' = Replaced(req, r, q) /\ batch' = batch /\ q.drafts = 0
    BY <1>8, <1>14, <1>15
  <2>2. SameTurn(req[r], q) /\ TurnOK(q, r \in registry, r \in Members(batch'), pc')
    BY <1>5, <1>10, <1>14, <2>1, OpenKept
  <2> QED
    BY <1>2, <1>4, <1>14, <2>1, <2>2, ConsideredTurns
<1>16. CASE n # 0
  <2>1. n > 0 /\ Reserve(r, q, n, P)
    BY <1>8, <1>13, <1>16
  <2>2. Sound(P, Replaced(req, r, q))
    <3>1. q.computed >= req[r].computed
      BY <1>9, <1>14
    <3> QED
      BY <1>4, <1>11, <1>14, <3>1, SoundSame
  <2> QED
    BY <1>2, <1>4, <1>5, <1>10, <1>13, <1>14, <2>1, <2>2, ReservedTurns
<1> QED
  BY <1>15, <1>16

\* Attaching cached pages, or giving them back, leaves the turn as it is.
LEMMA AttachedTurn ==
  ASSUME IInv, NEW r \in Requests, req[r].status = "waiting", req[r].drafts = 0,
         NEW a \in (IF Reattaches(req[r]) THEN Attachments(pool, req[r]) ELSE {<< >>}), NEW q,
         q = (IF Reattaches(req[r]) THEN Attached(req[r], a) ELSE req[r])
  PROVE  /\ q \in RequestType /\ q.status = "waiting" /\ q.drafts = 0
         /\ CommittedTokens(q) = CommittedTokens(req[r]) /\ SameLimits(req[r], q)
<1>1. req[r] \in RequestType
  BY Parts, SoundFacts
<1>2. CASE Reattaches(req[r])
  <2>1. q = Attached(req[r], a) /\ a \in Attachments(pool, req[r])
    BY <1>2
  <2>2. /\ q \in RequestType /\ q.tokens = req[r].tokens /\ q.drafts = req[r].drafts
        /\ q.status = req[r].status
    BY <1>1, <2>1, AttachedFacts
  <2>3. SameLimits(req[r], q)
    BY <1>1, <2>1, LimitsKept
  <2> QED
    BY <2>2, <2>3 DEF CommittedTokens
<1>3. CASE ~Reattaches(req[r])
  BY <1>1, <1>3 DEF SameLimits
<1> QED
  BY <1>2, <1>3

LEMMA ConsiderWaitingTurns ==
  ASSUME IInv, TurnsInv, ConsiderWaiting, UNCHANGED engineVars
  PROVE  TurnsInv' /\ UNCHANGED <<Phase, History, Quota>>
<1> DEFINE r == Head(waiting)
           again == Reattaches(req[r])
<1>1. OtherTypes /\ Sound(pool, req) /\ RequestsOK /\ StepOK /\ QueuesOK
  BY Parts
<1>2. pc = "pass" /\ waiting # << >> /\ pc' = pc /\ registry' = registry
  BY DEF ConsiderWaiting, engineVars
<1>3. waiting \in Seq(Requests) /\ budget \in Nat /\ req \in [Requests -> RequestType]
  BY <1>1, SoundFacts DEF OtherTypes
<1>4. r \in Requests /\ r \in Members(waiting)
  BY <1>2, <1>3, NonemptyQueue
<1>5. /\ req[r] \in RequestType /\ req[r].status = "waiting"
      /\ TurnOK(req[r], r \in registry, r \in Members(batch), pc)
  BY <1>1, <1>3, <1>4 DEF QueuesOK, TurnsInv
<1>6. req[r].drafts = 0 /\ req[r].drafts <= Len(req[r].tokens)
  <2>1. req[r].drafts \in Nat /\ Len(req[r].tokens) \in Nat
    BY <1>5, LenProperties DEF RequestType
  <2>2. ~(req[r].drafts > 0)
    BY <1>1, <1>5 DEF StepOK, TurnOK
  <2> QED
    BY <2>1, <2>2
<1>7. PICK a \in IF again THEN Attachments(pool, req[r]) ELSE {<< >>} :
        LET q == IF again THEN Attached(req[r], a) ELSE req[r]
            PA == AttachPool(pool, a)
        IN
        \E V \in Victims(PA, Shortfall(PA, q, Want(q))) :
          LET P == EvictUnused(PA, V)
              n == MaxAllocatable(P, q, Want(q))
          IN \/ /\ n = 0
                /\ req' = [req EXCEPT ![r] = IF a # << >> THEN Cold(q) ELSE q]
                /\ UNCHANGED <<running, batch, budget>>
             \/ /\ n > 0
                /\ Reserve(r, q, n, P)
  BY DEF ConsiderWaiting
<1> DEFINE q == IF again THEN Attached(req[r], a) ELSE req[r]
           PA == AttachPool(pool, a)
           w == IF a # << >> THEN Cold(q) ELSE q
<1>8. PICK V \in Victims(PA, Shortfall(PA, q, Want(q))) :
        LET P == EvictUnused(PA, V)
            n == MaxAllocatable(P, q, Want(q))
        IN \/ n = 0 /\ req' = Replaced(req, r, w) /\ batch' = batch
           \/ n > 0 /\ Reserve(r, q, n, P)
  BY <1>7 DEF Replaced
<1> DEFINE P == EvictUnused(PA, V)
           n == MaxAllocatable(P, q, Want(q))
<1>9. \/ n = 0 /\ req' = Replaced(req, r, w) /\ batch' = batch
      \/ n > 0 /\ Reserve(r, q, n, P)
  BY <1>8
<1>10. /\ q \in RequestType /\ q.status = "waiting" /\ q.drafts = 0
       /\ CommittedTokens(q) = CommittedTokens(req[r]) /\ SameLimits(req[r], q)
       /\ Sound(PA, Replaced(req, r, q))
  <2> HIDE DEF r, q
  <2>1. q = (IF Reattaches(req[r]) THEN Attached(req[r], a) ELSE req[r])
    BY DEF q
  <2> QED
    BY <1>4, <1>5, <1>6, <1>7, <2>1, ReattachFacts, AttachedTurn
<1> HIDE DEF r, q, PA
<1>11. Sound(P, Replaced(req, r, q)) /\ P \in PoolOf(Seq(Tokens))
  BY <1>8, <1>10, SoundEvict, SoundFacts
<1> HIDE DEF P
<1>12. n \in Nat
  BY <1>3, <1>10, <1>11, AllocatableFacts
<1> HIDE DEF n
<1>13. q.drafts <= Len(q.tokens) /\ q.drafts <= NumSpec
  <2>1. Len(q.tokens) \in Nat
    BY <1>10, LenProperties DEF RequestType
  <2> QED
    BY <1>10, <2>1, NumSpecAssumption
<1>14. CASE n = 0
  <2>1. req' = Replaced(req, r, w) /\ batch' = batch
    BY <1>9, <1>14
  <2>2. /\ w \in RequestType /\ w.status = "waiting" /\ w.drafts = 0
        /\ CommittedTokens(w) = CommittedTokens(req[r]) /\ SameLimits(req[r], w)
    <3>1. /\ Cold(q) \in RequestType /\ Cold(q).status = "waiting" /\ Cold(q).drafts = 0
          /\ CommittedTokens(Cold(q)) = CommittedTokens(q) /\ SameLimits(q, Cold(q))
      BY <1>10, ColdFacts, ColdTurn, LimitsKept
    <3> QED
      BY <1>10, <3>1 DEF SameLimits
  <2> HIDE DEF w
  <2>3. w.drafts <= Len(w.tokens) /\ w.drafts <= NumSpec
    <3>1. Len(w.tokens) \in Nat
      BY <2>2, LenProperties DEF RequestType
    <3> QED
      BY <2>2, <3>1, NumSpecAssumption
  <2>4. SameTurn(req[r], w) /\ TurnOK(w, r \in registry, r \in Members(batch'), pc')
    BY <1>5, <1>6, <2>2, <2>3, OpenKept
  <2> QED
    BY <1>2, <1>4, <2>1, <2>2, <2>4, ConsideredTurns
<1>15. CASE n # 0
  <2>1. n > 0 /\ Reserve(r, q, n, P)
    BY <1>9, <1>12, <1>15
  <2> QED
    BY <1>2, <1>4, <1>5, <1>6, <1>10, <1>11, <1>12, <1>13, <2>1, ReservedTurns
<1> QED
  BY <1>14, <1>15

LEMMA PreemptTurns ==
  ASSUME IInv, TurnsInv, Preempt, UNCHANGED engineVars
  PROVE  TurnsInv' /\ UNCHANGED <<Phase, History, Quota>>
<1> DEFINE r == Last(running)
           u == StripSpecDrafts(req[r])
           w == [Cold(u) EXCEPT !.status = "waiting"]
<1>1. /\ batch = << >> /\ batch' = batch /\ registry' = registry /\ running # << >>
      /\ req' = Replaced(req, r, w)
  BY DEF Preempt, engineVars, Replaced
<1>2. /\ req \in [Requests -> RequestType] /\ running \in Seq(Requests)
      /\ \A x \in Requests : /\ req[x].drafts = 0
                             /\ \A b, at : TurnOK(req[x], x \in registry, b, at)
  BY <1>1, Parts, QuietState DEF OtherTypes
<1>3. r \in Requests /\ r \in Members(running)
  BY <1>1, <1>2, NonemptyQueue
<1>4. req[r].status = "running" /\ req[r] \in RequestType
  BY <1>2, <1>3, Parts DEF QueuesOK
<1> HIDE DEF r
<1>5. req[r].drafts <= Len(req[r].tokens) /\ req[r].drafts = 0
  BY <1>2, <1>3, <1>4, LenProperties DEF RequestType
<1>6. /\ u \in RequestType /\ u.drafts = 0 /\ u.status = "running" /\ SameLimits(req[r], u)
      /\ CommittedTokens(u) = CommittedTokens(req[r])
  BY <1>4, <1>5, StripFacts, StripKeeps, LimitsKept
<1> HIDE DEF u
<1>7. /\ Cold(u) \in RequestType /\ Cold(u).drafts = 0 /\ SameLimits(u, Cold(u))
      /\ CommittedTokens(Cold(u)) = CommittedTokens(u)
  BY <1>6, ColdFacts, ColdTurn, LimitsKept
<1>8. /\ w \in RequestType /\ w.status = "waiting" /\ w.drafts = 0 /\ w.tokens = Cold(u).tokens
      /\ SameLimits(Cold(u), w)
  <2>1. PICK c \in RequestType : c = Cold(u)
    BY <1>7
  <2> QED
    BY <1>7, <2>1 DEF RequestType, SameLimits
<1> HIDE DEF w
<1>9. CommittedTokens(w) = CommittedTokens(req[r]) /\ SameLimits(req[r], w)
  BY <1>6, <1>7, <1>8 DEF CommittedTokens, SameLimits
<1>10. w.drafts <= Len(w.tokens) /\ w.drafts <= NumSpec
  BY <1>8, LenProperties, NumSpecAssumption DEF RequestType
<1>11. SameTurn(req[r], w) /\ TurnOK(w, r \in registry, r \in Members(batch'), pc')
  <2>1. TurnOK(req[r], r \in registry, FALSE, pc)
    BY <1>2, <1>3
  <2>2. w.drafts > 0 => r \in Members(batch') /\ pc' \in {"pass", "logits", "verify"}
    BY <1>8
  <2>3. req[r].status \in {"waiting", "running"} /\ w.status \in {"waiting", "running"}
    BY <1>4, <1>8
  <2> QED
    BY <1>4, <1>5, <1>8, <1>9, <1>10, <2>1, <2>2, <2>3, OpenKept
<1>12. TurnsInv'
  BY <1>1, <1>2, <1>3, <1>8, <1>11, OneTurn
<1> QED
  BY <1>1, <1>2, <1>3, <1>8, <1>11, <1>12, ReplacedTurn

(***************************************************************************)
(* Tokens are emitted, and the step ends.                                  *)
(***************************************************************************)
\* A turn that ends before its quota is used up ends held or closed.
LEMMA CommitsTokens ==
  ASSUME req \in [Requests -> RequestType], NEW r \in Requests, req[r].status = "running",
         req[r].drafts <= Len(req[r].tokens), NEW w \in RequestType, req' = Replaced(req, r, w),
         w.drafts = 0, SameLimits(req[r], w), NEW k \in 1..NumSpec + 1, k <= Room(req[r]),
         NEW e \in [1..k -> Tokens], w.tokens = CommittedTokens(req[r]) \o e,
         w.status \in {"running", "paused", "finished"},
         w.status = "running" => NumOut(w) < w.maxNew
  PROVE  Turn!Next
<1> DEFINE q == req[r]
<1>1. /\ CommittedTokens(q) \in Seq(Tokens)
      /\ NumOut(q) = Len(CommittedTokens(q)) - q.nPrompt /\ NumOut(q) \in Int
  BY HistoryOf
<1>2. w.drafts <= Len(w.tokens)
  BY LenProperties DEF RequestType
<1>3. /\ CommittedTokens(w) = CommittedTokens(q) \o e
      /\ NumOut(w) = Len(CommittedTokens(w)) - w.nPrompt /\ NumOut(w) \in Int
  BY <1>2, HistoryOf
<1>4. e \in Seq(Tokens) /\ Len(e) = k /\ k \in Nat /\ k > 0
  BY NumSpecAssumption
<1>5. Len(CommittedTokens(w)) = Len(CommittedTokens(q)) + k
  <2>1. PICK h \in Seq(Tokens) : h = CommittedTokens(q)
    BY <1>1
  <2>2. PICK g \in Seq(Tokens) : g = e
    BY <1>4
  <2>3. Len(h \o g) = Len(h) + Len(g)
    BY ConcatProperties
  <2> QED
    BY <1>3, <1>4, <2>1, <2>2, <2>3
<1>6. PICK l \in Nat : l = Len(CommittedTokens(q))
  BY <1>1, LenProperties
<1>7. PICK n \in Nat : n = q.nPrompt /\ n = w.nPrompt
  BY DEF RequestType, SameLimits
<1>8. PICK m \in Nat : m = q.maxNew /\ m = w.maxNew
  BY DEF RequestType, SameLimits
<1>9. NumOut(q) = l - n /\ NumOut(w) = l + k - n
  BY <1>1, <1>3, <1>5, <1>6, <1>7, SMTT(30)
<1>10. /\ Room(q) = Greater(0, m - (l - n)) /\ Room(w) = Greater(0, m - (l + k - n))
  BY <1>8, <1>9 DEF Room
<1>11. QuotaOf(q) = Room(q) /\ PhaseOf(q) = "open"
  BY PhaseFacts DEF QuotaOf
<1>12. CASE w.status = "running"
  <2>1. PhaseOf(w) = "open" /\ QuotaOf(w) = Room(w)
    BY <1>12, PhaseFacts DEF QuotaOf
  <2>2. l + k - n < m
    BY <1>8, <1>9, <1>12
  <2>3. k < Room(q) /\ Room(w) = Room(q) - k
    BY <1>4, <1>6, <1>7, <1>8, <1>10, <2>2, SMTT(30) DEF Greater
  <2>4. k < QuotaOf(q) /\ QuotaOf(w) = QuotaOf(q) - k /\ k <= QuotaOf(q)
    BY <1>11, <2>1, <2>3
  <2> QED
    BY <1>3, <1>11, <2>1, <2>4, EmitsTokens
<1>13. CASE w.status # "running"
  <2>1. PhaseOf(w) \in {"held", "closed"}
    BY <1>13, PhaseFacts
  <2>2. QuotaOf(w) = 0 /\ k <= QuotaOf(q)
    BY <1>11, <2>1 DEF QuotaOf
  <2> QED
    BY <1>3, <1>11, <2>1, <2>2, EmitsTokens
<1> QED
  BY <1>12, <1>13

\* A request of the batch is settled; the step goes on as long as drafts are
\* left to verify, so that none is left when it is over.
LEMMA SettledTurns ==
  ASSUME IInv, TurnsInv, pc \in {"verify", "commit"}, NEW r \in Requests, r \in Members(batch),
         r \in registry, NEW w \in RequestType, req' = Replaced(req, r, w), w.drafts = 0,
         w.status \in {"running", "paused", "finished"},
         w.status = "running" => NumOut(w) < w.maxNew, pc = "verify" => NumSpec > 0,
         pc' = (IF pc = "verify" THEN AfterVerify(req') ELSE AfterCommit(req')),
         batch' = batch, registry' = registry
  PROVE  TurnsInv'
<1>1. req \in [Requests -> RequestType] /\ req' \in [Requests -> RequestType]
      /\ req'[r] = w /\ \A x \in Requests : x # r => req'[x] = req[x]
  BY Parts, SoundFacts, ReplacedFacts
<1>2. /\ pc = "verify" => pc' \in {"verify", "forward", "return"}
      /\ pc = "commit" => pc' \in {"commit", "return"}
  BY DEF AfterVerify, AfterCommit
<1>3. ASSUME NEW x \in Requests, x # r
      PROVE  TurnOK(req[x], x \in registry', x \in Members(batch'), pc')
  <2>1. TurnOK(req[x], x \in registry, x \in Members(batch), pc)
    BY DEF TurnsInv
  <2>2. req[x].drafts > 0 => x \in Members(batch) /\ pc' = "verify"
    <3> SUFFICES ASSUME req[x].drafts > 0
                 PROVE  x \in Members(batch) /\ pc' = "verify"
      OBVIOUS
    <3>1. x \in Members(batch) /\ pc = "verify"
      BY <2>1 DEF TurnOK
    <3>2. req'[x].drafts > 0
      BY <1>1, <1>3
    <3>3. SpecPositions(req') # {}
      BY <1>1, <3>1, <3>2, DraftsAreSpec
    <3> QED
      BY <3>1, <3>3 DEF AfterVerify
  <2>3. req[x].status = "finished" => x \in Members(batch) /\ (pc = "verify" => NumSpec > 0)
    BY <2>1 DEF TurnOK
  <2> QED
    BY <1>2, <2>1, <2>2, <2>3 DEF TurnOK
<1>4. TurnOK(w, r \in registry', r \in Members(batch'), pc')
  BY <1>2, NumSpecAssumption DEF TurnOK
<1> QED
  BY <1>1, <1>3, <1>4, OneTurn

LEMMA SettledRequest ==
  ASSUME req \in [Requests -> RequestType], NEW r \in Requests, NEW q \in RequestType, NEW P,
         NEW o \in {"running", "paused", "finished"}, Settle(r, q, P, o)
  PROVE  \E w \in RequestType :
           /\ req' = Replaced(req, r, w) /\ w.status = o /\ w.tokens = q.tokens
           /\ w.drafts = q.drafts /\ SameLimits(q, w) /\ NumOut(w) = NumOut(q)
<1> DEFINE w == [q EXCEPT !.status = o, !.table = IF o = "finished" THEN << >> ELSE @]
<1>1. req' = Replaced(req, r, w)
  BY DEF Settle, Replaced
<1>2. w \in RequestType /\ w.status = o /\ w.tokens = q.tokens /\ w.drafts = q.drafts
      /\ SameLimits(q, w)
  BY EmptySeq DEF RequestType, SameLimits
<1> HIDE DEF w
<1>3. NumOut(w) = NumOut(q)
  BY <1>2 DEF NumOut, SameLimits
<1> QED
  BY <1>1, <1>2, <1>3

LEMMA RunningOutcome ==
  ASSUME NEW q \in RequestType, q.drafts <= Len(q.tokens), "running" \in Outcomes(q)
  PROVE  NumOut(q) < q.maxNew
<1>1. NumOut(q) \in Int /\ q.maxNew \in Nat
  BY HistoryOf DEF RequestType
<1>2. ~(NumOut(q) >= q.maxNew)
  BY DEF Outcomes
<1> QED
  BY <1>1, <1>2

\* What the verifier may emit: at least one token, and at most one more than
\* the drafts, within the output room.
LEMMA TurnEmissionFacts ==
  ASSUME NEW q \in RequestType, q.drafts <= Len(q.tokens), q.drafts <= NumSpec,
         NEW e \in Emissions(Drafts(q), Room(q))
  PROVE  \E k \in 1..NumSpec + 1 : k <= Room(q) /\ e \in [1..k -> Tokens]
<1>1. q.tokens \in Seq(Tokens) /\ Len(q.tokens) \in Nat /\ q.drafts \in Nat
  BY LenProperties DEF RequestType
<1>2. PICK l \in Nat, d \in Nat : l = Len(q.tokens) /\ d = q.drafts /\ d <= l
  BY <1>1
<1>3. Len(Drafts(q)) = d
  <2>1. PICK m \in Nat \ {0} : m = l - d + 1 /\ m <= l + 1 /\ l - m + 1 = d
    BY <1>2
  <2>2. Len(SubSeq(q.tokens, m, l)) = l - m + 1
    BY <1>1, <1>2, <2>1, SubSeqFacts
  <2> QED
    BY <1>2, <2>1, <2>2 DEF Drafts
<1>4. PICK m \in Int : m = Room(q)
  <2>1. NumOut(q) \in Int /\ q.maxNew \in Nat
    BY HistoryOf DEF RequestType
  <2> QED
    BY <2>1 DEF Room, Greater
<1>5. e \in TokenLists(1..Lesser(d + 1, m))
  BY <1>3, <1>4 DEF Emissions
<1>6. PICK k \in 1..Lesser(d + 1, m) : e \in [1..k -> Tokens]
  BY <1>5 DEF TokenLists
<1>7. k \in 1..NumSpec + 1 /\ k <= m
  BY <1>2, NumSpecAssumption DEF Lesser
<1> QED
  BY <1>4, <1>6, <1>7

LEMMA VerifySpecTurns ==
  ASSUME IInv, TurnsInv, VerifySpec
  PROVE  TurnsInv' /\ Turn!Next
<1> DEFINE i == First(SpecPositions(req))
           r == batch[i]
           q == req[r]
<1>1. OtherTypes /\ Sound(pool, req) /\ RequestsOK /\ StepOK
  BY Parts
<1>2. pc = "verify" /\ pc' = AfterVerify(req') /\ batch' = batch /\ registry' = registry
  BY DEF VerifySpec, engineVars
<1>3. batch \in Seq(Requests) /\ req \in [Requests -> RequestType]
  BY <1>1, SoundFacts DEF OtherTypes
<1>4. i \in SpecPositions(req)
  <2>1. SpecPositions(req) \in SUBSET Nat /\ SpecPositions(req) # {}
    BY <1>1, <1>2, <1>3 DEF StepOK, SpecPositions
  <2> QED
    BY <2>1, FirstIsLeast
<1>5. PICK e \in Emissions(Drafts(q), Room(q)) :
        LET c == CommitSpec(q, e)
            P == TruncatePool(pool, q, c.computed)
        IN  \E o \in Outcomes(c) : Settle(r, Published(c), PublishPool(P, c), o)
  BY DEF VerifySpec
<1> DEFINE c == CommitSpec(q, e)
           P == PublishPool(TruncatePool(pool, q, c.computed), c)
           p == Published(c)
<1>6. PICK o \in Outcomes(c) : Settle(r, p, P, o)
  BY <1>5
<1> HIDE DEF i
<1>7. r \in Requests /\ r \in Members(batch) /\ q.drafts > 0 /\ q \in RequestType
  BY <1>3, <1>4 DEF SpecPositions, Members
<1> HIDE DEF r, P
<1>8. /\ q.status = "running" /\ r \in registry /\ Len(q.tokens) = q.computed + 1 + q.drafts
      /\ q.drafts <= NumSpec
  BY <1>1, <1>7 DEF StepOK, RequestsOK, RequestOK, TurnsInv, TurnOK
<1>9. q.drafts <= Len(q.tokens) /\ NumSpec > 0
  <2>1. q.drafts \in Nat /\ q.computed \in Nat
    BY <1>7 DEF RequestType
  <2> QED
    BY <1>7, <1>8, <2>1, NumSpecAssumption
<1>10. PICK k \in 1..NumSpec + 1 : k <= Room(q) /\ e \in [1..k -> Tokens]
  BY <1>5, <1>7, <1>8, <1>9, TurnEmissionFacts
<1>11. e \in Seq(Tokens) /\ Len(e) > 0
  <2>1. k \in Nat /\ k > 0
    BY NumSpecAssumption
  <2> QED
    BY <1>10, <2>1
<1>12. c \in RequestType /\ c.drafts = 0
  BY <1>7, <1>8, <1>11, CommitSpecFacts
<1>13. c.tokens = CommittedTokens(q) \o e /\ SameLimits(q, c)
  <2>1. c.tokens = CommittedTokens(q) \o e
    BY <1>7 DEF CommitSpec, Truncated, RequestType
  <2> QED
    BY <1>7, <2>1, LimitsKept
<1> HIDE DEF c
<1>14. p \in RequestType /\ p.tokens = c.tokens /\ p.drafts = 0 /\ SameLimits(c, p)
  BY <1>12, PublishedFacts, LimitsKept
<1> HIDE DEF p
<1>15. o \in {"running", "paused", "finished"}
  BY <1>6, OutcomesType
<1>16. PICK w \in RequestType :
         /\ req' = Replaced(req, r, w) /\ w.status = o /\ w.tokens = p.tokens
         /\ w.drafts = p.drafts /\ SameLimits(p, w) /\ NumOut(w) = NumOut(p)
  BY <1>3, <1>6, <1>7, <1>14, <1>15, SettledRequest
<1>17. /\ w.drafts = 0 /\ w.tokens = CommittedTokens(q) \o e /\ SameLimits(q, w)
       /\ NumOut(w) = NumOut(c) /\ w.maxNew = c.maxNew
  BY <1>12, <1>13, <1>14, <1>16 DEF SameLimits, NumOut
<1>18. w.status = "running" => NumOut(w) < w.maxNew
  <2>1. c.drafts <= Len(c.tokens)
    BY <1>12, LenProperties DEF RequestType
  <2> QED
    BY <1>6, <1>12, <1>16, <1>17, <2>1, RunningOutcome
<1>19. Turn!Next
  BY <1>3, <1>7, <1>8, <1>9, <1>10, <1>15, <1>16, <1>17, <1>18, CommitsTokens
<1>20. TurnsInv'
  <2>1. /\ pc \in {"verify", "commit"} /\ (pc = "verify" => NumSpec > 0)
        /\ pc' = (IF pc = "verify" THEN AfterVerify(req') ELSE AfterCommit(req'))
    BY <1>2, <1>9
  <2> QED
    BY <1>2, <1>7, <1>8, <1>15, <1>16, <1>17, <1>18, <2>1, SettledTurns
<1> QED
  BY <1>19, <1>20

LEMMA PostprocessTurns ==
  ASSUME IInv, TurnsInv, Postprocess
  PROVE  TurnsInv' /\ (Turn!Next \/ UNCHANGED <<Phase, History, Quota>>)
<1> DEFINE i == First(RestPositions(req))
           r == batch[i]
           q == Published(Advanced(req[r]))
           P == PublishPool(pool, Advanced(req[r]))
<1>1. OtherTypes /\ Sound(pool, req) /\ StepOK
  BY Parts
<1>2. pc = "commit" /\ pc' = AfterCommit(req') /\ batch' = batch /\ registry' = registry
  BY DEF Postprocess, engineVars
<1>3. batch \in Seq(Requests) /\ req \in [Requests -> RequestType]
  BY <1>1, SoundFacts DEF OtherTypes
<1>4. i \in RestPositions(req)
  <2>1. RestPositions(req) \in SUBSET Nat /\ RestPositions(req) # {}
    BY <1>1, <1>2, <1>3 DEF StepOK, RestPositions
  <2> QED
    BY <2>1, FirstIsLeast
<1>5. \/ Settle(r, q, P, "running")
      \/ \E t \in Tokens : \E o \in Outcomes(Sampled(q, t)) : Settle(r, Sampled(q, t), P, o)
  BY DEF Postprocess
<1> HIDE DEF i
<1>6. /\ r \in Requests /\ r \in Members(batch) /\ req[r].drafts = 0 /\ req[r].sched > 0
      /\ req[r] \in RequestType
  BY <1>3, <1>4 DEF RestPositions, Members
<1> HIDE DEF r, P
<1>7. /\ req[r].status = "running" /\ r \in registry /\ NumOut(req[r]) < req[r].maxNew
      /\ TurnOK(req[r], r \in registry, r \in Members(batch), pc)
  BY <1>1, <1>6 DEF StepOK, TurnsInv, TurnOK
<1>8. /\ req[r].drafts <= Len(req[r].tokens) /\ CommittedTokens(req[r]) = req[r].tokens
      /\ req[r].tokens \in Seq(Tokens)
  <2>1. req[r].drafts <= Len(req[r].tokens) /\ req[r].tokens \in Seq(Tokens)
    BY <1>6, LenProperties DEF RequestType
  <2> QED
    BY <1>6, <2>1, HistoryOf
<1>9. /\ q \in RequestType /\ q.tokens = req[r].tokens /\ q.drafts = 0
      /\ SameLimits(req[r], q)
  <2>1. PICK c \in RequestType : /\ c = Advanced(req[r]) /\ c.tokens = req[r].tokens
                                 /\ c.drafts = 0 /\ SameLimits(req[r], c)
    BY <1>6, AdvancedFacts, LimitsKept
  <2>2. q \in RequestType /\ q.tokens = c.tokens /\ q.drafts = 0 /\ SameLimits(c, q)
    BY <2>1, PublishedFacts, LimitsKept
  <2> QED
    BY <2>1, <2>2 DEF SameLimits
<1> HIDE DEF q
<1>10. ASSUME NEW w \in RequestType, req' = Replaced(req, r, w), w.drafts = 0,
              w.status \in {"running", "paused", "finished"},
              w.status = "running" => NumOut(w) < w.maxNew
       PROVE  TurnsInv'
  <2>1. /\ pc \in {"verify", "commit"} /\ (pc = "verify" => NumSpec > 0)
        /\ pc' = (IF pc = "verify" THEN AfterVerify(req') ELSE AfterCommit(req'))
    BY <1>2
  <2> QED
    BY <1>2, <1>6, <1>7, <1>10, <2>1, SettledTurns
<1>11. ASSUME Settle(r, q, P, "running")
       PROVE  TurnsInv' /\ UNCHANGED <<Phase, History, Quota>>
  <2>1. PICK w \in RequestType :
          /\ req' = Replaced(req, r, w) /\ w.status = "running" /\ w.tokens = q.tokens
          /\ w.drafts = 0 /\ SameLimits(q, w)
    BY <1>3, <1>6, <1>9, <1>11, SettledRequest
  <2>2. SameLimits(req[r], w) /\ CommittedTokens(w) = CommittedTokens(req[r])
    <3>1. w.drafts <= Len(w.tokens)
      BY <1>6, <1>8, <1>9, <2>1
    <3>2. CommittedTokens(w) = w.tokens
      BY <2>1, <3>1, HistoryOf
    <3> QED
      BY <1>8, <1>9, <2>1, <3>2 DEF SameLimits
  <2>3. w.drafts <= Len(w.tokens) /\ PhaseOf(w) = PhaseOf(req[r])
    BY <1>6, <1>7, <1>8, <1>9, <2>1 DEF PhaseOf
  <2>4. /\ SameTurn(req[r], w) /\ NumOut(w) = NumOut(req[r]) /\ w.maxNew = req[r].maxNew
    BY <1>6, <1>8, <2>2, <2>3, TurnKept
  <2>5. TurnsInv'
    BY <1>7, <1>10, <2>1, <2>4
  <2> QED
    BY <1>3, <1>6, <2>1, <2>4, <2>5, ReplacedTurn
<1>12. ASSUME NEW t \in Tokens, NEW o \in Outcomes(Sampled(q, t)), Settle(r, Sampled(q, t), P, o)
       PROVE  TurnsInv' /\ Turn!Next
  <2>1. PICK s \in RequestType : /\ s = Sampled(q, t) /\ s.drafts = 0 /\ SameLimits(q, s)
                                 /\ s.tokens = Append(q.tokens, t)
    <3>1. Sampled(q, t).tokens = Append(q.tokens, t)
      BY <1>9 DEF Sampled, RequestType
    <3> QED
      BY <1>9, <3>1, SampledFacts, LimitsKept
  <2>2. o \in {"running", "paused", "finished"} /\ o \in Outcomes(s) /\ Settle(r, s, P, o)
    BY <1>12, <2>1, OutcomesType
  <2>3. PICK w \in RequestType :
          /\ req' = Replaced(req, r, w) /\ w.status = o /\ w.tokens = s.tokens
          /\ w.drafts = 0 /\ SameLimits(s, w) /\ NumOut(w) = NumOut(s)
    BY <1>3, <1>6, <2>1, <2>2, SettledRequest
  <2>4. SameLimits(req[r], w) /\ w.maxNew = s.maxNew
    BY <1>9, <2>1, <2>3 DEF SameLimits
  <2>5. w.status = "running" => NumOut(w) < w.maxNew
    <3>1. s.drafts <= Len(s.tokens)
      BY <2>1, LenProperties, SMTT(30) DEF RequestType
    <3> QED
      BY <2>2, <2>3, <2>4, <3>1, RunningOutcome
  <2>6. TurnsInv'
    BY <1>10, <2>2, <2>3, <2>5
  <2>7. PICK e \in [1..1 -> Tokens] : e = <<t>>
    <3>1. <<t>> \in Seq(Tokens) /\ Len(<<t>>) = 1
      OBVIOUS
    <3> QED
      BY <3>1, LenProperties
  <2>8. w.tokens = CommittedTokens(req[r]) \o e
    <3>1. Append(req[r].tokens, t) = req[r].tokens \o <<t>>
      BY <1>8, AppendIsConcat
    <3> QED
      BY <1>8, <1>9, <2>1, <2>3, <2>7, <3>1
  <2>9. 1 \in 1..NumSpec + 1 /\ 1 <= Room(req[r])
    <3>1. NumOut(req[r]) \in Int /\ req[r].maxNew \in Nat
      BY <1>6, <1>8, HistoryOf DEF RequestType
    <3> QED
      BY <1>7, <3>1, NumSpecAssumption DEF Room, Greater
  <2>10. Turn!Next
    BY <1>3, <1>6, <1>7, <1>8, <2>2, <2>3, <2>4, <2>5, <2>7, <2>8, <2>9, CommitsTokens
  <2> QED
    BY <2>6, <2>10
<1> QED
  BY <1>5, <1>11, <1>12

\* Every request that finished is in the batch, and the end of the step drops it.
LEMMA ReturnTurns ==
  ASSUME IInv, TurnsInv, Return
  PROVE  TurnsInv' /\ Turn!Next
<1> DEFINE S == {r \in Members(batch) : req[r].status = "finished"}
<1>1. /\ pc = "return" /\ registry' = registry \ S
      /\ req' = [r \in Requests |-> IF r \in S THEN Gone ELSE req[r]]
  BY DEF Return
<1>2. S \subseteq Requests /\ req \in [Requests -> RequestType]
  <2>1. batch \in Seq(Requests) /\ req \in [Requests -> RequestType]
    BY Parts, SoundFacts DEF OtherTypes
  <2> QED
    BY <2>1, MembersType
<1>3. /\ \A r \in S : req[r].status = "finished"
      /\ \A r \in Requests \ S : req[r].status # "finished"
  BY DEF TurnsInv, TurnOK
<1> HIDE DEF S
<1>4. /\ PhaseOf(Gone) = "gone" /\ CommittedTokens(Gone) = << >>
      /\ \A b, at : TurnOK(Gone, FALSE, b, at)
  BY GoneTurn
<1> HIDE DEF Gone
<1>5. TurnsInv'
  <2> SUFFICES ASSUME NEW r \in Requests
               PROVE  TurnOK(req'[r], r \in registry', r \in Members(batch'), pc')
    BY DEF TurnsInv
  <2>1. CASE r \in S
    <3>1. req'[r] = Gone /\ r \notin registry'
      BY <1>1, <2>1
    <3>2. TurnOK(Gone, FALSE, r \in Members(batch'), pc')
      BY <1>4
    <3> QED
      BY <3>1, <3>2 DEF TurnOK
  <2>2. CASE r \notin S
    <3>1. req'[r] = req[r] /\ (r \in registry' <=> r \in registry)
      BY <1>1, <2>2
    <3>2. /\ TurnOK(req[r], r \in registry, r \in Members(batch), pc)
          /\ req[r].status # "finished"
      BY <1>3, <2>2 DEF TurnsInv
    <3>3. ~(req[r].drafts > 0)
      BY <1>1, <3>2 DEF TurnOK
    <3> QED
      BY <3>1, <3>2, <3>3 DEF TurnOK
  <2> QED
    BY <2>1, <2>2
<1>6. ASSUME NEW r \in S
      PROVE  /\ PhaseOf(req[r]) \in {"open", "held", "closed"}
             /\ PhaseOf(req'[r]) = "gone" /\ CommittedTokens(req'[r]) = << >>
  BY <1>1, <1>2, <1>3, <1>4, PhaseFacts
<1>7. \A r \in Requests \ S : SameTurn(req[r], req'[r])
  BY <1>1 DEF SameTurn
<1> QED
  BY <1>2, <1>5, <1>6, <1>7, DropsTurns

(***************************************************************************)
(* The theorem.                                                            *)
(***************************************************************************)
LEMMA NextTurns ==
  NoDraftsToLose /\ IInv /\ TurnsInv /\ [Next]_vars
    => TurnsInv' /\ [Turn!Next]_<<Phase, History, Quota>>
<1> SUFFICES ASSUME NoDraftsToLose, IInv, TurnsInv, [Next]_vars
             PROVE  TurnsInv' /\ (Turn!Next \/ UNCHANGED <<Phase, History, Quota>>)
  OBVIOUS
<1>1. CASE UNCHANGED vars
  <2>1. req' = req /\ registry' = registry /\ batch' = batch /\ pc' = pc
    BY <1>1 DEF vars, schedVars, stepVars
  <2> QED
    BY <2>1, MovesOn
<1>2. ASSUME NEW r \in Requests, NEW m \in MaxTokens, NEW h \in Holds,
             \/ \E p \in TokenLists(PromptLengths) : AddRequest(r, p, m, h)
             \/ \E s \in TokenLists(SuffixLengths) : ResumeRequest(r, s, m, h)
      PROVE  TurnsInv' /\ Turn!Next
  BY <1>2, AddRequestTurn, ResumeRequestTurn
<1>3. ASSUME NEW r \in Requests, FinishRequest(r)
      PROVE  TurnsInv' /\ Turn!Next
  BY <1>3, FinishRequestTurn
<1>4. CASE AbortGeneration
  BY <1>4, AbortGenerationTurn
<1>5. CASE Schedule
  BY <1>5, ConsiderRunningTurns, ConsiderWaitingTurns, ReturnBatchTurns, PreemptTurns, GiveUpTurns
  DEF Schedule
<1>6. CASE Step /\ ~Schedule
  BY <1>6, BetweenStepsTurns, ForwardTurns, VerifySpecTurns, PostprocessTurns, ReturnTurns
  DEF Step
<1>7. CASE ForwardFails
  <2>1. NumSpec = 0
    BY <1>7 DEF NoDraftsToLose, ForwardFails
  <2> QED
    BY <1>7, <2>1, ForwardFailsTurns
<1>8. CASE UpdateWeights \/ Sleep
  BY <1>8, ResetTurns
<1>9. CASE WakeUp \/ ResetPrefixCache
  BY <1>9, BetweenStepsTurns
<1> QED
  BY <1>1, <1>2, <1>3, <1>4, <1>5, <1>6, <1>7, <1>8, <1>9 DEF Next

\* TurnsInv holds, with IInv, as long as a failed forward has no drafts to
\* leave behind.
LEMMA TurnsInvariance ==
  ASSUME NoDraftsToLose
  PROVE  Spec => [](IInv /\ TurnsInv)
<1>1. Init => IInv /\ TurnsInv
  BY InitInvariant, InitTurns
<1>2. (IInv /\ TurnsInv) /\ [Next]_vars => (IInv /\ TurnsInv)'
  BY NextInvariant, NextTurns
<1> QED
  BY <1>1, <1>2, PTL DEF Spec

\* The engine implements the turn protocol: a token enters a request's history
\* only by being submitted or emitted within the turn's quota, and preemption,
\* speculation, parking, weight updates and sleep neither lose nor replace one,
\* provided that a forward that raises does so in an engine without drafts.
THEOREM EngineImplementsTurns ==
  ASSUME NoDraftsToLose
  PROVE  Spec => TurnProtocol
<1>1. Init => Turn!Init
  BY InitTurns
<1>2. IInv /\ TurnsInv /\ [Next]_vars => [Turn!Next]_<<Phase, History, Quota>>
  BY NextTurns
<1>3. [Turn!Next]_<<Phase, History, Quota>> => [Turn!Next]_(Turn!vars)
  BY DEF Turn!vars
<1>4. Spec => [](IInv /\ TurnsInv)
  BY TurnsInvariance
<1> QED
  BY <1>1, <1>2, <1>3, <1>4, PTL DEF Spec, TurnProtocol, Turn!Spec

\* The inductive invariants together: with drafts that no failed forward leaves
\* behind, and a pool that is reset only when nothing counts on its old pages,
\* the KV of every request and the history its client sees are right between
\* any two steps.
THEOREM ProtocolInvariance ==
  ASSUME NoDraftsToLose, OrderlyResets
  PROVE  Spec => []ProtocolInv
<1>1. Spec => []EngineInv
  BY EngineInvariance
<1>2. Spec => [](IInv /\ TurnsInv)
  BY TurnsInvariance
<1> QED
  BY <1>1, <1>2, PTL DEF ProtocolInv
=============================================================================
