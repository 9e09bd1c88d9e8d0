--------------------------- MODULE OffloadKVProofs --------------------------
(***************************************************************************)
(* Proofs about what the pages hold while sessions move between the pool   *)
(* and the host: one lemma per operation says that honest copies stay      *)
(* honest.  That the copies are there at all, and whose they are, is in    *)
(* OffloadProofs.  The last part is about the pressure episode: a measure  *)
(* that each of its steps lowers, and why it does not stop too early.      *)
(***************************************************************************)
EXTENDS OffloadProofs

(***************************************************************************)
(* Pages.                                                                  *)
(***************************************************************************)

\* A cell of a full block, seen from its hash and from the whole history.
LEMMA CellOfBlock ==
  ASSUME NEW toks \in TokenLists, NEW i \in Nat \ {0}, i * BlockSize <= Len(toks), NEW o \in Offsets,
         NEW h, h = SubSeq(toks, 1, i * BlockSize)
  PROVE  /\ i * BlockSize \in Nat /\ Len(h) = i * BlockSize /\ (i - 1) * BlockSize + o <= i * BlockSize
         /\ Cell(weights, h, Len(h) - BlockSize + o) = Cell(weights, toks, (i - 1) * BlockSize + o)
<1>1. BlockSize \in Nat \ {0} /\ o \in 1..BlockSize
  BY BlockSizeAssumption DEF Offsets
<1>2. i * BlockSize \in Nat /\ (i - 1) * BlockSize \in Nat /\ (i - 1) * BlockSize + BlockSize = i * BlockSize
  BY <1>1
<1> DEFINE n == i * BlockSize
           p == (i - 1) * BlockSize + o
<1>3. n \in Nat /\ p \in Nat /\ p <= n /\ n - BlockSize + o = p
  BY <1>1, <1>2
<1>4. n <= Len(toks) /\ h = SubSeq(toks, 1, n)
  OBVIOUS
<1> HIDE DEF n, p
<1>5. Len(h) = n /\ SubSeq(h, 1, p) = SubSeq(toks, 1, p)
  <2>1. toks \in Seq(Tokens)
    BY DEF TokenLists
  <2>2. Len(SubSeq(toks, 1, n)) = n /\ SubSeq(SubSeq(toks, 1, n), 1, p) = SubSeq(toks, 1, p)
    BY <1>3, <1>4, <2>1, SubSeqTwice
  <2> QED
    BY <1>4, <2>2
<1>6. Len(h) - BlockSize + o = p
  BY <1>3, <1>5
<1>7. Cell(weights, h, p) = Cell(weights, toks, p)
  BY <1>5 DEF Cell
<1>8. Cell(weights, h, Len(h) - BlockSize + o) = Cell(weights, toks, p)
  BY <1>6, <1>7
<1> QED
  BY <1>3, <1>5, <1>8 DEF n, p

LEMMA PromisedThrough ==
  ASSUME NEW toks \in TokenLists, NEW i \in Nat \ {0}, i * BlockSize <= Len(toks), NEW page,
         NEW h, h = SubSeq(toks, 1, i * BlockSize), Promise(page, h), NEW n
  PROVE  Through(page, toks, n, i)
BY CellOfBlock DEF Promise, Through

LEMMA ThroughPromised ==
  ASSUME NEW toks \in TokenLists, NEW i \in Nat \ {0}, NEW n \in Nat, i * BlockSize <= n, n <= Len(toks), NEW page,
         NEW h, h = SubSeq(toks, 1, i * BlockSize), Through(page, toks, n, i)
  PROVE  Promise(page, h)
<1>1. i * BlockSize \in Nat /\ Len(toks) \in Nat
  BY BlockSizeAssumption, LenProperties DEF TokenLists
<1>2. i * BlockSize <= Len(toks)
  BY <1>1
<1>3. ASSUME NEW o \in Offsets
      PROVE  page[o] = Cell(weights, h, Len(h) - BlockSize + o)
  <2>1. /\ (i - 1) * BlockSize + o <= i * BlockSize
        /\ Cell(weights, h, Len(h) - BlockSize + o) = Cell(weights, toks, (i - 1) * BlockSize + o)
    BY <1>2, CellOfBlock
  <2>2. (i - 1) * BlockSize + o \in Int
    BY BlockSizeAssumption DEF Offsets
  <2>3. (i - 1) * BlockSize + o <= n
    <3> DEFINE p == (i - 1) * BlockSize + o
               e == i * BlockSize
    <3>1. p \in Int /\ e \in Nat /\ p <= e /\ e <= n
      BY <1>1, <2>1, <2>2
    <3> HIDE DEF p, e
    <3>2. p <= n
      BY <3>1
    <3> QED
      BY <3>2 DEF p
  <2> QED
    BY <2>1, <2>3 DEF Through
<1> QED
  BY <1>3 DEF Promise

LEMMA FullPage ==
  ASSUME NEW toks, NEW i \in Nat \ {0}, NEW n \in Nat, i * BlockSize <= n, NEW page,
         Through(page, toks, n, i)
  PROVE  PageOf(page, toks, n, i)
<1>1. ASSUME NEW o \in Offsets, (i - 1) * BlockSize + o > n
      PROVE  FALSE
  <2>1. BlockSize \in Nat \ {0} /\ o \in 1..BlockSize
    BY BlockSizeAssumption DEF Offsets
  <2>2. i * BlockSize \in Nat /\ (i - 1) * BlockSize \in Nat /\ (i - 1) * BlockSize + BlockSize = i * BlockSize
    BY <2>1
  <2> DEFINE a == (i - 1) * BlockSize
             e == i * BlockSize
  <2>3. a \in Nat /\ e \in Nat /\ a + BlockSize = e /\ e <= n /\ a + o > n
    BY <1>1, <2>2
  <2> HIDE DEF a, e
  <2> QED
    BY <2>1, <2>3
<1> QED
  BY <1>1 DEF PageOf

\* The history grew behind what is computed.
LEMMA ThroughLonger ==
  ASSUME NEW S, NEW s \in Seq(S), NEW t \in Seq(S), NEW n \in Nat, \A j \in 1..n : s[j] = t[j],
         NEW page, NEW i \in Nat \ {0}, Through(page, s, n, i)
  PROVE  Through(page, t, n, i)
<1>1. \A p \in 1..n : SubSeq(s, 1, p) = SubSeq(t, 1, p)
  BY SamePrefixes
<1>2. ASSUME NEW o \in Offsets, (i - 1) * BlockSize + o <= n
      PROVE  page[o] = Cell(weights, t, (i - 1) * BlockSize + o)
  <2>1. BlockSize \in Nat \ {0} /\ o \in 1..BlockSize
    BY BlockSizeAssumption DEF Offsets
  <2>2. (i - 1) * BlockSize \in Nat
    BY <2>1
  <2>3. (i - 1) * BlockSize + o \in 1..n
    BY <1>2, <2>1, <2>2
  <2>4. page[o] = Cell(weights, s, (i - 1) * BlockSize + o)
    BY <1>2 DEF Through
  <2> QED
    BY <1>1, <2>3, <2>4 DEF Cell
<1> QED
  BY <1>2 DEF Through

LEMMA ExportedPage ==
  ASSUME NEW k, NEW t, NEW toks, NEW n, NEW i, Through(k[t[i]], toks, n, i), NEW N \in Nat, N = n, i \in Nat
  PROVE  PageOf(ExportPage(k, t, i, n), toks, n, i)
<1> DEFINE E == ExportPage(k, t, i, n)
<1>1. \A o \in Offsets : E[o] = IF (i - 1) * BlockSize + o <= n THEN k[t[i]][o] ELSE Junk
  BY DEF ExportPage
<1>2. \A o \in Offsets : (i - 1) * BlockSize + o > n => ~((i - 1) * BlockSize + o <= n)
  BY BlockSizeAssumption DEF Offsets
<1> HIDE DEF E
<1>3. Through(E, toks, n, i)
  BY <1>1 DEF Through
<1>4. PageOf(E, toks, n, i)
  BY <1>1, <1>2, <1>3 DEF PageOf
<1> QED
  BY <1>4 DEF E

\* Giving pages back leaves the pages that somebody counts on as they are.
LEMMA Unscrubbed ==
  ASSUME NEW P, NEW Q, Seats(P, Q), NEW k
  PROVE  /\ \A r \in Sessions : \A i \in DOMAIN Q[r].table :
              Q[r].table[i] \in Blocks /\ Q[r].table[i] \notin P.free /\ Scrub(k, P.free)[Q[r].table[i]] = k[Q[r].table[i]]
         /\ \A e \in P.cache :
              e[1] \in TokenLists /\ e[2] \in Blocks /\ e[2] \notin P.free /\ Scrub(k, P.free)[e[2]] = k[e[2]]
<1>1. /\ P \in PoolOf(TokenLists) /\ Exact(P, Tables(Q)) /\ IsFiniteSet(Sessions)
      /\ Tables(Q) \in [Sessions -> Seq(Blocks)] /\ Requests(Q)
  BY SeatsFacts
<1>2. ASSUME NEW b \in Blocks, P.ref[b] > 0
      PROVE  b \notin P.free /\ Scrub(k, P.free)[b] = k[b]
  <2>1. b \in P.free <=> P.ref[b] = 0
    BY <1>1, ExactFacts
  <2>2. b \notin P.free
    BY <1>2, <2>1
  <2> QED
    BY <2>2 DEF Scrub
<1>3. ASSUME NEW r \in Sessions, NEW i \in DOMAIN Q[r].table
      PROVE  Q[r].table[i] \in Blocks /\ P.ref[Q[r].table[i]] > 0
  <2>1. Tables(Q)[r] = Q[r].table /\ Q[r].table \in Seq(Blocks)
    BY <1>1, TablesType DEF Requests, IsRequest
  <2>2. Q[r].table[i] \in Blocks
    BY <2>1, ElementOfSeq
  <2> QED
    BY <1>1, <2>1, <2>2, ExactFacts
<1>4. ASSUME NEW e \in P.cache
      PROVE  e[1] \in TokenLists /\ e[2] \in Blocks /\ P.ref[e[2]] > 0
  <2>1. e[1] \in TokenLists /\ e[2] \in Blocks
    BY <1>1 DEF PoolOf
  <2> QED
    BY <1>1, <2>1, ExactFacts
<1> QED
  BY <1>2, <1>3, <1>4

\* Other pages with the same blocks of the table.
LEMMA OwedPages ==
  ASSUME NEW k, NEW c, Owed(k, c), NEW k2, \A i \in DOMAIN c.table : k2[c.table[i]] = k[c.table[i]]
  PROVE  Owed(k2, c)
BY DEF Owed

LEMMA HonestScrubbed ==
  ASSUME NEW Z, Seats(Z.pool, Z.q), Honest(Z), NEW Y, Y.pool = Z.pool, SameHost(Y, Z), Y.kv = Scrub(Z.kv, Z.pool.free)
  PROVE  Honest(Y)
<1>1. Y.q = Z.q /\ Y.store = Z.store /\ Y.pend = Z.pend /\ Y.blocks = Z.blocks /\ Y.man = Z.man /\ Y.lease = Z.lease
  BY DEF SameHost
<1>2. Tiered => Shelf(Y)
  <2>1. Shelf(Z) <=> Shelf(Y)
    BY <1>1, ZenonT(40) DEF Shelf, Leased
  <2> QED
    BY <2>1 DEF Honest
<1>3. ASSUME ~stale
      PROVE  Resident(Y)
  <2>1. Resident(Z)
    BY <1>3 DEF Honest
  <2>2. \A r \in Sessions : Owed(Y.kv, Y.q[r])
    BY <1>1, <2>1, OwedPages, Unscrubbed DEF Resident
  <2>3. \A e \in Y.pool.cache : Promise(Y.kv[e[2]], e[1])
    BY <2>1, Unscrubbed DEF Resident
  <2> QED
    BY <2>2, <2>3 DEF Resident
<1>4. ASSUME ~stale
      PROVE  IF Tiered THEN InBlocks(Y) ELSE OnHost(Y)
  BY <1>1, <1>4 DEF Honest, InBlocks, OnHost
<1> QED
  BY <1>2, <1>3, <1>4 DEF Honest

LEMMA HonestNextAs ==
  ASSUME NEW Y, Honest(Y), UNCHANGED <<cfg, weights, epoch>>, ~stale' => ~stale /\ ~StaleParent(Y.q), State' = Y
  PROVE  ContentInv'
<1>1. (Tiered <=> Tiered') /\ Namespace' = Namespace /\ weights' = weights
  BY DEF Tiered, Namespace
<1>2. \A toks, p : Cell(weights', toks, p) = Cell(weights, toks, p)
  BY <1>1
<1>3. q' = Y.q
  BY DEF State
<1>4. Tiered' => Shelf(State)'
  BY <1>1 DEF Honest, Shelf, Leased
<1>5. ASSUME ~stale'
      PROVE  Resident(State)'
  <2>1. Resident(Y)
    BY <1>5 DEF Honest
  <2>2. (\A r \in Sessions : Owed(State.kv, State.q[r]))'
    BY <1>1, <2>1 DEF Resident, Owed, Through
  <2>3. (\A e \in State.pool.cache : Promise(State.kv[e[2]], e[1]))'
    BY <1>1, <2>1 DEF Resident, Promise
  <2> QED
    BY <2>2, <2>3 DEF Resident
<1>6. ASSUME ~stale', Tiered
      PROVE  InBlocks(State)'
  <2>1. InBlocks(Y)
    BY <1>6 DEF Honest
  <2>2. (\A k \in DOMAIN State.blocks : State.blocks[k].ready /\ ~IsTail(k) => Promise(State.blocks[k].page, k[2]))'
    BY <1>1, <2>1 DEF InBlocks, Promise
  <2>3. (\A r \in Sessions : TailsSound(State.blocks, State.man[r]))'
    <3>1. \A r \in Sessions : TailsSound(Y.blocks, Y.man[r])
      BY <2>1 DEF InBlocks
    <3> QED
      BY <1>1, <3>1 DEF TailsSound, PageOf, Through
  <2>4. (State.lease.on => \A r \in DOMAIN State.lease.man : TailsSound(State.blocks, State.lease.man[r]))'
    <3>1. ASSUME Y.lease.on, NEW r \in DOMAIN Y.lease.man
          PROVE  TailsSound(State.blocks, State.lease.man[r])'
      <4>1. TailsSound(Y.blocks, Y.lease.man[r])
        BY <2>1, <3>1 DEF InBlocks
      <4> QED
        BY <1>1, <4>1 DEF TailsSound, PageOf, Through
    <3> QED
      BY <3>1
  <2> QED
    BY <2>2, <2>3, <2>4 DEF InBlocks
<1>7. ASSUME ~stale', ~Tiered
      PROVE  OnHost(State)'
  <2>1. OnHost(Y)
    BY <1>7 DEF Honest
  <2> QED
    BY <1>1, <2>1 DEF OnHost, PageOf, Through
<1>8. Honest(State)'
  BY <1>1, <1>4, <1>5, <1>6, <1>7 DEF Honest
<1>9. ~stale' => ~StaleParent(q)'
  BY <1>3 DEF StaleParent
<1> QED
  BY <1>8, <1>9 DEF ContentInv

\* A step that ends with what is honest before the freed pages are scrubbed.
LEMMA HonestNext ==
  ASSUME NEW Z, NEW h, Good(Z, h), Honest(Z), UNCHANGED <<cfg, weights, epoch>>, Become(Z)
  PROVE  ContentInv'
<1>1. PICK Y : Y = State'
  OBVIOUS
<1>2. Y.pool = Z.pool /\ Y.kv = Scrub(Z.kv, Z.pool.free) /\ stale' = (stale \/ StaleParent(Z.q))
  BY <1>1 DEF Become, State
<1>3. SameHost(Y, Z)
  BY <1>1 DEF Become, State, SameHost
<1>4. Seats(Z.pool, Z.q)
  BY DEF Good, Seated
<1>5. Honest(Y)
  BY <1>2, <1>3, <1>4, HonestScrubbed
<1>6. Y.q = Z.q
  BY <1>3 DEF SameHost
<1> QED
  BY <1>1, <1>2, <1>5, <1>6, HonestNextAs

LEMMA HonestStill ==
  ASSUME ContentInv, UNCHANGED <<pool, kv, q, stale, weights, epoch, offloadVars>>
  PROVE  ContentInv'
<1>1. State' = State /\ stale' = stale
  BY DEF State, offloadVars
<1>2. ~stale' => ~stale /\ ~StaleParent(State.q)
  <2>1. State.q = q
    BY DEF State
  <2> QED
    BY <1>1, <2>1 DEF ContentInv
<1>3. UNCHANGED <<cfg, weights, epoch>>
  BY DEF offloadVars
<1>4. PICK Y : Y = State
  OBVIOUS
<1> QED
  BY <1>1, <1>2, <1>3, <1>4, HonestNextAs DEF ContentInv

(***************************************************************************)
(* Requests that lose their pages, and snapshots that are dropped.         *)
(***************************************************************************)
LEMMA OwedBare ==
  ASSUME NEW k, NEW c, c.table = << >>, c.parent = ROOT_HASH => c.published = 0
  PROVE  Owed(k, c)
BY DEF Owed, Chained

LEMMA OwedKept ==
  ASSUME NEW k, NEW c, Owed(k, c), NEW d, d.table = c.table, d.tokens = c.tokens, d.parent = c.parent,
         d.published = c.published, d.computed = c.computed \/ c.table = << >>
  PROVE  Owed(k, d)
<1>1. CASE c.table = << >>
  BY <1>1 DEF Owed, Chained
<1>2. CASE c.table # << >>
  BY <1>2 DEF Owed, Chained
<1> QED
  BY <1>1, <1>2

\* The history of a request grows behind what it has computed.
LEMMA OwedLonger ==
  ASSUME NEW k, NEW c, IsRequest(c), Placed(c), c.st # "gone", Owed(k, c), NEW suffix \in TokenLists,
         NEW d, d.table = c.table, d.tokens = c.tokens \o suffix, d.parent = c.parent,
         d.published = c.published, d.computed = c.computed
  PROVE  Owed(k, d)
<1>1. /\ c.tokens \in Seq(Tokens) /\ suffix \in Seq(Tokens) /\ c.computed \in Nat /\ c.published \in Nat
      /\ c.computed < Len(c.tokens) /\ Len(c.tokens) \in Nat /\ c.table \in Seq(Blocks)
  BY LenProperties DEF IsRequest, Placed, TokenLists
<1>2. d.tokens \in Seq(Tokens) /\ \A j \in 1..c.computed : c.tokens[j] = d.tokens[j]
  BY <1>1
<1>3. \A i \in DOMAIN d.table : Through(k[d.table[i]], d.tokens, d.computed, i)
  <2> SUFFICES ASSUME NEW i \in DOMAIN d.table
               PROVE  Through(k[d.table[i]], d.tokens, d.computed, i)
    OBVIOUS
  <2>1. i \in Nat \ {0}
    BY <1>1
  <2>2. Through(k[c.table[i]], c.tokens, c.computed, i)
    BY DEF Owed
  <2>3. PICK s, t, n, page : s = c.tokens /\ t = d.tokens /\ n = c.computed /\ page = k[c.table[i]]
    OBVIOUS
  <2>4. /\ s \in Seq(Tokens) /\ t \in Seq(Tokens) /\ n \in Nat /\ \A j \in 1..n : s[j] = t[j]
        /\ Through(page, s, n, i)
    BY <1>1, <1>2, <2>2, <2>3
  <2>5. Through(page, t, n, i)
    BY <2>1, <2>4, ThroughLonger
  <2> QED
    BY <2>3, <2>5
<1>4. ASSUME PrefixCaching
      PROVE  Chained(d)
  <2>1. Chained(c)
    BY <1>4 DEF Owed
  <2>2. CASE c.table = << >>
    BY <2>1, <2>2 DEF Chained
  <2>3. CASE c.table # << >>
    <3>1. c.parent = SubSeq(c.tokens, 1, c.published * BlockSize) /\ c.published * BlockSize <= c.computed
      BY <2>1, <2>3 DEF Chained
    <3>2. c.published * BlockSize \in Nat
      BY <1>1, BlockSizeAssumption
    <3>3. SubSeq(c.tokens, 1, c.published * BlockSize) = SubSeq(d.tokens, 1, c.published * BlockSize)
      <4> DEFINE n == c.published * BlockSize
      <4>1. n \in Nat /\ n <= c.computed
        BY <3>1, <3>2
      <4> HIDE DEF n
      <4>2. CASE n = 0
        <5>1. SubSeq(c.tokens, 1, 0) = << >> /\ SubSeq(d.tokens, 1, 0) = << >>
          BY <1>1, <1>2
        <5> QED
          BY <4>2, <5>1 DEF n
      <4>3. CASE n # 0
        <5>1. n \in 1..c.computed
          BY <1>1, <4>1, <4>3
        <5>2. SubSeq(c.tokens, 1, n) = SubSeq(d.tokens, 1, n)
          BY <1>1, <1>2, <5>1, SamePrefixes
        <5> QED
          BY <5>2 DEF n
      <4> QED
        BY <4>2, <4>3
    <3> QED
      BY <2>3, <3>1, <3>3 DEF Chained
  <2> QED
    BY <2>2, <2>3
<1> QED
  BY <1>3, <1>4 DEF Owed

\* The pages stay, and whoever counts on them counts on no more.
Fades(Y, Z) ==
  /\ Y.kv = Z.kv /\ Y.pool.cache \subseteq Z.pool.cache
  /\ \A x \in Sessions : Owed(Z.kv, Z.q[x]) => Owed(Z.kv, Y.q[x])
  /\ ~Tiered => Snaps(Y.store) \subseteq Snaps(Z.store) /\ (Y.pend.on => Y.pend = Z.pend)
  /\ Tiered => SameBlocks(Y, Z) /\ (Z.lease.on => \A x \in DOMAIN Z.lease.man : Y.q[x].res = "cpu" => Z.q[x].res = "cpu")

LEMMA ShelfSame ==
  ASSUME NEW Z, Shelf(Z), NEW Y, SameBlocks(Y, Z),
         Z.lease.on => \A x \in DOMAIN Z.lease.man : Y.q[x].res = "cpu" => Z.q[x].res = "cpu"
  PROVE  Shelf(Y)
<1>1. Shelf(Z) /\ Y.blocks = Z.blocks /\ Y.man = Z.man /\ Y.lease = Z.lease
  BY DEF SameBlocks
<1>2. Z.lease.on => \A x \in DOMAIN Z.lease.man : Y.q[x].res = "cpu" => Z.q[x].res = "cpu"
  OBVIOUS
<1>3. \A k : Leased(Y, k) <=> Leased(Z, k)
  BY <1>1 DEF Leased
<1>4. ASSUME Y.lease.on, NEW x \in DOMAIN Y.lease.man, Y.q[x].res = "cpu"
      PROVE  \A k \in Range(Y.lease.man[x].keys) : Y.blocks[k].ready
  BY <1>1, <1>2, <1>4 DEF Shelf
<1>5. ASSUME Y.lease.on, NEW x \in DOMAIN Y.lease.man
      PROVE  /\ Range(Y.lease.man[x].keys) \subseteq Y.lease.keys \intersect DOMAIN Y.blocks
             /\ Y.man[x].id = Y.lease.man[x].id => Y.man[x] = Y.lease.man[x]
  BY <1>1, <1>5 DEF Shelf
<1>6. Cardinality(DOMAIN Y.blocks) <= CpuMax
  BY <1>1 DEF Shelf
<1>7. ASSUME NEW k \in DOMAIN Y.blocks
      PROVE  /\ k[1] = Namespace /\ DOMAIN Y.blocks[k] = {"ready", "page", "pins"}
             /\ Y.blocks[k].pins = IF Leased(Y, k) THEN 1 ELSE 0
             /\ Y.blocks[k].ready \/ Leased(Y, k)
  <2>1. /\ k[1] = Namespace /\ DOMAIN Z.blocks[k] = {"ready", "page", "pins"}
        /\ Z.blocks[k].pins = IF Leased(Z, k) THEN 1 ELSE 0
        /\ Z.blocks[k].ready \/ Leased(Z, k)
    BY <1>1, <1>7 DEF Shelf
  <2> QED
    BY <2>1, <1>1, <1>3
<1>8. ASSUME ~Y.lease.on, NEW k \in DOMAIN Y.blocks, IsTail(k)
      PROVE  \E x \in Sessions : k \in TailsOf(Y.man[x])
  <2>1. \E x \in Sessions : k \in TailsOf(Z.man[x])
    BY <1>1, <1>8 DEF Shelf
  <2> QED
    BY <2>1, <1>1
<1> QED
  BY <1>4, <1>5, <1>6, <1>7, <1>8 DEF Shelf

LEMMA FadesHonest ==
  ASSUME NEW Z, Honest(Z), NEW Y, Fades(Y, Z)
  PROVE  Honest(Y)
<1>1. ASSUME Tiered
      PROVE  Shelf(Y)
  <2>1. Shelf(Z) /\ SameBlocks(Y, Z)
    BY <1>1 DEF Honest, Fades
  <2>2. Z.lease.on => \A x \in DOMAIN Z.lease.man : Y.q[x].res = "cpu" => Z.q[x].res = "cpu"
    BY <1>1 DEF Fades
  <2> QED
    BY <2>1, <2>2, ShelfSame
<1>2. ASSUME ~stale
      PROVE  Resident(Y)
  BY <1>2 DEF Honest, Resident, Fades
<1>3. ASSUME ~stale, Tiered
      PROVE  InBlocks(Y)
  BY <1>3 DEF Honest, Fades, SameBlocks, InBlocks
<1>4. ASSUME ~stale, ~Tiered
      PROVE  OnHost(Y)
  BY <1>4 DEF Honest, Fades, OnHost
<1> QED
  BY <1>1, <1>2, <1>3, <1>4 DEF Honest

LEMMA ReclaimedHonest ==
  ASSUME NEW Z, NEW hold, Good(Z, hold), Honest(Z), NEW goal, NEW Y \in Reclaimed(Z, goal)
  PROVE  Honest(Y)
<1>1. Seats(Z.pool, Z.q) /\ SameHost(Y, Z) /\ Y.kv = Z.kv /\ Y.pool \in Reclaims(Z.pool, goal)
  BY ReclaimedGood DEF Good, Seated
<1>2. Y.pool.cache \subseteq Z.pool.cache
  BY <1>1, ReclaimSeats
<1>3. Fades(Y, Z)
  BY <1>1, <1>2 DEF Fades, SameHost, SameBlocks
<1> QED
  BY <1>3, FadesHonest

(***************************************************************************)
(* Saving a snapshot.                                                      *)
(***************************************************************************)
LEMMA OwedOffGpu ==
  ASSUME NEW k, NEW c, IsRequest(c), NEW m
  PROVE  Owed(k, OffGpu(c, m))
<1>1. OffGpu(c, m).table = << >> /\ OffGpu(c, m).published = 0
  BY DEF OffGpu, IsRequest
<1> QED
  BY <1>1, OwedBare

LEMMA CommitHonest ==
  ASSUME ~Tiered, NEW Z, NEW hold, SnapGood(Z, hold), Honest(Z), NEW r \in Sessions, NEW m \in Z.store.open,
         NEW pages, ~stale => \A i \in 1..m.n : PageOf(pages[i], m.tokens, m.computed, i),
         NEW Y, CommitFields(Y, Z, r, m, pages), ~Y.pend.on
  PROVE  Honest(Y)
<1>1. Books(Z.store, hold) /\ Requests(Z.q) /\ Seats(Z.pool, Z.q)
  BY DEF SnapGood, Snapped, Seated, Seats
<1> DEFINE s == WithPages(m, pages)
<1>2. Snaps(Y.store) = Snaps(Z.store) \union {s} /\ SameMeta(s, m) /\ s.pages = pages
  BY <1>1, CommitBooks DEF CommitFields
<1> HIDE DEF s
<1>3. Y.kv = Z.kv /\ Y.q = [Z.q EXCEPT ![r] = OffGpu(Z.q[r], m)] /\ Y.pool = Deallocate(Z.pool, Z.q[r].table)
  BY DEF CommitFields
<1>4. Y.pool.cache = Z.pool.cache
  BY <1>3 DEF Deallocate, Decref
<1>5. ASSUME ~stale
      PROVE  Resident(Y)
  <2>1. Resident(Z) /\ DOMAIN Z.q = Sessions /\ IsRequest(Z.q[r])
    BY <1>1, <1>5 DEF Honest, Requests
  <2>2. Owed(Y.kv, OffGpu(Z.q[r], m))
    BY <2>1, OwedOffGpu
  <2> QED
    BY <1>3, <1>4, <2>1, <2>2 DEF Resident
<1>6. ASSUME ~stale
      PROVE  OnHost(Y)
  <2>1. OnHost(Z)
    BY <1>6 DEF Honest
  <2>2. \A i \in 1..s.n : PageOf(s.pages[i], s.tokens, s.computed, i)
    BY <1>2, <1>6 DEF SameMeta
  <2> QED
    BY <1>2, <2>1, <2>2 DEF OnHost
<1> QED
  BY <1>5, <1>6 DEF Honest

LEMMA ExportHonest ==
  ASSUME NEW Z, Requests(Z.q), Resident(Z), NEW r \in Sessions, NEW m, IsMeta(m),
         m.tokens = Z.q[r].tokens, m.computed = Z.q[r].computed
  PROVE  \A i \in 1..m.n : PageOf(Export(Z, r, m)[i], m.tokens, m.computed, i)
<1>1. IsRequest(Z.q[r]) /\ Placed(Z.q[r]) /\ Owed(Z.kv, Z.q[r])
  BY DEF Requests, Resident
<1>2. m.n = Len(Z.q[r].table) /\ m.n \in Nat /\ m.computed \in Nat /\ DOMAIN Z.q[r].table = 1..m.n
  BY <1>1, LenProperties DEF IsMeta, Placed, IsRequest
<1> SUFFICES ASSUME NEW i \in 1..m.n
             PROVE  PageOf(Export(Z, r, m)[i], m.tokens, m.computed, i)
  OBVIOUS
<1>3. Through(Z.kv[Z.q[r].table[i]], m.tokens, m.computed, i)
  BY <1>1, <1>2 DEF Owed
<1>4. PageOf(ExportPage(Z.kv, Z.q[r].table, i, m.computed), m.tokens, m.computed, i)
  BY <1>2, <1>3, ExportedPage
<1>5. Export(Z, r, m)[i] = ExportPage(Z.kv, Z.q[r].table, i, m.computed)
  BY DEF Export
<1> QED
  BY <1>4, <1>5

LEMMA PendingHonest ==
  ASSUME NEW p, p.meta.computed \in Nat,
         \A i \in DOMAIN p.pages : i \in Nat /\ Through(p.pages[i], p.meta.tokens, p.meta.computed, i)
  PROVE  \A i \in DOMAIN p.pages : PageOf(PendingPages(p)[i], p.meta.tokens, p.meta.computed, i)
<1> SUFFICES ASSUME NEW i \in DOMAIN p.pages
             PROVE  PageOf(PendingPages(p)[i], p.meta.tokens, p.meta.computed, i)
  OBVIOUS
<1>1. PICK E : E = PendingPages(p)[i]
  OBVIOUS
<1>2. \A o \in Offsets : E[o] = IF (i - 1) * BlockSize + o <= p.meta.computed THEN p.pages[i][o] ELSE Junk
  BY <1>1 DEF PendingPages
<1>3. Through(E, p.meta.tokens, p.meta.computed, i)
  BY <1>2 DEF Through
<1>4. \A o \in Offsets : (i - 1) * BlockSize + o > p.meta.computed => ~((i - 1) * BlockSize + o <= p.meta.computed)
  BY BlockSizeAssumption DEF Offsets
<1>5. PageOf(E, p.meta.tokens, p.meta.computed, i)
  BY <1>2, <1>3, <1>4 DEF PageOf
<1> QED
  BY <1>1, <1>5

LEMMA CopiedMoreHonest ==
  ASSUME ~Tiered, NEW Z, Honest(Z), NEW Y, CopiedMore(Y, Z),
         ~stale /\ Z.pend.on => \A i \in DOMAIN Y.pend.pages : Through(Y.pend.pages[i], Z.pend.meta.tokens, Z.pend.meta.computed, i)
  PROVE  Honest(Y)
<1>1. Y.q = Z.q /\ Y.kv = Z.kv /\ Y.pool = Z.pool /\ Y.store = Z.store /\ Y.pend.on = Z.pend.on /\ Y.pend.meta = Z.pend.meta
  BY DEF CopiedMore
<1>2. ASSUME ~stale
      PROVE  Resident(Y) /\ OnHost(Y)
  BY <1>1, <1>2 DEF Honest, Resident, OnHost
<1> QED
  BY <1>2 DEF Honest

\* The source of a copy in flight.
LEMMA SourceFacts ==
  ASSUME NEW Z, NEW hold, SnapGood(Z, hold), Z.pend.on
  PROVE  LET m == Z.pend.meta
         IN  /\ m \in Z.store.open /\ IsMeta(m) /\ m.rid \in Sessions /\ m.n \in Nat
             /\ Z.q[m.rid].table = Z.pend.table /\ Z.q[m.rid].tokens = m.tokens /\ Z.q[m.rid].computed = m.computed
             /\ Len(Z.pend.table) = m.n /\ DOMAIN Z.pend.table = 1..m.n
             /\ DOMAIN Z.pend.pages = 1..Len(Z.pend.pages) /\ Len(Z.pend.pages) \in Nat /\ Len(Z.pend.pages) <= m.n
<1> DEFINE m == Z.pend.meta
<1>1. m \in Z.store.open /\ StoreTyped(Z.store) /\ SourceHeld(Z) /\ Requests(Z.q)
  BY DEF SnapGood, Snapped, Reserved, Books, Seated, Seats
<1>2. IsMeta(m) /\ m.rid \in Sessions /\ m.n \in Nat
  BY <1>1, MetaSize DEF StoreTyped, IsMeta
<1>3. /\ Z.q[m.rid].table = Z.pend.table /\ Z.q[m.rid].tokens = m.tokens /\ Z.q[m.rid].computed = m.computed
      /\ Z.pend.pages \in Seq(Range(Z.pend.pages)) /\ Len(Z.pend.pages) <= m.n
  BY <1>1 DEF SourceHeld
<1>4. Z.pend.table \in Seq(Blocks) /\ Len(Z.pend.table) = m.n
  BY <1>1, <1>2, <1>3 DEF Requests, IsRequest, Placed, IsMeta
<1> QED
  BY <1>1, <1>2, <1>3, <1>4, LenProperties

LEMMA SynchronizedHonest ==
  ASSUME ~Tiered, NEW Z, NEW hold, SnapGood(Z, hold), Honest(Z), Z.pend.on
  PROVE  LET Y == Synchronized(Z)
         IN  Honest(Y) /\ Len(Y.pend.pages) = Y.pend.meta.n /\ Y.pend.meta = Z.pend.meta /\ Y.pend.on
<1> DEFINE m == Z.pend.meta
           pg == [i \in 1..m.n |-> IF i <= Len(Z.pend.pages) THEN Z.pend.pages[i] ELSE Z.kv[Z.pend.table[i]]]
           Y == Synchronized(Z)
<1>1. /\ IsMeta(m) /\ m.rid \in Sessions /\ m.n \in Nat
      /\ Z.q[m.rid].table = Z.pend.table /\ Z.q[m.rid].tokens = m.tokens /\ Z.q[m.rid].computed = m.computed
      /\ DOMAIN Z.pend.table = 1..m.n
      /\ DOMAIN Z.pend.pages = 1..Len(Z.pend.pages) /\ Len(Z.pend.pages) \in Nat /\ Len(Z.pend.pages) <= m.n
  BY SourceFacts
<1>2. CopiedMore(Y, Z)
  BY SynchronizedGood
<1>3. Y.pend.pages = pg
  <2>1. Y.pend = [Z.pend EXCEPT !.pages = pg] /\ DOMAIN Z.pend = {"on", "meta", "table", "pages"}
    BY DEF Synchronized, SnapGood, Zone, Snapped, SourceHeld
  <2> QED
    BY <2>1
<1>4. DOMAIN pg = 1..m.n /\ Len(pg) = m.n
  <2>1. Y.pend.pages \in Seq(Range(Y.pend.pages))
    BY <1>2 DEF CopiedMore
  <2>2. DOMAIN pg = 1..m.n
    OBVIOUS
  <2> QED
    BY <1>1, <1>3, <2>1, <2>2, LenProperties
<1>5. ASSUME ~stale, NEW i \in DOMAIN pg
      PROVE  Through(pg[i], m.tokens, m.computed, i)
  <2>1. Resident(Z) /\ OnHost(Z)
    BY <1>5 DEF Honest
  <2>2. i \in 1..m.n
    BY <1>5
  <2>3. CASE i <= Len(Z.pend.pages)
    <3>1. i \in DOMAIN Z.pend.pages /\ pg[i] = Z.pend.pages[i]
      BY <1>1, <2>2, <2>3
    <3> QED
      BY <2>1, <3>1 DEF OnHost
  <2>4. CASE ~(i <= Len(Z.pend.pages))
    <3>1. i \in DOMAIN Z.pend.table /\ pg[i] = Z.kv[Z.pend.table[i]]
      BY <1>1, <2>2, <2>4
    <3>2. Owed(Z.kv, Z.q[m.rid])
      BY <1>1, <2>1 DEF Resident
    <3> QED
      BY <1>1, <3>1, <3>2 DEF Owed
  <2> QED
    BY <2>3, <2>4
<1> HIDE DEF Y, pg
<1>6. Honest(Y)
  BY <1>2, <1>3, <1>5, CopiedMoreHonest
<1>7. Y.pend.meta = Z.pend.meta /\ Y.pend.on
  BY <1>2 DEF CopiedMore
<1> QED
  BY <1>3, <1>4, <1>6, <1>7 DEF Y

LEMMA SettleHonest ==
  ASSUME ~Tiered, NEW Z, NEW hold, SnapGood(Z, hold), Honest(Z), Z.pend.on, Len(Z.pend.pages) = Z.pend.meta.n,
         NEW cancel
  PROVE  Honest(Settle(Z, cancel))
<1> DEFINE Y == Settle(Z, cancel)
           m == Z.pend.meta
           r == m.rid
<1>1. /\ m \in Z.store.open /\ IsMeta(m) /\ r \in Sessions /\ m.n \in Nat /\ Zone(Z)
      /\ DOMAIN Z.pend.pages = 1..m.n
  BY SourceFacts DEF SnapGood
<1>2. CASE cancel \/ ~StillValid(Z)
  <2>1. Y = [Z EXCEPT !.store = Abort(@, {m}), !.pend = NoPend]
    BY <1>2 DEF Settle
  <2> HIDE DEF Y, m
  <2>2. /\ Y.kv = Z.kv /\ Y.pool = Z.pool /\ Y.q = Z.q /\ Y.store = Abort(Z.store, {m}) /\ Y.pend = NoPend
    BY <1>1, <2>1 DEF Zone
  <2>3. Snaps(Y.store) = Snaps(Z.store)
    <3>1. DOMAIN Z.store = {"snaps", "open", "committed", "reserved", "pinned", "openPinned"}
      BY DEF SnapGood, Snapped, Books, StoreTyped
    <3> QED
      BY <2>2, <3>1 DEF Snaps, Abort
  <2>4. Fades(Y, Z)
    BY <2>2, <2>3 DEF Fades, NoPend
  <2>5. Honest(Y)
    BY <2>4, FadesHonest
  <2> QED
    BY <2>5 DEF Y
<1>3. CASE ~(cancel \/ ~StillValid(Z))
  <2> DEFINE pages == PendingPages(Z.pend)
  <2>1. Y = [CommitSave(Z, r, m, pages) EXCEPT !.pend = NoPend]
    BY <1>3 DEF Settle
  <2>2. ASSUME ~stale
        PROVE  \A i \in 1..m.n : PageOf(pages[i], m.tokens, m.computed, i)
    <3>1. \A i \in DOMAIN Z.pend.pages : i \in Nat /\ Through(Z.pend.pages[i], m.tokens, m.computed, i)
      BY <1>1, <2>2 DEF Honest, OnHost
    <3>2. m.computed \in Nat
      BY <1>1 DEF IsMeta
    <3> QED
      BY <1>1, <3>1, <3>2, PendingHonest
  <2> HIDE DEF Y, m, pages
  <2>3. CommitFields(Y, Z, r, m, pages) /\ Y.pend = NoPend
    BY <1>1, <2>1 DEF Zone, CommitSave, CommitFields, SameBlocks
  <2>4. ~Y.pend.on
    BY <2>3 DEF NoPend
  <2>5. Honest(Y)
    BY <1>1, <2>2, <2>3, <2>4, CommitHonest
  <2> QED
    BY <2>5 DEF Y
<1> QED
  BY <1>2, <1>3

LEMMA WaitedHonest ==
  ASSUME ~Tiered, NEW Z, NEW hold, SnapGood(Z, hold), Honest(Z), NEW cancel
  PROVE  Honest(Waited(Z, cancel))
<1>1. CASE Z.pend.on
  <2>1. PICK S : S = Synchronized(Z)
    OBVIOUS
  <2>2. SnapGood(S, hold)
    BY <1>1, <2>1, SynchronizedGood
  <2>3. Honest(S) /\ Len(S.pend.pages) = S.pend.meta.n /\ S.pend.on
    BY <1>1, <2>1, SynchronizedHonest
  <2>4. Honest(Settle(S, cancel))
    BY <2>2, <2>3, SettleHonest
  <2> QED
    BY <1>1, <2>1, <2>4 DEF Waited
<1>2. CASE ~Z.pend.on
  BY <1>2 DEF Waited
<1> QED
  BY <1>1, <1>2

LEMMA SaveHonest ==
  ASSUME ~Tiered, NEW Z, NEW hold, SnapGood(Z, hold), Honest(Z), Idling(Z), NEW r \in Sessions, \E m \in Z.group : m.rid = r
  PROVE  Honest(Save(Z, r))
<1>1. CASE Z.q[r].res = "cpu" /\ Z.q[r].snap # 0
  BY <1>1 DEF Save
<1>2. CASE ~(Z.q[r].res = "cpu" /\ Z.q[r].snap # 0)
  <2>1. PICK m : m = ReservationOf(Z, r)
    OBVIOUS
  <2>2. m \in Z.group /\ m.rid = r
    BY <2>1, ReservationFound
  <2>3. PICK pages : pages = Export(Z, r, m)
    OBVIOUS
  <2>4. PICK Y : Y = CommitSave(Z, r, m, pages)
    OBVIOUS
  <2>5. Save(Z, r) = Y
    BY <1>2, <2>1, <2>3, <2>4 DEF Save
  <2>6. /\ Zone(Z) /\ GroupHeld(Z) /\ Linked(Z) /\ Reserved(Z) /\ Requests(Z.q) /\ StoreTyped(Z.store)
    BY DEF SnapGood, Snapped, Seated, Seats, Books
  <2>7. Z.q[r].res # "cpu" /\ Z.q[r].tokens = m.tokens /\ Z.q[r].computed = m.computed
    BY <1>2, <2>2, <2>6 DEF Linked, GroupHeld
  <2>8. m \in Z.store.open /\ IsMeta(m)
    BY <2>2, <2>6 DEF Reserved, StoreTyped
  <2>9. CommitFields(Y, Z, r, m, pages) /\ Y.pend = Z.pend
    BY <2>4, <2>6 DEF Zone, CommitSave, CommitFields, SameBlocks
  <2>10. ASSUME ~stale
         PROVE  \A i \in 1..m.n : PageOf(pages[i], m.tokens, m.computed, i)
    <3>1. Resident(Z)
      BY <2>10 DEF Honest
    <3> QED
      BY <2>3, <2>6, <2>7, <2>8, <3>1, ExportHonest
  <2>11. Honest(Y)
    BY <2>8, <2>9, <2>10, CommitHonest DEF Idling
  <2> QED
    BY <2>5, <2>11
<1> QED
  BY <1>1, <1>2

\* Reservations come and go without a page being touched.
LEMMA AbortKeepsSnaps ==
  ASSUME NEW S, StoreTyped(S), NEW X
  PROVE  Snaps(Abort(S, X)) = Snaps(S)
BY DEF StoreTyped, Abort, Snaps

LEMMA SaveFailedHonest ==
  ASSUME ~Tiered, NEW Z, NEW hold, SnapGood(Z, hold), Honest(Z), NEW m
  PROVE  Honest(SaveFailed(Z, m))
<1>1. PICK Y : Y = SaveFailed(Z, m)
  OBVIOUS
<1>2. Zone(Z) /\ StoreTyped(Z.store)
  BY DEF SnapGood, Snapped, Books
<1>3. Y.kv = Z.kv /\ Y.pool = Z.pool /\ Y.q = Z.q /\ Y.store = Abort(Z.store, {m}) /\ Y.pend = Z.pend
  BY <1>1, <1>2 DEF SaveFailed, Zone
<1>4. Snaps(Y.store) = Snaps(Z.store)
  BY <1>2, <1>3, AbortKeepsSnaps
<1>5. Fades(Y, Z)
  BY <1>3, <1>4 DEF Fades
<1> QED
  BY <1>1, <1>5, FadesHonest

LEMMA CloseGroupHonest ==
  ASSUME ~Tiered, NEW Z, NEW hold, SnapGood(Z, hold), Honest(Z)
  PROVE  Honest(CloseGroup(Z))
<1>1. PICK Y : Y = CloseGroup(Z)
  OBVIOUS
<1>2. Y.kv = Z.kv /\ Y.pool = Z.pool /\ Y.q = Z.q /\ Snaps(Y.store) = Snaps(Z.store) /\ Y.pend = Z.pend
  BY <1>1, CloseGroupGood
<1>3. Fades(Y, Z)
  BY <1>2 DEF Fades
<1> QED
  BY <1>1, <1>3, FadesHonest

LEMMA LosesFades ==
  ASSUME ~Tiered, NEW Z, Requests(Z.q), NEW Y, LosesSome(Y, Z), ~Y.pend.on
  PROVE  Fades(Y, Z)
<1>1. ASSUME NEW x \in Sessions, Owed(Z.kv, Z.q[x])
      PROVE  Owed(Z.kv, Y.q[x])
  <2>1. /\ Y.q[x].tokens = Z.q[x].tokens /\ Y.q[x].table = Z.q[x].table /\ Y.q[x].computed = Z.q[x].computed
        /\ Y.q[x].published = Z.q[x].published /\ Y.q[x].parent = Z.q[x].parent
    BY LosesKeeps
  <2> QED
    BY <1>1, <2>1, OwedKept
<1> QED
  BY <1>1 DEF Fades, LosesSome

LEMMA PrepareGroupHonest ==
  ASSUME ~Tiered, NEW Z, SnapGood(Z, op.hold), Honest(Z), Z.group = {}, ~Z.pend.on, NEW rs \in Seq(Sessions), IsInjective(rs),
         \A r \in Range(rs) : Z.q[r].st = "parked"
  PROVE  Honest(PrepareGroup(Z, rs).z)
<1>1. LET G == PrepareGroup(Z, rs)
      IN  SnapGood(G.z, op.hold) /\ GroupReady(G, Z, rs)
  BY PrepareGroupGood, Zenon
<1>2. PICK Y : Y = PrepareGroup(Z, rs).z
  OBVIOUS
<1>3. LosesSome(Y, Z) /\ ~Y.pend.on
  BY <1>1, <1>2 DEF GroupReady, Idling
<1>4. Requests(Z.q)
  BY DEF SnapGood, Seated, Seats
<1>5. Honest(Y)
  BY <1>3, <1>4, LosesFades, FadesHonest
<1> QED
  BY <1>2, <1>5

LEMMA EarlySavesHonest ==
  ASSUME ~Tiered, NEW Z, Good(Z, op.hold), Honest(Z), op.hold = NoHold, Calm(Z), ~Z.pend.on,
         NEW r \in Sessions, Z.q[r].st = "parked", Z.q[r].table # << >>, NEW Y \in EarlySaves(Z, r)
  PROVE  Honest(Y)
<1>1. SnapGood(Z, op.hold) /\ Z.group = {} /\ Requests(Z.q) /\ Zone(Z)
  BY GoodSnaps, GoodQ DEF Calm
<1>2. Z.q[r].res # "cpu"
  BY <1>1 DEF Requests, Placed
<1>3. PICK n : n = Metadata(Z, r, NextId(Z)).n
  OBVIOUS
<1>4. PICK R : R = ReserveOne(Z, r)
  OBVIOUS
<1>5. PICK p : p = ReservationOf(R, r)
  OBVIOUS
<1>6. CASE ~CanReserve(Z.store, NoHold, n)
  <2>1. Y = Z
    BY <1>3, <1>6 DEF EarlySaves
  <2> QED
    BY <2>1
<1>7. CASE CanReserve(Z.store, NoHold, n)
  <2>1. Owned(Z.store, op.hold) + BlocksNeededFor(Z.q[r].computed) <= CpuMax
    BY <1>3, <1>7 DEF CanReserve, Metadata
  <2>2. LET X == ReserveOne(Z, r) IN SnapGood(X, op.hold) /\ Reserves(X, Z, r)
    BY <1>1, <2>1, ReserveOneGood, Zenon
  <2>3. SnapGood(R, op.hold) /\ Reserves(R, Z, r)
    BY <1>4, <2>2
  <2>4. \/ Y = SaveFailed(R, p)
        \/ Y = [R EXCEPT !.group = {}, !.pend = [on |-> TRUE, meta |-> p, table |-> Z.q[r].table, pages |-> << >>]]
        \/ Y = CommitSave(R, r, p, Export(R, r, p))
    BY <1>3, <1>4, <1>5, <1>7 DEF EarlySaves
  <2>5. /\ Zone(R) /\ Idling(R) /\ R.q = Z.q /\ R.pool = Z.pool /\ R.kv = Z.kv /\ R.pend = Z.pend
        /\ Snaps(R.store) = Snaps(Z.store) /\ \E m \in R.group : m.rid = r
    <3>1. R.q = Z.q /\ R.pool = Z.pool /\ R.kv = Z.kv /\ R.pend = Z.pend /\ R.store.snaps = Z.store.snaps
      BY <2>3 DEF Reserves
    <3>2. Zone(R) /\ SourceHeld(R)
      BY <2>3 DEF SnapGood, Snapped
    <3>3. \E m \in R.group : m.rid = r
      BY <2>3 DEF Reserves
    <3> QED
      BY <3>1, <3>2, <3>3 DEF SourceHeld, Idling, Snaps
  <2>6. Honest(R)
    <3>1. Fades(R, Z)
      BY <2>5 DEF Fades
    <3> QED
      BY <3>1, FadesHonest
  <2>7. CASE Y = SaveFailed(R, p)
    BY <2>3, <2>6, <2>7, SaveFailedHonest
  <2>8. CASE Y = CommitSave(R, r, p, Export(R, r, p))
    <3>1. Save(R, r) = Y
      BY <1>2, <1>5, <2>5, <2>8 DEF Save
    <3>2. Honest(Save(R, r))
      BY <2>3, <2>5, <2>6, SaveHonest
    <3> QED
      BY <3>1, <3>2
  <2>9. CASE Y = [R EXCEPT !.group = {}, !.pend = [on |-> TRUE, meta |-> p, table |-> Z.q[r].table, pages |-> << >>]]
    <3>1. Y.q = R.q /\ Y.pool = R.pool /\ Y.kv = R.kv /\ Y.store = R.store /\ Y.pend.pages = << >>
      BY <2>5, <2>9 DEF Zone
    <3>2. ASSUME ~stale
          PROVE  Resident(Y) /\ OnHost(Y)
      <4>1. Resident(R) /\ OnHost(R)
        BY <2>6, <3>2 DEF Honest
      <4> QED
        BY <3>1, <4>1 DEF Resident, OnHost
    <3> QED
      BY <3>2 DEF Honest
  <2> QED
    BY <2>4, <2>7, <2>8, <2>9
<1> QED
  BY <1>6, <1>7

(***************************************************************************)
(* Forgetting.                                                             *)
(***************************************************************************)
LEMMA CancelledHonest ==
  ASSUME ~Tiered, NEW Z, NEW hold, SnapGood(Z, hold), Honest(Z), NEW S
  PROVE  Honest(Cancelled(Z, S))
<1>1. CASE Z.pend.on /\ Z.pend.meta.rid \in S
  <2>1. Honest(Waited(Z, TRUE))
    BY WaitedHonest
  <2> QED
    BY <1>1, <2>1 DEF Cancelled
<1>2. CASE ~(Z.pend.on /\ Z.pend.meta.rid \in S)
  BY <1>2 DEF Cancelled
<1> QED
  BY <1>1, <1>2

LEMMA OwedNoReq ==
  ASSUME NEW k
  PROVE  Owed(k, NoReq)
<1>1. NoReq.table = << >> /\ NoReq.published = 0
  BY DEF NoReq
<1> QED
  BY <1>1, OwedBare

LEMMA SnapFinishedHonest ==
  ASSUME ~Tiered, NEW Z, NEW hold, SnapGood(Z, hold), Z.group = {}, Honest(Z), NEW S \in SUBSET Sessions
  PROVE  Honest(Finished(Z, S))
<1>1. LET Y == Finished(Z, S)
          C == Cancelled(Z, S)
      IN  /\ SnapGood(Y, hold) /\ IsCancelled(C, Z, S) /\ Y.group = {}
          /\ Y.q = [r \in Sessions |-> IF r \in S THEN NoReq ELSE C.q[r]] /\ Y.kv = C.kv
          /\ Y.pool = DeallocateAll(C.pool, [r \in S |-> C.q[r].table])
          /\ Y.pend = C.pend /\ Snaps(Y.store) \subseteq Snaps(C.store)
  BY FinishedGood, Zenon
<1>2. PICK Y : Y = Finished(Z, S)
  OBVIOUS
<1>3. PICK C : C = Cancelled(Z, S)
  OBVIOUS
<1>4. /\ Y.q = [r \in Sessions |-> IF r \in S THEN NoReq ELSE C.q[r]] /\ Y.kv = C.kv
      /\ Y.pool = DeallocateAll(C.pool, [r \in S |-> C.q[r].table])
      /\ Y.pend = C.pend /\ Snaps(Y.store) \subseteq Snaps(C.store)
  BY <1>1, <1>2, <1>3
<1>5. Y.pool.cache = C.pool.cache
  BY <1>4 DEF DeallocateAll, Decref
<1>6. Honest(C)
  BY <1>3, CancelledHonest
<1>7. Fades(Y, C)
  BY <1>4, <1>5, OwedNoReq DEF Fades
<1> QED
  BY <1>2, <1>6, <1>7, FadesHonest

LEMMA OwedDropped ==
  ASSUME NEW k, NEW c, IsRequest(c)
  PROVE  Owed(k, Dropped(c))
<1>1. Dropped(c).table = << >> /\ Dropped(c).published = 0
  BY DEF Dropped, IsRequest
<1> QED
  BY <1>1, OwedBare

LEMMA SnapDropHonest ==
  ASSUME ~Tiered, NEW Z, NEW hold, SnapGood(Z, hold), Z.group = {}, Honest(Z), NEW r \in Sessions, Z.q[r].st = "parked",
         NEW R, R = Forgotten(Z, {r})
  PROVE  Honest([R EXCEPT !.pool = Deallocate(@, R.q[r].table), !.q[r] = Dropped(@)])
<1>1. PICK Y : Y = [R EXCEPT !.pool = Deallocate(@, R.q[r].table), !.q[r] = Dropped(@)]
  OBVIOUS
<1>2. PICK C : C = Cancelled(Z, {r})
  OBVIOUS
<1>3. /\ Y.q = [C.q EXCEPT ![r] = Dropped(C.q[r])] /\ Y.kv = C.kv
      /\ Y.pool = Deallocate(C.pool, C.q[r].table)
      /\ Y.pend = C.pend /\ Snaps(Y.store) \subseteq Snaps(C.store)
  <2>1. LET F == Forgotten(Z, {r})
            X == [F EXCEPT !.pool = Deallocate(@, F.q[r].table), !.q[r] = Dropped(@)]
            D == Cancelled(Z, {r})
        IN  /\ SnapGood(X, hold) /\ IsCancelled(D, Z, {r}) /\ X.group = {}
            /\ X.q = [D.q EXCEPT ![r] = Dropped(D.q[r])] /\ X.kv = D.kv
            /\ X.pool = Deallocate(D.pool, D.q[r].table)
            /\ X.pend = D.pend /\ Snaps(X.store) \subseteq Snaps(D.store)
    BY DropGood, Zenon
  <2> QED
    BY <1>1, <1>2, <2>1
<1>4. Y.pool.cache = C.pool.cache
  BY <1>3 DEF Deallocate, Decref
<1>5. Honest(C) /\ SnapGood(C, hold)
  BY <1>2, CancelledHonest, CancelledGood
<1>6. IsRequest(C.q[r]) /\ DOMAIN C.q = Sessions
  BY <1>5 DEF SnapGood, Seated, Seats, Requests
<1>7. \A x \in Sessions : Y.q[x] = IF x = r THEN Dropped(C.q[r]) ELSE C.q[x]
  BY <1>3, <1>6
<1>8. Fades(Y, C)
  BY <1>3, <1>4, <1>6, <1>7, OwedDropped DEF Fades
<1>9. Honest(Y)
  BY <1>5, <1>8, FadesHonest
<1> QED
  BY <1>1, <1>9

(***************************************************************************)
(* Restoring.  The pages a restore writes are nobody else's, and the ones  *)
(* it reuses hold what their hash promises.                                *)
(***************************************************************************)
LEMMA Imported ==
  ASSUME NEW k, NEW t, NEW pages, NEW I, \A i \in I : t[i] \in Blocks, \A i, j \in I : t[i] = t[j] => i = j
  PROVE  /\ \A i \in I : ImportPages(k, t, pages, I)[t[i]] = pages[i]
         /\ \A b \in Blocks : (\A i \in I : t[i] # b) => ImportPages(k, t, pages, I)[b] = k[b]
<1>1. \A b \in Blocks : ImportPages(k, t, pages, I)[b] =
        IF \E i \in I : t[i] = b THEN pages[CHOOSE i \in I : t[i] = b] ELSE k[b]
  BY DEF ImportPages
<1>2. ASSUME NEW i \in I
      PROVE  ImportPages(k, t, pages, I)[t[i]] = pages[i]
  <2>1. PICK j : j = CHOOSE x \in I : t[x] = t[i]
    OBVIOUS
  <2>2. j \in I /\ t[j] = t[i]
    BY <2>1
  <2>3. j = i
    BY <2>2
  <2>4. \E x \in I : t[x] = t[i]
    OBVIOUS
  <2>5. ImportPages(k, t, pages, I)[t[i]] = pages[CHOOSE x \in I : t[x] = t[i]]
    BY <1>1, <2>4
  <2> QED
    BY <2>1, <2>3, <2>5
<1> QED
  BY <1>1, <1>2

\* The pages to import into the blocks I are those of c; the cached blocks h are its prefix.
Filled(pages, c, I) == \A i \in I : Through(pages[i], c.tokens, c.computed, i)
PrefixHits(P, c, h) ==
  \A i \in DOMAIN h : /\ i \in Nat \ {0} /\ i * BlockSize <= Len(c.tokens)
                      /\ <<SubSeq(c.tokens, 1, i * BlockSize), h[i]>> \in P.cache

\* c is the request of r as restored in Y: from the cached blocks h, and the pages put into g.
Imports(Z, r, n, h, goal, P, g, c, pages, Y) ==
  /\ Resident(Z) /\ Seats(Z.pool, Z.q) /\ Bare(Z.q[r].table)
  /\ Reuses(Z.pool, h, n) /\ P \in Reclaims(Pinned(Z.pool, h), goal) /\ g \in Fresh(P, 1..n \ DOMAIN h)
  /\ IsRequest(c) /\ Placed(c) /\ c.table = Mixed(h, g, n) /\ (PrefixCaching => Chained(c))
  /\ Filled(pages, c, 1..n \ DOMAIN h) /\ PrefixHits(Z.pool, c, h)
  /\ Y.kv = ImportPages(Z.kv, Mixed(h, g, n), pages, 1..n \ DOMAIN h)
  /\ Y.q = [Z.q EXCEPT ![r] = c] /\ Y.pool.cache \subseteq P.cache

LEMMA RestoredResident ==
  ASSUME NEW Z, NEW r \in Sessions, NEW n \in Nat, NEW h, NEW goal, NEW P, NEW g, NEW c, NEW pages, NEW Y,
         Imports(Z, r, n, h, goal, P, g, c, pages, Y)
  PROVE  Resident(Y)
<1> USE DEF Imports
<1>1. /\ P.cache \subseteq Z.pool.cache
      /\ \A i \in 1..n \ DOMAIN h :
           /\ g[i] \in P.free
           /\ \A x \in Sessions : \A j \in DOMAIN Z.q[x].table : Z.q[x].table[j] # g[i]
           /\ \A e \in P.cache : e[2] # g[i]
           /\ \A j \in DOMAIN h : h[j] # g[i]
  <2>1. PICK P0, Q0 : P0 = Z.pool /\ Q0 = Z.q
    OBVIOUS
  <2>2. /\ P.cache \subseteq P0.cache
        /\ \A i \in 1..n \ DOMAIN h :
              /\ g[i] \in P.free
              /\ \A x \in Sessions : \A j \in DOMAIN Q0[x].table : Q0[x].table[j] # g[i]
              /\ \A e \in P.cache : e[2] # g[i]
              /\ \A j \in DOMAIN h : h[j] # g[i]
    <3>1. /\ Seats(P0, Q0) /\ Bare(Q0[r].table) /\ Reuses(P0, h, n) /\ P \in Reclaims(Pinned(P0, h), goal)
          /\ r \in Sessions /\ n \in Nat /\ g \in Fresh(P, 1..n \ DOMAIN h) /\ IsRequest(c) /\ Placed(c)
          /\ c.table = Mixed(h, g, n)
      BY <2>1
    <3>2. Apart(P0, P, Q0, n, h, g)
      BY <3>1, RestoreSeats
    <3> QED
      BY <3>2, Zenon DEF Apart
  <2> QED
    BY <2>1, <2>2, Zenon
<1> DEFINE I == 1..n \ DOMAIN h
           t == Mixed(h, g, n)
<1>2. /\ DOMAIN t = 1..n /\ \A i \in DOMAIN h : i \in 1..n /\ t[i] = h[i]
      /\ \A i \in I : t[i] = g[i]
  BY DEF Mixed, Reuses
<1>3. t \in Seq(Blocks) /\ \A i \in 1..n : t[i] \in Blocks
  <2>1. t \in Seq(Blocks)
    BY DEF IsRequest
  <2> QED
    BY <1>2, <2>1, ElementOfSeq
<1>4. \A i, j \in I : t[i] = t[j] => i = j
  BY <1>2 DEF Fresh, IsInjective
<1>5. DOMAIN Z.q = Sessions
  BY DEF Seats, Requests
<1>6. Y.kv = ImportPages(Z.kv, t, pages, I) /\ \A i \in I : i \in 1..n /\ i \notin DOMAIN h
  OBVIOUS
<1>7. \A i \in 1..n : i \in I \/ i \in DOMAIN h
  OBVIOUS
<1>8. \A i \in I : Through(pages[i], c.tokens, c.computed, i)
  BY DEF Filled
<1>9. /\ \A i \in I, x \in Sessions : \A j \in DOMAIN Z.q[x].table : Z.q[x].table[j] # g[i]
      /\ \A i \in I : \A e \in P.cache : e[2] # g[i]
      /\ \A i \in I : \A j \in DOMAIN h : h[j] # g[i]
  BY <1>1
<1>10. c.table = t
  OBVIOUS
<1> HIDE DEF t, I
<1>11. /\ \A i \in I : Y.kv[t[i]] = pages[i]
       /\ \A b \in Blocks : (\A i \in I : t[i] # b) => Y.kv[b] = Z.kv[b]
  <2>1. \A i \in I : t[i] \in Blocks
    BY <1>3, <1>6
  <2>2. PICK k2 : k2 = ImportPages(Z.kv, t, pages, I)
    OBVIOUS
  <2>3. PICK k0 : k0 = Z.kv
    OBVIOUS
  <2>4. /\ \A i \in I : ImportPages(k0, t, pages, I)[t[i]] = pages[i]
        /\ \A b \in Blocks : (\A i \in I : t[i] # b) => ImportPages(k0, t, pages, I)[b] = k0[b]
    BY <1>4, <2>1, Imported
  <2> QED
    BY <1>6, <2>2, <2>3, <2>4
<1>12. \A b \in Blocks : (\A i \in I : g[i] # b) => Y.kv[b] = Z.kv[b]
  <2> SUFFICES ASSUME NEW b \in Blocks, \A i \in I : g[i] # b
               PROVE  Y.kv[b] = Z.kv[b]
    OBVIOUS
  <2>1. \A i \in I : t[i] # b
    BY <1>2
  <2> QED
    BY <1>11, <2>1
<1>13. ASSUME NEW i \in 1..n
       PROVE  Through(Y.kv[c.table[i]], c.tokens, c.computed, i)
  <2>1. CASE i \in DOMAIN h
    <3>1. h[i] \in Blocks /\ c.table[i] = h[i]
      BY <1>2, <1>10, <2>1 DEF Reuses
    <3>2. \A j \in I : g[j] # h[i]
      BY <1>9, <2>1
    <3>3. Y.kv[h[i]] = Z.kv[h[i]]
      BY <1>12, <3>1, <3>2
    <3>4. PICK H : H = SubSeq(c.tokens, 1, i * BlockSize)
      OBVIOUS
    <3>5. <<H, h[i]>> \in Z.pool.cache /\ i \in Nat \ {0} /\ i * BlockSize <= Len(c.tokens)
      BY <2>1, <3>4 DEF PrefixHits
    <3>6. Promise(Z.kv[h[i]], H)
      <4>1. PICK e : e = <<H, h[i]>>
        OBVIOUS
      <4>2. e \in Z.pool.cache /\ e[1] = H /\ e[2] = h[i]
        BY <3>5, <4>1
      <4>3. Promise(Z.kv[e[2]], e[1])
        BY <4>2 DEF Resident
      <4> QED
        BY <4>2, <4>3
    <3>7. c.tokens \in TokenLists
      BY DEF IsRequest
    <3>8. Through(Z.kv[h[i]], c.tokens, c.computed, i)
      BY <3>4, <3>5, <3>6, <3>7, PromisedThrough
    <3> QED
      BY <3>1, <3>3, <3>8
  <2>2. CASE i \notin DOMAIN h
    <3>1. i \in I
      BY <1>7, <2>2
    <3> QED
      BY <1>8, <1>10, <1>11, <3>1
  <2> QED
    BY <2>1, <2>2
<1>14. Owed(Y.kv, c)
  <2>1. DOMAIN c.table = 1..n
    BY <1>2, <1>10
  <2> QED
    BY <1>13, <2>1 DEF Owed
<1>15. ASSUME NEW x \in Sessions
      PROVE  Owed(Y.kv, Y.q[x])
  <2>1. CASE x = r
    BY <1>5, <1>14, <2>1
  <2>2. CASE x # r
    <3>1. PICK d : d = Z.q[x]
      OBVIOUS
    <3>2. Y.q[x] = d /\ Owed(Z.kv, d)
      BY <1>5, <2>2, <3>1 DEF Resident
    <3>3. \A i \in DOMAIN d.table : d.table[i] \in Blocks
      BY <3>1, Unscrubbed
    <3>4. ASSUME NEW i \in DOMAIN d.table
          PROVE  Y.kv[d.table[i]] = Z.kv[d.table[i]]
      <4>1. PICK b : b = d.table[i]
        OBVIOUS
      <4>2. b \in Blocks /\ \A j \in I : g[j] # b
        BY <1>9, <3>1, <3>3, <4>1
      <4>3. Y.kv[b] = Z.kv[b]
        BY <1>12, <4>2
      <4> QED
        BY <4>1, <4>3
    <3>5. Owed(Y.kv, d)
      BY <3>2, <3>4 DEF Owed
    <3> QED
      BY <3>2, <3>5
  <2> QED
    BY <2>1, <2>2
<1>16. ASSUME NEW e \in Y.pool.cache
       PROVE  Promise(Y.kv[e[2]], e[1])
  <2>1. e \in P.cache /\ e \in Z.pool.cache
    BY <1>1
  <2>2. e[2] \in Blocks
    BY <2>1, Unscrubbed
  <2>3. \A j \in I : g[j] # e[2]
    BY <1>9, <2>1
  <2>4. Y.kv[e[2]] = Z.kv[e[2]]
    BY <1>12, <2>2, <2>3
  <2>5. Promise(Z.kv[e[2]], e[1])
    BY <2>1 DEF Resident
  <2> QED
    BY <2>4, <2>5
<1> QED
  BY <1>15, <1>16 DEF Resident

LEMMA OwedDetached ==
  ASSUME NEW k, NEW c, IsRequest(c), Placed(c), c.st # "gone", Owed(k, c),
         NEW d, d.table = << >>, d.parent = c.parent, d.published = c.published
  PROVE  Owed(k, d)
<1>1. CASE ~PrefixCaching
  BY <1>1 DEF Owed
<1>2. CASE PrefixCaching
  <2>1. Chained(c)
    BY <1>2 DEF Owed
  <2>2. CASE c.table = << >>
    BY <2>1, <2>2, OwedBare DEF Chained
  <2>3. CASE c.table # << >>
    <3>1. c.parent = SubSeq(c.tokens, 1, c.published * BlockSize) /\ c.published * BlockSize <= c.computed
      BY <2>1, <2>3 DEF Chained
    <3>2. /\ c.tokens \in Seq(Tokens) /\ c.computed \in Nat /\ c.published \in Nat /\ c.computed < Len(c.tokens)
          /\ Len(c.tokens) \in Nat
      BY LenProperties DEF IsRequest, Placed, TokenLists
    <3>3. BlockSize \in Nat \ {0} /\ c.published * BlockSize \in Nat
      BY <3>2, BlockSizeAssumption
    <3>4. ASSUME c.parent = ROOT_HASH
          PROVE  c.published = 0
      <4> DEFINE n == c.published * BlockSize
      <4>1. n \in Nat /\ n <= c.computed /\ c.parent = SubSeq(c.tokens, 1, n)
        BY <3>1, <3>3
      <4> HIDE DEF n
      <4>2. n \in 0..Len(c.tokens) /\ SubSeq(c.tokens, 1, n) = << >>
        BY <3>2, <3>4, <4>1 DEF ROOT_HASH
      <4>3. n = 0
        BY <3>2, <4>2, LenProperties
      <4> QED
        BY <3>2, <3>3, <4>3 DEF n
    <3> QED
      BY <3>4, OwedBare
  <2> QED
    BY <2>2, <2>3
<1> QED
  BY <1>1, <1>2

LEMMA RestoresHonest ==
  ASSUME ~Tiered, NEW Z, NEW hold, SnapGood(Z, hold), Honest(Z), NEW r \in Sessions, Z.q[r].res = "cpu",
         NEW s, HostSnapshot(Z, r, s), NEW R, NEW h, NEW P, NEW g, RestoredFrom(R, Z, r, s, h, P, g)
  PROVE  Honest(R)
<1> DEFINE t == Mixed(h, g, s.n)
           c == Restored(Z.q[r], s, t, h)
<1>1. /\ Zone(Z) /\ Seats(Z.pool, Z.q) /\ IsRequest(Z.q[r]) /\ Placed(Z.q[r]) /\ Bare(Z.q[r].table)
  BY DEF SnapGood, Seated, Seats, Requests, Placed, Bare
<1>2. IsMeta(s) /\ s.tokens = Z.q[r].tokens /\ s.n \in Nat /\ s \in Snaps(Z.store)
  BY MetaSize DEF HostSnapshot
<1>3. /\ h \in Hits(Z.pool, s) /\ P \in Reclaims(Pinned(Z.pool, h), RestoreNeeds(s, h))
      /\ g \in Fresh(P, 1..s.n \ DOMAIN h)
      /\ R = [Z EXCEPT !.pool = AllocBlocks(P, g),
                       !.kv = ImportPages(@, t, s.pages, 1..s.n \ DOMAIN h),
                       !.q[r] = c]
  BY DEF RestoredFrom, Mixed
<1>4. /\ Reuses(Z.pool, h, s.n)
      /\ ~cfg.mixed => h \in Seq(Blocks) /\ Len(h) * BlockSize <= s.computed /\ DOMAIN h = 1..Len(h)
      /\ \A i \in DOMAIN h : /\ i \in Nat \ {0} /\ i * BlockSize <= s.computed
                             /\ <<SubSeq(s.tokens, 1, i * BlockSize), h[i]>> \in Z.pool.cache
  <2>1. Z.pool \in PoolOf(TokenLists)
    BY <1>1, SeatsFacts
  <2> QED
    BY <1>2, <1>3, <2>1, HitsReuse
<1>5. Back(R, Z, r, c) /\ IsBack(c, Z.q[r], s.n)
  BY RestoresGood, Zenon
<1>6. /\ c.table = t /\ c.computed = s.computed /\ c.tokens = s.tokens
      /\ c.published = (IF cfg.mixed THEN 0 ELSE Len(h))
      /\ c.parent = IF cfg.mixed THEN ROOT_HASH ELSE SubSeq(s.tokens, 1, Len(h) * BlockSize)
  <2> HIDE DEF t
  <2> QED
    BY <1>1, <1>2 DEF Restored, IsRequest
<1> HIDE DEF c, t
<1>7. IsRequest(c) /\ Placed(c) /\ Len(c.table) = s.n
  BY <1>5 DEF IsBack
<1>8. /\ s.computed \in Nat /\ s.computed < Len(s.tokens) /\ s.tokens \in TokenLists /\ Len(s.tokens) \in Nat
      /\ c.table \in Seq(Blocks)
  BY <1>2, <1>7, LenProperties DEF IsMeta, IsRequest, TokenLists
<1>9. Chained(c)
  <2>1. CASE cfg.mixed
    <3>1. c.published = 0 /\ c.parent = << >>
      BY <1>6, <2>1 DEF ROOT_HASH
    <3>2. c.published * BlockSize = 0 /\ SubSeq(c.tokens, 1, 0) = << >>
      BY <1>6, <1>8, <3>1, BlockSizeAssumption DEF TokenLists
    <3>3. c.parent = SubSeq(c.tokens, 1, c.published * BlockSize)
      BY <3>1, <3>2
    <3>4. c.published * BlockSize <= c.computed
      BY <1>6, <1>8, <3>2
    <3> QED
      BY <3>1, <3>3, <3>4 DEF Chained
  <2>2. CASE ~cfg.mixed
    <3>1. c.published = Len(h) /\ c.parent = SubSeq(c.tokens, 1, c.published * BlockSize)
      BY <1>6, <2>2
    <3>2. c.published * BlockSize <= c.computed
      BY <1>4, <1>6, <2>2
    <3>3. ASSUME c.table = << >>
          PROVE  c.published = 0
      <4>1. s.n = 0
        BY <1>7, <3>3
      <4>2. 1..Len(h) \subseteq 1..0 /\ Len(h) \in Nat
        BY <1>4, <2>2, <4>1, LenProperties DEF Reuses
      <4>3. Len(h) = 0
        BY <4>2
      <4> QED
        BY <3>1, <4>3
    <3> QED
      BY <3>1, <3>2, <3>3 DEF Chained
  <2> QED
    BY <2>1, <2>2
<1>10. /\ R.kv = ImportPages(Z.kv, t, s.pages, 1..s.n \ DOMAIN h) /\ R.q = [Z.q EXCEPT ![r] = c]
       /\ R.pool = AllocBlocks(P, g) /\ R.store = Z.store /\ R.pend = Z.pend
  BY <1>1, <1>3 DEF Zone
<1>11. R.pool.cache \subseteq P.cache
  BY <1>10 DEF AllocBlocks
<1>12. PrefixHits(Z.pool, c, h)
  <2> SUFFICES ASSUME NEW i \in DOMAIN h
               PROVE  /\ i \in Nat \ {0} /\ i * BlockSize <= Len(c.tokens)
                      /\ <<SubSeq(c.tokens, 1, i * BlockSize), h[i]>> \in Z.pool.cache
    BY DEF PrefixHits
  <2>1. i \in Nat \ {0} /\ i * BlockSize <= s.computed /\ <<SubSeq(s.tokens, 1, i * BlockSize), h[i]>> \in Z.pool.cache
    BY <1>4
  <2>2. i * BlockSize \in Nat
    BY <2>1, BlockSizeAssumption
  <2>3. i * BlockSize <= Len(s.tokens)
    <3> DEFINE e == i * BlockSize
    <3>1. e \in Nat /\ e <= s.computed
      BY <2>1, <2>2
    <3> HIDE DEF e
    <3>2. e <= Len(s.tokens)
      BY <1>8, <3>1
    <3> QED
      BY <3>2 DEF e
  <2> QED
    BY <1>6, <2>1, <2>3
<1>13. ASSUME ~stale
       PROVE  Resident(R)
  <2>1. Resident(Z) /\ OnHost(Z)
    BY <1>13 DEF Honest
  <2>2. \A i \in 1..s.n \ DOMAIN h : Through(s.pages[i], c.tokens, c.computed, i)
    BY <1>2, <1>6, <2>1 DEF OnHost, PageOf
  <2>3. PICK n, goal, pages : n = s.n /\ goal = RestoreNeeds(s, h) /\ pages = s.pages
    OBVIOUS
  <2>4. n \in Nat /\ Reuses(Z.pool, h, n) /\ P \in Reclaims(Pinned(Z.pool, h), goal) /\ g \in Fresh(P, 1..n \ DOMAIN h)
    BY <1>2, <1>3, <1>4, <2>3
  <2>5. c.table = Mixed(h, g, n) /\ R.kv = ImportPages(Z.kv, Mixed(h, g, n), pages, 1..n \ DOMAIN h)
    BY <1>6, <1>10, <2>3 DEF t
  <2>6. Filled(pages, c, 1..n \ DOMAIN h)
    BY <2>2, <2>3 DEF Filled
  <2>7. (PrefixCaching => Chained(c)) /\ R.q = [Z.q EXCEPT ![r] = c]
    BY <1>9, <1>10
  <2>8. Imports(Z, r, n, h, goal, P, g, c, pages, R)
    BY <1>1, <1>7, <1>11, <1>12, <2>1, <2>4, <2>5, <2>6, <2>7 DEF Imports
  <2> QED
    BY <2>4, <2>8, RestoredResident
<1>14. ASSUME ~stale
       PROVE  OnHost(R)
  BY <1>10, <1>14 DEF Honest, OnHost
<1> QED
  BY <1>13, <1>14 DEF Honest

LEMMA FailedRestoreHonest ==
  ASSUME ~Tiered, NEW Z, NEW hold, SnapGood(Z, hold), Honest(Z), NEW r \in Sessions, Z.q[r].res = "cpu",
         NEW s, HostSnapshot(Z, r, s), NEW R, NEW h, NEW P, FailedFrom(R, Z, r, s, h, P)
  PROVE  Honest(R)
<1> DEFINE d == RolledBack(Z.q[r], s, h)
<1>1. /\ Zone(Z) /\ Seats(Z.pool, Z.q) /\ IsRequest(Z.q[r]) /\ Bare(Z.q[r].table) /\ DOMAIN Z.q = Sessions
  BY DEF SnapGood, Seated, Seats, Requests, Placed, Bare
<1>2. IsMeta(s) /\ s.n \in Nat
  BY MetaSize DEF HostSnapshot
<1>3. /\ h \in Hits(Z.pool, s) /\ P \in Reclaims(Pinned(Z.pool, h), RestoreNeeds(s, h))
      /\ R = [Z EXCEPT !.pool = Unpinned(P, h), !.q[r] = d]
  BY DEF FailedFrom
<1>4. Reuses(Z.pool, h, s.n) /\ (~cfg.mixed => h \in Seq(Blocks) /\ Len(h) * BlockSize <= s.computed)
  <2>1. Z.pool \in PoolOf(TokenLists)
    BY <1>1, SeatsFacts
  <2> QED
    BY <1>2, <1>3, <2>1, HitsReuse
<1>5. /\ d.table = << >> /\ d.published = (IF cfg.mixed THEN 0 ELSE Len(h))
      /\ d.parent = IF cfg.mixed THEN ROOT_HASH ELSE SubSeq(s.tokens, 1, Len(h) * BlockSize)
  BY <1>1 DEF RolledBack, Restored, IsRequest
<1> HIDE DEF d
<1>6. d.parent = ROOT_HASH => d.published = 0
  <2>1. CASE cfg.mixed
    BY <1>5, <2>1
  <2>2. CASE ~cfg.mixed
    <3>1. /\ Len(h) \in Nat /\ s.tokens \in Seq(Tokens) /\ Len(s.tokens) \in Nat /\ s.computed \in Nat /\ s.computed < Len(s.tokens)
      BY <1>2, <1>4, <2>2, LenProperties DEF IsMeta, TokenLists
    <3>2. BlockSize \in Nat \ {0} /\ Len(h) * BlockSize \in Nat
      BY <3>1, BlockSizeAssumption
    <3> SUFFICES ASSUME d.parent = << >>
                 PROVE  Len(h) = 0
      BY <1>5, <2>2 DEF ROOT_HASH
    <3> DEFINE n == Len(h) * BlockSize
    <3>3. n \in Nat /\ n <= Len(s.tokens) /\ SubSeq(s.tokens, 1, n) = << >>
      BY <1>4, <1>5, <2>2, <3>1, <3>2
    <3> HIDE DEF n
    <3>4. Len(SubSeq(s.tokens, 1, n)) = n
      BY <3>1, <3>3
    <3>5. n = 0
      BY <3>3, <3>4
    <3> QED
      BY <3>1, <3>2, <3>5 DEF n
  <2> QED
    BY <2>1, <2>2
<1>7. /\ R.kv = Z.kv /\ R.q = [Z.q EXCEPT ![r] = d] /\ R.pool = Unpinned(P, h) /\ R.store = Z.store /\ R.pend = Z.pend
  BY <1>1, <1>3 DEF Zone
<1>8. R.pool.cache \subseteq Z.pool.cache
  <2>1. PICK n, goal : n = s.n /\ goal = RestoreNeeds(s, h)
    OBVIOUS
  <2>2. n \in Nat /\ Reuses(Z.pool, h, n) /\ P \in Reclaims(Pinned(Z.pool, h), goal)
    BY <1>2, <1>3, <1>4, <2>1
  <2>3. Unpinned(P, h).cache \subseteq Z.pool.cache
    BY <1>1, <2>2, UnpinSeats
  <2> QED
    BY <1>7, <2>3
<1>9. Owed(Z.kv, d)
  BY <1>5, <1>6, OwedBare
<1>10. Fades(R, Z)
  BY <1>1, <1>7, <1>8, <1>9 DEF Fades
<1> QED
  BY <1>10, FadesHonest

\* Whoever is let go again after the restore, and whoever resumes.
LEMMA RolledBackHonest ==
  ASSUME NEW Z, Requests(Z.q), NEW r \in Sessions, NEW R, Honest(R), R.lease = Z.lease, ~Z.lease.on,
         NEW c, NEW n, Back(R, Z, r, c), IsBack(c, Z.q[r], n)
  PROVE  Honest(RollbackRestore(R, r))
<1>1. PICK Y : Y = RollbackRestore(R, r)
  OBVIOUS
<1> DEFINE d == [c EXCEPT !.table = << >>, !.computed = 0, !.res = "cpu"]
<1>2. R.q = [Z.q EXCEPT ![r] = c] /\ DOMAIN R.q = Sessions /\ R.q[r] = c /\ Zone(R) /\ DOMAIN Z.q = Sessions
  BY DEF Back, Requests
<1>3. IsRequest(c) /\ Placed(c) /\ c.st # "gone"
  BY DEF IsBack
<1>4. /\ Y.kv = R.kv /\ Y.pool = Deallocate(R.pool, c.table) /\ Y.q = [R.q EXCEPT ![r] = d] /\ Y.store = R.store
      /\ Y.pend = R.pend /\ Y.blocks = R.blocks /\ Y.man = R.man /\ Y.lease = R.lease
  BY <1>1, <1>2 DEF RollbackRestore, Zone
<1>5. d.table = << >> /\ d.parent = c.parent /\ d.published = c.published
  BY <1>3 DEF IsRequest
<1> HIDE DEF d
<1>6. Y.pool.cache = R.pool.cache
  BY <1>4 DEF Deallocate, Decref
<1>7. \A x \in Sessions : Owed(R.kv, R.q[x]) => Owed(R.kv, Y.q[x])
  BY <1>2, <1>3, <1>4, <1>5, OwedDetached
<1>8. Fades(Y, R)
  BY <1>4, <1>6, <1>7 DEF Fades, SameBlocks
<1> QED
  BY <1>1, <1>8, FadesHonest

LEMMA ResumedHonest ==
  ASSUME NEW Z, Zone(Z), Requests(Z.q), Honest(Z), NEW r \in Sessions, Z.q[r].st = "parked", NEW suffix \in TokenLists
  PROVE  Honest(Resumed(Z, r, suffix))
<1>1. PICK Y : Y = Resumed(Z, r, suffix)
  OBVIOUS
<1> DEFINE c == Z.q[r]
           d == [c EXCEPT !.st = "active", !.tokens = @ \o suffix]
<1>2. IsRequest(c) /\ Placed(c) /\ c.st # "gone" /\ DOMAIN Z.q = Sessions
  BY DEF Requests
<1>3. /\ Y.kv = Z.kv /\ Y.pool = Z.pool /\ Y.q = [Z.q EXCEPT ![r] = d] /\ Y.store = Z.store
      /\ Y.pend = Z.pend /\ Y.blocks = Z.blocks /\ Y.man = Z.man /\ Y.lease = Z.lease
  BY <1>1 DEF Resumed, Zone
<1>4. /\ d.table = c.table /\ d.tokens = c.tokens \o suffix /\ d.parent = c.parent
      /\ d.published = c.published /\ d.computed = c.computed /\ d.res = c.res
  BY <1>2 DEF IsRequest
<1> HIDE DEF d
<1>5. \A x \in Sessions : Y.q[x] = IF x = r THEN d ELSE Z.q[x]
  BY <1>2, <1>3
<1>6. Owed(Z.kv, Z.q[r]) => Owed(Z.kv, d)
  BY <1>2, <1>4, OwedLonger
<1>7. \A x \in Sessions : Owed(Z.kv, Z.q[x]) => Owed(Z.kv, Y.q[x])
  BY <1>5, <1>6
<1>8. \A x \in Sessions : Y.q[x].res = Z.q[x].res
  BY <1>4, <1>5
<1>9. Fades(Y, Z)
  BY <1>2, <1>3, <1>7, <1>8 DEF Fades, SameBlocks
<1> QED
  BY <1>1, <1>9, FadesHonest

LEMMA ThroughShorter ==
  ASSUME NEW page, NEW toks, NEW n \in Nat, NEW m \in Nat, m <= n, NEW i \in Nat \ {0}, Through(page, toks, n, i)
  PROVE  Through(page, toks, m, i)
<1> SUFFICES ASSUME NEW o \in Offsets, (i - 1) * BlockSize + o <= m
             PROVE  page[o] = Cell(weights, toks, (i - 1) * BlockSize + o)
  BY DEF Through
<1> DEFINE p == (i - 1) * BlockSize + o
<1>1. p \in Int
  BY BlockSizeAssumption DEF Offsets
<1>2. p <= m
  OBVIOUS
<1> HIDE DEF p
<1>3. p <= n
  BY <1>1, <1>2
<1> QED
  BY <1>3 DEF p, Through

LEMMA ChainedRoot ==
  ASSUME NEW c, IsRequest(c), c.published = 0, c.parent = ROOT_HASH
  PROVE  Chained(c)
<1>1. c.published * BlockSize = 0 /\ SubSeq(c.tokens, 1, 0) = << >>
  BY BlockSizeAssumption DEF IsRequest, TokenLists
<1>2. c.parent = SubSeq(c.tokens, 1, c.published * BlockSize)
  BY <1>1 DEF ROOT_HASH
<1>3. c.published * BlockSize <= c.computed
  BY <1>1 DEF IsRequest
<1> QED
  BY <1>2, <1>3 DEF Chained

\* The keys of a manifest: hashes of the history's full blocks, and the private tail.
LEMMA KeyFacts ==
  ASSUME NEW m, NEW r, IsManifest(m, r), NEW i \in DOMAIN m.keys
  PROVE  /\ i \in Nat \ {0} /\ i * BlockSize \in Nat /\ m.keys[i][1] = Namespace /\ m.computed < Len(m.tokens)
         /\ m.computed \in Nat /\ Len(m.tokens) \in Nat /\ m.tokens \in TokenLists
         /\ i * BlockSize <= m.computed => /\ m.keys[i] = <<Namespace, SubSeq(m.tokens, 1, i * BlockSize)>>
                                           /\ ~IsTail(m.keys[i]) /\ i * BlockSize <= Len(m.tokens)
         /\ ~(i * BlockSize <= m.computed) => m.keys[i] = <<Namespace, "tail", r, m.id>> /\ IsTail(m.keys[i])
<1>1. m.keys = Keys(m.tokens, m.computed, r, m.id) /\ m.computed \in Nat /\ m.tokens \in TokenLists /\ m.computed < Len(m.tokens)
  BY DEF IsManifest
<1>2. PICK n \in Nat : n = BlocksNeededFor(m.computed)
  BY <1>1, BlocksFor
<1>3. i \in 1..n
  BY <1>1, <1>2 DEF Keys
<1>4. i \in Nat \ {0} /\ i * BlockSize \in Nat
  BY <1>3, BlockSizeAssumption
<1>5. Len(m.tokens) \in Nat
  BY <1>1, LenProperties DEF TokenLists
<1>6. m.keys[i] = IF i * BlockSize <= m.computed THEN <<Namespace, SubSeq(m.tokens, 1, i * BlockSize)>>
                  ELSE <<Namespace, "tail", r, m.id>>
  BY <1>1, <1>2, <1>3 DEF Keys
<1>7. CASE i * BlockSize <= m.computed
  <2> DEFINE e == i * BlockSize
  <2>1. e \in Nat /\ e <= m.computed
    BY <1>4, <1>7
  <2> HIDE DEF e
  <2>2. e <= Len(m.tokens)
    BY <1>1, <1>5, <2>1
  <2>3. i * BlockSize <= Len(m.tokens)
    BY <2>2 DEF e
  <2>4. m.keys[i] = <<Namespace, SubSeq(m.tokens, 1, i * BlockSize)>>
    BY <1>6, <1>7
  <2>5. m.keys[i][1] = Namespace /\ ~IsTail(m.keys[i])
    BY <2>4 DEF IsTail
  <2> QED
    BY <1>1, <1>4, <1>5, <1>7, <2>3, <2>4, <2>5
<1>8. CASE ~(i * BlockSize <= m.computed)
  <2>1. m.keys[i] = <<Namespace, "tail", r, m.id>>
    BY <1>6, <1>8
  <2>2. m.keys[i][1] = Namespace /\ IsTail(m.keys[i])
    BY <2>1 DEF IsTail
  <2> QED
    BY <1>1, <1>4, <1>5, <1>8, <2>1, <2>2
<1> QED
  BY <1>7, <1>8

\* What a manifest finds in the store is the KV of its history.
LEMMA StoredPage ==
  ASSUME NEW Z, InBlocks(Z), NEW r \in Sessions, NEW m, IsManifest(m, r), NEW i \in DOMAIN m.keys,
         Ready(Z.blocks, m.keys[i]), TailsSound(Z.blocks, m)
  PROVE  Through(Z.blocks[m.keys[i]].page, m.tokens, m.computed, i)
<1>1. CASE i * BlockSize <= m.computed
  <2>1. PICK k, H : k = m.keys[i] /\ H = SubSeq(m.tokens, 1, i * BlockSize)
    OBVIOUS
  <2>2. k = <<Namespace, H>> /\ ~IsTail(k) /\ i * BlockSize <= Len(m.tokens) /\ i \in Nat \ {0} /\ m.tokens \in TokenLists
    BY <1>1, <2>1, KeyFacts
  <2>3. k \in DOMAIN Z.blocks /\ Z.blocks[k].ready
    BY <2>1 DEF Ready
  <2>4. Promise(Z.blocks[k].page, k[2])
    BY <2>2, <2>3 DEF InBlocks
  <2>5. k[2] = H
    BY <2>2
  <2>6. Through(Z.blocks[k].page, m.tokens, m.computed, i)
    BY <2>1, <2>2, <2>4, <2>5, PromisedThrough
  <2> QED
    BY <2>1, <2>6
<1>2. CASE ~(i * BlockSize <= m.computed)
  <2>1. IsTail(m.keys[i])
    BY <1>2, KeyFacts
  <2> QED
    BY <2>1 DEF TailsSound, PageOf
<1> QED
  BY <1>1, <1>2

LEMMA BlockRestoresHonest ==
  ASSUME Tiered, NEW Z, BlockGood(Z), ~Z.lease.on, Honest(Z), NEW r \in Sessions, Z.q[r].res = "cpu", ~BlockStale(Z, r),
         NEW m, m = Z.man[r], NEW n, n = PlanLength(Z, m),
         NEW R, NEW h, NEW P, NEW g, BlockRestoredFrom(R, Z, r, m, n, h, P, g)
  PROVE  Honest(R)
<1>1. PICK c : c = PlanRestored(Z.q[r], Z, m, Mixed(h, g, n))
  OBVIOUS
<1>2. Back(R, Z, r, c) /\ IsBack(c, Z.q[r], n)
  BY <1>1, BlockRestoresGood, Zenon
<1>3. /\ Zone(Z) /\ Seats(Z.pool, Z.q) /\ IsRequest(Z.q[r]) /\ Bare(Z.q[r].table)
  BY DEF BlockGood, Seated, Seats, Requests, Placed, Bare
<1>4. IsManifest(m, r) /\ m.tokens = Z.q[r].tokens
  <2>1. m.id # 0 /\ m.tokens = Z.q[r].tokens
    BY DEF BlockStale
  <2>2. m # NoMan
    BY <2>1 DEF NoMan
  <2> QED
    BY <2>1, <2>2 DEF BlockGood, Manifests
<1>5. PICK goal, pages : goal = PlanNeeds(Z, m, h) /\ pages = [i \in 1..n |-> PlanPage(Z, m, i)]
  OBVIOUS
<1>6. /\ h \in PlanHits(Z, m) /\ P \in Reclaims(Pinned(Z.pool, h), goal) /\ g \in Fresh(P, 1..n \ DOMAIN h)
      /\ R = [Z EXCEPT !.pool = AllocBlocks(P, g), !.kv = ImportPages(@, Mixed(h, g, n), pages, 1..n \ DOMAIN h),
                       !.q[r] = PlanRestored(@, Z, m, Mixed(h, g, n))]
  BY <1>5 DEF BlockRestoredFrom, Mixed
<1>7. /\ R.kv = ImportPages(Z.kv, Mixed(h, g, n), pages, 1..n \ DOMAIN h) /\ R.pool = AllocBlocks(P, g)
      /\ R.q = [Z.q EXCEPT ![r] = c] /\ SameBlocks(R, Z)
  BY <1>1, <1>3, <1>6 DEF Zone, SameBlocks
<1>8. /\ c.table = Mixed(h, g, n) /\ c.computed = PlanValid(Z, m) /\ c.tokens = m.tokens /\ c.published = 0
      /\ c.parent = ROOT_HASH
  BY <1>1, <1>3, <1>4 DEF PlanRestored, IsRequest
<1>9. IsRequest(c) /\ Placed(c)
  BY <1>2 DEF IsBack
<1>10. /\ n \in Nat /\ n <= BlocksNeededFor(m.computed) /\ DOMAIN m.keys = 1..BlocksNeededFor(m.computed)
       /\ \A i \in 1..n : OnGpu(Z, m.keys[i]) # {} \/ Ready(Z.blocks, m.keys[i])
       /\ PlanValid(Z, m) \in Nat /\ PlanValid(Z, m) <= m.computed /\ BlocksNeededFor(m.computed) \in Nat
  BY <1>4, PlanFacts, BlocksFor DEF IsManifest
<1>11. /\ Reuses(Z.pool, h, n) /\ DOMAIN h \subseteq 1..n
       /\ \A i \in DOMAIN h : ~IsTail(m.keys[i]) /\ <<m.keys[i][2], h[i]>> \in Z.pool.cache
  <2>1. Z.pool \in PoolOf(TokenLists)
    BY <1>3, SeatsFacts
  <2> QED
    BY <1>4, <1>6, <2>1, PlanHitsReuse DEF Reuses
<1>12. \A i \in 1..n : i \in DOMAIN m.keys
  BY <1>10
<1>13. PrefixHits(Z.pool, c, h)
  <2> SUFFICES ASSUME NEW i \in DOMAIN h
               PROVE  /\ i \in Nat \ {0} /\ i * BlockSize <= Len(c.tokens)
                      /\ <<SubSeq(c.tokens, 1, i * BlockSize), h[i]>> \in Z.pool.cache
    BY DEF PrefixHits
  <2>1. i \in DOMAIN m.keys /\ ~IsTail(m.keys[i]) /\ <<m.keys[i][2], h[i]>> \in Z.pool.cache
    BY <1>11, <1>12
  <2>2. i * BlockSize <= m.computed
    BY <1>4, <2>1, KeyFacts
  <2>3. PICK H : H = SubSeq(m.tokens, 1, i * BlockSize)
    OBVIOUS
  <2>4. i \in Nat \ {0} /\ i * BlockSize <= Len(m.tokens) /\ m.keys[i] = <<Namespace, H>>
    BY <1>4, <2>1, <2>2, <2>3, KeyFacts
  <2>5. m.keys[i][2] = H
    BY <2>4
  <2> QED
    BY <1>8, <2>1, <2>3, <2>4, <2>5
<1>14. ASSUME InBlocks(Z)
       PROVE  Filled(pages, c, 1..n \ DOMAIN h)
  <2> SUFFICES ASSUME NEW i \in 1..n \ DOMAIN h
               PROVE  Through(pages[i], c.tokens, c.computed, i)
    BY DEF Filled
  <2>1. i \in DOMAIN m.keys /\ i \in 1..n
    BY <1>12
  <2>2. OnGpu(Z, m.keys[i]) = {}
    <3>1. DOMAIN h = {j \in 1..n : OnGpu(Z, m.keys[j]) # {}}
      BY <1>6 DEF PlanHits
    <3> QED
      BY <2>1, <3>1
  <2>3. Ready(Z.blocks, m.keys[i])
    BY <1>10, <2>1, <2>2
  <2>4. pages[i] = Z.blocks[m.keys[i]].page
    BY <1>5, <2>1, <2>3 DEF PlanPage
  <2>5. TailsSound(Z.blocks, m)
    BY <1>14 DEF InBlocks
  <2>6. Through(Z.blocks[m.keys[i]].page, m.tokens, m.computed, i)
    BY <1>4, <1>14, <2>1, <2>3, <2>5, StoredPage
  <2>7. m.computed \in Nat /\ i \in Nat \ {0}
    BY <1>4, <2>1, KeyFacts
  <2> QED
    BY <1>8, <1>10, <2>4, <2>6, <2>7, ThroughShorter
<1>15. ASSUME ~stale
       PROVE  Resident(R)
  <2>1. Resident(Z) /\ InBlocks(Z)
    BY <1>15 DEF Honest
  <2>2. Chained(c)
    BY <1>8, <1>9, ChainedRoot
  <2>3. R.pool.cache \subseteq P.cache
    BY <1>7 DEF AllocBlocks
  <2>4. Imports(Z, r, n, h, goal, P, g, c, pages, R)
    BY <1>3, <1>6, <1>7, <1>8, <1>9, <1>11, <1>13, <1>14, <2>1, <2>2, <2>3 DEF Imports
  <2> QED
    BY <1>10, <2>4, RestoredResident
<1>16. Shelf(R)
  <2>1. Shelf(Z)
    BY DEF Honest
  <2> QED
    BY <1>7, <2>1, ShelfSame
<1>17. ASSUME ~stale
       PROVE  InBlocks(R)
  BY <1>7, <1>17 DEF Honest, InBlocks, SameBlocks
<1> QED
  BY <1>15, <1>16, <1>17 DEF Honest

LEMMA BlockFailedRestoreHonest ==
  ASSUME Tiered, NEW Z, BlockGood(Z), Honest(Z), NEW r \in Sessions, Z.q[r].res = "cpu", ~BlockStale(Z, r),
         NEW R \in BlockFailedRestores(Z, r)
  PROVE  Honest(R)
<1> DEFINE m == Z.man[r]
           n == PlanLength(Z, m)
           Y(h, P) == [Z EXCEPT !.pool = Unpinned(P, h)]
           Pools(h) == {P \in Reclaims(Pinned(Z.pool, h), PlanNeeds(Z, m, h)) :
                          CopyMayFail \/ FreeBlocks(P) < PlanNeeds(Z, m, h)}
<1>0. BlockFailedRestores(Z, r) = UNION {{Y(h, P) : P \in Pools(h)} : h \in PlanHits(Z, m)}
  BY DEF BlockFailedRestores
<1> HIDE DEF Y, Pools
<1>1. PICK h \in PlanHits(Z, m) : R \in {Y(h, P) : P \in Pools(h)}
  BY <1>0
<1>2. PICK P \in Pools(h) : R = Y(h, P)
  BY <1>1
<1>3. P \in Reclaims(Pinned(Z.pool, h), PlanNeeds(Z, m, h)) /\ R = [Z EXCEPT !.pool = Unpinned(P, h)]
  BY <1>2 DEF Y, Pools
<1>4. /\ Zone(Z) /\ Seats(Z.pool, Z.q) /\ Requests(Z.q) /\ Bare(Z.q[r].table) /\ Z.pool \in PoolOf(TokenLists)
  <2>1. Zone(Z) /\ Seats(Z.pool, Z.q) /\ Requests(Z.q)
    BY DEF BlockGood, Seated, Seats
  <2>2. Bare(Z.q[r].table)
    BY <2>1 DEF Requests, Placed, Bare
  <2> QED
    BY <2>1, <2>2, SeatsFacts
<1>5. IsManifest(m, r)
  <2>1. m.id # 0
    BY DEF BlockStale
  <2>2. m # NoMan
    BY <2>1 DEF NoMan
  <2> QED
    BY <2>2 DEF BlockGood, Manifests
<1>6. n \in Nat /\ Reuses(Z.pool, h, n)
  <2> HIDE DEF m
  <2>1. n \in Nat
    BY <1>5, PlanFacts
  <2> QED
    BY <1>1, <1>4, <1>5, <2>1, PlanHitsReuse
<1>7. Unpinned(P, h).cache \subseteq Z.pool.cache
  <2>1. PICK goal : goal = PlanNeeds(Z, m, h)
    OBVIOUS
  <2>2. P \in Reclaims(Pinned(Z.pool, h), goal)
    BY <1>3, <2>1
  <2> HIDE DEF n, m
  <2> QED
    BY <1>4, <1>6, <2>2, UnpinSeats
<1>8. SameBlocks(R, Z) /\ R.kv = Z.kv /\ R.pool = Unpinned(P, h) /\ R.q = Z.q
  BY <1>3, <1>4 DEF Zone, SameBlocks
<1>9. Fades(R, Z)
  BY <1>7, <1>8 DEF Fades
<1> QED
  BY <1>9, FadesHonest

LEMMA CommitRestoreHonest ==
  ASSUME ~Tiered, NEW R, NEW hold, Zone(R), Books(R.store, hold), Honest(R), NEW r
  PROVE  LET C == CommitRestore(R, r)
         IN  Honest(C) /\ Zone(C) /\ C.q = R.q
<1>1. PICK C : C = CommitRestore(R, r)
  OBVIOUS
<1>2. /\ Zone(C) /\ C.q = R.q /\ C.kv = R.kv /\ C.pool = R.pool /\ C.pend = R.pend
      /\ C.store = Delete(R.store, {R.snapOf[r]})
  BY <1>1 DEF CommitRestore, Zone
<1>3. PICK S : S = R.store
  OBVIOUS
<1>4. Snaps(Delete(S, {R.snapOf[r]})) = Snaps(S) \ {s \in Snaps(S) : s.id \in {R.snapOf[r]}}
  BY <1>3, DeleteBooks
<1>5. Snaps(C.store) \subseteq Snaps(R.store)
  BY <1>2, <1>3, <1>4
<1>6. Fades(C, R)
  BY <1>2, <1>5 DEF Fades
<1> QED
  BY <1>1, <1>2, <1>6, FadesHonest

\* A restore of either manager, whatever becomes of it.
LEMMA RestoreBegunHonest ==
  ASSUME NEW Z, NEW hold, Good(Z, hold), Calm(Z), Honest(Z), NEW r \in Sessions, Z.q[r].res = "cpu", ~Stale(Z, r),
         NEW R \in BeginRestore(Z, r)
  PROVE  Honest(R)
<1>1. CASE Tiered
  <2>1. BlockGood(Z) /\ ~BlockStale(Z, r) /\ R \in BlockRestores(Z, r) /\ ~Z.lease.on
    BY <1>1, GoodBlocks DEF Stale, BeginRestore, Calm
  <2>2. PICK m, n : m = Z.man[r] /\ n = PlanLength(Z, m)
    OBVIOUS
  <2>3. PICK h, P, g : BlockRestoredFrom(R, Z, r, m, n, h, P, g)
    BY <2>1, <2>2, BlockRestoreParts
  <2> QED
    BY <1>1, <2>1, <2>2, <2>3, BlockRestoresHonest
<1>2. CASE ~Tiered
  <2>1. SnapGood(Z, hold) /\ R \in Restores(Z, r)
    BY <1>2, GoodSnaps DEF BeginRestore
  <2>2. PICK s : HostSnapshot(Z, r, s)
    BY <2>1, HostHasSnapshot
  <2>3. PICK h, P, g : RestoredFrom(R, Z, r, s, h, P, g)
    BY <2>1, <2>2, RestoreParts DEF HostSnapshot
  <2> QED
    BY <1>2, <2>1, <2>2, <2>3, RestoresHonest
<1> QED
  BY <1>1, <1>2

LEMMA RestoreFailedHonest ==
  ASSUME NEW Z, NEW hold, Good(Z, hold), Honest(Z), NEW r \in Sessions, Z.q[r].res = "cpu", ~Stale(Z, r),
         NEW R \in BeginRestoreFails(Z, r)
  PROVE  Honest(R)
<1>1. CASE Tiered
  <2>1. BlockGood(Z) /\ ~BlockStale(Z, r) /\ R \in BlockFailedRestores(Z, r)
    BY <1>1, GoodBlocks DEF Stale, BeginRestoreFails
  <2> QED
    BY <1>1, <2>1, BlockFailedRestoreHonest
<1>2. CASE ~Tiered
  <2>1. SnapGood(Z, hold) /\ R \in FailedRestores(Z, r)
    BY <1>2, GoodSnaps DEF BeginRestoreFails
  <2>2. PICK s : HostSnapshot(Z, r, s)
    BY <2>1, HostHasSnapshot
  <2>3. PICK h, P : FailedFrom(R, Z, r, s, h, P)
    BY <2>1, <2>2, FailedParts DEF HostSnapshot
  <2> QED
    BY <1>2, <2>1, <2>2, <2>3, FailedRestoreHonest
<1> QED
  BY <1>1, <1>2

LEMMA AdmittedHonest ==
  ASSUME NEW Z, NEW hold, Good(Z, hold), Calm(Z), Honest(Z), NEW r \in Sessions, Z.q[r].res = "cpu", ~Stale(Z, r),
         NEW R \in BeginRestore(Z, r), NEW suffix \in TokenLists
  PROVE  Honest(Resumed(Commits(R, r), r, suffix))
<1>1. Honest(R)
  BY RestoreBegunHonest
<1>2. PICK c, n : Back(R, Z, r, c) /\ IsBack(c, Z.q[r], n)
  BY RestoreBegun
<1>3. Requests(Z.q)
  BY GoodQ
<1>4. Zone(R) /\ Seats(R.pool, R.q) /\ R.q[r] = c
  BY <1>2, <1>3, BackParts
<1>5. Requests(R.q) /\ R.q[r].st = "parked"
  BY <1>2, <1>4 DEF Seats, IsBack
<1>6. CASE Tiered
  <2>1. Commits(R, r) = R
    BY <1>6 DEF Commits
  <2> QED
    BY <1>1, <1>4, <1>5, <2>1, ResumedHonest
<1>7. CASE ~Tiered
  <2>1. PICK C : C = CommitRestore(R, r)
    OBVIOUS
  <2>2. Books(R.store, hold)
    BY <1>2, <1>7, GoodSnaps DEF SnapGood, Snapped, Back
  <2>3. Honest(C) /\ Zone(C) /\ C.q = R.q
    BY <1>1, <1>4, <1>7, <2>1, <2>2, CommitRestoreHonest
  <2>4. Commits(R, r) = C
    BY <1>7, <2>1 DEF Commits
  <2>5. Honest(Resumed(C, r, suffix))
    BY <1>5, <2>3, ResumedHonest
  <2> QED
    BY <2>4, <2>5
<1> QED
  BY <1>6, <1>7

LEMMA RefusedHonest ==
  ASSUME NEW Z, NEW hold, Good(Z, hold), Calm(Z), Honest(Z), NEW r \in Sessions, Z.q[r].res = "cpu", ~Stale(Z, r),
         NEW R \in BeginRestore(Z, r)
  PROVE  Honest(RollbackRestore(R, r))
<1>1. Honest(R)
  BY RestoreBegunHonest
<1>2. PICK c, n : Back(R, Z, r, c) /\ IsBack(c, Z.q[r], n)
  BY RestoreBegun
<1>3. Requests(Z.q) /\ R.lease = Z.lease /\ ~Z.lease.on
  BY <1>2, GoodQ DEF Calm, Back, SameSnaps, SameBlocks
<1> QED
  BY <1>1, <1>2, <1>3, RolledBackHonest

(***************************************************************************)
(* Either manager.                                                         *)
(***************************************************************************)
LEMMA WaitedKeeps ==
  ASSUME NEW Z, NEW hold, Good(Z, hold), Calm(Z), Honest(Z), NEW cancel
  PROVE  Honest(Waited(Z, cancel))
<1>1. CASE Tiered
  <2>1. ~Z.pend.on
    BY <1>1, GoodBlocks, BlockCalm
  <2>2. Waited(Z, cancel) = Z
    BY <2>1 DEF Waited
  <2> QED
    BY <2>2
<1>2. CASE ~Tiered
  <2>1. SnapGood(Z, hold)
    BY <1>2, GoodSnaps
  <2> QED
    BY <1>2, <2>1, WaitedHonest
<1> QED
  BY <1>1, <1>2

LEMMA StateHonest ==
  ASSUME OffloadInv, ContentInv, op.pc = "idle"
  PROVE  Good(State, NoHold) /\ Calm(State) /\ Honest(State)
BY GoodState, IdleOp DEF OffloadInv, ContentInv

LEMMA WaitedIdleHonest ==
  ASSUME OffloadInv, ContentInv, op.pc = "idle", NEW r, NEW Z, Z = WaitFor(r)
  PROVE  Honest(Z)
<1>1. Good(State, NoHold) /\ Calm(State) /\ Honest(State)
  BY StateHonest
<1>2. Honest(Waited(State, FALSE))
  BY <1>1, WaitedKeeps
<1> QED
  BY <1>1, <1>2 DEF WaitFor

LEMMA AdmitKeeps ==
  ASSUME OffloadInv, ContentInv, NEW r \in Sessions, NEW s \in NextTokens, Admit(r, s)
  PROVE  ContentInv'
<1>1. op.pc = "idle" /\ r \in Parked /\ UNCHANGED <<epoch, op, weights, cfg>> /\ s \in TokenLists
  BY TokensType DEF Admit
<1>2. PICK Z : Z = WaitFor(r)
  OBVIOUS
<1>3. /\ Good(Z, NoHold) /\ Calm(Z) /\ Kin(Z, State) /\ (Z.pend.on => Z.pend.meta.rid # r) /\ Requests(Z.q)
      /\ \A x \in Sessions : Z.q[x].st = q[x].st /\ Z.q[x].tokens = q[x].tokens
  BY <1>1, <1>2, WaitedIdle
<1>4. Z.q[r].st = "parked" /\ Zone(Z) /\ Honest(Z) /\ r \in Sessions
  BY <1>1, <1>2, <1>3, WaitedIdleHonest, GoodQ DEF Parked
<1>5. ASSUME NEW Y, Good(Y, NoHold), Honest(Y), Become(Y)
      PROVE  ContentInv'
  BY <1>1, <1>5, HonestNext
<1>6. CASE Z.q[r].res # "cpu" /\ Become(Resumed(Z, r, s))
  <2>1. LET Y == Resumed(Z, r, s)
        IN  Good(Y, NoHold) /\ Calm(Y) /\ OnlyMoves(Y, Z, r) /\ Y.q[r].st = "active"
    BY <1>1, <1>3, <1>4, <1>6, ResumedGood, Zenon
  <2>2. Honest(Resumed(Z, r, s))
    BY <1>1, <1>3, <1>4, ResumedHonest
  <2>3. PICK Y : Y = Resumed(Z, r, s)
    OBVIOUS
  <2> QED
    BY <1>5, <1>6, <2>1, <2>2, <2>3
<1>7. CASE Z.q[r].res = "cpu" /\ ~Stale(Z, r) /\ \E R \in BeginRestore(Z, r) : Become(Resumed(Commits(R, r), r, s))
  <2>1. PICK R \in BeginRestore(Z, r) : Become(Resumed(Commits(R, r), r, s))
    BY <1>7
  <2>2. LET Y == Resumed(Commits(R, r), r, s)
        IN  Good(Y, NoHold) /\ Calm(Y) /\ OnlyMoves(Y, Z, r) /\ Y.q[r].st = "active"
    BY <1>1, <1>3, <1>4, <1>7, AdmittedGood, Zenon
  <2>3. Honest(Resumed(Commits(R, r), r, s))
    BY <1>1, <1>3, <1>4, <1>7, AdmittedHonest
  <2>4. PICK Y : Y = Resumed(Commits(R, r), r, s)
    OBVIOUS
  <2> QED
    BY <1>5, <2>1, <2>2, <2>3, <2>4
<1> QED
  BY <1>2, <1>6, <1>7 DEF Admit

LEMMA WaitRaisesKeeps ==
  ASSUME OffloadInv, ContentInv, WaitRaises, UNCHANGED <<cfg, weights, epoch>>
  PROVE  ContentInv'
<1>1. Good(State, op.hold) /\ Honest(State) /\ Become(State)
  BY DEF OffloadInv, ContentInv, WaitRaises
<1> QED
  BY <1>1, HonestNext

LEMMA AdmitRaisesKeeps ==
  ASSUME OffloadInv, ContentInv, NEW r \in Sessions, AdmitRaises(r)
  PROVE  ContentInv'
BY WaitRaisesKeeps DEF AdmitRaises

LEMMA AdmitRefusedKeeps ==
  ASSUME OffloadInv, ContentInv, NEW r \in Sessions, AdmitRefused(r)
  PROVE  ContentInv'
<1>1. op.pc = "idle" /\ r \in Parked /\ UNCHANGED <<epoch, order, op, weights, cfg>>
  BY DEF AdmitRefused
<1>2. PICK Z : Z = WaitFor(r)
  OBVIOUS
<1>3. /\ Good(Z, NoHold) /\ Calm(Z) /\ Kin(Z, State) /\ (Z.pend.on => Z.pend.meta.rid # r) /\ Honest(Z)
  BY <1>1, <1>2, WaitedIdle, WaitedIdleHonest
<1>4. Z.q[r].res = "cpu" /\ ~Stale(Z, r) /\ \E R \in BeginRestore(Z, r) : Become(RollbackRestore(R, r))
  BY <1>2 DEF AdmitRefused
<1>5. PICK R \in BeginRestore(Z, r) : Become(RollbackRestore(R, r))
  BY <1>4
<1>6. LET Y == RollbackRestore(R, r) IN Good(Y, NoHold) /\ Calm(Y) /\ Kin(Y, Z)
  BY <1>3, <1>4, RefusedGood, Zenon
<1>7. Honest(RollbackRestore(R, r))
  BY <1>3, <1>4, RefusedHonest
<1>8. PICK Y : Y = RollbackRestore(R, r)
  OBVIOUS
<1>9. Good(Y, NoHold) /\ Honest(Y) /\ Become(Y)
  BY <1>5, <1>6, <1>7, <1>8
<1> QED
  BY <1>1, <1>9, HonestNext

LEMMA AdmitFailsKeeps ==
  ASSUME OffloadInv, ContentInv, NEW r \in Sessions, NEW s \in NextTokens, AdmitFails(r, s)
  PROVE  ContentInv'
<1>1. op.pc = "idle" /\ r \in Parked /\ UNCHANGED <<epoch, order, weights, cfg>>
  BY DEF AdmitFails
<1>2. PICK Z : Z = WaitFor(r)
  OBVIOUS
<1>3. /\ Good(Z, NoHold) /\ Calm(Z) /\ Kin(Z, State) /\ (Z.pend.on => Z.pend.meta.rid # r) /\ Honest(Z)
  BY <1>1, <1>2, WaitedIdle, WaitedIdleHonest
<1>4. PICK R \in BeginRestoreFails(Z, r) : Z.q[r].res = "cpu" /\ ~Stale(Z, r) /\ Become(R)
  BY <1>2 DEF AdmitFails
<1>5. Good(R, NoHold) /\ Honest(R)
  BY <1>3, <1>4, RestoreFailedGood, RestoreFailedHonest
<1> QED
  BY <1>1, <1>4, <1>5, HonestNext

(***************************************************************************)
(* The block store's writers.                                              *)
(***************************************************************************)
\* What is ready in X was ready in W, and holds the same page.
Backed(X, W) ==
  \A k \in DOMAIN X : X[k].ready => k \in DOMAIN W /\ W[k].ready /\ X[k].page = W[k].page

\* A tail that is found was found before, with what it held.
LEMMA TailsBacked ==
  ASSUME NEW X, NEW W, Backed(X, W), NEW m, TailsSound(W, m)
  PROVE  TailsSound(X, m)
<1> SUFFICES ASSUME NEW i \in DOMAIN m.keys, IsTail(m.keys[i]), Ready(X, m.keys[i])
             PROVE  PageOf(X[m.keys[i]].page, m.tokens, m.computed, i)
  BY DEF TailsSound
<1>1. Ready(W, m.keys[i]) /\ X[m.keys[i]].page = W[m.keys[i]].page
  BY DEF Backed, Ready
<1> QED
  BY <1>1 DEF TailsSound

\* A manifest of nothing names no tail.
LEMMA TailsNone ==
  ASSUME NEW X
  PROVE  TailsSound(X, NoMan)
BY DEF TailsSound, NoMan

\* The keys of a manifest: whole blocks, then the request's own tail under the manifest's id.
LEMMA TailKey ==
  ASSUME NEW m, NEW r, IsManifest(m, r), NEW i \in DOMAIN m.keys, IsTail(m.keys[i])
  PROVE  m.keys[i] = <<Namespace, "tail", r, m.id>>
<1>1. ~(i * BlockSize <= m.computed)
  BY KeyFacts
<1> QED
  BY <1>1, KeyFacts

\* What is in the store stays sound when the store loses slots and the manifests change for
\* ones whose tails are sound.
LEMMA StoreBacked ==
  ASSUME NEW Z, InBlocks(Z), NEW Y, Backed(Y.blocks, Z.blocks),
         \A x \in Sessions : Y.man[x] = Z.man[x] \/ Y.man[x] = NoMan,
         Y.lease.on => \A x \in DOMAIN Y.lease.man : TailsSound(Y.blocks, Y.lease.man[x])
  PROVE  InBlocks(Y)
<1>1. ASSUME NEW k \in DOMAIN Y.blocks, Y.blocks[k].ready, ~IsTail(k)
      PROVE  Promise(Y.blocks[k].page, k[2])
  <2>1. k \in DOMAIN Z.blocks /\ Z.blocks[k].ready /\ Y.blocks[k].page = Z.blocks[k].page
    BY <1>1 DEF Backed
  <2>2. Promise(Z.blocks[k].page, k[2])
    BY <1>1, <2>1 DEF InBlocks
  <2> QED
    BY <2>1, <2>2
<1>2. ASSUME NEW x \in Sessions
      PROVE  TailsSound(Y.blocks, Y.man[x])
  <2>1. TailsSound(Z.blocks, Z.man[x])
    BY DEF InBlocks
  <2>2. TailsSound(Y.blocks, Z.man[x])
    BY <2>1, TailsBacked
  <2> QED
    BY <2>2, TailsNone
<1> QED
  BY <1>1, <1>2 DEF InBlocks

\* Outside an operation nothing is pinned, everything is ready and every tail is named.
LEMMA ShelfAtRest ==
  ASSUME NEW Z, Shelf(Z), ~Z.lease.on
  PROVE  /\ \A k \in DOMAIN Z.blocks : /\ k[1] = Namespace /\ Z.blocks[k].pins = 0 /\ Z.blocks[k].ready
                                       /\ DOMAIN Z.blocks[k] = {"ready", "page", "pins"}
         /\ \A k \in DOMAIN Z.blocks : IsTail(k) => \E r \in Sessions : k \in TailsOf(Z.man[r])
         /\ Cardinality(DOMAIN Z.blocks) <= CpuMax
BY DEF Shelf, Leased

\* A store that only loses slots still fits.
LEMMA ShelfFits ==
  ASSUME NEW Z, Shelf(Z), IsFiniteSet(DOMAIN Z.blocks), NEW X, DOMAIN X \subseteq DOMAIN Z.blocks
  PROVE  Cardinality(DOMAIN X) <= CpuMax /\ IsFiniteSet(DOMAIN X)
<1>1. Cardinality(DOMAIN Z.blocks) <= CpuMax
  BY DEF Shelf
<1>2. Cardinality(DOMAIN X) <= Cardinality(DOMAIN Z.blocks) /\ IsFiniteSet(DOMAIN X)
  BY FS_Subset
<1>3. Cardinality(DOMAIN X) \in Nat /\ Cardinality(DOMAIN Z.blocks) \in Nat
  BY <1>2, FS_CardinalityType
<1> QED
  BY <1>1, <1>2, <1>3, CpuStoreAssumption

\* Forgotten sessions take their tails with them; nothing else of the store changes.
LEMMA BlockForgotHonest ==
  ASSUME Tiered, NEW Z, BlockGood(Z), ~Z.lease.on, Honest(Z), NEW S \in SUBSET Sessions, NEW Y, Y.kv = Z.kv,
         Y.man = [r \in Sessions |-> IF r \in S THEN NoMan ELSE Z.man[r]],
         Y.blocks = EvictBlocks(Z.blocks, UNION {TailsOf(Z.man[r]) : r \in S}), Y.lease = Z.lease,
         Y.pool.cache \subseteq Z.pool.cache, \A x \in Sessions : Owed(Z.kv, Z.q[x]) => Owed(Z.kv, Y.q[x])
  PROVE  Honest(Y)
<1> DEFINE K == UNION {TailsOf(Z.man[r]) : r \in S}
<1>1. Shelf(Z) /\ IsFiniteSet(DOMAIN Z.blocks)
  BY DEF Honest, BlockGood, Blocked, LeaseHeld
<1>2. /\ DOMAIN Y.blocks = DOMAIN Z.blocks \ K
      /\ \A k \in DOMAIN Y.blocks : Y.blocks[k] = Z.blocks[k]
  BY <1>1, ShelfAtRest DEF EvictBlocks, Without
<1>3. Shelf(Y)
  <2>1. Cardinality(DOMAIN Y.blocks) <= CpuMax
    BY <1>1, <1>2, ShelfFits
  <2>2. \A k \in DOMAIN Y.blocks : /\ k[1] = Namespace /\ Y.blocks[k].pins = 0 /\ Y.blocks[k].ready
                                   /\ DOMAIN Y.blocks[k] = {"ready", "page", "pins"}
    <3> SUFFICES ASSUME NEW k \in DOMAIN Y.blocks
                 PROVE  /\ k[1] = Namespace /\ Y.blocks[k].pins = 0 /\ Y.blocks[k].ready
                        /\ DOMAIN Y.blocks[k] = {"ready", "page", "pins"}
      OBVIOUS
    <3>1. Y.blocks[k] = Z.blocks[k] /\ k \in DOMAIN Z.blocks
      BY <1>2
    <3>2. /\ k[1] = Namespace /\ Z.blocks[k].pins = 0 /\ Z.blocks[k].ready
          /\ DOMAIN Z.blocks[k] = {"ready", "page", "pins"}
      BY <1>1, <3>1, ShelfAtRest
    <3> QED
      BY <3>1, <3>2
  <2>3. ASSUME NEW k \in DOMAIN Y.blocks, IsTail(k)
        PROVE  \E r \in Sessions : k \in TailsOf(Y.man[r])
    <3>1. PICK r \in Sessions : k \in TailsOf(Z.man[r])
      BY <1>1, <1>2, <2>3, ShelfAtRest
    <3>2. r \notin S
      BY <1>2, <3>1
    <3> QED
      BY <3>1, <3>2
  <2> QED
    BY <2>1, <2>2, <2>3 DEF Shelf, Leased
<1>4. Backed(Y.blocks, Z.blocks)
  BY <1>2 DEF Backed
<1>5. ~stale => Resident(Y)
  BY DEF Honest, Resident
<1>6. ~stale => InBlocks(Y)
  <2>1. \A x \in Sessions : Y.man[x] = Z.man[x] \/ Y.man[x] = NoMan
    OBVIOUS
  <2>2. ~Y.lease.on
    OBVIOUS
  <2> QED
    BY <1>4, <2>1, <2>2, StoreBacked DEF Honest
<1> QED
  BY <1>3, <1>5, <1>6 DEF Honest

LEMMA BlockFinishedHonest ==
  ASSUME Tiered, NEW Z, BlockGood(Z), ~Z.lease.on, Honest(Z), NEW S \in SUBSET Sessions
  PROVE  Honest(Finished(Z, S))
<1>1. PICK Y : Y = Finished(Z, S)
  OBVIOUS
<1>2. /\ Y.q = [r \in Sessions |-> IF r \in S THEN NoReq ELSE Z.q[r]] /\ Y.kv = Z.kv
      /\ Y.pool = DeallocateAll(Z.pool, [r \in S |-> Z.q[r].table]) /\ BlockRemoves(Y, Z, S)
  BY <1>1, BlockFinishedGood
<1>3. Y.blocks = EvictBlocks(Z.blocks, UNION {TailsOf(Z.man[r]) : r \in S})
  <2>1. Zone(Z)
    BY DEF BlockGood
  <2> QED
    BY <1>1, <2>1 DEF Finished, Forgotten, BlockRemove, Zone
<1>4. Y.pool.cache = Z.pool.cache
  BY <1>2 DEF DeallocateAll, Decref
<1>5. \A x \in Sessions : Owed(Z.kv, Z.q[x]) => Owed(Z.kv, Y.q[x])
  BY <1>2, OwedNoReq
<1>6. Y.man = [r \in Sessions |-> IF r \in S THEN NoMan ELSE Z.man[r]] /\ Y.lease = Z.lease
  BY <1>2 DEF BlockRemoves
<1> QED
  BY <1>1, <1>2, <1>3, <1>4, <1>5, <1>6, BlockForgotHonest

LEMMA BlockDropHonest ==
  ASSUME Tiered, NEW Z, BlockGood(Z), ~Z.lease.on, Honest(Z), NEW r \in Sessions, Z.q[r].st = "parked",
         NEW R, R = Forgotten(Z, {r})
  PROVE  Honest([R EXCEPT !.pool = Deallocate(@, R.q[r].table), !.q[r] = Dropped(@)])
<1>1. PICK Y : Y = [R EXCEPT !.pool = Deallocate(@, R.q[r].table), !.q[r] = Dropped(@)]
  OBVIOUS
<1>2. /\ Y.q = [Z.q EXCEPT ![r] = Dropped(Z.q[r])] /\ Y.kv = Z.kv
      /\ Y.pool = Deallocate(Z.pool, Z.q[r].table) /\ BlockRemoves(Y, Z, {r})
  <2>1. LET C == Forgotten(Z, {r})
            X == [C EXCEPT !.pool = Deallocate(@, C.q[r].table), !.q[r] = Dropped(@)]
        IN  /\ BlockGood(X) /\ X.q = [Z.q EXCEPT ![r] = Dropped(Z.q[r])] /\ X.kv = Z.kv
            /\ X.pool = Deallocate(Z.pool, Z.q[r].table) /\ BlockRemoves(X, Z, {r})
    BY BlockDropGood, Zenon
  <2> QED
    BY <1>1, <2>1
<1>3. Y.blocks = EvictBlocks(Z.blocks, UNION {TailsOf(Z.man[x]) : x \in {r}})
  <2>1. Zone(Z)
    BY DEF BlockGood
  <2> QED
    BY <1>1, <2>1 DEF Forgotten, BlockRemove, Zone
<1>4. Y.pool.cache = Z.pool.cache
  BY <1>2 DEF Deallocate, Decref
<1>5. \A x \in Sessions : Owed(Z.kv, Z.q[x]) => Owed(Z.kv, Y.q[x])
  <2>1. Requests(Z.q)
    BY DEF BlockGood, Seated, Seats
  <2> QED
    BY <1>2, <2>1, OwedDropped DEF Requests
<1>6. Y.man = [x \in Sessions |-> IF x \in {r} THEN NoMan ELSE Z.man[x]] /\ Y.lease = Z.lease
  BY <1>2 DEF BlockRemoves
<1>7. PICK S \in SUBSET Sessions : S = {r}
  OBVIOUS
<1> QED
  BY <1>1, <1>2, <1>3, <1>4, <1>5, <1>6, <1>7, BlockForgotHonest

LEMMA BlockCloseHonest ==
  ASSUME Tiered, NEW Z, BlockGood(Z), Honest(Z)
  PROVE  Honest(BlockClose(Z))
<1>1. CASE ~Z.lease.on
  BY <1>1 DEF BlockClose
<1>2. CASE Z.lease.on
  <2> DEFINE X == CloseLease(Z.blocks, Z.lease.keys)
             live == UNION {TailsOf(Z.man[r]) : r \in Sessions}
             T == {k \in DOMAIN X : IsTail(k)} \ live
  <2>1. PICK Y : Y = BlockClose(Z)
    OBVIOUS
  <2>2. Shelf(Z) /\ IsFiniteSet(DOMAIN Z.blocks) /\ Zone(Z) /\ Z.lease.on
    BY <1>2 DEF Honest, BlockGood, Blocked, LeaseHeld
  <2>3. /\ Y.blocks = EvictBlocks(X, T) /\ Y.lease = NoLease
        /\ Y.kv = Z.kv /\ Y.q = Z.q /\ Y.pool = Z.pool /\ Y.man = Z.man
    BY <1>2, <2>1, <2>2 DEF BlockClose, Zone
  <2>4. \A k \in DOMAIN Z.blocks : /\ k[1] = Namespace /\ DOMAIN Z.blocks[k] = {"ready", "page", "pins"}
                                   /\ (Z.blocks[k].ready \/ k \in Z.lease.keys)
                                   /\ Z.blocks[k].pins = IF k \in Z.lease.keys THEN 1 ELSE 0
    BY <2>2 DEF Shelf, Leased
  <2>5. \A k \in DOMAIN X : /\ k \in DOMAIN Z.blocks /\ X[k].pins = 0 /\ X[k].ready /\ Z.blocks[k].ready /\ DOMAIN X[k] = {"ready", "page", "pins"}
                            /\ X[k].page = Z.blocks[k].page
    <3> SUFFICES ASSUME NEW k \in DOMAIN X
                 PROVE  /\ k \in DOMAIN Z.blocks /\ X[k].pins = 0 /\ X[k].ready /\ Z.blocks[k].ready /\ DOMAIN X[k] = {"ready", "page", "pins"}
                        /\ X[k].page = Z.blocks[k].page
      OBVIOUS
    <3>1. /\ k \in DOMAIN Z.blocks /\ (k \in Z.lease.keys => Z.blocks[k].ready)
          /\ X[k] = IF k \in Z.lease.keys THEN [Z.blocks[k] EXCEPT !.pins = @ - 1] ELSE Z.blocks[k]
      BY DEF CloseLease, Without
    <3>2. Z.blocks[k].ready
      BY <2>4, <3>1
    <3>3. CASE k \notin Z.lease.keys
      BY <2>4, <3>1, <3>2, <3>3
    <3>4. CASE k \in Z.lease.keys
      <4>1. Z.blocks[k].pins = 1
        BY <2>4, <3>1, <3>4
      <4>2. DOMAIN Z.blocks[k] = {"ready", "page", "pins"}
        BY <2>4, <3>1
      <4> QED
        BY <3>1, <3>2, <3>4, <4>1, <4>2
    <3> QED
      BY <3>3, <3>4
  <2>6. /\ DOMAIN Y.blocks = DOMAIN X \ T
        /\ \A k \in DOMAIN Y.blocks : Y.blocks[k] = X[k]
    BY <2>3, <2>5 DEF EvictBlocks, Without
  <2> HIDE DEF X
  <2>7. Shelf(Y)
    <3>1. Cardinality(DOMAIN Y.blocks) <= CpuMax
      BY <2>2, <2>5, <2>6, ShelfFits
    <3>2. \A k \in DOMAIN Y.blocks : IsTail(k) => \E r \in Sessions : k \in TailsOf(Y.man[r])
      BY <2>3, <2>6
    <3>3. ~Y.lease.on /\ \A k : ~Leased(Y, k)
      BY <2>3 DEF Leased, NoLease
    <3>4. ASSUME NEW k \in DOMAIN Y.blocks
          PROVE  /\ k[1] = Namespace /\ DOMAIN Y.blocks[k] = {"ready", "page", "pins"}
                 /\ Y.blocks[k].pins = 0 /\ Y.blocks[k].ready
      BY <2>4, <2>5, <2>6, <3>4
    <3> QED
      BY <3>1, <3>2, <3>3, <3>4 DEF Shelf
  <2>8. Backed(Y.blocks, Z.blocks)
    BY <2>5, <2>6 DEF Backed
  <2>9. ~stale => Resident(Y)
    BY <2>3 DEF Honest, Resident
  <2>10. ~stale => InBlocks(Y)
    <3>1. ~Y.lease.on
      BY <2>3 DEF NoLease
    <3> QED
      BY <2>3, <2>8, <3>1, StoreBacked DEF Honest
  <2> QED
    BY <2>1, <2>7, <2>9, <2>10 DEF Honest
<1> QED
  BY <1>1, <1>2

\* A manifest has one tail at most.
LEMMA OneTail ==
  ASSUME NEW m, NEW r, IsManifest(m, r), NEW i \in DOMAIN m.keys, NEW j \in DOMAIN m.keys,
         IsTail(m.keys[i]), IsTail(m.keys[j])
  PROVE  i = j
<1>1. m.computed \in Nat /\ DOMAIN m.keys = 1..BlocksNeededFor(m.computed)
  BY DEF IsManifest, Keys
<1>2. i * BlockSize > m.computed /\ j * BlockSize > m.computed
  <2>1. ~(i * BlockSize <= m.computed) /\ ~(j * BlockSize <= m.computed)
    BY KeyFacts
  <2>2. i * BlockSize \in Nat /\ j * BlockSize \in Nat
    BY KeyFacts
  <2> QED
    BY <1>1, <2>1, <2>2
<1>3. BlocksNeededFor(m.computed) \in Nat
  BY <1>1, BlocksFor
<1>4. ASSUME NEW a \in 1..BlocksNeededFor(m.computed), a * BlockSize > m.computed
      PROVE  a = BlocksNeededFor(m.computed)
  <2>1. a \in Nat /\ a >= 1 /\ a <= BlocksNeededFor(m.computed)
    BY <1>3
  <2>2. BlocksNeededFor(m.computed) * BlockSize < m.computed + BlockSize
    BY <1>1, BlocksFor
  <2>3. SUFFICES ASSUME a + 1 <= BlocksNeededFor(m.computed)
                 PROVE  FALSE
    BY <1>3, <2>1
  <2> DEFINE N == BlocksNeededFor(m.computed)
             C == m.computed
  <2>4. N \in Nat /\ C \in Nat /\ a + 1 <= N /\ N * BlockSize < C + BlockSize /\ a * BlockSize > C
    BY <1>1, <1>3, <1>4, <2>2, <2>3
  <2> HIDE DEF N, C
  <2>5. (a + 1) * BlockSize <= N * BlockSize
    BY <2>1, <2>4, BlockSizeAssumption
  <2>6. (a + 1) * BlockSize = a * BlockSize + BlockSize
    BY <2>1, BlockSizeAssumption
  <2>7. a * BlockSize \in Int /\ N * BlockSize \in Int
    BY <2>1, <2>4, BlockSizeAssumption
  <2> QED
    BY <2>4, <2>5, <2>6, <2>7, BlockSizeAssumption
<1> QED
  BY <1>1, <1>2, <1>4

\* The pages W holds once those of manifest m at the indices J are copied from r's table.
Writes(W, Z, r, m, J) ==
  /\ Tiered /\ BlockGood(Z) /\ Honest(Z) /\ Z.lease.on /\ r \in DOMAIN Z.lease.man /\ m = Z.lease.man[r]
  /\ J \subseteq Unwritten(Z, m) /\ W = Written(Z, r, m, J)

\* Somebody who is already on the host has nothing left to write.
LEMMA WriterSeated ==
  ASSUME NEW W, NEW Z, NEW r, NEW m, NEW J, Writes(W, Z, r, m, J)
  PROVE  /\ r \in Sessions /\ IsManifest(m, r) /\ IsRequest(Z.q[r]) /\ Placed(Z.q[r])
         /\ J \subseteq DOMAIN m.keys /\ \A i \in DOMAIN m.keys : m.keys[i] \in DOMAIN Z.blocks
         /\ \A i \in J : /\ m.tokens = Z.q[r].tokens /\ m.computed = Z.q[r].computed
                         /\ DOMAIN m.keys = DOMAIN Z.q[r].table
<1>1. Shelf(Z) /\ LeaseHeld(Z) /\ Requests(Z.q)
  BY DEF Writes, Honest, BlockGood, Seated, Seats
<1>2. r \in Sessions /\ IsManifest(m, r) /\ (Z.q[r].res # "cpu" => m.tokens = Z.q[r].tokens /\ m.computed = Z.q[r].computed)
  BY <1>1 DEF Writes, LeaseHeld
<1>3. IsRequest(Z.q[r]) /\ Placed(Z.q[r])
  BY <1>1, <1>2 DEF Requests
<1>4. Range(m.keys) \subseteq DOMAIN Z.blocks /\ (Z.q[r].res = "cpu" => \A k \in Range(m.keys) : Z.blocks[k].ready)
  BY <1>1 DEF Shelf, Writes
<1>5. J \subseteq DOMAIN m.keys /\ \A i \in J : ~Ready(Z.blocks, m.keys[i])
  BY DEF Writes, Unwritten
<1>6. \A i \in DOMAIN m.keys : m.keys[i] \in Range(m.keys) /\ m.keys[i] \in DOMAIN Z.blocks
  BY <1>4 DEF Range
<1>7. ASSUME NEW i \in J
      PROVE  m.tokens = Z.q[r].tokens /\ m.computed = Z.q[r].computed /\ DOMAIN m.keys = DOMAIN Z.q[r].table
  <2>1. Z.q[r].res # "cpu"
    BY <1>4, <1>5, <1>6, <1>7 DEF Ready
  <2>2. DOMAIN m.keys = 1..BlocksNeededFor(m.computed)
    BY <1>2 DEF IsManifest, Keys
  <2>3. Len(Z.q[r].table) = BlocksNeededFor(Z.q[r].computed) /\ Z.q[r].table \in Seq(Blocks)
    BY <1>3 DEF Placed, IsRequest
  <2>4. DOMAIN Z.q[r].table = 1..Len(Z.q[r].table)
    BY <2>3, LenProperties
  <2> QED
    BY <1>2, <2>1, <2>2, <2>3, <2>4
<1> QED
  BY <1>2, <1>3, <1>5, <1>6, <1>7

\* Writing a key keeps every pin, and what was ready.
LEMMA WritesShape ==
  ASSUME NEW W, NEW Z, NEW r, NEW m, NEW J, Writes(W, Z, r, m, J)
  PROVE  /\ DOMAIN W = DOMAIN Z.blocks
         /\ \A k \in DOMAIN Z.blocks : /\ DOMAIN W[k] = {"ready", "page", "pins"} /\ W[k].pins = Z.blocks[k].pins
                                       /\ Z.blocks[k].ready => W[k].ready
         /\ \A i \in J : W[m.keys[i]].ready
<1>1. Shelf(Z) /\ W = Written(Z, r, m, J)
  BY DEF Writes, Honest
<1>2. DOMAIN W = DOMAIN Z.blocks
  BY <1>1 DEF Written
<1>3. ASSUME NEW k \in DOMAIN Z.blocks
      PROVE  /\ DOMAIN W[k] = {"ready", "page", "pins"} /\ W[k].pins = Z.blocks[k].pins
             /\ Z.blocks[k].ready => W[k].ready
             /\ (\E i \in J : m.keys[i] = k) => W[k].ready
  <2>1. DOMAIN Z.blocks[k] = {"ready", "page", "pins"}
    BY <1>1 DEF Shelf
  <2>2. CASE \E i \in J : m.keys[i] = k
    <3>1. W[k] = [Z.blocks[k] EXCEPT !.ready = TRUE,
                    !.page = ExportPage(Z.kv, Z.q[r].table, CHOOSE i \in J : m.keys[i] = k, m.computed)]
      BY <1>1, <2>2 DEF Written
    <3> QED
      BY <2>1, <3>1
  <2>3. CASE ~\E i \in J : m.keys[i] = k
    <3>1. W[k] = Z.blocks[k]
      BY <1>1, <2>3 DEF Written
    <3> QED
      BY <2>1, <2>3, <3>1
  <2> QED
    BY <2>2, <2>3
<1>4. ASSUME NEW i \in J
      PROVE  W[m.keys[i]].ready
  <2>1. m.keys[i] \in DOMAIN Z.blocks
    BY WriterSeated
  <2> QED
    BY <1>3, <2>1
<1> QED
  BY <1>2, <1>3, <1>4

\* A key that is written gets the page of its position, any other keeps its own.
LEMMA WrittenPage ==
  ASSUME NEW W, NEW Z, NEW r, NEW m, NEW J, Writes(W, Z, r, m, J), Resident(Z), NEW k \in DOMAIN Z.blocks
  PROVE  \/ W[k] = Z.blocks[k]
         \/ \E j \in J : m.keys[j] = k /\ PageOf(W[k].page, m.tokens, m.computed, j)
<1>1. Shelf(Z) /\ W = Written(Z, r, m, J)
  BY DEF Writes, Honest
<1>2. CASE ~\E i \in J : m.keys[i] = k
  BY <1>1, <1>2 DEF Written
<1>3. CASE \E i \in J : m.keys[i] = k
  <2>1. PICK j : j = CHOOSE i \in J : m.keys[i] = k
    OBVIOUS
  <2>2. j \in J /\ m.keys[j] = k
    BY <1>3, <2>1
  <2>3. W[k] = [Z.blocks[k] EXCEPT !.ready = TRUE, !.page = ExportPage(Z.kv, Z.q[r].table, j, m.computed)]
    BY <1>1, <1>3, <2>1 DEF Written
  <2>4. DOMAIN Z.blocks[k] = {"ready", "page", "pins"}
    BY <1>1 DEF Shelf
  <2>5. W[k].page = ExportPage(Z.kv, Z.q[r].table, j, m.computed)
    BY <2>3, <2>4
  <2>6. /\ r \in Sessions /\ m.tokens = Z.q[r].tokens /\ m.computed = Z.q[r].computed /\ j \in DOMAIN Z.q[r].table
        /\ IsManifest(m, r) /\ j \in DOMAIN m.keys
    BY <2>2, WriterSeated
  <2>7. Through(Z.kv[Z.q[r].table[j]], m.tokens, m.computed, j)
    BY <2>6 DEF Resident, Owed
  <2>8. m.computed \in Nat /\ j \in Nat
    BY <2>6, KeyFacts
  <2>9. PageOf(ExportPage(Z.kv, Z.q[r].table, j, m.computed), m.tokens, m.computed, j)
    BY <2>7, <2>8, ExportedPage
  <2> QED
    BY <2>2, <2>5, <2>9
<1> QED
  BY <1>2, <1>3

\* A written tail is its own request's, under the id of the manifest that is saved.
LEMMA WrittenTail ==
  ASSUME NEW W, NEW Z, NEW r, NEW m, NEW J, Writes(W, Z, r, m, J), Resident(Z),
         NEW o, NEW x, IsManifest(o, x), TailsSound(Z.blocks, o), x = r /\ o.id = m.id => o = m
  PROVE  TailsSound(W, o)
<1> SUFFICES ASSUME NEW i \in DOMAIN o.keys, IsTail(o.keys[i]), Ready(W, o.keys[i])
             PROVE  PageOf(W[o.keys[i]].page, o.tokens, o.computed, i)
  BY DEF TailsSound
<1>1. o.keys[i] \in DOMAIN Z.blocks
  BY WritesShape DEF Ready
<1>2. PICK k : k = o.keys[i]
  OBVIOUS
<1>3. CASE W[k] = Z.blocks[k]
  <2>1. Ready(Z.blocks, o.keys[i])
    BY <1>1, <1>2, <1>3 DEF Ready
  <2> QED
    BY <1>2, <1>3, <2>1 DEF TailsSound
<1>4. CASE \E j \in J : m.keys[j] = k /\ PageOf(W[k].page, m.tokens, m.computed, j)
  <2>1. PICK j \in J : m.keys[j] = k /\ PageOf(W[k].page, m.tokens, m.computed, j)
    BY <1>4
  <2>2. IsManifest(m, r) /\ j \in DOMAIN m.keys /\ IsTail(m.keys[j])
    BY <1>2, <2>1, WriterSeated
  <2>3. m.keys[j] = <<Namespace, "tail", r, m.id>>
    BY <2>2, TailKey
  <2>4. o.keys[i] = <<Namespace, "tail", x, o.id>>
    BY TailKey
  <2>5. x = r /\ o.id = m.id
    <3>1. <<Namespace, "tail", r, m.id>> = <<Namespace, "tail", x, o.id>>
      BY <1>2, <2>1, <2>3, <2>4
    <3> HIDE DEF Namespace
    <3> QED
      BY <3>1
  <2>6. o = m /\ i \in DOMAIN m.keys /\ IsTail(m.keys[i])
    BY <2>5
  <2>7. i = j
    BY <2>2, <2>6, OneTail
  <2> QED
    BY <1>2, <2>1, <2>6, <2>7
<1> QED
  BY <1>1, <1>2, <1>3, <1>4, WrittenPage

\* The store stays sound while a manifest of the lease is written.
LEMMA WritesSound ==
  ASSUME NEW W, NEW Z, NEW r, NEW m, NEW J, Writes(W, Z, r, m, J), Resident(Z), InBlocks(Z)
  PROVE  /\ \A k \in DOMAIN W : W[k].ready /\ ~IsTail(k) => Promise(W[k].page, k[2])
         /\ \A x \in Sessions : TailsSound(W, Z.man[x])
         /\ \A x \in DOMAIN Z.lease.man : TailsSound(W, Z.lease.man[x])
<1>1. Shelf(Z) /\ LeaseHeld(Z) /\ Manifests(Z) /\ Z.lease.on /\ r \in DOMAIN Z.lease.man /\ m = Z.lease.man[r]
  BY DEF Writes, Honest, BlockGood
<1>2. ASSUME NEW k \in DOMAIN W, W[k].ready, ~IsTail(k)
      PROVE  Promise(W[k].page, k[2])
  <2>1. k \in DOMAIN Z.blocks
    BY <1>2, WritesShape
  <2>2. CASE W[k] = Z.blocks[k]
    BY <1>2, <2>1, <2>2 DEF InBlocks
  <2>3. CASE \E j \in J : m.keys[j] = k /\ PageOf(W[k].page, m.tokens, m.computed, j)
    <3>1. PICK j \in J : m.keys[j] = k /\ PageOf(W[k].page, m.tokens, m.computed, j)
      BY <2>3
    <3>2. IsManifest(m, r) /\ j \in DOMAIN m.keys
      BY WriterSeated
    <3>3. j * BlockSize <= m.computed
      BY <1>2, <3>1, <3>2, KeyFacts
    <3>4. /\ k = <<Namespace, SubSeq(m.tokens, 1, j * BlockSize)>> /\ j \in Nat \ {0}
          /\ m.computed \in Nat /\ m.computed <= Len(m.tokens) /\ m.tokens \in TokenLists
      <4>1. /\ m.keys[j] = <<Namespace, SubSeq(m.tokens, 1, j * BlockSize)>> /\ j \in Nat \ {0}
            /\ m.computed \in Nat /\ m.tokens \in TokenLists /\ m.computed < Len(m.tokens) /\ Len(m.tokens) \in Nat
        BY <3>2, <3>3, KeyFacts
      <4> QED
        BY <3>1, <4>1
    <3>5. Through(W[k].page, m.tokens, m.computed, j)
      BY <3>1 DEF PageOf
    <3>6. k[2] = SubSeq(m.tokens, 1, j * BlockSize)
      BY <3>4
    <3> QED
      BY <3>3, <3>4, <3>5, <3>6, ThroughPromised
  <2> QED
    BY <2>1, <2>2, <2>3, WrittenPage
<1>3. ASSUME NEW x \in Sessions
      PROVE  TailsSound(W, Z.man[x])
  <2>1. CASE Z.man[x] = NoMan
    BY <2>1, TailsNone
  <2>2. CASE Z.man[x] # NoMan
    <3>1. IsManifest(Z.man[x], x) /\ TailsSound(Z.blocks, Z.man[x])
      BY <1>1, <2>2 DEF Manifests, InBlocks
    <3>2. x = r /\ Z.man[x].id = m.id => Z.man[x] = m
      BY <1>1 DEF Shelf
    <3> QED
      BY <3>1, <3>2, WrittenTail
  <2> QED
    BY <2>1, <2>2
<1>4. ASSUME NEW x \in DOMAIN Z.lease.man
      PROVE  TailsSound(W, Z.lease.man[x])
  <2>1. IsManifest(Z.lease.man[x], x) /\ TailsSound(Z.blocks, Z.lease.man[x])
    BY <1>1 DEF LeaseHeld, InBlocks
  <2> QED
    BY <1>1, <2>1, WrittenTail
<1> QED
  BY <1>2, <1>3, <1>4

\* A transfer that raises leaves what was copied before it.
LEMMA BlockSaveFailsHonest ==
  ASSUME Tiered, NEW Z, BlockGood(Z), Honest(Z), Z.lease.on, NEW r \in DOMAIN Z.lease.man, NEW Y \in BlockSaveFails(Z, r)
  PROVE  Honest(Y)
<1>1. PICK m, n : /\ m = Z.lease.man[r]
                  /\ Y = [Z EXCEPT !.blocks = Written(Z, r, m, {i \in Unwritten(Z, m) : i < n})]
  BY DEF BlockSaveFails
<1>2. PICK J : J = {i \in Unwritten(Z, m) : i < n}
  OBVIOUS
<1>3. PICK W : W = Written(Z, r, m, J)
  OBVIOUS
<1>4. /\ Y.blocks = W /\ Y.pool = Z.pool /\ Y.kv = Z.kv /\ Y.q = Z.q /\ Y.man = Z.man /\ Y.lease = Z.lease
  <2>1. Zone(Z)
    BY DEF BlockGood
  <2> QED
    BY <1>1, <1>2, <1>3, <2>1 DEF Zone
<1>5. Writes(W, Z, r, m, J)
  BY <1>1, <1>2, <1>3 DEF Writes
<1>6. /\ DOMAIN W = DOMAIN Z.blocks
      /\ \A k \in DOMAIN Z.blocks : /\ DOMAIN W[k] = {"ready", "page", "pins"} /\ W[k].pins = Z.blocks[k].pins
                                    /\ Z.blocks[k].ready => W[k].ready
  BY <1>5, WritesShape
<1>7. Shelf(Y)
  <2>1. Shelf(Z)
    BY DEF Honest
  <2>2. \A k : Leased(Y, k) <=> Leased(Z, k)
    BY <1>4 DEF Leased
  <2>3. ASSUME NEW k \in DOMAIN Y.blocks
        PROVE  /\ k[1] = Namespace /\ DOMAIN Y.blocks[k] = {"ready", "page", "pins"}
               /\ Y.blocks[k].pins = IF Leased(Y, k) THEN 1 ELSE 0
               /\ Y.blocks[k].ready \/ Leased(Y, k)
    <3>1. k \in DOMAIN Z.blocks
      BY <1>4, <1>6
    <3>2. /\ k[1] = Namespace /\ Z.blocks[k].pins = IF Leased(Z, k) THEN 1 ELSE 0
          /\ Z.blocks[k].ready \/ Leased(Z, k)
      BY <2>1, <3>1 DEF Shelf
    <3> QED
      BY <1>4, <1>6, <2>2, <3>1, <3>2
  <2>4. Cardinality(DOMAIN Y.blocks) <= CpuMax
    BY <1>4, <1>6, <2>1 DEF Shelf
  <2>5. ASSUME NEW x \in DOMAIN Z.lease.man
        PROVE  /\ Range(Z.lease.man[x].keys) \subseteq Z.lease.keys \intersect DOMAIN Y.blocks
               /\ Z.q[x].res = "cpu" => \A k \in Range(Z.lease.man[x].keys) : Y.blocks[k].ready
               /\ Z.man[x].id = Z.lease.man[x].id => Z.man[x] = Z.lease.man[x]
    <3>1. /\ Range(Z.lease.man[x].keys) \subseteq Z.lease.keys \intersect DOMAIN Z.blocks
          /\ Z.q[x].res = "cpu" => \A k \in Range(Z.lease.man[x].keys) : Z.blocks[k].ready
          /\ Z.man[x].id = Z.lease.man[x].id => Z.man[x] = Z.lease.man[x]
      BY <2>1 DEF Shelf
    <3> QED
      BY <1>4, <1>6, <3>1
  <2> QED
    BY <1>4, <2>3, <2>4, <2>5 DEF Shelf
<1>8. ~stale => Resident(Y)
  BY <1>4 DEF Honest, Resident
<1>9. ~stale => InBlocks(Y)
  <2>1. ASSUME ~stale
        PROVE  InBlocks(Y)
    <3>1. Resident(Z) /\ InBlocks(Z)
      BY <2>1 DEF Honest
    <3> QED
      BY <1>4, <1>5, <3>1, WritesSound DEF InBlocks
  <2> QED
    BY <2>1
<1> QED
  BY <1>7, <1>8, <1>9 DEF Honest

\* A save writes what is missing, registers the manifest and lets go of the tail it replaces.
LEMMA BlockSaveHonest ==
  ASSUME Tiered, NEW Z, BlockGood(Z), Honest(Z), Z.lease.on, NEW r \in DOMAIN Z.lease.man
  PROVE  Honest(BlockSave(Z, r))
<1>1. CASE Z.q[r].table = << >> /\ Z.man[r].id # 0
  BY <1>1 DEF BlockSave
<1>2. CASE ~(Z.q[r].table = << >> /\ Z.man[r].id # 0)
  <2>1. PICK Y : Y = BlockSave(Z, r)
    OBVIOUS
  <2>2. PICK m : m = Z.lease.man[r]
    OBVIOUS
  <2>3. PICK J : J = Unwritten(Z, m)
    OBVIOUS
  <2>4. PICK W : W = Written(Z, r, m, J)
    OBVIOUS
  <2>5. PICK K : K = TailsOf(Z.man[r])
    OBVIOUS
  <2>6. Zone(Z) /\ Requests(Z.q) /\ Manifests(Z) /\ Shelf(Z) /\ LeaseHeld(Z)
    BY DEF BlockGood, Seated, Seats, Honest
  <2>7. Writes(W, Z, r, m, J)
    BY <2>2, <2>3, <2>4 DEF Writes
  <2>8. r \in Sessions /\ IsManifest(m, r) /\ IsRequest(Z.q[r])
    BY <2>7, WriterSeated
  <2>9. /\ Y.blocks = EvictBlocks(W, K) /\ Y.kv = Z.kv /\ Y.lease = Z.lease
        /\ Y.man = [Z.man EXCEPT ![r] = m] /\ Y.pool = Deallocate(Z.pool, Z.q[r].table)
        /\ Y.q = [Z.q EXCEPT ![r] = OffGpu(Z.q[r], m)]
    BY <1>2, <2>1, <2>2, <2>3, <2>4, <2>5, <2>6 DEF BlockSave, Zone
  <2>10. /\ DOMAIN W = DOMAIN Z.blocks
         /\ \A k \in DOMAIN Z.blocks : /\ DOMAIN W[k] = {"ready", "page", "pins"} /\ W[k].pins = Z.blocks[k].pins
                                       /\ Z.blocks[k].ready => W[k].ready
         /\ \A i \in J : W[m.keys[i]].ready
    BY <2>7, WritesShape
  <2>11. \A k \in DOMAIN Z.blocks : /\ k[1] = Namespace /\ (Z.blocks[k].ready \/ k \in Z.lease.keys)
                                    /\ Z.blocks[k].pins = IF k \in Z.lease.keys THEN 1 ELSE 0
    BY <2>6 DEF Shelf, Leased
  <2>12. /\ DOMAIN Y.blocks \subseteq DOMAIN W /\ \A k \in DOMAIN Y.blocks : Y.blocks[k] = W[k]
         /\ \A k \in DOMAIN W : k \in Z.lease.keys => k \in DOMAIN Y.blocks
    <3>1. \A k \in DOMAIN W : k \in Z.lease.keys => W[k].pins # 0
      BY <2>10, <2>11
    <3> QED
      BY <2>9, <3>1 DEF EvictBlocks, Without
  <2>13. \A x \in Sessions : Y.man[x] = IF x = r THEN m ELSE Z.man[x]
    BY <2>6, <2>8, <2>9 DEF Manifests
  <2>14. \A x \in Sessions : Y.q[x] = IF x = r THEN OffGpu(Z.q[r], m) ELSE Z.q[x]
    BY <2>6, <2>8, <2>9 DEF Requests
  <2>15. Shelf(Y)
    <3>1. \A k : Leased(Y, k) <=> k \in Z.lease.keys
      BY <2>9 DEF Leased
    <3>2. ASSUME NEW k \in DOMAIN Y.blocks
          PROVE  /\ k[1] = Namespace /\ DOMAIN Y.blocks[k] = {"ready", "page", "pins"}
                 /\ Y.blocks[k].pins = IF Leased(Y, k) THEN 1 ELSE 0
                 /\ Y.blocks[k].ready \/ Leased(Y, k)
      <4>1. k \in DOMAIN Z.blocks /\ Y.blocks[k] = W[k]
        BY <2>10, <2>12
      <4>2. /\ k[1] = Namespace /\ (Z.blocks[k].ready \/ k \in Z.lease.keys)
            /\ Z.blocks[k].pins = IF k \in Z.lease.keys THEN 1 ELSE 0
        BY <2>11, <4>1
      <4>3. DOMAIN W[k] = {"ready", "page", "pins"} /\ W[k].pins = Z.blocks[k].pins /\ (Z.blocks[k].ready => W[k].ready)
        BY <2>10, <4>1
      <4> QED
        BY <3>1, <4>1, <4>2, <4>3
    <3>3. Cardinality(DOMAIN Y.blocks) <= CpuMax
      BY <2>6, <2>10, <2>12, ShelfFits DEF LeaseHeld
    <3>4. ASSUME NEW x \in DOMAIN Z.lease.man
          PROVE  /\ Range(Z.lease.man[x].keys) \subseteq Z.lease.keys \intersect DOMAIN Y.blocks
                 /\ Y.q[x].res = "cpu" => \A k \in Range(Z.lease.man[x].keys) : Y.blocks[k].ready
                 /\ Y.man[x].id = Z.lease.man[x].id => Y.man[x] = Z.lease.man[x]
      <4>1. /\ Range(Z.lease.man[x].keys) \subseteq Z.lease.keys \intersect DOMAIN Z.blocks
            /\ Z.q[x].res = "cpu" => \A k \in Range(Z.lease.man[x].keys) : Z.blocks[k].ready
            /\ Z.man[x].id = Z.lease.man[x].id => Z.man[x] = Z.lease.man[x]
        BY <2>6 DEF Shelf
      <4>2. Range(Z.lease.man[x].keys) \subseteq Z.lease.keys \intersect DOMAIN Y.blocks
        BY <2>10, <2>12, <4>1
      <4>3. x \in Sessions
        BY <2>6 DEF LeaseHeld
      <4>4. CASE x = r
        <5>1. ASSUME NEW k \in Range(m.keys)
              PROVE  Y.blocks[k].ready
          <6>1. PICK i \in DOMAIN m.keys : m.keys[i] = k
            BY <5>1 DEF Range
          <6>2. k \in DOMAIN Z.blocks /\ k \in DOMAIN Y.blocks
            BY <2>2, <4>1, <4>2, <4>4, <5>1
          <6>3. Y.blocks[k] = W[k]
            BY <2>12, <6>2
          <6>4. CASE i \in J
            BY <2>10, <6>1, <6>3, <6>4
          <6>5. CASE i \notin J
            <7>1. Z.blocks[k].ready
              BY <2>3, <6>1, <6>5 DEF Unwritten, Ready
            <7> QED
              BY <2>10, <6>2, <6>3, <7>1
          <6> QED
            BY <6>4, <6>5
        <5> QED
          BY <2>2, <2>13, <4>2, <4>3, <4>4, <5>1
      <4>5. CASE x # r
        <5>1. Y.q[x] = Z.q[x] /\ Y.man[x] = Z.man[x]
          BY <2>13, <2>14, <4>3, <4>5
        <5>2. ASSUME NEW k \in Range(Z.lease.man[x].keys), Z.blocks[k].ready
              PROVE  Y.blocks[k].ready
          <6>1. k \in DOMAIN Z.blocks /\ k \in DOMAIN Y.blocks
            BY <4>1, <4>2
          <6> QED
            BY <2>10, <2>12, <5>2, <6>1
        <5> QED
          BY <4>1, <4>2, <5>1, <5>2
      <4> QED
        BY <4>4, <4>5
    <3>5. Y.lease = Z.lease /\ Z.lease.on
      BY <2>9
    <3> QED
      BY <3>2, <3>3, <3>4, <3>5 DEF Shelf
  <2>16. ~stale => Resident(Y)
    <3>1. Y.pool.cache = Z.pool.cache
      BY <2>9 DEF Deallocate, Decref
    <3>2. Owed(Z.kv, OffGpu(Z.q[r], m))
      BY <2>8, OwedOffGpu
    <3> QED
      BY <2>9, <2>14, <3>1, <3>2 DEF Honest, Resident
  <2>17. ~stale => InBlocks(Y)
    <3>1. SUFFICES ASSUME ~stale
                   PROVE  InBlocks(Y)
      OBVIOUS
    <3>2. Resident(Z) /\ InBlocks(Z)
      BY <3>1 DEF Honest
    <3>3. /\ \A k \in DOMAIN W : W[k].ready /\ ~IsTail(k) => Promise(W[k].page, k[2])
          /\ \A x \in Sessions : TailsSound(W, Z.man[x])
          /\ \A x \in DOMAIN Z.lease.man : TailsSound(W, Z.lease.man[x])
      BY <2>7, <3>2, WritesSound
    <3>4. Backed(Y.blocks, W)
      BY <2>12 DEF Backed
    <3>5. \A k \in DOMAIN Y.blocks : Y.blocks[k].ready /\ ~IsTail(k) => Promise(Y.blocks[k].page, k[2])
      BY <2>12, <3>3
    <3>6. ASSUME NEW x \in Sessions
          PROVE  TailsSound(Y.blocks, Y.man[x])
      <4>1. TailsSound(W, Z.man[x]) /\ TailsSound(W, m)
        BY <2>2, <3>3
      <4> QED
        BY <2>13, <3>4, <4>1, TailsBacked
    <3>7. ASSUME NEW x \in DOMAIN Z.lease.man
          PROVE  TailsSound(Y.blocks, Z.lease.man[x])
      BY <3>3, <3>4, TailsBacked
    <3> QED
      BY <2>9, <3>5, <3>6, <3>7 DEF InBlocks
  <2> QED
    BY <2>1, <2>15, <2>16, <2>17 DEF Honest
<1> QED
  BY <1>1, <1>2

\* The slots reserved for keys fit once the chosen ones have been evicted.
LEMMA ReservedFits ==
  ASSUME NEW D, IsFiniteSet(D), NEW keys, IsFiniteSet(keys), NEW V \in SUBSET D, V \intersect keys = {},
         Cardinality(D) <= CpuMax,
         \/ V = {} /\ Cardinality(keys \ D) <= CpuMax - Cardinality(D)
         \/ Cardinality(V) = Cardinality(keys \ D) - (CpuMax - Cardinality(D))
  PROVE  Cardinality((D \ V) \union keys) <= CpuMax
<1>1. IsFiniteSet(V) /\ Cardinality(V) \in Nat /\ Cardinality(D) \in Nat /\ Cardinality(keys) \in Nat /\ CpuMax \in Nat
  BY FS_Subset, FS_CardinalityType, CpuStoreAssumption
<1>2. IsFiniteSet(D \ V) /\ Cardinality(D \ V) = Cardinality(D) - Cardinality(V)
  <2>1. D \intersect V = V
    OBVIOUS
  <2>2. IsFiniteSet(D \ V) /\ Cardinality(D \ V) = Cardinality(D) - Cardinality(D \intersect V)
    BY FS_Difference
  <2> QED
    BY <2>1, <2>2
<1>3. Cardinality(keys \ D) = Cardinality(keys) - Cardinality(keys \intersect D)
  BY FS_Difference
<1>4. Cardinality((D \ V) \union keys) = Cardinality(D \ V) + Cardinality(keys) - Cardinality((D \ V) \intersect keys)
  BY <1>2, FS_Union
<1>5. (D \ V) \intersect keys = keys \intersect D
  OBVIOUS
<1>6. Cardinality(keys \intersect D) \in Nat
  <2>1. IsFiniteSet(keys \intersect D)
    BY FS_Intersection
  <2> QED
    BY <2>1, FS_CardinalityType
<1>7. V = {} => Cardinality(V) = 0
  BY FS_EmptySet
<1>8. PICK d, v, n, i, u, x : /\ d = Cardinality(D) /\ v = Cardinality(V) /\ n = Cardinality(keys)
                              /\ i = Cardinality(keys \intersect D) /\ u = Cardinality((D \ V) \union keys)
                              /\ x = Cardinality(keys \ D)
  OBVIOUS
<1>9. d \in Nat /\ v \in Nat /\ n \in Nat /\ i \in Nat /\ u = (d - v) + n - i /\ x = n - i /\ d <= CpuMax /\ CpuMax \in Nat
  BY <1>1, <1>2, <1>3, <1>4, <1>5, <1>6, <1>8
<1>10. (v = 0 /\ x <= CpuMax - d) \/ v = x - (CpuMax - d)
  BY <1>7, <1>8
<1>11. u <= CpuMax
  BY <1>9, <1>10
<1> QED
  BY <1>8, <1>11

\* The manifests of a new lease have ids of their own.
LEMMA LeaseIdsNew ==
  ASSUME NEW Z, BlockGood(Z), NEW rs \in Seq(Sessions), NEW r \in Range(rs)
  PROVE  LeaseOf(Z, rs).man[r].id \notin ManifestIds(Z)
<1>1. PICK n : n = CHOOSE i \in DOMAIN rs : rs[i] = r
  OBVIOUS
<1>2. n \in DOMAIN rs
  BY <1>1 DEF Range
<1>3. n \in Nat \ {0}
  BY <1>2, LenProperties
<1>4. IsFiniteSet(DOMAIN Z.blocks)
  BY DEF BlockGood, LeaseHeld
<1>5. FreshId(Z, n) \notin ManifestIds(Z)
  BY <1>3, <1>4, FreshIdNew
<1>6. LeaseOf(Z, rs).man[r] = Manifest(Z, r, FreshId(Z, n))
  BY <1>1 DEF LeaseOf
<1> HIDE DEF LeaseOf
<1>7. Manifest(Z, r, FreshId(Z, n)).id = FreshId(Z, n)
  BY DEF Manifest
<1> QED
  BY <1>5, <1>6, <1>7

\* X is the store once the lease L has reserved its slots, having evicted V.
Takes(X, Z, rs, L, keys, V) ==
  /\ BlockGood(Z) /\ Shelf(Z) /\ ~Z.lease.on /\ rs \in Seq(Sessions) /\ \A r \in Range(rs) : Z.q[r].st = "parked"
  /\ L = LeaseOf(Z, rs) /\ keys = LeaseKeys(L) /\ CanReserveBlocks(Z.blocks, keys, L.keys)
  /\ V \in EvictionChoices(Z.blocks, keys, L.keys)
  /\ X = ReserveBlocks(Z.blocks, keys, L.keys, V, JunkPage)

LEMMA TakesParts ==
  ASSUME NEW Z, NEW rs, NEW L, NEW keys, NEW V, NEW X, Takes(X, Z, rs, L, keys, V)
  PROVE  /\ DOMAIN X = (DOMAIN Z.blocks \ V) \union keys /\ Cardinality(DOMAIN X) <= CpuMax
         /\ V \in SUBSET DOMAIN Z.blocks /\ V \intersect (keys \union L.keys) = {}
         /\ keys \subseteq L.keys
<1> DEFINE D == DOMAIN Z.blocks
<1>1. IsFiniteSet(D) /\ Cardinality(D) <= CpuMax
  BY DEF BlockGood, LeaseHeld, Shelf, Takes
<1>2. IsFiniteSet(keys)
  BY LeaseTaken DEF Takes
<1>3. V \subseteq Evictables(Z.blocks, keys \union L.keys)
  BY DEF Takes, EvictionChoices, kSubset
<1>4. V \in SUBSET D /\ V \intersect (keys \union L.keys) = {}
  BY <1>3 DEF Evictables
<1>5. DOMAIN X = (D \ V) \union keys
  BY DEF Takes, ReserveBlocks, Without
<1>6. \/ V = {} /\ Cardinality(keys \ D) <= CpuMax - Cardinality(D)
      \/ Cardinality(V) = Cardinality(keys \ D) - (CpuMax - Cardinality(D))
  <2>1. Cardinality(keys \ D) \in Nat /\ Cardinality(D) \in Nat /\ CpuMax \in Nat
    <3>1. IsFiniteSet(keys \ D)
      BY <1>2, FS_Difference
    <3> QED
      BY <1>1, <3>1, FS_CardinalityType, CpuStoreAssumption
  <2>2. PICK s : s = Cardinality(keys \ D) - (CpuMax - Cardinality(D))
    OBVIOUS
  <2>3. V \in IF s <= 0 THEN {{}} ELSE kSubset(s, Evictables(Z.blocks, keys \union L.keys))
    BY <2>2 DEF Takes, EvictionChoices, Missing, Room
  <2>4. s <= 0 => V = {}
    BY <2>3
  <2>5. ~(s <= 0) => Cardinality(V) = s
    BY <2>3 DEF kSubset
  <2> QED
    BY <2>1, <2>2, <2>4, <2>5
<1>7. Cardinality((D \ V) \union keys) <= CpuMax
  <2>1. V \intersect keys = {}
    BY <1>4
  <2> HIDE DEF D
  <2> QED
    BY <1>1, <1>2, <1>4, <1>6, <2>1, ReservedFits
<1>8. keys \subseteq L.keys
  BY DEF Takes, LeaseKeys, LeaseOf
<1> QED
  BY <1>4, <1>5, <1>7, <1>8

\* The slots of the new store: what was there, pinned if the lease protects it, and new ones.
LEMMA TakesSlots ==
  ASSUME NEW Z, NEW rs, NEW L, NEW keys, NEW V, NEW X, Takes(X, Z, rs, L, keys, V), NEW k \in DOMAIN X
  PROVE  /\ DOMAIN X[k] = {"ready", "page", "pins"} /\ X[k].pins = IF k \in L.keys THEN 1 ELSE 0
         /\ X[k].ready => k \in DOMAIN Z.blocks /\ Z.blocks[k].ready /\ X[k].page = Z.blocks[k].page
         /\ X[k].ready \/ k \in L.keys
         /\ k \in DOMAIN Z.blocks \/ k \in keys
<1> DEFINE Y == Without(Z.blocks, V)
<1>1. /\ DOMAIN X = (DOMAIN Z.blocks \ V) \union keys
      /\ V \in SUBSET DOMAIN Z.blocks /\ V \intersect (keys \union L.keys) = {} /\ keys \subseteq L.keys
  BY TakesParts
<1>2. DOMAIN Y = DOMAIN Z.blocks \ V /\ \A j \in DOMAIN Y : Y[j] = Z.blocks[j]
  BY DEF Without
<1>3. X[k] = CASE k \notin DOMAIN Y              -> [ready |-> FALSE, page |-> JunkPage, pins |-> 1]
               [] k \in keys \union L.keys /\ k \in DOMAIN Y -> [Y[k] EXCEPT !.pins = @ + 1]
               [] OTHER                          -> Y[k]
  BY <1>1, <1>2 DEF Takes, ReserveBlocks
<1> HIDE DEF Y
<1>4. CASE k \notin DOMAIN Y
  <2>1. X[k] = [ready |-> FALSE, page |-> JunkPage, pins |-> 1] /\ k \in keys
    BY <1>1, <1>2, <1>3, <1>4
  <2> QED
    BY <1>1, <2>1
<1>5. CASE k \in DOMAIN Y
  <2>1. /\ DOMAIN Z.blocks[k] = {"ready", "page", "pins"} /\ Z.blocks[k].pins = 0 /\ Z.blocks[k].ready
        /\ k \in DOMAIN Z.blocks
    BY <1>2, <1>5, ShelfAtRest DEF Takes
  <2>2. CASE k \in L.keys
    <3>1. X[k] = [Z.blocks[k] EXCEPT !.pins = @ + 1]
      BY <1>1, <1>2, <1>3, <1>5, <2>2
    <3> QED
      BY <2>1, <2>2, <3>1
  <2>3. CASE k \notin L.keys
    <3>1. X[k] = Z.blocks[k]
      BY <1>1, <1>2, <1>3, <1>5, <2>3
    <3> QED
      BY <2>1, <2>3, <3>1
  <2> QED
    BY <2>2, <2>3
<1> QED
  BY <1>4, <1>5

\* The lease of a group is opened: nothing that is found changes, and nothing of the new
\* manifests' tails is found.
LEMMA BlockPrepareHonest ==
  ASSUME Tiered, NEW Z, BlockGood(Z), ~Z.lease.on, Honest(Z), NEW rs \in Seq(Sessions),
         \A r \in Range(rs) : Z.q[r].st = "parked", NEW G \in BlockPrepare(Z, rs)
  PROVE  Honest(G.z)
<1>1. PICK L : L = LeaseOf(Z, rs)
  OBVIOUS
<1>2. PICK keys : keys = LeaseKeys(L)
  OBVIOUS
<1>3. CASE G = [ok |-> FALSE, z |-> Z]
  BY <1>3
<1>4. CASE G # [ok |-> FALSE, z |-> Z]
  <2>1. PICK V : /\ V \in EvictionChoices(Z.blocks, keys, L.keys) /\ CanReserveBlocks(Z.blocks, keys, L.keys)
                 /\ G = [ok |-> TRUE, z |-> [Z EXCEPT !.blocks = ReserveBlocks(@, keys, L.keys, V, JunkPage), !.lease = L]]
    BY <1>1, <1>2, <1>4 DEF BlockPrepare
  <2>2. PICK X : X = ReserveBlocks(Z.blocks, keys, L.keys, V, JunkPage)
    OBVIOUS
  <2>3. PICK Y : Y = G.z
    OBVIOUS
  <2>4. Shelf(Z) /\ Zone(Z) /\ Requests(Z.q) /\ Manifests(Z)
    BY DEF Honest, BlockGood, Seated, Seats
  <2>5. /\ Y.blocks = X /\ Y.lease = L /\ Y.pool = Z.pool /\ Y.kv = Z.kv /\ Y.q = Z.q /\ Y.man = Z.man
    BY <2>1, <2>2, <2>3, <2>4 DEF Zone
  <2>6. Takes(X, Z, rs, L, keys, V)
    BY <1>1, <1>2, <2>1, <2>2, <2>4 DEF Takes
  <2>7. /\ DOMAIN X = (DOMAIN Z.blocks \ V) \union keys /\ Cardinality(DOMAIN X) <= CpuMax
        /\ V \in SUBSET DOMAIN Z.blocks /\ V \intersect (keys \union L.keys) = {}
        /\ keys \subseteq L.keys
    BY <2>6, TakesParts, Zenon
  <2>8. ASSUME NEW k \in DOMAIN X
        PROVE  /\ DOMAIN X[k] = {"ready", "page", "pins"} /\ X[k].pins = IF k \in L.keys THEN 1 ELSE 0
               /\ X[k].ready => k \in DOMAIN Z.blocks /\ Z.blocks[k].ready /\ X[k].page = Z.blocks[k].page
               /\ X[k].ready \/ k \in L.keys
               /\ k \in DOMAIN Z.blocks \/ k \in keys
    BY <2>6, TakesSlots
  <2>9. Leases(L, Z, rs)
    BY <1>1, LeaseTaken
  <2>10. ASSUME NEW r \in DOMAIN L.man
         PROVE  /\ r \in Sessions /\ r \in Range(rs) /\ IsManifest(L.man[r], r)
                /\ L.man[r].computed = Z.q[r].computed /\ L.man[r].id \notin ManifestIds(Z)
    <3>1. r \in Range(rs) /\ IsManifest(L.man[r], r) /\ L.man[r].computed = Z.q[r].computed
      BY <2>9 DEF Leases
    <3>2. r \in Sessions
      BY <3>1, RangeFinite
    <3> QED
      BY <1>1, <3>1, <3>2, LeaseIdsNew
  <2>11. Shelf(Y)
    <3>1. \A k : Leased(Y, k) <=> k \in L.keys
      BY <2>5, <2>9 DEF Leased, Leases
    <3>2. ASSUME NEW k \in DOMAIN Y.blocks
          PROVE  /\ k[1] = Namespace /\ DOMAIN Y.blocks[k] = {"ready", "page", "pins"}
                 /\ Y.blocks[k].pins = IF Leased(Y, k) THEN 1 ELSE 0
                 /\ Y.blocks[k].ready \/ Leased(Y, k)
      <4>1. k[1] = Namespace
        <5>1. CASE k \in DOMAIN Z.blocks
          BY <2>4, <5>1, ShelfAtRest
        <5>2. CASE k \in keys
          <6>1. PICK r \in DOMAIN L.man : k \in Range(L.man[r].keys)
            BY <1>2, <5>2 DEF LeaseKeys
          <6>2. PICK i \in DOMAIN L.man[r].keys : L.man[r].keys[i] = k
            BY <6>1 DEF Range
          <6>3. PICK m : m = L.man[r]
            OBVIOUS
          <6>4. IsManifest(m, r) /\ i \in DOMAIN m.keys /\ m.keys[i] = k
            BY <2>10, <6>2, <6>3
          <6> QED
            BY <6>4, KeyFacts
        <5> QED
          BY <2>5, <2>8, <3>2, <5>1, <5>2
      <4> QED
        BY <2>5, <2>8, <3>1, <3>2, <4>1
    <3>3. ASSUME NEW r \in DOMAIN L.man
          PROVE  /\ Range(L.man[r].keys) \subseteq L.keys \intersect DOMAIN Y.blocks
                 /\ Y.q[r].res = "cpu" => \A k \in Range(L.man[r].keys) : Y.blocks[k].ready
                 /\ Y.man[r].id = L.man[r].id => Y.man[r] = L.man[r]
      <4>1. Range(L.man[r].keys) \subseteq keys
        BY <1>2, <3>3 DEF LeaseKeys
      <4>2. ASSUME Z.q[r].res = "cpu"
            PROVE  Range(L.man[r].keys) = {}
        <5>1. IsRequest(Z.q[r]) /\ Placed(Z.q[r])
          BY <2>4, <2>10, <3>3 DEF Requests
        <5>2. L.man[r].computed = 0
          BY <2>10, <3>3, <4>2, <5>1, EmptyTable
        <5>3. DOMAIN L.man[r].keys = 1..BlocksNeededFor(0)
          BY <2>10, <3>3, <5>2 DEF IsManifest, Keys
        <5>4. BlocksNeededFor(0) = 0
          BY BlocksFor
        <5> QED
          BY <5>3, <5>4 DEF Range
      <4>3. Z.man[r].id # L.man[r].id
        BY <2>10, <3>3 DEF ManifestIds
      <4> QED
        BY <2>5, <2>7, <4>1, <4>2, <4>3
    <3>4. Y.lease.on
      BY <2>5, <2>9 DEF Leases
    <3>5. Cardinality(DOMAIN Y.blocks) <= CpuMax
      BY <2>5, <2>7
    <3> QED
      BY <2>5, <3>2, <3>3, <3>4, <3>5 DEF Shelf
  <2>12. ~stale => Resident(Y)
    BY <2>5 DEF Honest, Resident
  <2>13. ~stale => InBlocks(Y)
    <3>1. SUFFICES ASSUME ~stale
                   PROVE  InBlocks(Y)
      OBVIOUS
    <3>2. InBlocks(Z)
      BY <3>1 DEF Honest
    <3>3. Backed(Y.blocks, Z.blocks)
      BY <2>5, <2>8 DEF Backed
    <3>4. ASSUME NEW r \in DOMAIN L.man
          PROVE  TailsSound(X, L.man[r])
      <4> SUFFICES ASSUME NEW i \in DOMAIN L.man[r].keys, IsTail(L.man[r].keys[i]), Ready(X, L.man[r].keys[i])
                   PROVE  FALSE
        BY DEF TailsSound
      <4>1. PICK m : m = L.man[r]
        OBVIOUS
      <4>2. IsManifest(m, r) /\ m.id \notin ManifestIds(Z) /\ i \in DOMAIN m.keys /\ IsTail(m.keys[i])
        BY <2>10, <3>4, <4>1
      <4>3. m.keys[i] = <<Namespace, "tail", r, m.id>>
        BY <4>2, TailKey
      <4>4. m.keys[i] \in DOMAIN Z.blocks
        BY <2>8, <4>1 DEF Ready
      <4>5. m.keys[i][4] \in ManifestIds(Z)
        BY <4>2, <4>4 DEF ManifestIds
      <4> QED
        BY <4>2, <4>3, <4>5
    <3> QED
      BY <2>5, <3>2, <3>3, <3>4, StoreBacked
  <2> QED
    BY <2>3, <2>11, <2>12, <2>13 DEF Honest
<1> QED
  BY <1>3, <1>4

LEMMA PreparedHonest ==
  ASSUME NEW Z, Good(Z, op.hold), Calm(Z), ~Z.pend.on, Honest(Z), NEW rs \in Seq(Sessions), IsInjective(rs),
         \A r \in Range(rs) : Z.q[r].st = "parked", NEW G \in Prepared(Z, rs)
  PROVE  Honest(G.z)
<1>1. CASE Tiered
  <2>1. BlockGood(Z) /\ ~Z.lease.on /\ G \in BlockPrepare(Z, rs)
    BY <1>1, GoodBlocks DEF Prepared, Calm
  <2> QED
    BY <1>1, <2>1, BlockPrepareHonest
<1>2. CASE ~Tiered
  <2>1. SnapGood(Z, op.hold) /\ G = PrepareGroup(Z, rs) /\ Z.group = {}
    BY <1>2, GoodSnaps DEF Prepared, Calm
  <2>2. Honest(PrepareGroup(Z, rs).z)
    BY <1>2, <2>1, PrepareGroupHonest
  <2> QED
    BY <2>1, <2>2
<1> QED
  BY <1>1, <1>2

LEMMA SavedHonest ==
  ASSUME NEW Z, NEW hold, Good(Z, hold), Honest(Z), NEW rs \in Seq(Sessions), IsInjective(rs),
         NEW i \in 1..Len(rs), Awaits(Z, rs, i)
  PROVE  Honest(Saved(Z, rs[i]))
<1>0. PICK r : r = rs[i]
  OBVIOUS
<1>1. r \in Range(rs) /\ r \in Sessions /\ Len(rs) \in Nat /\ i \in i..Len(rs)
  BY <1>0, InRange, LenProperties
<1>2. CASE Tiered
  <2>1. BlockGood(Z) /\ Z.lease.on /\ r \in DOMAIN Z.lease.man
    BY <1>1, <1>2, GoodBlocks DEF Awaits
  <2>2. Honest(BlockSave(Z, r))
    BY <1>2, <2>1, BlockSaveHonest
  <2> QED
    BY <1>0, <1>2, <2>2 DEF Saved
<1>3. CASE ~Tiered
  <2>1. SnapGood(Z, hold)
    BY <1>3, GoodSnaps
  <2>2. \E m \in Z.group : m.rid = r
    BY <1>0, <1>1, <1>3 DEF Awaits
  <2>3. Idling(Z)
    BY <2>1 DEF Awaits, Idling, SnapGood, Snapped, SourceHeld
  <2>4. Honest(Save(Z, r))
    BY <1>1, <1>3, <2>1, <2>2, <2>3, SaveHonest
  <2> QED
    BY <1>0, <1>3, <2>4 DEF Saved
<1> QED
  BY <1>2, <1>3

LEMMA SaveRaisesHonest ==
  ASSUME NEW Z, NEW hold, Good(Z, hold), Honest(Z), NEW rs \in Seq(Sessions),
         NEW i \in 1..Len(rs), Awaits(Z, rs, i), NEW Y \in SavesFailing(Z, rs[i])
  PROVE  Honest(Y)
<1>0. PICK r : r = rs[i]
  OBVIOUS
<1>1. r \in Range(rs)
  BY <1>0, InRange
<1>2. CASE Tiered
  <2>1. BlockGood(Z) /\ Z.lease.on /\ r \in DOMAIN Z.lease.man /\ Y \in BlockSaveFails(Z, r)
    BY <1>0, <1>1, <1>2, GoodBlocks DEF Awaits, SavesFailing
  <2> QED
    BY <1>2, <2>1, BlockSaveFailsHonest
<1>3. CASE ~Tiered
  <2>1. SnapGood(Z, hold)
    BY <1>3, GoodSnaps
  <2>2. PICK m : m = ReservationOf(Z, r)
    OBVIOUS
  <2>3. Honest(SaveFailed(Z, m))
    BY <1>3, <2>1, SaveFailedHonest
  <2> QED
    BY <1>0, <1>3, <2>2, <2>3 DEF SavesFailing
<1> QED
  BY <1>2, <1>3

LEMMA ClosedHonest ==
  ASSUME NEW Z, NEW hold, Good(Z, hold), Honest(Z)
  PROVE  Honest(Closed(Z))
<1>1. CASE Tiered
  BY <1>1, GoodBlocks, BlockCloseHonest DEF Closed
<1>2. CASE ~Tiered
  BY <1>2, GoodSnaps, CloseGroupHonest DEF Closed
<1> QED
  BY <1>1, <1>2

LEMMA FinishedHonest ==
  ASSUME NEW Z, NEW hold, Good(Z, hold), Calm(Z), Honest(Z), NEW S \in SUBSET Sessions
  PROVE  Honest(Finished(Z, S))
<1>1. CASE Tiered
  <2>1. BlockGood(Z) /\ ~Z.lease.on
    BY <1>1, GoodBlocks DEF Calm
  <2> QED
    BY <1>1, <2>1, BlockFinishedHonest
<1>2. CASE ~Tiered
  <2>1. SnapGood(Z, hold) /\ Z.group = {}
    BY <1>2, GoodSnaps DEF Calm
  <2> QED
    BY <1>2, <2>1, SnapFinishedHonest
<1> QED
  BY <1>1, <1>2

LEMMA DropHonest ==
  ASSUME NEW Z, NEW hold, Good(Z, hold), Calm(Z), Honest(Z), NEW r \in Sessions, Z.q[r].st = "parked",
         NEW R, R = Forgotten(Z, {r})
  PROVE  Honest([R EXCEPT !.pool = Deallocate(@, R.q[r].table), !.q[r] = Dropped(@)])
<1>1. CASE Tiered
  <2>1. BlockGood(Z) /\ ~Z.lease.on
    BY <1>1, GoodBlocks DEF Calm
  <2> QED
    BY <1>1, <2>1, BlockDropHonest
<1>2. CASE ~Tiered
  <2>1. SnapGood(Z, hold) /\ Z.group = {}
    BY <1>2, GoodSnaps DEF Calm
  <2> QED
    BY <1>2, <2>1, SnapDropHonest
<1> QED
  BY <1>1, <1>2

LEMMA SettledHonest ==
  ASSUME NEW Z, NEW hold, Good(Z, hold), Calm(Z), Honest(Z), Z.pend.on, ~CopyLeft(Z.pend)
  PROVE  Honest(Settle(Z, FALSE))
<1>1. ~Tiered /\ SnapGood(Z, hold)
  BY GoodBlocks, BlockCalm, GoodSnaps
<1>2. Z.pend.meta.n \in Nat /\ Len(Z.pend.pages) \in Nat /\ Len(Z.pend.pages) <= Z.pend.meta.n
  BY <1>1, SourceFacts
<1>3. Len(Z.pend.pages) = Z.pend.meta.n
  BY <1>2 DEF CopyLeft
<1> QED
  BY <1>1, <1>3, SettleHonest

(***************************************************************************)
(* The owner thread's steps.                                               *)
(***************************************************************************)
LEMMA StateKeeps ==
  ASSUME OffloadInv, ContentInv, NEW h, h = op.hold
  PROVE  Good(State, h) /\ Honest(State) /\ (op.pc # "save" => Calm(State))
BY GoodState DEF OffloadInv, ContentInv

LEMMA FinishedKeeps ==
  ASSUME OffloadInv, ContentInv, op.pc # "save", NEW S \in SUBSET Sessions, Become(Finished(State, S)),
         UNCHANGED <<cfg, weights, epoch>>
  PROVE  ContentInv'
<1>1. PICK h : h = op.hold
  OBVIOUS
<1>2. Good(State, h) /\ Calm(State) /\ Honest(State)
  BY <1>1, StateKeeps
<1>3. PICK Z : Z = Finished(State, S)
  OBVIOUS
<1>4. Good(Z, h)
  BY <1>1, <1>3, FinishedIdle
<1>5. Honest(Z)
  BY <1>2, <1>3, FinishedHonest
<1> QED
  BY <1>3, <1>4, <1>5, HonestNext

LEMMA FinishSessionKeeps ==
  ASSUME OffloadInv, ContentInv, NEW r \in Sessions, FinishSession(r)
  PROVE  ContentInv'
<1>1. op.pc = "idle" /\ UNCHANGED <<epoch, op, weights, cfg>>
  BY DEF FinishSession
<1>2. CASE Become(Finished(State, {r}))
  <2>1. PICK S \in SUBSET Sessions : S = {r}
    OBVIOUS
  <2> QED
    BY <1>1, <1>2, <2>1, FinishedKeeps
<1>3. CASE WaitRaises
  BY <1>1, <1>3, WaitRaisesKeeps
<1> QED
  BY <1>2, <1>3 DEF FinishSession

LEMMA AbortAllKeeps ==
  ASSUME OffloadInv, ContentInv, AbortAll
  PROVE  ContentInv'
<1>1. op.pc = "idle" /\ UNCHANGED <<epoch, weights, cfg>>
  BY DEF AbortAll
<1>2. PICK S \in SUBSET Sessions : S = {r \in Sessions : q[r].st # "gone"}
  OBVIOUS
<1>3. Become(Finished(State, S))
  BY <1>2 DEF AbortAll
<1> QED
  BY <1>1, <1>3, FinishedKeeps

LEMMA StepRaisesKeeps ==
  ASSUME OffloadInv, ContentInv, StepRaises
  PROVE  ContentInv'
<1>1. op.pc = "step" /\ UNCHANGED <<epoch, weights, cfg>> /\ Become(Finished(State, Active))
  BY DEF StepRaises
<1>2. Active \in SUBSET Sessions
  BY DEF Active
<1> QED
  BY <1>1, <1>2, FinishedKeeps

LEMMA DropOldestKeeps ==
  ASSUME OffloadInv, ContentInv, DropOldest
  PROVE  ContentInv'
<1>1. op.pc = "drop" /\ UNCHANGED <<epoch, order, op, weights, cfg>> /\ Droppable # << >>
  BY DEF DropOldest
<1>2. PICK r : r = Droppable[1]
  OBVIOUS
<1>3. PICK X : X = Forgotten(State, {r})
  OBVIOUS
<1>4. PICK R \in Reclaimed([X EXCEPT !.pool = Deallocate(@, X.q[r].table), !.q[r] = Dropped(@)], op.goal) : Become(R)
  BY <1>2, <1>3 DEF DropOldest
<1>5. r \in Parked
  <2>1. PICK d : d = Droppable
    OBVIOUS
  <2>2. d \in Seq(Sessions) /\ Range(d) \subseteq Parked /\ d # << >>
    BY <1>1, <2>1, KeptFacts DEF OffloadInv, Queued, Droppable
  <2>3. 1 \in 1..Len(d)
    BY <2>2, LenProperties, EmptySeq
  <2> QED
    BY <1>2, <2>1, <2>2, <2>3, InRange
<1>6. PICK h : h = op.hold
  OBVIOUS
<1>7. r \in Sessions /\ State.q[r].st = "parked" /\ Good(State, h) /\ Calm(State) /\ Honest(State)
  BY <1>1, <1>5, <1>6, GoodState, StateKeeps
<1>8. LET W == Forgotten(State, {r})
          Y == [W EXCEPT !.pool = Deallocate(@, W.q[r].table), !.q[r] = Dropped(@)]
      IN  Good(Y, h) /\ Calm(Y) /\ Kin(Y, State)
  BY <1>7, DropCalm, Zenon
<1>9. PICK Y : Y = [X EXCEPT !.pool = Deallocate(@, X.q[r].table), !.q[r] = Dropped(@)]
  OBVIOUS
<1>10. Good(Y, h) /\ Honest(Y) /\ R \in Reclaimed(Y, op.goal)
  <2>1. Honest([X EXCEPT !.pool = Deallocate(@, X.q[r].table), !.q[r] = Dropped(@)])
    BY <1>3, <1>7, DropHonest
  <2> QED
    BY <1>3, <1>4, <1>8, <1>9, <2>1
<1>11. Good(R, h) /\ Honest(R)
  BY <1>10, ReclaimedCalm, ReclaimedHonest
<1> QED
  BY <1>1, <1>4, <1>11, HonestNext

LEMMA BeginStepKeeps ==
  ASSUME OffloadInv, ContentInv, BeginStep
  PROVE  ContentInv'
<1>1. op.pc = "idle" /\ UNCHANGED <<epoch, order, weights, cfg>>
  BY DEF BeginStep
<1>2. PICK h : h = op.hold
  OBVIOUS
<1>3. Good(State, h) /\ Calm(State) /\ Honest(State) /\ State.pend = pend
  BY <1>1, <1>2, GoodState, StateKeeps
<1>4. CASE WaitRaises
  BY <1>1, <1>4, WaitRaisesKeeps
<1>5. CASE Become(State)
  BY <1>1, <1>3, <1>5, HonestNext
<1>6. CASE pend.on /\ ~CopyLeft(pend) /\ Become(Settle(State, FALSE))
  <2>1. LET Y == Settle(State, FALSE) IN Good(Y, h) /\ Calm(Y) /\ Kin(Y, State)
    BY <1>3, <1>6, SettledCalm, Zenon
  <2>2. Honest(Settle(State, FALSE))
    BY <1>3, <1>6, SettledHonest
  <2>3. PICK Y : Y = Settle(State, FALSE)
    OBVIOUS
  <2>4. Good(Y, h) /\ Honest(Y) /\ Become(Y)
    BY <1>6, <2>1, <2>2, <2>3
  <2> QED
    BY <1>1, <2>4, HonestNext
<1> QED
  BY <1>4, <1>5, <1>6 DEF BeginStep

LEMMA EvictCachedKeeps ==
  ASSUME OffloadInv, ContentInv, EvictCached
  PROVE  ContentInv'
<1>1. op.pc = "evict" /\ UNCHANGED <<epoch, order, weights, cfg>>
  BY DEF EvictCached
<1>2. PICK h, g : h = op.hold /\ g = op.goal
  OBVIOUS
<1>3. Good(State, h) /\ Calm(State) /\ Honest(State)
  BY <1>1, <1>2, StateKeeps
<1>4. ASSUME NEW Y, Good(Y, h), Honest(Y), Become(Y)
      PROVE  ContentInv'
  BY <1>1, <1>4, HonestNext
<1>5. PICK Z \in Reclaimed(State, g) : Become(Z) \/ \E R \in Reclaimed(Waited(Z, FALSE), g) : Become(R)
  BY <1>2 DEF EvictCached
<1>6. Good(Z, h) /\ Calm(Z) /\ Honest(Z)
  <2>1. PICK K : K = State
    OBVIOUS
  <2>2. Z \in Reclaimed(K, g) /\ Good(K, h) /\ Calm(K) /\ Honest(K)
    BY <1>3, <1>5, <2>1
  <2> QED
    BY <2>2, ReclaimedCalm, ReclaimedHonest
<1>7. CASE Become(Z)
  BY <1>4, <1>6, <1>7
<1>8. CASE \E R \in Reclaimed(Waited(Z, FALSE), g) : Become(R)
  <2>1. PICK W : W = Waited(Z, FALSE)
    OBVIOUS
  <2>2. PICK R \in Reclaimed(W, g) : Become(R)
    BY <1>8, <2>1
  <2>3. LET Y == Waited(Z, FALSE) IN Good(Y, h) /\ Calm(Y) /\ Kin(Y, Z) /\ ~Y.pend.on
    BY <1>6, WaitedCalm, Zenon
  <2>4. Honest(Waited(Z, FALSE))
    BY <1>6, WaitedKeeps
  <2>5. Good(W, h) /\ Honest(W)
    BY <2>1, <2>3, <2>4
  <2>6. Good(R, h) /\ Honest(R)
    BY <2>2, <2>5, ReclaimedCalm, ReclaimedHonest
  <2> QED
    BY <1>4, <2>2, <2>6
<1> QED
  BY <1>5, <1>7, <1>8

LEMMA EarlyOffloadKeeps ==
  ASSUME OffloadInv, ContentInv, EarlyOffload
  PROVE  ContentInv'
<1>1. op.pc = "early" /\ UNCHANGED <<epoch, order, weights, cfg>>
  BY DEF EarlyOffload
<1>2. /\ Good(State, op.hold) /\ op.hold = NoHold /\ Calm(State) /\ Honest(State) /\ State.q = q
      /\ State.pend = pend
  BY <1>1, GoodState, StateKeeps DEF OffloadInv, OpOK
<1>3. ASSUME NEW Y, Good(Y, NoHold), Honest(Y), Become(Y)
      PROVE  ContentInv'
  BY <1>1, <1>3, HonestNext
<1>4. CASE Become(State)
  BY <1>2, <1>3, <1>4
<1>5. ASSUME ~pend.on, NEW Z \in Reclaimed(State, cfg.early),
             LET S == Kept(order, {r \in Sessions : q[r].table # << >> /\ Reclaimable(Z.pool, {r}) > 0})
             IN  IF FreeBlocks(Z.pool) >= cfg.early \/ S = << >>
                 THEN Become(Z)
                 ELSE \/ Tiered /\ Become(Finished(Z, Active))
                      \/ /\ ~Tiered
                         /\ \E R \in EarlySaves(Z, S[1]) : \E E \in Reclaimed(R, cfg.early) : Become(E)
      PROVE  ContentInv'
  <2>1. PICK K, g : K = State /\ g = cfg.early
    OBVIOUS
  <2>2. Good(Z, NoHold) /\ Calm(Z) /\ Honest(Z) /\ ~Z.pend.on /\ Z.q = q
    <3>1. Z \in Reclaimed(K, g) /\ Good(K, NoHold) /\ Calm(K) /\ Honest(K) /\ K.pend = pend /\ K.q = q
      BY <1>2, <1>5, <2>1
    <3> QED
      BY <1>5, <3>1, ReclaimedCalm, ReclaimedHonest
  <2>3. PICK X, S : X = {r \in Sessions : q[r].table # << >> /\ Reclaimable(Z.pool, {r}) > 0} /\ S = Kept(order, X)
    OBVIOUS
  <2>4. CASE Become(Z)
    BY <1>3, <2>2, <2>4
  <2>5. CASE Become(Finished(Z, Active))
    <3>1. PICK Y, A : A = Active /\ Y = Finished(Z, A)
      OBVIOUS
    <3>2. A \in SUBSET Sessions /\ Become(Y)
      BY <2>5, <3>1 DEF Active
    <3>3. LET F == Finished(Z, A)
          IN  /\ Good(F, NoHold) /\ Calm(F) /\ (F.pend.on => F.pend.meta.rid \notin A)
              /\ \A x \in A : F.q[x] = NoReq
              /\ \A x \in Sessions : x \notin A => F.q[x].st = Z.q[x].st /\ F.q[x].tokens = Z.q[x].tokens
      BY <2>2, <3>2, FinishedCalm, Zenon
    <3>4. Honest(Finished(Z, A))
      BY <2>2, <3>2, FinishedHonest
    <3>5. Good(Y, NoHold) /\ Honest(Y)
      BY <3>1, <3>3, <3>4
    <3> QED
      BY <1>3, <3>2, <3>5
  <2>6. CASE S # << >> /\ ~Tiered /\ \E R \in EarlySaves(Z, S[1]) : \E E \in Reclaimed(R, g) : Become(E)
    <3>1. PICK r : r = S[1]
      OBVIOUS
    <3>2. PICK R \in EarlySaves(Z, r) : \E E \in Reclaimed(R, g) : Become(E)
      BY <2>6, <3>1
    <3>3. PICK E \in Reclaimed(R, g) : Become(E)
      BY <3>2
    <3>4. r \in Parked /\ r \in X
      <4>1. S \in Seq(Sessions) /\ Range(S) = Parked \intersect X
        BY <2>3, KeptFacts DEF OffloadInv, Queued
      <4>2. 1 \in 1..Len(S)
        BY <2>6, <4>1, LenProperties, EmptySeq
      <4> QED
        BY <3>1, <4>1, <4>2, InRange
    <3>5. r \in Sessions /\ Z.q[r].st = "parked" /\ Z.q[r].table # << >>
      BY <2>2, <2>3, <3>4 DEF Parked
    <3>6. Good(Z, op.hold)
      BY <1>2, <2>2
    <3>7. Good(R, op.hold) /\ EarlySaved(R, Z, r) /\ Honest(R)
      BY <1>2, <2>2, <2>6, <3>2, <3>5, <3>6, EarlySavesGood, EarlySavesHonest
    <3>8. Good(R, NoHold)
      BY <1>2, <3>7
    <3>9. Good(E, NoHold) /\ Honest(E)
      BY <3>3, <3>7, <3>8, ReclaimedCalm, ReclaimedHonest
    <3> QED
      BY <1>3, <3>3, <3>9
  <2>7. \/ Become(Z)
        \/ Become(Finished(Z, Active))
        \/ S # << >> /\ ~Tiered /\ \E R \in EarlySaves(Z, S[1]) : \E E \in Reclaimed(R, g) : Become(E)
    BY <1>5, <2>1, <2>3
  <2> QED
    BY <2>4, <2>5, <2>6, <2>7
<1>6. CASE ~(cfg.early = 0 \/ pend.on \/ FreeBlocks(pool) >= cfg.early)
  <2>1. PICK Z \in Reclaimed(State, cfg.early) :
             LET S == Kept(order, {r \in Sessions : q[r].table # << >> /\ Reclaimable(Z.pool, {r}) > 0})
             IN  IF FreeBlocks(Z.pool) >= cfg.early \/ S = << >>
                 THEN Become(Z)
                 ELSE \/ Tiered /\ Become(Finished(Z, Active))
                      \/ /\ ~Tiered
                         /\ \E R \in EarlySaves(Z, S[1]) : \E E \in Reclaimed(R, cfg.early) : Become(E)
    BY <1>6 DEF EarlyOffload
  <2> QED
    BY <1>5, <1>6, <2>1
<1> QED
  BY <1>4, <1>6 DEF EarlyOffload

LEMMA OpenGroupKeeps ==
  ASSUME OffloadInv, ContentInv, OpenGroup
  PROVE  ContentInv'
<1>1. op.pc = "offload" /\ op.cand # << >> /\ UNCHANGED <<epoch, order, weights, cfg>>
  BY DEF OpenGroup
<1>2. PICK rs, rest : /\ rs = NextGroup(pool, op.cand, op.goal)
                      /\ rest = SubSeq(op.cand, Len(rs) + 1, Len(op.cand))
  OBVIOUS
<1>3. OpOK /\ op.cand \in Seq(Sessions) /\ IsInjective(op.cand) /\ Range(op.cand) \subseteq Parked
  BY DEF OffloadInv, OpOK
<1>4. rs \in Seq(Sessions) /\ IsInjective(rs) /\ Range(rs) \subseteq Range(op.cand)
  <2>1. PICK cand, goal : cand = op.cand /\ goal = op.goal
    OBVIOUS
  <2>2. cand \in Seq(Sessions) /\ IsInjective(cand) /\ cand # << >>
    BY <1>1, <1>3, <2>1
  <2>3. rs = NextGroup(pool, cand, goal) /\ rest = SubSeq(cand, Len(rs) + 1, Len(cand))
    BY <1>2, <2>1
  <2>4. rs \in Seq(Sessions) /\ IsInjective(rs) /\ Range(rs) \subseteq Range(cand)
    BY <2>2, <2>3, GroupTaken
  <2> QED
    BY <2>1, <2>4
<1>5. Good(State, op.hold) /\ Calm(State) /\ Honest(State) /\ \A r \in Parked : q[r].st = "parked"
  BY <1>1, GoodState, StateKeeps
<1>6. PICK W : W = Waited(State, FALSE)
  OBVIOUS
<1>7. Good(W, op.hold) /\ Calm(W) /\ Kin(W, State) /\ ~W.pend.on /\ Honest(W)
  <2>1. PICK K, h : K = State /\ h = op.hold
    OBVIOUS
  <2>2. LET Y == Waited(K, FALSE) IN Good(Y, h) /\ Calm(Y) /\ Kin(Y, K) /\ ~Y.pend.on
    BY <1>5, <2>1, WaitedCalm, Zenon
  <2>3. Honest(Waited(K, FALSE))
    BY <1>5, <2>1, WaitedKeeps
  <2> QED
    BY <1>6, <2>1, <2>2, <2>3
<1>8. \A r \in Range(rs) : W.q[r].st = "parked"
  BY <1>3, <1>4, <1>5, <1>7 DEF Kin, State, Parked
<1>9. CASE \E G \in Prepared(W, rs) : Become(G.z)
  <2>1. PICK G \in Prepared(W, rs) : Become(G.z)
    BY <1>9
  <2>2. Good(G.z, op.hold) /\ Honest(G.z)
    BY <1>4, <1>7, <1>8, <2>1, PreparedGood, PreparedHonest
  <2>3. PICK Y, h : Y = G.z /\ h = op.hold
    OBVIOUS
  <2>4. Good(Y, h) /\ Honest(Y) /\ Become(Y)
    BY <2>1, <2>2, <2>3
  <2> QED
    BY <1>1, <2>4, HonestNext
<1>10. CASE WaitRaises
  BY <1>1, <1>10, WaitRaisesKeeps
<1> QED
  BY <1>2, <1>6, <1>9, <1>10 DEF OpenGroup

LEMMA ClosedKeeps ==
  ASSUME NEW Z, NEW h, Good(Z, h), Honest(Z), UNCHANGED <<cfg, weights, epoch>>, Become(Closed(Z))
  PROVE  ContentInv'
<1>1. LET X == Closed(Z) IN Good(X, h) /\ Calm(X) /\ Kin(X, Z) /\ X.pend = Z.pend
  BY ClosedGood, Zenon
<1>2. Honest(Closed(Z))
  BY ClosedHonest
<1>3. PICK X : X = Closed(Z)
  OBVIOUS
<1>4. Good(X, h) /\ Honest(X) /\ Become(X)
  BY <1>1, <1>2, <1>3
<1> QED
  BY <1>4, HonestNext

LEMMA SaveNextKeeps ==
  ASSUME OffloadInv, ContentInv, SaveNext
  PROVE  ContentInv'
<1>1. op.pc = "save" /\ UNCHANGED <<epoch, order, fatal, weights, cfg>>
  BY DEF SaveNext
<1>2. PICK rs, i, S, h : rs = op.group /\ i = op.at /\ S = Saved(State, rs[i]) /\ h = op.hold
  OBVIOUS
<1>3. /\ Good(State, h) /\ Honest(State) /\ Awaits(State, rs, i) /\ i \in 1..Len(rs) /\ rs \in Seq(Sessions)
      /\ IsInjective(rs)
  BY <1>1, <1>2, GroupAwaits, StateKeeps
<1>4. Good(S, h) /\ Honest(S)
  <2>1. PICK K : K = State
    OBVIOUS
  <2>2. LET Y == Saved(K, rs[i]) IN Good(Y, h) /\ Kin(Y, K) /\ Awaits(Y, rs, i + 1)
    BY <1>3, <2>1, SavedGood, Zenon
  <2>3. Honest(Saved(K, rs[i]))
    BY <1>3, <2>1, SavedHonest
  <2> QED
    BY <1>2, <2>1, <2>2, <2>3
<1>5. PICK Z \in Reclaimed(S, op.goal) : LeaveGroup(Z) \/ Become(Z)
  BY <1>2 DEF SaveNext
<1>6. Good(Z, h) /\ Honest(Z)
  <2>1. PICK g : g = op.goal
    OBVIOUS
  <2> QED
    BY <1>4, <1>5, <2>1, ReclaimedCalm, ReclaimedHonest
<1>7. CASE LeaveGroup(Z)
  BY <1>1, <1>6, <1>7, ClosedKeeps DEF LeaveGroup
<1>8. CASE Become(Z)
  BY <1>1, <1>6, <1>8, HonestNext
<1> QED
  BY <1>5, <1>7, <1>8

LEMMA SaveFailsKeeps ==
  ASSUME OffloadInv, ContentInv, SaveFails
  PROVE  ContentInv'
<1>1. op.pc = "save" /\ UNCHANGED <<epoch, order, weights, cfg>>
  BY DEF SaveFails
<1>2. PICK rs, i, h : rs = op.group /\ i = op.at /\ h = op.hold
  OBVIOUS
<1>3. /\ Good(State, h) /\ Honest(State) /\ Awaits(State, rs, i) /\ i \in 1..Len(rs) /\ rs \in Seq(Sessions)
  BY <1>1, <1>2, GroupAwaits, StateKeeps
<1>4. PICK Z \in SavesFailing(State, rs[i]) : Become(Closed(Z))
  <2>1. \E Z \in SavesFailing(State, op.group[op.at]) :
           \/ LeaveGroup(Z) /\ UNCHANGED fatal
           \/ Become(Closed(Z)) /\ op' = Idle /\ fatal' = TRUE /\ UNCHANGED shown
    BY DEF SaveFails
  <2>2. PICK Z \in SavesFailing(State, op.group[op.at]) :
           \/ LeaveGroup(Z) /\ UNCHANGED fatal
           \/ Become(Closed(Z)) /\ op' = Idle /\ fatal' = TRUE /\ UNCHANGED shown
    BY <2>1, Zenon
  <2>3. Become(Closed(Z))
    BY <2>2, Zenon DEF LeaveGroup
  <2> QED
    BY <1>2, <2>2, <2>3
<1>5. Good(Z, h) /\ Honest(Z)
  <2>1. PICK K : K = State
    OBVIOUS
  <2> QED
    BY <1>3, <1>4, <2>1, SaveRaises, SaveRaisesHonest
<1> QED
  BY <1>1, <1>4, <1>5, ClosedKeeps

LEMMA OffloadRequestKeeps ==
  ASSUME OffloadInv, ContentInv, NEW r \in Sessions, OffloadRequest(r)
  PROVE  ContentInv'
<1>1. op.pc = "idle" /\ r \in Parked /\ UNCHANGED <<epoch, order, op, fatal, weights, cfg>>
  BY DEF OffloadRequest
<1>2. op.hold = NoHold
  BY <1>1, IdleOp DEF OffloadInv
<1>3. PICK Z : Z = Waited(State, FALSE)
  OBVIOUS
<1>4. Good(Z, NoHold) /\ Calm(Z) /\ Kin(Z, State) /\ ~Z.pend.on /\ Honest(Z)
  <2>1. PICK K, h : K = State /\ h = NoHold
    OBVIOUS
  <2>2. Good(K, h) /\ Calm(K) /\ Honest(K)
    BY <1>1, <1>2, <2>1, StateKeeps
  <2>3. LET Y == Waited(K, FALSE) IN Good(Y, h) /\ Calm(Y) /\ Kin(Y, K) /\ ~Y.pend.on
    BY <2>2, WaitedCalm, Zenon
  <2>4. Honest(Waited(K, FALSE))
    BY <2>2, WaitedKeeps
  <2> QED
    BY <1>3, <2>1, <2>3, <2>4
<1>5. PICK rs : rs = <<r>>
  OBVIOUS
<1>6. rs \in Seq(Sessions) /\ IsInjective(rs) /\ Range(rs) = {r} /\ 1 \in 1..Len(rs) /\ rs[1] = r
  BY <1>5, OneMember
<1>7. \/ Become(Z)
      \/ \E G \in Prepared(Z, rs) :
           \/ ~G.ok /\ Become(G.z)
           \/ G.ok /\ Become(Closed(Saved(G.z, r)))
           \/ G.ok /\ \E F \in SavesFailing(G.z, r) : Become(Closed(F))
  BY <1>3, <1>5 DEF OffloadRequest
<1>8. CASE \E G \in Prepared(Z, rs) :
           \/ ~G.ok /\ Become(G.z)
           \/ G.ok /\ Become(Closed(Saved(G.z, r)))
           \/ G.ok /\ \E F \in SavesFailing(G.z, r) : Become(Closed(F))
  <2>1. PICK G \in Prepared(Z, rs) :
           \/ ~G.ok /\ Become(G.z)
           \/ G.ok /\ Become(Closed(Saved(G.z, r)))
           \/ G.ok /\ \E F \in SavesFailing(G.z, r) : Become(Closed(F))
    BY <1>8
  <2>2. \A x \in Range(rs) : Z.q[x].st = "parked"
    BY <1>1, <1>4, <1>6 DEF Kin, Parked, State
  <2>3. Good(Z, op.hold)
    BY <1>2, <1>4
  <2>4. Good(G.z, op.hold) /\ Honest(G.z) /\ (G.ok => Awaits(G.z, rs, 1))
    BY <1>4, <1>6, <2>1, <2>2, <2>3, PreparedGood, PreparedHonest
  <2>5. PICK g, h : g = G.z /\ h = NoHold
    OBVIOUS
  <2>6. Good(g, h) /\ Honest(g) /\ (G.ok => Awaits(g, rs, 1))
    BY <1>2, <2>4, <2>5
  <2>7. CASE ~G.ok /\ Become(g)
    BY <1>1, <2>6, <2>7, HonestNext
  <2>8. CASE \E F : Good(F, h) /\ Honest(F) /\ Become(Closed(F))
    <3>1. PICK F : Good(F, h) /\ Honest(F) /\ Become(Closed(F))
      BY <2>8
    <3> QED
      BY <1>1, <3>1, ClosedKeeps
  <2>9. CASE G.ok /\ Become(Closed(Saved(g, r)))
    <3>1. LET Y == Saved(g, rs[1]) IN Good(Y, h) /\ Kin(Y, g) /\ Awaits(Y, rs, 1 + 1)
      BY <1>6, <2>6, <2>9, SavedGood, Zenon
    <3>2. Honest(Saved(g, rs[1]))
      BY <1>6, <2>6, <2>9, SavedHonest
    <3>3. PICK F : F = Saved(g, r)
      OBVIOUS
    <3>4. Good(F, h) /\ Honest(F) /\ Become(Closed(F))
      BY <1>6, <2>9, <3>1, <3>2, <3>3
    <3> QED
      BY <2>8, <3>4
  <2>10. CASE G.ok /\ \E F \in SavesFailing(g, r) : Become(Closed(F))
    <3>1. PICK F \in SavesFailing(g, rs[1]) : Become(Closed(F))
      BY <1>6, <2>10
    <3>2. Good(F, h) /\ Honest(F)
      BY <1>6, <2>6, <2>10, <3>1, SaveRaises, SaveRaisesHonest
    <3> QED
      BY <2>8, <3>1, <3>2
  <2> QED
    BY <2>1, <2>5, <2>7, <2>9, <2>10
<1>9. CASE Become(Z)
  BY <1>1, <1>4, <1>9, HonestNext
<1> QED
  BY <1>7, <1>8, <1>9

LEMMA DoneKeeps ==
  ASSUME ContentInv, OffloadDone \/ DropDone,
         UNCHANGED <<pool, epoch, kv, q, order, shown, fatal, weights, stale, offloadVars>>
  PROVE  ContentInv'
BY HonestStill

LEMMA CopyChunkKeeps ==
  ASSUME OffloadInv, ContentInv, CopyChunk
  PROVE  ContentInv'
<1>1. /\ CopyLeft(pend) /\ pend' = CopiedNext(kv, pend)
      /\ UNCHANGED <<residencyVars, cfg, store, snapOf, group, use, unsettled, blocks, man, lease>>
  BY DEF CopyChunk
<1>2. pend.on /\ op.pc # "save"
  BY <1>1 DEF CopyLeft, OffloadInv, GroupOK
<1>3. PICK Z, h : Z = State /\ h = op.hold
  OBVIOUS
<1>4. Good(Z, h) /\ Z.pend = pend /\ Z.pend.on /\ Z.kv = kv /\ Z.q = q
  BY <1>2, <1>3, GoodState DEF State
<1>5. ~Tiered /\ SnapGood(Z, h) /\ Honest(Z)
  BY <1>3, <1>4, GoodBlocks, BlockCalm, GoodSnaps DEF ContentInv
<1>6. PICK Y : Y = State'
  OBVIOUS
<1>7. /\ SameSnaps(Y, Z) /\ Y.pool = Z.pool /\ Y.q = Z.q /\ Y.kv = Z.kv /\ Y.store = Z.store /\ Y.group = Z.group
      /\ Y.pend = CopiedNext(kv, pend)
  BY <1>1, <1>3, <1>6 DEF Zone, State, SameSnaps, SameBlocks, residencyVars
<1>8. PICK m, n : m = Z.pend.meta /\ n = Len(Z.pend.pages)
  OBVIOUS
<1>9. /\ m \in Z.store.open /\ IsMeta(m) /\ m.rid \in Sessions /\ m.n \in Nat
      /\ Z.q[m.rid].table = Z.pend.table /\ Z.q[m.rid].tokens = m.tokens /\ Z.q[m.rid].computed = m.computed
      /\ Len(Z.pend.table) = m.n /\ DOMAIN Z.pend.table = 1..m.n
      /\ DOMAIN Z.pend.pages = 1..n /\ n \in Nat /\ n < m.n
  BY <1>1, <1>4, <1>5, <1>8, SourceFacts DEF CopyLeft
<1>10. DOMAIN pend = {"on", "meta", "table", "pages"} /\ pend.pages \in Seq(Range(pend.pages))
  BY <1>4, <1>5 DEF SnapGood, Snapped, SourceHeld
<1>11. PICK x, D : x = kv[pend.table[n + 1]] /\ D = Range(pend.pages) \union {x}
  OBVIOUS
<1>12. PICK s : s = Append(pend.pages, x)
  OBVIOUS
<1>13. Y.pend = [pend EXCEPT !.pages = s]
  BY <1>4, <1>7, <1>8, <1>10, <1>11, <1>12 DEF CopiedNext
<1>14. Len(s) = n + 1 /\ DOMAIN s = 1..n + 1 /\ s \in Seq(Range(s)) /\ s[n + 1] = x /\ \A i \in 1..n : s[i] = pend.pages[i]
  <2>1. pend.pages \in [1..n -> Range(pend.pages)]
    BY <1>4, <1>8, <1>10, LenProperties
  <2>2. pend.pages \in Seq(D) /\ x \in D
    BY <1>9, <1>11, <2>1, FunctionSeq
  <2>3. /\ s \in Seq(D) /\ Len(s) = n + 1 /\ s[n + 1] = x
        /\ \A i \in 1..n : s[i] = pend.pages[i]
    <3>1. Len(pend.pages) = n
      BY <1>4, <1>8
    <3>2. PICK u : u = pend.pages
      OBVIOUS
    <3>3. u \in Seq(D) /\ x \in D /\ Len(u) = n /\ s = Append(u, x)
      BY <1>12, <2>2, <3>1, <3>2
    <3>4. s \in Seq(D) /\ Len(s) = n + 1 /\ s[n + 1] = x /\ \A i \in 1..n : s[i] = u[i]
      BY <3>3, AppendProperties
    <3> QED
      BY <3>2, <3>4
  <2>4. DOMAIN s = 1..n + 1
    BY <2>3, LenProperties
  <2> QED
    BY <2>3, <2>4, InOwnRange
<1>15. /\ Y.pend.pages = s /\ Y.pend.on = Z.pend.on /\ Y.pend.meta = Z.pend.meta /\ Y.pend.table = Z.pend.table
       /\ DOMAIN Y.pend = DOMAIN Z.pend
  BY <1>4, <1>10, <1>13
<1>16. CopiedMore(Y, Z)
  <2>1. Len(Y.pend.pages) <= Y.pend.meta.n
    <3>1. n + 1 <= m.n
      BY <1>9
    <3> QED
      BY <1>8, <1>14, <1>15, <3>1
  <2>2. Y.pend.pages \in Seq(Range(Y.pend.pages))
    BY <1>14, <1>15
  <2> QED
    BY <1>7, <1>15, <2>1, <2>2 DEF CopiedMore
<1>17. ASSUME ~stale, NEW i \in DOMAIN s
       PROVE  Through(s[i], m.tokens, m.computed, i)
  <2>1. Resident(Z) /\ OnHost(Z)
    BY <1>5, <1>17 DEF Honest
  <2>2. CASE i \in 1..n
    BY <1>4, <1>8, <1>9, <1>14, <2>1, <2>2 DEF OnHost
  <2>3. CASE i = n + 1
    <3>1. Owed(Z.kv, Z.q[m.rid]) /\ i \in DOMAIN Z.pend.table /\ s[i] = Z.kv[Z.pend.table[i]]
      BY <1>4, <1>9, <1>11, <1>14, <2>1, <2>3 DEF Resident
    <3> QED
      BY <1>9, <3>1 DEF Owed
  <2>4. i \in 1..n \/ i = n + 1
    BY <1>9, <1>14, <1>17
  <2> QED
    BY <2>2, <2>3, <2>4
<1>18. Honest(Y)
  BY <1>5, <1>8, <1>15, <1>16, <1>17, CopiedMoreHonest
<1>19. ~stale' => ~stale /\ ~StaleParent(Y.q)
  BY <1>1, <1>4, <1>7 DEF residencyVars, ContentInv
<1>20. UNCHANGED <<cfg, weights, epoch>>
  BY <1>1 DEF residencyVars
<1> QED
  BY <1>6, <1>18, <1>19, <1>20, HonestNextAs

\* After an invalidation nothing is left on the host.
LEMMA InvalidatedBare ==
  ASSUME ~Tiered, NEW Z, NEW hold, SnapGood(Z, hold), \A r \in Sessions : Z.q[r].st # "active",
         NEW S, S = {r \in Sessions : Z.q[r].st = "parked"}, NEW Y, Y = Emptied(Z, S)
  PROVE  Snaps(Y.store) = {} /\ ~Y.pend.on
<1> DEFINE W == Waited(Z, TRUE)
           C == CloseGroup(W)
           I == InvalidatedAll(Z)
<1>1. SnapGood(W, hold) /\ Idling(W)
  BY WaitedGood
<1> HIDE DEF W
<1>2. SnapGood(C, hold)
  BY <1>1, CloseGroupGood
<1>3. I = [C EXCEPT !.store = InvalidateStore(@),
                !.unsettled = @ - SizeOf(Snaps(C.store)) - UsedBy(C, Sessions),
                !.use = [r \in Sessions |-> NoUse],
                !.snapOf = [r \in Sessions |-> 0]]
  BY DEF InvalidatedAll, Invalidated, W
<1> HIDE DEF C, I
<1>4. Zone(C) /\ Books(C.store, hold)
  BY <1>2 DEF SnapGood, Snapped
<1>5. Zone(I) /\ I.store = InvalidateStore(C.store)
  BY <1>3, <1>4 DEF Zone
<1>6. Y.store = I.store
  BY <1>5 DEF Emptied, I, Zone
<1>7. PICK X : X = C.store
  OBVIOUS
<1>8. LET R == InvalidateStore(X) IN Books(R, NoHold) /\ Snaps(R) = {} /\ R.open = {}
  BY <1>4, <1>7, InvalidBooks, Zenon
<1>9. Snaps(Y.store) = {} /\ Y.store.open = {}
  BY <1>5, <1>6, <1>7, <1>8
<1>10. Reserved(Y)
  BY InvalidatedGood DEF SnapGood, Snapped
<1> QED
  BY <1>9, <1>10 DEF Reserved

\* Nobody holds a page, and no copy is kept.
Blank(Y) ==
  /\ Y.pool.cache = {} /\ \A r \in Sessions : Y.q[r].table = << >> /\ Y.q[r].published = 0
  /\ ~Tiered => Snaps(Y.store) = {} /\ ~Y.pend.on
  /\ Tiered => Y.blocks = EmptyIndex /\ Y.man = [r \in Sessions |-> NoMan] /\ ~Y.lease.on

LEMMA NoSlots == DOMAIN EmptyIndex = {} /\ Cardinality({}) = 0 /\ CpuMax \in Nat
BY FS_EmptySet, CpuStoreAssumption DEF EmptyIndex

LEMMA BlankNext ==
  ASSUME NEW Y, Blank(Y), UNCHANGED cfg, Become(Y)
  PROVE  ContentInv'
<1>1. Tiered <=> Tiered'
  BY DEF Tiered
<1>2. /\ pool' = Y.pool /\ q' = Y.q /\ store' = Y.store /\ pend' = Y.pend /\ blocks' = Y.blocks /\ man' = Y.man
      /\ lease' = Y.lease /\ stale' = (stale \/ StaleParent(Y.q))
  BY DEF Become
<1>3. ASSUME Tiered
      PROVE  Shelf(State)'
  <2>1. DOMAIN blocks' = {} /\ ~lease'.on
    BY <1>2, <1>3, NoSlots DEF Blank
  <2> QED
    BY <2>1, NoSlots DEF Shelf, State
<1>4. Resident(State)'
  <2>1. ASSUME NEW r \in Sessions
        PROVE  Owed(State.kv, State.q[r])'
    BY <1>2 DEF Blank, Owed, Chained, State
  <2>2. (State.pool.cache = {})'
    BY <1>2 DEF Blank, State
  <2> QED
    BY <2>1, <2>2 DEF Resident
<1>5. ASSUME Tiered
      PROVE  InBlocks(State)'
  <2>1. /\ (DOMAIN State.blocks = {})' /\ (~State.lease.on)'
        /\ \A r \in Sessions : (State.man[r].keys = << >>)'
    BY <1>2, <1>5, NoSlots DEF Blank, State, NoMan
  <2> QED
    BY <2>1 DEF InBlocks, TailsSound
<1>6. ASSUME ~Tiered
      PROVE  OnHost(State)'
  <2>1. (Snaps(State.store) = {})' /\ (~State.pend.on)'
    BY <1>2, <1>6 DEF Blank, State, Snaps
  <2> QED
    BY <2>1 DEF OnHost
<1>7. Honest(State)'
  BY <1>1, <1>3, <1>4, <1>5, <1>6 DEF Honest
<1>8. ~stale' => ~StaleParent(q)'
  BY <1>2 DEF StaleParent
<1> QED
  BY <1>7, <1>8 DEF ContentInv

LEMMA BlankStart ==
  ASSUME Blank(State), ~StaleParent(q)
  PROVE  ContentInv
<1>1. ASSUME Tiered
      PROVE  Shelf(State) /\ InBlocks(State)
  <2>1. DOMAIN State.blocks = {} /\ ~State.lease.on /\ \A r \in Sessions : State.man[r].keys = << >>
    BY <1>1, NoSlots DEF Blank, NoMan
  <2> QED
    BY <2>1, NoSlots DEF Shelf, InBlocks, TailsSound
<1>2. Resident(State)
  BY DEF Blank, Resident, Owed, Chained
<1>3. ASSUME ~Tiered
      PROVE  OnHost(State)
  BY <1>3 DEF Blank, OnHost
<1> QED
  BY <1>1, <1>2, <1>3 DEF Honest, ContentInv

LEMMA InvalidateAllKeeps ==
  ASSUME OffloadInv, ContentInv, NEW change, InvalidateAll(change)
  PROVE  ContentInv'
<1>1. op.pc = "idle" /\ Active = {} /\ UNCHANGED <<order, op, cfg>>
  BY DEF InvalidateAll
<1>2. Good(State, NoHold) /\ State.q = q
  BY <1>1, GoodState, IdleOp DEF OffloadInv
<1>3. PICK K, S, Y, h : K = State /\ S = Parked /\ Y = Emptied(K, S) /\ h = NoHold
  OBVIOUS
<1>4. \/ Become(Y)
      \/ WaitRaises /\ UNCHANGED <<epoch, weights, shown>>
  BY <1>3 DEF InvalidateAll, Emptied
<1>5. CASE WaitRaises /\ UNCHANGED <<epoch, weights, shown>>
  BY <1>1, <1>5, WaitRaisesKeeps
<1>6. CASE Become(Y)
  <2>1. Good(K, h) /\ Requests(K.q)
    BY <1>2, <1>3 DEF Good, Seated, Seats
  <2>2. \A r \in Sessions : K.q[r].st # "active"
    BY <1>1, <1>2, <1>3 DEF Active
  <2>3. S = {r \in Sessions : K.q[r].st = "parked"}
    BY <1>2, <1>3 DEF Parked
  <2>4. PICK I : I = InvalidatedAll(K)
    OBVIOUS
  <2>5. Y = [I EXCEPT !.pool = EmptyPool,
                      !.q = [r \in Sessions |-> IF r \in S THEN [Dropped(I.q[r]) EXCEPT !.st = "parked"] ELSE I.q[r]]]
    BY <1>3, <2>4 DEF Emptied
  <2>6. /\ Zone(Y) /\ Requests(Y.q)
        /\ \A r \in Sessions : Y.q[r].st = K.q[r].st /\ Y.q[r].table = << >>
        /\ ~Tiered => Snaps(Y.store) = {} /\ ~Y.pend.on
        /\ Tiered => Y.blocks = EmptyIndex /\ Y.man = [r \in Sessions |-> NoMan] /\ ~Y.lease.on
    <3>1. CASE Tiered
      <4>1. BlockGood(K) /\ Zone(K)
        BY <2>1, <3>1, GoodBlocks DEF BlockGood
      <4>2. BlockGood(Y) /\ Y.man = [r \in Sessions |-> NoMan] /\ ~Y.lease.on
            /\ \A r \in Sessions : Y.q[r].st = K.q[r].st /\ Y.q[r].tokens = K.q[r].tokens /\ Y.q[r].table = << >>
        BY <1>3, <2>2, <2>3, <3>1, <4>1, BlockInvalidatedGood
      <4>3. I = [K EXCEPT !.blocks = EmptyIndex, !.man = [r \in Sessions |-> NoMan], !.lease = NoLease]
        BY <2>4, <3>1 DEF InvalidatedAll, BlockInvalidated
      <4>4. Zone(I) /\ I.blocks = EmptyIndex
        BY <4>1, <4>3 DEF Zone
      <4>5. Y.blocks = EmptyIndex
        BY <2>5, <4>4 DEF Zone
      <4> QED
        BY <3>1, <4>2, <4>5 DEF BlockGood, Seated, Seats
    <3>2. CASE ~Tiered
      <4>1. SnapGood(K, h)
        BY <2>1, <3>2, GoodSnaps
      <4>2. SnapGood(Y, NoHold) /\ Y.group = {}
            /\ \A r \in Sessions : Y.q[r].st = K.q[r].st /\ Y.q[r].tokens = K.q[r].tokens /\ Y.q[r].table = << >>
        BY <1>3, <2>2, <2>3, <3>2, <4>1, InvalidatedGood
      <4>3. Snaps(Y.store) = {} /\ ~Y.pend.on
        BY <1>3, <2>2, <2>3, <3>2, <4>1, InvalidatedBare
      <4> QED
        BY <3>2, <4>2, <4>3 DEF SnapGood, Seated, Seats
    <3> QED
      BY <3>1, <3>2
  <2>7. PICK N : N = [r \in Sessions |-> IF r \in S THEN [Dropped(I.q[r]) EXCEPT !.st = "parked"] ELSE I.q[r]]
    OBVIOUS
  <2>8. Y.q = N /\ Y.pool = EmptyPool
    <3>1. DOMAIN I = DOMAIN Y
      BY <2>5
    <3> QED
      BY <2>5, <2>6, <2>7, <3>1 DEF Zone
  <2>9. ASSUME NEW r \in Sessions
        PROVE  Y.q[r].published = 0
    <3>1. IsRequest(Y.q[r]) /\ Placed(Y.q[r]) /\ IsRequest(K.q[r])
      BY <2>1, <2>6 DEF Requests
    <3>2. CASE r \in S
      <4>1. PICK c : c = I.q[r]
        OBVIOUS
      <4>2. Y.q[r] = [Dropped(c) EXCEPT !.st = "parked"]
        BY <2>7, <2>8, <3>2, <4>1
      <4>3. "published" \in DOMAIN c
        BY <3>1, <4>2 DEF Dropped, IsRequest
      <4> QED
        BY <4>2, <4>3 DEF Dropped
    <3>3. CASE r \notin S
      <4>1. Y.q[r].st = "gone"
        BY <2>2, <2>3, <2>6, <3>1, <3>3 DEF IsRequest
      <4> QED
        BY <3>1, <4>1 DEF Placed
    <3> QED
      BY <3>2, <3>3
  <2>10. Y.pool.cache = {}
    BY <2>8 DEF EmptyPool
  <2>11. Blank(Y)
    BY <2>6, <2>9, <2>10 DEF Blank
  <2> QED
    BY <1>1, <1>6, <2>11, BlankNext
<1> QED
  BY <1>4, <1>5, <1>6

LEMMA OffloadInitHonest ==
  ASSUME OffloadInit
  PROVE  ContentInv
<1>1. \A r \in Sessions : q[r].table = << >> /\ q[r].published = 0 /\ q[r].parent = ROOT_HASH
  BY DEF OffloadInit, ResidencyInit, NoReq
<1>2. pool.cache = {} /\ blocks = EmptyIndex /\ man = [r \in Sessions |-> NoMan] /\ ~lease.on
  BY DEF OffloadInit, ResidencyInit, SnapshotInit, EmptyPool, NoLease
<1>3. Snaps(store) = {} /\ ~pend.on
  <2>1. store.snaps = << >>
    BY DEF OffloadInit, SnapshotInit, EmptyStore
  <2>2. Range(<< >>) = {}
    BY DEF Range
  <2> QED
    BY <2>1, <2>2 DEF OffloadInit, SnapshotInit, NoPend, Snaps
<1>4. Blank(State)
  BY <1>1, <1>2, <1>3 DEF Blank, State
<1>5. ~StaleParent(q)
  BY <1>1 DEF StaleParent
<1> QED
  BY <1>4, <1>5, BlankStart

\* The hash of the next block goes on from what is published.
Rooted(c) ==
  c.parent = SubSeq(c.tokens, 1, c.published * BlockSize) /\ c.published * BlockSize <= c.computed

\* A request that has attached its cached prefix goes on from it.
LEMMA AttachedRoot ==
  ASSUME NEW P \in PoolOf(TokenLists), NEW c, IsRequest(c), c.st # "gone", c.res # "cpu", c.computed < Len(c.tokens),
         NEW t \in Attaching(P, c), NEW a, a = Attached(c, t)
  PROVE  Rooted(a) /\ (a.table = << >> => a.parent = ROOT_HASH)
<1>1. t \in Seq(Blocks) /\ Len(t) * BlockSize < Len(c.tokens)
  BY AttachingFacts
<1>2. /\ a.table = t /\ a.computed = Len(t) * BlockSize /\ a.tokens = c.tokens
      /\ a.published = Len(t) /\ a.parent = PrefixHash(c, Len(t))
  BY <1>1, AttachedRequest
<1>3. Len(t) \in Nat
  BY <1>1, LenProperties
<1>4. Rooted(a)
  BY <1>2, <1>3, BlockSizeAssumption DEF Rooted, PrefixHash
<1>5. ASSUME t = << >>
      PROVE  Len(t) = 0 /\ PrefixHash(c, 0) = << >>
  <2>1. 0 * BlockSize = 0
    BY BlockSizeAssumption
  <2>2. SubSeq(c.tokens, 1, 0) = << >>
    OBVIOUS
  <2> QED
    BY <1>5, <2>1, <2>2 DEF PrefixHash
<1> QED
  BY <1>2, <1>4, <1>5 DEF ROOT_HASH

\* What a request attaches from the cache is its own prefix.
LEMMA AttachedOwed ==
  ASSUME NEW P \in PoolOf(TokenLists), NEW k, \A e \in P.cache : Promise(k[e[2]], e[1]),
         NEW c, IsRequest(c), c.st # "gone", c.res # "cpu", c.computed < Len(c.tokens), NEW t \in Attaching(P, c),
         NEW a, a = Attached(c, t)
  PROVE  Owed(k, a)
<1>1. /\ t \in Seq(Blocks) /\ Len(t) * BlockSize < Len(c.tokens)
      /\ \A i \in 1..Len(t) : <<PrefixHash(c, i), t[i]>> \in P.cache
  BY AttachingFacts
<1>2. /\ a.table = t /\ a.computed = Len(t) * BlockSize /\ a.tokens = c.tokens
      /\ a.published = Len(t) /\ a.parent = PrefixHash(c, Len(t))
  BY <1>1, AttachedRequest
<1>3. c.tokens \in TokenLists /\ Len(c.tokens) \in Nat /\ Len(t) \in Nat /\ DOMAIN t = 1..Len(t)
  BY <1>1, LenProperties DEF IsRequest, TokenLists
<1>4. ASSUME NEW i \in 1..Len(t)
      PROVE  Through(k[t[i]], c.tokens, a.computed, i)
  <2>1. PICK h : h = PrefixHash(c, i)
    OBVIOUS
  <2>2. h = SubSeq(c.tokens, 1, i * BlockSize)
    BY <2>1 DEF PrefixHash
  <2>3. <<h, t[i]>> \in P.cache
    BY <1>1, <2>1
  <2>4. Promise(k[t[i]], h)
    <3>1. PICK e \in P.cache : e = <<h, t[i]>>
      BY <2>3
    <3> QED
      BY <3>1
  <2>5. i \in Nat \ {0} /\ i * BlockSize <= Len(c.tokens)
    BY <1>1, <1>3, BlockSizeAssumption
  <2> QED
    BY <1>3, <2>2, <2>4, <2>5, PromisedThrough
<1>5. Rooted(a) /\ (a.table = << >> => a.parent = ROOT_HASH)
  BY AttachedRoot
<1>6. t = << >> => Len(t) = 0
  OBVIOUS
<1> QED
  BY <1>2, <1>3, <1>4, <1>5, <1>6 DEF Owed, Chained, Rooted

\* A request that starts cold reads what the cache holds for it.
LEMMA ColdHonest ==
  ASSUME NEW Z, Zone(Z), Seats(Z.pool, Z.q), Honest(Z), NEW r \in Sessions, Bare(Z.q[r].table),
         NEW toks \in TokenLists, toks # << >>, NEW t \in Attaching(Z.pool, Admitted(toks)),
         NEW c, c = Attached(Admitted(toks), t),
         NEW Y, Y = [Z EXCEPT !.pool = AttachPool(@, t), !.q[r] = Attached(Admitted(toks), t)]
  PROVE  Honest(Y) /\ (c.table = << >> => c.parent = ROOT_HASH)
<1>1. Requests(Z.q) /\ Z.pool \in PoolOf(TokenLists)
  BY SeatsFacts DEF Seats
<1>2. PICK b : b = Admitted(toks)
  OBVIOUS
<1>3. IsRequest(b) /\ b.st = "active" /\ b.res = "none" /\ b.computed < Len(b.tokens)
  BY <1>2, ColdRequest
<1>4. Back(Y, Z, r, c) /\ c.res # "cpu"
  <2>1. /\ Back(Y, Z, r, Attached(Admitted(toks), t))
        /\ Attached(Admitted(toks), t).st = "active" /\ Attached(Admitted(toks), t).res # "cpu"
    BY ColdBack
  <2> QED
    BY <2>1
<1>5. /\ Y.q = [Z.q EXCEPT ![r] = c] /\ Y.kv = Z.kv /\ Y.pool = AttachPool(Z.pool, t) /\ Y.store = Z.store
      /\ Y.pend = Z.pend /\ SameBlocks(Y, Z)
  BY DEF Zone, SameBlocks
<1>6. Y.pool.cache = Z.pool.cache
  BY <1>5 DEF AttachPool, Incref
<1>7. ASSUME Tiered
      PROVE  Shelf(Y)
  <2>1. Z.lease.on => \A x \in DOMAIN Z.lease.man : Y.q[x].res = "cpu" => Z.q[x].res = "cpu"
    BY <1>1, <1>4, <1>5 DEF Requests
  <2> QED
    BY <1>5, <1>7, <2>1, ShelfSame DEF Honest
<1>8. ASSUME ~stale
      PROVE  Resident(Y)
  <2>1. \A e \in Z.pool.cache : Promise(Z.kv[e[2]], e[1])
    BY <1>8 DEF Honest, Resident
  <2>2. Owed(Z.kv, c)
    BY <1>1, <1>2, <1>3, <2>1, AttachedOwed
  <2> QED
    BY <1>1, <1>5, <1>6, <1>8, <2>1, <2>2 DEF Honest, Resident, Requests
<1>9. ASSUME ~stale
      PROVE  IF Tiered THEN InBlocks(Y) ELSE OnHost(Y)
  BY <1>5, <1>9 DEF Honest, InBlocks, OnHost, SameBlocks
<1>10. c.table = << >> => c.parent = ROOT_HASH
  BY <1>1, <1>2, <1>3, AttachedRoot
<1> QED
  BY <1>7, <1>8, <1>9, <1>10 DEF Honest

LEMMA NewTurnKeeps ==
  ASSUME OffloadInv, ContentInv, NEW r \in Sessions, NEW p \in Prompts, NewTurn(r, p)
  PROVE  ContentInv'
<1>1. /\ op.pc = "idle" /\ q[r].st = "gone" /\ UNCHANGED <<epoch, kv, weights, stale>> /\ UNCHANGED offloadVars
  BY DEF NewTurn, AddRequest
<1>2. PICK t \in Attaching(pool, Admitted(p)) :
        pool' = AttachPool(pool, t) /\ q' = [q EXCEPT ![r] = Attached(Admitted(p), t)]
  BY DEF NewTurn, AddRequest
<1>3. p \in TokenLists /\ p # << >>
  BY PromptsType
<1>4. Good(State, NoHold) /\ Honest(State) /\ State.q = q /\ State.pool = pool
  BY <1>1, StateHonest DEF State
<1>5. PICK Z : Z = State
  OBVIOUS
<1>6. Honest(Z) /\ Z.q = q /\ Z.pool = pool /\ Zone(Z) /\ Seats(Z.pool, Z.q) /\ Requests(Z.q)
  BY <1>4, <1>5, GoodQ
<1>7. Bare(Z.q[r].table) /\ t \in Attaching(Z.pool, Admitted(p))
  BY <1>1, <1>2, <1>6 DEF Requests, Placed, Bare
<1>8. PICK Y, c : Y = [Z EXCEPT !.pool = AttachPool(@, t), !.q[r] = Attached(Admitted(p), t)]
                  /\ c = Attached(Admitted(p), t)
  OBVIOUS
<1>9. Honest(Y) /\ (c.table = << >> => c.parent = ROOT_HASH)
  BY <1>3, <1>6, <1>7, <1>8, ColdHonest
<1>10. Y.q = q' /\ q' = [q EXCEPT ![r] = c] /\ DOMAIN q = Sessions
  BY <1>2, <1>6, <1>8 DEF Zone, Requests
<1>11. State' = Y
  <2>1. Y = [Z EXCEPT !.pool = AttachPool(pool, t), !.q = [q EXCEPT ![r] = c]]
    BY <1>6, <1>8 DEF Zone
  <2>2. Y = [State EXCEPT !.pool = pool', !.q = q']
    BY <1>2, <1>5, <1>8, <2>1
  <2> QED
    BY <1>1, <2>2 DEF State, offloadVars
<1>12. ~stale' => ~stale /\ ~StaleParent(Y.q)
  <2>1. ~stale => ~StaleParent(q)
    BY DEF ContentInv
  <2>2. StaleParent(Y.q) => StaleParent(q)
    BY <1>9, <1>10 DEF StaleParent
  <2> QED
    BY <1>1, <2>1, <2>2
<1>13. UNCHANGED <<cfg, weights, epoch>>
  BY <1>1 DEF offloadVars
<1> QED
  BY <1>9, <1>11, <1>12, <1>13, HonestNextAs

LEMMA RetryAdmissionKeeps ==
  ASSUME OffloadInv, ContentInv, RetryAdmission
  PROVE  ContentInv'
<1>1. op.pc = "retry" /\ UNCHANGED <<epoch, weights, cfg>>
  BY DEF RetryAdmission
<1>2. PICK K, h : K = State /\ h = op.hold
  OBVIOUS
<1>3. Good(K, h) /\ Honest(K) /\ Calm(K)
  BY <1>1, <1>2, StateKeeps
<1>4. CASE Become(State)
  BY <1>1, <1>2, <1>3, <1>4, HonestNext
<1>5. CASE LET r == op.for
               c == Admitted(q[r].tokens \o op.suffix)
               Z == Finished(State, {r})
           IN  \E t \in Attaching(Z.pool, c) :
                    Become([Z EXCEPT !.pool = AttachPool(@, t), !.q[r] = Attached(c, t)])
  <2>1. PICK r, S, Z, toks : r = op.for /\ S = {r} /\ Z = Finished(State, S) /\ toks = q[r].tokens \o op.suffix
    OBVIOUS
  <2>2. PICK t \in Attaching(Z.pool, Admitted(toks)) :
          Become([Z EXCEPT !.pool = AttachPool(@, t), !.q[r] = Attached(Admitted(toks), t)])
    BY <1>5, <2>1
  <2>4. r \in Parked /\ op.suffix \in TokenLists
    BY <1>1, <2>1 DEF OffloadInv, OpOK
  <2>5. r \in Sessions /\ S \in SUBSET Sessions /\ Requests(q)
    BY <2>1, <2>4, GoodState DEF Parked
  <2>6. toks \in TokenLists /\ toks # << >>
    <3>1. q[r].tokens \in TokenLists /\ q[r].computed < Len(q[r].tokens) /\ q[r].computed \in Nat
      BY <2>4, <2>5 DEF Requests, IsRequest, Placed, Parked
    <3>2. q[r].tokens # << >>
      <4>1. Len(q[r].tokens) \in Nat
        BY <3>1, LenProperties DEF TokenLists
      <4> QED
        BY <3>1, <4>1, EmptySeq
    <3> QED
      BY <2>1, <2>4, <3>1, <3>2, ConcatProperties DEF TokenLists
  <2>7. Good(Z, op.hold) /\ Calm(Z) /\ (Z.pend.on => Z.pend.meta.rid # r) /\ Z.q[r] = NoReq
    <3>1. Z = Finished(State, S) /\ op.pc # "save"
      BY <1>1, <2>1
    <3>2. /\ Good(Z, op.hold) /\ Calm(Z) /\ (Z.pend.on => Z.pend.meta.rid \notin S)
          /\ \A x \in S : Z.q[x] = NoReq
      BY <2>5, <3>1, FinishedIdle
    <3> QED
      BY <2>1, <3>2
  <2>8. Honest(Z) /\ Good(Z, NoHold) /\ Zone(Z) /\ Seats(Z.pool, Z.q) /\ Requests(Z.q)
    <3>1. Honest(Finished(K, S))
      BY <1>3, <2>5, FinishedHonest
    <3> QED
      BY <1>2, <2>1, <2>7, <3>1, ReleasedGood, GoodQ
  <2>9. PICK Y, c : Y = [Z EXCEPT !.pool = AttachPool(@, t), !.q[r] = Attached(Admitted(toks), t)]
                    /\ c = Attached(Admitted(toks), t)
    OBVIOUS
  <2>10. Back(Y, Z, r, c) /\ c.st = "active" /\ c.res # "cpu" /\ Honest(Y)
    <3>1. Bare(Z.q[r].table) /\ t \in Attaching(Z.pool, Admitted(toks))
      BY <2>2, <2>7 DEF NoReq, Bare
    <3>2. /\ Back(Y, Z, r, Attached(Admitted(toks), t))
          /\ Attached(Admitted(toks), t).st = "active" /\ Attached(Admitted(toks), t).res # "cpu"
      BY <2>5, <2>6, <2>8, <2>9, <3>1, ColdBack
    <3>3. Honest(Y)
      BY <2>5, <2>6, <2>8, <2>9, <3>1, ColdHonest
    <3> QED
      BY <2>9, <3>2, <3>3
  <2>11. Good(Y, NoHold)
    <3>1. Z.q[r].res # "cpu" /\ Z.q[r].st # "active"
      BY <2>7 DEF NoReq
    <3> QED
      BY <2>5, <2>7, <2>8, <2>10, <3>1, GoodBack DEF Calm
  <2>12. Become(Y)
    BY <2>2, <2>9
  <2> QED
    BY <1>1, <2>10, <2>11, <2>12, HonestNext
<1> QED
  BY <1>4, <1>5 DEF RetryAdmission

\* The stages of a turn of r as far as the pages go: a is r's request with what it attached,
\* s the table it has allocated, w the fresh blocks for those of s it shares and will write.
Runs(Q, r, a, PG, s, w) ==
  /\ Requests(Q) /\ r \in Sessions /\ TurnStart(Q, r, a) /\ TurnOwn(Q, r, a, PG, s, w)
  /\ s \in Seq(Blocks) /\ Len(s) = BlocksNeededFor(Len(a.tokens)) /\ Counts(PG, With(Q, r, s))
  /\ DOMAIN w \subseteq DOMAIN s /\ IsInjective(w) /\ Range(w) \subseteq PG.free
  /\ DOMAIN a.table \subseteq DOMAIN s /\ \A i \in DOMAIN a.table : s[i] = a.table[i]

LEMMA RunFacts ==
  ASSUME NEW Q, NEW r, NEW a, NEW PG, NEW s, NEW w, Runs(Q, r, a, PG, s, w), NEW d, d = TurnDone(a, s, w)
  PROVE  /\ d.table = CowTable(s, w) /\ d.table \in Seq(Blocks) /\ DOMAIN d.table = DOMAIN s
         /\ DOMAIN s = 1..Len(s) /\ Len(s) \in Nat /\ Len(d.table) = Len(s)
         /\ d.tokens = a.tokens /\ d.computed = Len(a.tokens) /\ d.published = a.published /\ d.parent = a.parent
         /\ a.tokens \in TokenLists /\ Len(a.tokens) \in Nat /\ a.computed \in Nat /\ a.computed < Len(a.tokens)
         /\ a.published \in Nat /\ a.table \in Seq(Blocks) /\ DOMAIN a.table = 1..Len(a.table)
         /\ Len(a.table) = BlocksNeededFor(a.computed) /\ Len(a.table) \in Nat
<1>1. IsRequest(a) /\ Placed(a) /\ a.computed < Len(a.tokens) /\ s \in Seq(Blocks)
  BY DEF Runs, TurnStart
<1>2. d.table \in Seq(Blocks) /\ Len(d.table) = Len(s)
  BY DEF Runs, TurnOwn
<1>3. /\ d.table = CowTable(s, w) /\ d.tokens = a.tokens /\ d.computed = Len(a.tokens) /\ d.published = a.published
      /\ d.parent = a.parent
  BY <1>1 DEF TurnDone, IsRequest
<1>4. DOMAIN d.table = DOMAIN s
  BY <1>3 DEF CowTable
<1>5. DOMAIN s = 1..Len(s) /\ Len(s) \in Nat
  BY <1>1, LenProperties
<1>6. a.tokens \in TokenLists /\ Len(a.tokens) \in Nat /\ a.computed \in Nat /\ a.published \in Nat /\ a.table \in Seq(Blocks)
  BY <1>1, LenProperties DEF IsRequest, TokenLists
<1>7. DOMAIN a.table = 1..Len(a.table) /\ Len(a.table) \in Nat /\ Len(a.table) = BlocksNeededFor(a.computed)
  BY <1>1, <1>6, LenProperties DEF Placed
<1> QED
  BY <1>1, <1>2, <1>3, <1>4, <1>5, <1>6, <1>7

\* Whoever has a block keeps it from the free list.
LEMMA HeldNotFree ==
  ASSUME NEW Q, Requests(Q), NEW r \in Sessions, NEW s \in Seq(Blocks), NEW P, Counts(P, With(Q, r, s))
  PROVE  /\ \A i \in DOMAIN s : s[i] \in Blocks /\ s[i] \notin P.free
         /\ \A x \in Sessions : x # r =>
              \A j \in DOMAIN Q[x].table : Q[x].table[j] \in Blocks /\ Q[x].table[j] \notin P.free
         /\ \A e \in P.cache : e[2] \in Blocks /\ e[2] \notin P.free
<1> DEFINE T == With(Q, r, s)
<1>1. T \in [Sessions -> Seq(Blocks)] /\ T[r] = s /\ \A x \in Sessions : x # r => T[x] = Q[x].table
  BY DEF With, Requests, IsRequest
<1>2. P \in PoolOf(TokenLists) /\ Exact(P, T) /\ IsFiniteSet(Sessions)
  BY ResidencyAssumption DEF Counts
<1> HIDE DEF T
<1>3. \A x \in Sessions : \A i \in DOMAIN T[x] : T[x][i] \in Blocks
  BY <1>1, ElementOfSeq, LenProperties
<1>4. ASSUME NEW b \in Blocks
      PROVE  /\ b \in P.free <=> P.ref[b] = 0
             /\ \A x \in Sessions : \A i \in DOMAIN T[x] : T[x][i] = b => P.ref[b] > 0
             /\ \A e \in P.cache : e[2] = b => P.ref[b] > 0
  BY <1>1, <1>2, ExactFacts
<1>5. \A x \in Sessions : \A i \in DOMAIN T[x] : T[x][i] \notin P.free
  BY <1>3, <1>4
<1>6. \A e \in P.cache : e[2] \in Blocks
  BY <1>2 DEF PoolOf
<1> QED
  BY <1>1, <1>3, <1>4, <1>5, <1>6

\* A block the turn writes is in one slot of r only.
LEMMA WrittenApart ==
  ASSUME NEW Q, NEW r, NEW a, NEW PG, NEW s, NEW w, Runs(Q, r, a, PG, s, w), NEW d, d = TurnDone(a, s, w),
         NEW p \in a.computed + 1 .. Len(a.tokens)
  PROVE  /\ p \in Nat /\ p > 0 /\ BlockIndex(p) \in DOMAIN d.table
         /\ \A i \in DOMAIN d.table : d.table[i] = d.table[BlockIndex(p)] => i = BlockIndex(p)
         /\ \A x \in Sessions : x # r => \A j \in DOMAIN Q[x].table : Q[x].table[j] # d.table[BlockIndex(p)]
         /\ \A e \in PG.cache : e[2] # d.table[BlockIndex(p)]
<1> DEFINE O == CowPool(PG, s, w)
           T == With(Q, r, d.table)
           i == BlockIndex(p)
<1>1. d.table \in Seq(Blocks) /\ DOMAIN d.table = DOMAIN s /\ Len(a.tokens) \in Nat /\ a.computed \in Nat
  BY RunFacts
<1>2. p \in Nat /\ p > 0 /\ a.computed + 1 \in Nat /\ a.computed + 1 > 0 /\ a.computed + 1 <= p /\ p <= Len(a.tokens)
  BY <1>1
<1>3. i \in BlockIndex(a.computed + 1)..BlockIndex(Len(a.tokens))
  <2>1. i \in Nat /\ BlockIndex(a.computed + 1) \in Nat /\ BlockIndex(Len(a.tokens)) \in Nat
    BY <1>1, <1>2, PositionSplit
  <2>2. BlockIndex(a.computed + 1) <= i
    BY <1>2, LaterIndex
  <2>3. i <= BlockIndex(Len(a.tokens))
    BY <1>1, <1>2, LaterIndex
  <2> HIDE DEF i
  <2> QED
    BY <2>1, <2>2, <2>3
<1>4. /\ Counts(O, T) /\ O.cache = PG.cache /\ i \in DOMAIN s /\ O.ref[d.table[i]] = 1
      /\ Requests(Q) /\ r \in Sessions
  <2> HIDE DEF i
  <2> QED
    BY <1>3 DEF Runs, TurnOwn
<1>5. T \in [Sessions -> Seq(Blocks)] /\ T[r] = d.table /\ \A x \in Sessions : x # r => T[x] = Q[x].table
  BY <1>1, <1>4 DEF With, Requests, IsRequest
<1>6. O \in PoolOf(TokenLists) /\ Exact(O, T) /\ IsFiniteSet(Sessions)
  BY <1>4, ResidencyAssumption DEF Counts
<1>7. d.table[i] \in Blocks /\ i \in DOMAIN d.table
  <2> HIDE DEF i
  <2> QED
    BY <1>1, <1>4, ElementOfSeq, LenProperties
<1>8. /\ \A e \in O.cache : e[2] # d.table[i]
      /\ \A x \in Sessions : \A j \in DOMAIN T[x] : T[x][j] = d.table[i] => x = r /\ j = i
  <2> HIDE DEF i, O, T
  <2> QED
    BY <1>4, <1>5, <1>6, <1>7, TwoReferences
<1> HIDE DEF i, T, O
<1> QED
  BY <1>2, <1>4, <1>5, <1>7, <1>8 DEF i

\* The copy on write keeps what there is to read.
LEMMA CowedPages ==
  ASSUME NEW Q, NEW r, NEW a, NEW PG, NEW s, NEW w, Runs(Q, r, a, PG, s, w), NEW d, d = TurnDone(a, s, w),
         NEW k, NEW c, c = CowPages(k, s, w)
  PROVE  /\ \A i \in DOMAIN s : c[d.table[i]] = k[s[i]]
         /\ \A x \in Sessions : x # r => \A j \in DOMAIN Q[x].table : c[Q[x].table[j]] = k[Q[x].table[j]]
         /\ \A e \in PG.cache : c[e[2]] = k[e[2]]
<1>1. /\ \A i \in DOMAIN s : s[i] \in Blocks /\ s[i] \notin PG.free
      /\ \A x \in Sessions : x # r =>
           \A j \in DOMAIN Q[x].table : Q[x].table[j] \in Blocks /\ Q[x].table[j] \notin PG.free
      /\ \A e \in PG.cache : e[2] \in Blocks /\ e[2] \notin PG.free
  BY HeldNotFree DEF Runs
<1>2. Range(w) \subseteq PG.free /\ IsInjective(w) /\ DOMAIN w \subseteq DOMAIN s
  BY DEF Runs
<1>3. \A b \in Blocks : b \notin PG.free => c[b] = k[b]
  BY <1>2 DEF CowPages
<1>4. d.table = CowTable(s, w) /\ d.table \in Seq(Blocks) /\ DOMAIN d.table = DOMAIN s
  BY RunFacts
<1>5. ASSUME NEW i \in DOMAIN s
      PROVE  c[d.table[i]] = k[s[i]]
  <2>1. CASE i \notin DOMAIN w
    BY <1>1, <1>3, <1>4, <2>1 DEF CowTable
  <2>2. CASE i \in DOMAIN w
    <3>1. d.table[i] = w[i] /\ w[i] \in Range(w) /\ d.table[i] \in Blocks
      BY <1>4, <2>2, ElementOfSeq, LenProperties DEF CowTable, Range
    <3>2. (CHOOSE j \in DOMAIN w : w[j] = w[i]) = i
      BY <1>2, <2>2 DEF IsInjective
    <3> QED
      BY <3>1, <3>2 DEF CowPages
  <2> QED
    BY <2>1, <2>2
<1> QED
  BY <1>1, <1>3, <1>5

\* The pages c once the turn has written its tokens into the table of d.
RunPages(c, d, a) == Computed(c, d.table, a.tokens, a.computed, Len(a.tokens))
SamePage(k, c, b) == \A o \in Offsets : k[b][o] = c[b][o]

LEMMA RunUntouched ==
  ASSUME NEW Q, NEW r, NEW a, NEW PG, NEW s, NEW w, Runs(Q, r, a, PG, s, w), NEW d, d = TurnDone(a, s, w),
         NEW c, NEW k, k = RunPages(c, d, a)
  PROVE  /\ \A x \in Sessions : x # r => \A j \in DOMAIN Q[x].table : SamePage(k, c, Q[x].table[j])
         /\ \A e \in PG.cache : SamePage(k, c, e[2])
<1>1. ASSUME NEW b \in Blocks, \A p \in a.computed + 1 .. Len(a.tokens) : d.table[BlockIndex(p)] # b
      PROVE  SamePage(k, c, b)
  BY <1>1 DEF SamePage, RunPages, Computed
<1>2. /\ \A x \in Sessions : x # r => \A j \in DOMAIN Q[x].table : Q[x].table[j] \in Blocks
      /\ \A e \in PG.cache : e[2] \in Blocks
  BY HeldNotFree DEF Runs
<1>3. ASSUME NEW x \in Sessions, x # r, NEW j \in DOMAIN Q[x].table
      PROVE  SamePage(k, c, Q[x].table[j])
  <2>1. \A p \in a.computed + 1 .. Len(a.tokens) : d.table[BlockIndex(p)] # Q[x].table[j]
    BY <1>3, WrittenApart
  <2> QED
    BY <1>1, <1>2, <1>3, <2>1
<1>4. ASSUME NEW e \in PG.cache
      PROVE  SamePage(k, c, e[2])
  <2>1. \A p \in a.computed + 1 .. Len(a.tokens) : d.table[BlockIndex(p)] # e[2]
    BY WrittenApart
  <2> QED
    BY <1>1, <1>2, <2>1
<1> QED
  BY <1>3, <1>4

\* What was computed and what has been written make up the history.
LEMMA RunOwn ==
  ASSUME NEW Q, NEW r, NEW a, NEW PG, NEW s, NEW w, Runs(Q, r, a, PG, s, w), NEW d, d = TurnDone(a, s, w),
         NEW c, NEW k, k = RunPages(c, d, a),
         \A i \in DOMAIN a.table : Through(c[d.table[i]], a.tokens, a.computed, i), NEW i \in DOMAIN d.table
  PROVE  Through(k[d.table[i]], a.tokens, Len(a.tokens), i)
<1>1. /\ d.table \in Seq(Blocks) /\ DOMAIN d.table = 1..Len(s) /\ Len(s) \in Nat
      /\ Len(a.tokens) \in Nat /\ a.computed \in Nat /\ a.computed < Len(a.tokens)
      /\ DOMAIN a.table = 1..Len(a.table) /\ Len(a.table) = BlocksNeededFor(a.computed) /\ Len(a.table) \in Nat
  BY RunFacts
<1>2. i \in Nat \ {0} /\ d.table[i] \in Blocks
  BY <1>1, ElementOfSeq, LenProperties
<1>3. PICK n : n = Len(a.tokens)
  OBVIOUS
<1>4. ASSUME NEW o \in Offsets, NEW p, p = (i - 1) * BlockSize + o, p <= n
      PROVE  k[d.table[i]][o] = Cell(weights, a.tokens, p)
  <2>1. p \in Nat /\ p > 0 /\ BlockIndex(p) = i /\ Offset(p) = o
    <3>1. PICK m \in Nat : m = i - 1
      BY <1>2
    <3>2. m * BlockSize \in Nat /\ o \in Nat /\ o > 0
      BY <3>1, BlockSizeAssumption DEF Offsets
    <3>3. BlockIndex(m * BlockSize + o) = m + 1 /\ Offset(m * BlockSize + o) = o
      BY SlotPosition
    <3>4. m + 1 = i
      BY <1>2, <3>1
    <3>5. p = m * BlockSize + o
      BY <1>4, <3>1
    <3> QED
      BY <3>2, <3>3, <3>4, <3>5
  <2>2. PICK W : W = {x \in a.computed + 1 .. Len(a.tokens) : d.table[BlockIndex(x)] = d.table[i] /\ Offset(x) = o}
    OBVIOUS
  <2>3. k[d.table[i]][o] = IF W = {} THEN c[d.table[i]][o] ELSE Cell(weights, a.tokens, CHOOSE x \in W : TRUE)
    BY <1>2, <2>2 DEF RunPages, Computed
  <2>4. ASSUME NEW x \in W
        PROVE  x = p
    <3>1. x \in a.computed + 1 .. Len(a.tokens) /\ d.table[BlockIndex(x)] = d.table[i] /\ Offset(x) = o
      BY <2>2
    <3>2. x \in Nat /\ x > 0 /\ i = BlockIndex(x)
      BY <3>1, WrittenApart
    <3> QED
      BY <2>1, <3>1, <3>2, PositionsApart
  <2>5. CASE p > a.computed
    <3>1. p \in W
      BY <1>1, <1>3, <1>4, <2>1, <2>2, <2>5
    <3>2. W = {p}
      BY <2>4, <3>1
    <3> QED
      BY <2>3, <3>2
  <2>6. CASE ~(p > a.computed)
    <3>1. p \notin W
      BY <1>1, <2>1, <2>2, <2>6
    <3>2. W = {}
      BY <2>4, <3>1
    <3>3. p <= a.computed /\ a.computed > 0
      BY <1>1, <2>1, <2>6
    <3>4. BlockIndex(p) <= BlockIndex(a.computed)
      BY <1>1, <2>1, <3>3, LaterIndex
    <3>5. BlockIndex(a.computed) = Len(a.table)
      BY <1>1, <3>3, NeededFor
    <3>6. i \in DOMAIN a.table
      BY <1>1, <1>2, <2>1, <3>4, <3>5
    <3>7. Through(c[d.table[i]], a.tokens, a.computed, i)
      BY <3>6
    <3>8. c[d.table[i]][o] = Cell(weights, a.tokens, p)
      BY <1>4, <3>3, <3>7 DEF Through
    <3> QED
      BY <2>3, <3>2, <3>8
  <2> QED
    BY <2>5, <2>6
<1> QED
  BY <1>3, <1>4 DEF Through

\* The hash of a block goes on from the blocks before it.
LEMMA RootedHash ==
  ASSUME NEW d, IsRequest(d), Rooted(d), NEW i \in Nat, i > d.published, i <= FullBlocks(d)
  PROVE  /\ PublishHash(d, i) = SubSeq(d.tokens, 1, i * BlockSize)
         /\ i * BlockSize \in Nat /\ i * BlockSize <= d.computed /\ i * BlockSize <= Len(d.tokens)
<1>1. /\ d.published \in Nat /\ d.computed \in Nat /\ d.tokens \in Seq(Tokens) /\ Len(d.tokens) \in Nat
  BY LenProperties DEF IsRequest, TokenLists
<1>2. d.published * BlockSize \in Nat /\ i * BlockSize \in Nat /\ d.published * BlockSize <= i * BlockSize
  BY <1>1, BlockSizeAssumption
<1>3. i * BlockSize <= Len(d.tokens) /\ i * BlockSize <= d.computed
  BY FullBlocksBound
<1>4. SubSeq(d.tokens, 1, d.published * BlockSize) \o SubSeq(d.tokens, d.published * BlockSize + 1, i * BlockSize)
      = SubSeq(d.tokens, 1, i * BlockSize)
  BY <1>1, <1>2, <1>3, SubSeqJoin
<1> QED
  BY <1>2, <1>3, <1>4 DEF Rooted, PublishHash, BlockHash

LEMMA PublishedRooted ==
  ASSUME NEW d, IsRequest(d), Rooted(d)
  PROVE  LET e == Published(d)
         IN  e.parent = SubSeq(d.tokens, 1, e.published * BlockSize) /\ e.published * BlockSize <= d.computed
<1>1. FullBlocks(d) \in Nat
  BY FullBlocksBound
<1>2. CASE PrefixCaching /\ d.published < FullBlocks(d)
  <2>1. Published(d).published = FullBlocks(d) /\ Published(d).parent = PublishHash(d, FullBlocks(d))
    BY <1>2 DEF Published, IsRequest
  <2>2. PublishHash(d, FullBlocks(d)) = SubSeq(d.tokens, 1, FullBlocks(d) * BlockSize) /\ FullBlocks(d) * BlockSize <= d.computed
    <3>1. PICK i : i = FullBlocks(d)
      OBVIOUS
    <3>2. i \in Nat /\ i > d.published /\ i <= FullBlocks(d)
      BY <1>1, <1>2, <3>1 DEF IsRequest
    <3> QED
      BY <3>1, <3>2, RootedHash
  <2> QED
    BY <2>1, <2>2
<1>3. CASE ~(PrefixCaching /\ d.published < FullBlocks(d))
  BY <1>3 DEF Published, Rooted
<1> QED
  BY <1>2, <1>3

\* What is published under a hash is what the hash promises.
LEMMA NewCopiesPromise ==
  ASSUME NEW d, IsRequest(d), PrefixCaching => Rooted(d), d.computed <= Len(d.tokens), NEW k,
         \A i \in DOMAIN d.table : Through(k[d.table[i]], d.tokens, d.computed, i), NEW e \in NewCopies(d)
  PROVE  Promise(k[e[2]], e[1])
<1>1. PrefixCaching /\ Rooted(d)
  BY DEF NewCopies
<1>2. PICK i \in d.published + 1 .. FullBlocks(d) : e = <<PublishHash(d, i), d.table[i]>>
  BY <1>1 DEF NewCopies
<1>3. /\ d.published \in Nat /\ d.computed \in Nat /\ d.tokens \in TokenLists /\ d.table \in Seq(Blocks)
      /\ DOMAIN d.table = 1..Len(d.table) /\ Len(d.table) \in Nat
  BY LenProperties DEF IsRequest
<1>4. FullBlocks(d) \in Nat /\ FullBlocks(d) <= Len(d.table)
  BY FullBlocksBound
<1>5. i \in Nat \ {0} /\ i > d.published /\ i <= FullBlocks(d) /\ i \in DOMAIN d.table
  BY <1>3, <1>4
<1>6. PICK h, b : h = PublishHash(d, i) /\ b = d.table[i]
  OBVIOUS
<1>7. h = SubSeq(d.tokens, 1, i * BlockSize) /\ i * BlockSize <= d.computed
  BY <1>1, <1>5, <1>6, RootedHash
<1>8. Through(k[b], d.tokens, d.computed, i)
  BY <1>5, <1>6
<1>9. Promise(k[b], h)
  BY <1>3, <1>5, <1>7, <1>8, ThroughPromised
<1> QED
  BY <1>2, <1>6, <1>9

LEMMA OwedAlike ==
  ASSUME NEW k, NEW c, NEW d, Owed(k, d), \A i \in DOMAIN d.table : SamePage(c, k, d.table[i])
  PROVE  Owed(c, d)
BY DEF Owed, Through, SamePage

\* The request as the turn leaves it: it has computed what it had, and one token more to go.
Ends(d, f, tok) ==
  LET e == Published(d)
  IN  /\ f.table = d.table /\ f.tokens = Append(d.tokens, tok) /\ f.computed = d.computed
      /\ f.published = e.published /\ f.parent = e.parent

LEMMA EndOwed ==
  ASSUME NEW d, IsRequest(d), PrefixCaching => Rooted(d), d.computed <= Len(d.tokens), d.table # << >>, NEW k,
         \A i \in DOMAIN d.table : Through(k[d.table[i]], d.tokens, d.computed, i),
         NEW tok \in Tokens, NEW f, Ends(d, f, tok)
  PROVE  Owed(k, f)
<1>1. /\ d.published \in Nat /\ d.computed \in Nat /\ d.tokens \in Seq(Tokens) /\ Len(d.tokens) \in Nat
      /\ d.table \in Seq(Blocks) /\ DOMAIN d.table = 1..Len(d.table) /\ Len(d.table) \in Nat
  BY LenProperties DEF IsRequest, TokenLists
<1>2. PICK u : u = Append(d.tokens, tok)
  OBVIOUS
<1>3. u \in Seq(Tokens) /\ \A j \in 1..Len(d.tokens) : d.tokens[j] = u[j]
  BY <1>1, <1>2, AppendProperties
<1>4. f.table = d.table /\ f.tokens = u /\ f.computed = d.computed
  BY <1>2 DEF Ends
<1>5. ASSUME NEW i \in DOMAIN f.table
      PROVE  Through(k[f.table[i]], f.tokens, f.computed, i)
  <2>1. i \in Nat \ {0} /\ Through(k[d.table[i]], d.tokens, d.computed, i)
    BY <1>1, <1>4
  <2>2. \A j \in 1..d.computed : d.tokens[j] = u[j]
    BY <1>1, <1>3
  <2> QED
    BY <1>1, <1>3, <1>4, <2>1, <2>2, ThroughLonger
<1>6. ASSUME PrefixCaching
      PROVE  Chained(f)
  <2>1. PICK n, h : n = f.published /\ h = f.parent
    OBVIOUS
  <2>2. h = SubSeq(d.tokens, 1, n * BlockSize) /\ n * BlockSize <= d.computed /\ n \in Nat
    <3>1. LET e == Published(d)
          IN  e.parent = SubSeq(d.tokens, 1, e.published * BlockSize) /\ e.published * BlockSize <= d.computed
      BY <1>6, PublishedRooted, Zenon
    <3>2. n = Published(d).published /\ h = Published(d).parent
      BY <2>1 DEF Ends
    <3>3. n \in Nat
      BY <3>2, FullBlocksBound DEF Published, IsRequest
    <3> QED
      BY <3>1, <3>2, <3>3
  <2>3. n * BlockSize \in Nat /\ n * BlockSize <= Len(d.tokens)
    BY <1>1, <2>2, BlockSizeAssumption
  <2>4. \A j \in 1..n * BlockSize : d.tokens[j] = u[j]
    BY <1>1, <1>3, <2>3
  <2>5. SubSeq(d.tokens, 1, n * BlockSize) = SubSeq(u, 1, n * BlockSize)
    <3>1. PICK m \in Nat : m = n * BlockSize
      BY <2>3
    <3>2. \A p \in 1..m : SubSeq(d.tokens, 1, p) = SubSeq(u, 1, p)
      BY <1>1, <1>3, <2>4, <3>1, SamePrefixes
    <3>3. CASE m = 0
      BY <3>1, <3>3
    <3>4. CASE m # 0
      <4>1. m \in 1..m
        BY <3>1, <3>4
      <4> QED
        BY <3>1, <3>2, <4>1
    <3> QED
      BY <3>3, <3>4
  <2> QED
    BY <1>4, <2>1, <2>2, <2>5 DEF Chained
<1> QED
  BY <1>5, <1>6 DEF Owed

\* Everybody's pages after the turn.
LEMMA RunResident ==
  ASSUME NEW Q, NEW r, NEW a, NEW PG, NEW s, NEW w, Runs(Q, r, a, PG, s, w), NEW d, d = TurnDone(a, s, w),
         IsRequest(d), NEW k, \A x \in Sessions : Owed(k, Q[x]), Owed(k, a), PrefixCaching => Rooted(a),
         \A e \in PG.cache : Promise(k[e[2]], e[1]), NEW tok \in Tokens, NEW f, Ends(d, f, tok),
         NEW kk, kk = RunPages(CowPages(k, s, w), d, a)
  PROVE  /\ \A x \in Sessions : x # r => Owed(kk, Q[x])
         /\ Owed(kk, f)
         /\ \A e \in PG.cache \union NewCopies(d) : Promise(kk[e[2]], e[1])
<1>1. PICK c : c = CowPages(k, s, w)
  OBVIOUS
<1>2. /\ \A i \in DOMAIN s : c[d.table[i]] = k[s[i]]
      /\ \A x \in Sessions : x # r => \A j \in DOMAIN Q[x].table : c[Q[x].table[j]] = k[Q[x].table[j]]
      /\ \A e \in PG.cache : c[e[2]] = k[e[2]]
  BY <1>1, CowedPages
<1>3. /\ \A x \in Sessions : x # r => \A j \in DOMAIN Q[x].table : SamePage(kk, c, Q[x].table[j])
      /\ \A e \in PG.cache : SamePage(kk, c, e[2])
  BY <1>1, RunUntouched
<1>4. ASSUME NEW x \in Sessions, x # r
      PROVE  Owed(kk, Q[x])
  <2>1. PICK b : b = Q[x]
    OBVIOUS
  <2>2. Owed(k, b) /\ \A j \in DOMAIN b.table : SamePage(kk, k, b.table[j])
    BY <1>2, <1>3, <1>4, <2>1 DEF SamePage
  <2> QED
    BY <2>1, <2>2, OwedAlike
<1>5. /\ d.table \in Seq(Blocks) /\ DOMAIN d.table = DOMAIN s /\ Len(d.table) = Len(s) /\ d.tokens = a.tokens
      /\ d.computed = Len(a.tokens) /\ d.published = a.published /\ d.parent = a.parent
      /\ Len(a.tokens) \in Nat /\ a.computed \in Nat /\ a.computed < Len(a.tokens) /\ a.published \in Nat
  BY RunFacts
<1>6. \A i \in DOMAIN a.table : Through(c[d.table[i]], a.tokens, a.computed, i)
  BY <1>2 DEF Runs, Owed
<1>7. \A i \in DOMAIN d.table : Through(kk[d.table[i]], d.tokens, d.computed, i)
  BY <1>1, <1>5, <1>6, RunOwn
<1>8. PrefixCaching => Rooted(d)
  <2>1. PICK n, m : n = a.published * BlockSize /\ m = Len(a.tokens)
    OBVIOUS
  <2>2. n \in Nat /\ m \in Nat
    BY <1>5, <2>1, BlockSizeAssumption
  <2>3. Rooted(a) => n <= m
    BY <1>5, <2>1, <2>2 DEF Rooted
  <2> QED
    BY <1>5, <2>1, <2>3 DEF Rooted
<1>9. d.table # << >> /\ d.computed <= Len(d.tokens)
  <2>1. Len(s) = BlocksNeededFor(Len(a.tokens))
    BY DEF Runs
  <2>2. BlocksNeededFor(Len(a.tokens)) > 0
    <3>1. PICK n \in Nat : n = Len(a.tokens) /\ n > 0
      BY <1>5
    <3> QED
      BY <3>1, NeededFor
  <2> QED
    BY <1>5, <2>1, <2>2, EmptySeq
<1>10. Owed(kk, f)
  BY <1>7, <1>8, <1>9, EndOwed
<1>11. ASSUME NEW e \in PG.cache
       PROVE  Promise(kk[e[2]], e[1])
  BY <1>2, <1>3 DEF Promise, SamePage
<1>12. ASSUME NEW e \in NewCopies(d)
       PROVE  Promise(kk[e[2]], e[1])
  BY <1>7, <1>8, <1>9, NewCopiesPromise
<1> QED
  BY <1>4, <1>10, <1>11, <1>12

TurnRuns(P, Q, r, t, V, g, w) ==
  LET a  == TurnRequest(Q[r], t)
      PG == AllocBlocks(EvictUnused(TurnAttached(P, Q[r], t), V), g)
  IN  Runs(Q, r, a, PG, a.table \o g, w) /\ PG.cache \subseteq P.cache

LEMMA TurnRunning ==
  ASSUME NEW P, NEW Q, Seats(P, Q), NEW r \in Sessions, Q[r].st = "active",
         NEW tok, NEW T, NEW t, NEW V, NEW g, NEW w, TurnFrom(P, Q[r], tok, T, t, V, g, w)
  PROVE  TurnRuns(P, Q, r, t, V, g, w)
<1>0. PICK a, PG, s : /\ a = TurnRequest(Q[r], t) /\ PG = AllocBlocks(EvictUnused(TurnAttached(P, Q[r], t), V), g)
                      /\ s = a.table \o g
  <2>1. PICK a : a = TurnRequest(Q[r], t)
    OBVIOUS
  <2> QED
    BY <2>1
<1>1. PICK PE : PE = EvictUnused(TurnAttached(P, Q[r], t), V)
  OBVIOUS
<1>2. TurnStart(Q, r, a) /\ TurnGrown(P, Q, r, a, PE, g) /\ TurnOwn(Q, r, a, PG, s, w)
  <2>1. TurnStages(P, Q, r, T, t, V, g, w)
    BY TurnStaged
  <2> QED
    BY <1>0, <1>1, <2>1 DEF TurnStages
<1>3. PG = AllocBlocks(PE, g)
  BY <1>0, <1>1
<1>4. /\ s \in Seq(Blocks) /\ g \in Seq(Blocks) /\ Len(s) = BlocksNeededFor(Len(a.tokens))
      /\ Counts(PG, With(Q, r, s)) /\ PG.cache = PE.cache /\ PE.cache \subseteq P.cache
  BY <1>0, <1>2, <1>3 DEF TurnGrown
<1>5. w \in Fresh(PG, SharedSpan(PG, s, a.computed, TurnTokens(a)))
  BY <1>0 DEF TurnFrom
<1>6. IsInjective(w) /\ Range(w) \subseteq PG.free /\ DOMAIN w = SharedSpan(PG, s, a.computed, TurnTokens(a))
  BY <1>5 DEF Fresh, Range
<1>7. DOMAIN w \subseteq DOMAIN s
  <2>1. a.computed + TurnTokens(a) = Len(a.tokens)
    <3>1. a.computed \in Nat /\ Len(a.tokens) \in Nat
      BY <1>2, LenProperties DEF TurnStart, IsRequest, TokenLists
    <3> QED
      BY <3>1 DEF TurnTokens
  <2>2. DOMAIN w \subseteq BlockIndex(a.computed + 1)..BlockIndex(Len(a.tokens))
    BY <1>6, <2>1 DEF SharedSpan
  <2> QED
    BY <1>2, <2>2 DEF TurnOwn
<1>8. a.table \in Seq(Blocks) /\ DOMAIN a.table \subseteq DOMAIN s /\ \A i \in DOMAIN a.table : s[i] = a.table[i]
  <2>1. a.table \in Seq(Blocks)
    BY <1>2 DEF TurnStart, IsRequest
  <2> QED
    BY <1>0, <1>4, <2>1, ConcatProperties, LenProperties
<1>9. Requests(Q)
  BY DEF Seats
<1>10. Runs(Q, r, a, PG, s, w) /\ PG.cache \subseteq P.cache
  BY <1>2, <1>4, <1>6, <1>7, <1>8, <1>9 DEF Runs
<1> QED
  BY <1>0, <1>10 DEF TurnRuns

\* What a turn starts from: what its request has, or what it attaches from the cache.
LEMMA TurnOwed ==
  ASSUME NEW P, NEW Q, Seats(P, Q), NEW r \in Sessions, Q[r].st = "active", ~StaleParent(Q),
         NEW t \in Reattached(P, Q[r]), NEW k, Owed(k, Q[r]), \A e \in P.cache : Promise(k[e[2]], e[1]),
         NEW a, a = TurnRequest(Q[r], t)
  PROVE  Owed(k, a) /\ (PrefixCaching => Rooted(a))
<1>1. PICK c : c = Q[r]
  OBVIOUS
<1>2. IsRequest(c) /\ Placed(c) /\ c.st = "active" /\ c.res # "cpu" /\ c.computed < Len(c.tokens)
      /\ P \in PoolOf(TokenLists)
  BY <1>1, SeatsFacts DEF Requests, Placed
<1>3. CASE t = c.table
  <2>1. a = c
    BY <1>1, <1>3 DEF TurnRequest
  <2>2. ASSUME PrefixCaching, c.table = << >>
        PROVE  Rooted(c)
    <3>1. c.parent = ROOT_HASH
      BY <1>1, <1>2, <2>2 DEF StaleParent
    <3>2. c.published = 0
      BY <1>1, <2>2, <3>1 DEF Owed, Chained
    <3>3. 0 * BlockSize = 0 /\ SubSeq(c.tokens, 1, 0) = << >> /\ c.computed \in Nat
      BY <1>2, BlockSizeAssumption DEF IsRequest
    <3> QED
      BY <3>1, <3>2, <3>3 DEF Rooted, ROOT_HASH
  <2>3. ASSUME PrefixCaching, c.table # << >>
        PROVE  Rooted(c)
    BY <1>1, <2>3 DEF Owed, Chained, Rooted
  <2> QED
    BY <1>1, <2>1, <2>2, <2>3
<1>4. CASE t # c.table
  <2>1. t \in Attaching(P, c) /\ a = Attached(c, t)
    BY <1>1, <1>4 DEF Reattached, TurnRequest
  <2> QED
    BY <1>2, <2>1, AttachedOwed, AttachedRoot
<1> QED
  BY <1>3, <1>4

\* A turn leaves every page what it is taken for.
LEMMA TurnResident ==
  ASSUME NEW P, NEW Q, Seats(P, Q), NEW r \in Sessions, Q[r].st = "active", ~StaleParent(Q),
         NEW tok \in Sampled, NEW T, NEW t, NEW V, NEW g, NEW w, TurnFrom(P, Q[r], tok, T, t, V, g, w),
         \A x \in Sessions : Owed(kv, Q[x]), \A e \in P.cache : Promise(kv[e[2]], e[1]),
         NEW f, f = [T.q EXCEPT !.st = "parked"]
  PROVE  /\ \A x \in Sessions : x # r => Owed(T.kv, Q[x])
         /\ Owed(T.kv, f)
         /\ \A e \in T.pool.cache : Promise(T.kv[e[2]], e[1])
<1>1. PICK a, PG, s, d : /\ a = TurnRequest(Q[r], t) /\ PG = AllocBlocks(EvictUnused(TurnAttached(P, Q[r], t), V), g)
                         /\ s = a.table \o g /\ d = TurnDone(a, s, w)
  <2>1. PICK a : a = TurnRequest(Q[r], t)
    OBVIOUS
  <2>2. PICK s : s = a.table \o g
    OBVIOUS
  <2> QED
    BY <2>1, <2>2
<1>2. Runs(Q, r, a, PG, s, w) /\ PG.cache \subseteq P.cache
  <2>1. TurnRuns(P, Q, r, t, V, g, w)
    BY TurnRunning
  <2> QED
    BY <1>1, <2>1 DEF TurnRuns
<1>3. t \in Reattached(P, Q[r])
  BY DEF TurnFrom
<1>4. Owed(kv, a) /\ (PrefixCaching => Rooted(a))
  BY <1>1, <1>3, TurnOwed
<1>5. /\ T.pool = PublishPool(CowPool(PG, s, w), d) /\ T.q = [Published(d) EXCEPT !.tokens = Append(@, tok)]
      /\ T.kv = Computed(CowPages(kv, s, w), d.table, a.tokens, a.computed, Len(a.tokens))
  BY <1>1 DEF TurnFrom
<1>6. TurnResult(Q, r, tok, T, a, d)
  <2>1. LET b == TurnRequest(Q[r], t)
        IN  /\ TurnResult(Q, r, tok, T, b, TurnDone(b, b.table \o g, w))
            /\ Seats(T.pool, [Q EXCEPT ![r] = [T.q EXCEPT !.st = "parked"]])
    BY TurnSeats, Zenon
  <2> QED
    BY <1>1, <2>1
<1>7. IsRequest(d) /\ d.tokens = a.tokens /\ d.computed = Len(a.tokens)
  BY <1>6 DEF TurnResult
<1>8. Ends(d, f, tok)
  <2>1. PICK e : e = Published(d)
    OBVIOUS
  <2>2. DOMAIN e = DOMAIN d /\ e.tokens = d.tokens /\ e.table = d.table /\ e.computed = d.computed
    BY <1>7, <2>1 DEF Published, IsRequest
  <2>3. T.q = [e EXCEPT !.tokens = Append(d.tokens, tok)]
    BY <1>5, <1>7, <2>1, <2>2 DEF IsRequest
  <2>4. /\ DOMAIN f = DOMAIN e /\ f.tokens = Append(d.tokens, tok) /\ f.table = e.table /\ f.computed = e.computed
        /\ f.published = e.published /\ f.parent = e.parent
    BY <1>7, <2>2, <2>3 DEF IsRequest
  <2> QED
    BY <2>1, <2>2, <2>4 DEF Ends
<1>9. \A e \in PG.cache : Promise(kv[e[2]], e[1])
  BY <1>2
<1>10. T.kv = RunPages(CowPages(kv, s, w), d, a)
  BY <1>5 DEF RunPages
<1>11. tok \in Tokens
  BY DEF Tokens
<1>12. /\ \A x \in Sessions : x # r => Owed(T.kv, Q[x])
       /\ Owed(T.kv, f)
       /\ \A e \in PG.cache \union NewCopies(d) : Promise(T.kv[e[2]], e[1])
  BY <1>1, <1>2, <1>4, <1>7, <1>8, <1>9, <1>10, <1>11, RunResident
<1>13. T.pool.cache = PG.cache \union NewCopies(d)
  <2>1. PICK O : O = CowPool(PG, s, w)
    OBVIOUS
  <2>2. Counts(O, With(Q, r, d.table)) /\ O.cache = PG.cache /\ Requests(Q)
    BY <1>1, <1>2, <2>1 DEF Runs, TurnOwn
  <2>3. PublishPool(O, d).cache = O.cache \union NewCopies(d)
    BY <1>7, <2>2, PublishCounts
  <2> QED
    BY <1>5, <2>1, <2>2, <2>3
<1> QED
  BY <1>12, <1>13

LEMMA RunTurnKeeps ==
  ASSUME OffloadInv, ContentInv, NEW r \in Sessions, NEW tok \in Sampled, RunTurn(r, tok)
  PROVE  ContentInv'
<1>1. op.pc = "step" /\ r \in Active /\ UNCHANGED <<epoch, fatal, weights, cfg>>
  BY DEF RunTurn
<1>2. Good(State, NoHold) /\ Calm(State) /\ State.q = q /\ State.pool = pool
  BY <1>1, GoodState DEF OffloadInv, OpOK
<1>3. PICK T \in Turns(pool, q[r], tok) :
        Become([State EXCEPT !.pool = T.pool, !.kv = T.kv,
                             !.q[r] = [T.q EXCEPT !.st = "parked"],
                             !.use[r] = NoUse, !.unsettled = @ - use[r].n])
  BY DEF RunTurn
<1>4. PICK c, K, Y : /\ c = [T.q EXCEPT !.st = "parked"] /\ K = State
                     /\ Y = [K EXCEPT !.pool = T.pool, !.kv = T.kv, !.q[r] = c, !.use[r] = NoUse,
                                      !.unsettled = @ - use[r].n]
  OBVIOUS
<1>5. Become(Y)
  BY <1>3, <1>4
<1>6. Good(K, NoHold) /\ K.group = {} /\ ~K.lease.on /\ K.q[r].st = "active" /\ Zone(K) /\ Seats(K.pool, K.q)
      /\ K.use = use /\ K.q = q /\ K.pool = pool /\ K.kv = kv /\ Requests(K.q) /\ Honest(K)
  BY <1>1, <1>2, <1>4, GoodQ DEF Calm, Active, State, ContentInv
<1>7. PICK t, V, g, w : TurnFrom(K.pool, K.q[r], tok, T, t, V, g, w)
  BY <1>6, TurnParts
<1>8. IsRequest(T.q) /\ T.q.res # "cpu" /\ Seats(T.pool, [K.q EXCEPT ![r] = c])
  <2>1. PICK P, Q : P = K.pool /\ Q = K.q
    OBVIOUS
  <2>2. Seats(P, Q) /\ Q[r].st = "active" /\ TurnFrom(P, Q[r], tok, T, t, V, g, w)
    BY <1>6, <1>7, <2>1
  <2>3. LET a == TurnRequest(Q[r], t)
        IN  /\ TurnResult(Q, r, tok, T, a, TurnDone(a, a.table \o g, w))
            /\ Seats(T.pool, [Q EXCEPT ![r] = [T.q EXCEPT !.st = "parked"]])
    BY <2>2, TurnSeats, Zenon
  <2> QED
    BY <1>4, <2>1, <2>3 DEF TurnResult
<1>10. c.res # "cpu" /\ c.st = "parked"
  BY <1>4, <1>8 DEF IsRequest
<1>11. /\ Y.pool = T.pool /\ Y.q = [K.q EXCEPT ![r] = c] /\ Y.use = [K.use EXCEPT ![r] = NoUse]
       /\ Y.unsettled = K.unsettled - K.use[r].n /\ Y.store = K.store /\ Y.snapOf = K.snapOf
       /\ Y.group = K.group /\ Y.pend = K.pend /\ SameBlocks(Y, K) /\ Zone(Y) /\ Y.kv = T.kv
  BY <1>4, <1>6 DEF Zone, SameBlocks
<1>12. Seats(Y.pool, Y.q)
  BY <1>8, <1>11
<1>13. Good(Y, NoHold)
  <2>1. PICK h : h = NoHold
    OBVIOUS
  <2>2. Good(K, h)
    BY <1>6, <2>1
  <2>3. Good(Y, h)
    BY <1>6, <1>10, <1>11, <1>12, <2>2, GoodRan
  <2> QED
    BY <2>1, <2>3
<1>14. ASSUME Tiered
       PROVE  Shelf(Y)
  BY <1>6, <1>11, <1>14, ShelfSame DEF Honest
<1>15. ASSUME ~stale
       PROVE  Resident(Y)
  <2>1. PICK P, Q : P = K.pool /\ Q = K.q
    OBVIOUS
  <2>2. Seats(P, Q) /\ Q[r].st = "active" /\ TurnFrom(P, Q[r], tok, T, t, V, g, w) /\ ~StaleParent(Q)
    BY <1>6, <1>7, <1>15, <2>1 DEF ContentInv
  <2>3. /\ \A x \in Sessions : Owed(kv, Q[x])
        /\ \A e \in P.cache : Promise(kv[e[2]], e[1])
    BY <1>6, <1>15, <2>1 DEF Honest, Resident
  <2>4. /\ \A x \in Sessions : x # r => Owed(T.kv, Q[x])
        /\ Owed(T.kv, c)
        /\ \A e \in T.pool.cache : Promise(T.kv[e[2]], e[1])
    BY <1>4, <2>2, <2>3, TurnResident
  <2>5. \A x \in Sessions : Owed(Y.kv, Y.q[x])
    BY <1>6, <1>11, <2>1, <2>4 DEF Requests
  <2> QED
    BY <1>11, <2>4, <2>5 DEF Resident
<1>16. ASSUME ~stale
       PROVE  IF Tiered THEN InBlocks(Y) ELSE OnHost(Y)
  BY <1>6, <1>11, <1>16 DEF Honest, InBlocks, OnHost, SameBlocks
<1>17. Honest(Y)
  BY <1>14, <1>15, <1>16 DEF Honest
<1> QED
  BY <1>1, <1>5, <1>13, <1>17, HonestNext

\* Every step of the owner thread, and of the copy beside it, keeps the copies what they are.
LEMMA ContentStep ==
  ASSUME OffloadInv, ContentInv, OffloadNext
  PROVE  ContentInv'
<1>1. CASE EvictCached
  BY <1>1, EvictCachedKeeps
<1>2. CASE OpenGroup
  BY <1>2, OpenGroupKeeps
<1>3. CASE SaveNext
  BY <1>3, SaveNextKeeps
<1>4. CASE SaveFails
  BY <1>4, SaveFailsKeeps
<1>5. CASE DropOldest
  BY <1>5, DropOldestKeeps
<1>6. CASE RetryAdmission
  BY <1>6, RetryAdmissionKeeps
<1>7. CASE /\ OffloadDone \/ DropDone
           /\ UNCHANGED <<pool, epoch, kv, q, order, shown, fatal, weights, stale, offloadVars>>
  BY <1>7, DoneKeeps
<1>8. CASE EarlyOffload
  BY <1>8, EarlyOffloadKeeps
<1>9. CASE StepRaises
  BY <1>9, StepRaisesKeeps
<1>10. ASSUME NEW r \in Sessions, NEW tok \in Sampled, RunTurn(r, tok)
       PROVE  ContentInv'
  BY <1>10, RunTurnKeeps
<1>11. CASE BeginStep
  BY <1>11, BeginStepKeeps
<1>12. CASE CopyChunk
  BY <1>12, CopyChunkKeeps
<1>13. CASE AbortAll
  BY <1>13, AbortAllKeeps
<1>14. ASSUME NEW r \in Sessions, NEW p \in Prompts, NewTurn(r, p)
       PROVE  ContentInv'
  BY <1>14, NewTurnKeeps
<1>15. ASSUME NEW r \in Sessions, NEW s \in NextTokens, Admit(r, s) \/ AdmitFails(r, s)
       PROVE  ContentInv'
  BY <1>15, AdmitKeeps, AdmitFailsKeeps
<1>16. ASSUME NEW r \in Sessions, AdmitRaises(r) \/ AdmitRefused(r) \/ FinishSession(r) \/ OffloadRequest(r)
       PROVE  ContentInv'
  BY <1>16, AdmitRaisesKeeps, AdmitRefusedKeeps, FinishSessionKeeps, OffloadRequestKeeps
<1>17. ASSUME NEW c \in {0, 1}, InvalidateAll(c)
       PROVE  ContentInv'
  BY <1>17, InvalidateAllKeeps
<1> QED
  BY <1>1, <1>2, <1>3, <1>4, <1>5, <1>6, <1>7, <1>8, <1>9, <1>10, <1>11, <1>12, <1>13, <1>14, <1>15,
     <1>16, <1>17 DEF OffloadNext, Episode

(***************************************************************************)
(* The theorems.                                                           *)
(***************************************************************************)
LEMMA ContentStutter ==
  ASSUME ContentInv, UNCHANGED vars
  PROVE  ContentInv'
<1>1. UNCHANGED <<pool, kv, q, stale, weights, epoch, offloadVars>>
  BY DEF vars, residencyVars
<1> QED
  BY <1>1, HonestStill

\* What the copies hold is what they are taken for, at every step of every operation: in the
\* pool, in the prefix cache, in the host store, in a lease and in a transfer in flight
\* (session_offload.py, async_offload.py, block_offload.py, block_store.py).
THEOREM ContentInvariance == OffloadSpec => [](OffloadInv /\ ContentInv)
<1>1. OffloadInit => OffloadInv /\ ContentInv
  BY OffloadBegins, OffloadInitHonest
<1>2. OffloadInv /\ ContentInv /\ [OffloadNext]_vars => (OffloadInv /\ ContentInv)'
  <2>1. OffloadInv /\ [OffloadNext]_vars => OffloadInv'
    BY OffloadStep, OffloadStutter
  <2>2. OffloadInv /\ ContentInv /\ [OffloadNext]_vars => ContentInv'
    BY ContentStep, ContentStutter
  <2> QED
    BY <2>1, <2>2
<1> QED
  BY <1>1, <1>2, PTL DEF OffloadSpec

\* A table reaches every position computed, and only these.
LEMMA PositionIn ==
  ASSUME NEW c, IsRequest(c), Placed(c), NEW p \in 1..c.computed
  PROVE  /\ p \in Nat /\ p > 0 /\ BlockIndex(p) \in DOMAIN c.table /\ Offset(p) \in Offsets
         /\ (BlockIndex(p) - 1) * BlockSize + Offset(p) = p
<1>1. c.computed \in Nat /\ c.table \in Seq(Blocks) /\ Len(c.table) = BlocksNeededFor(c.computed)
  BY DEF IsRequest, Placed
<1>2. p \in Nat /\ p > 0 /\ p <= c.computed /\ c.computed > 0
  BY <1>1
<1>3. Offset(p) \in Offsets /\ BlockIndex(p) \in Nat \ {0} /\ BlockIndex(p) * BlockSize - BlockSize + Offset(p) = p
  BY <1>2, OffsetType, PositionSplit
<1>4. BlockIndex(p) <= Len(c.table)
  BY <1>1, <1>2, LaterIndex, NeededFor
<1>5. BlockIndex(p) \in DOMAIN c.table
  BY <1>1, <1>2, <1>4, SlotOf
<1>6. (BlockIndex(p) - 1) * BlockSize + Offset(p) = p
  <2>1. PICK i \in Nat, o \in Offsets : i = BlockIndex(p) /\ o = Offset(p)
    BY <1>3
  <2>2. BlockSize \in Nat /\ o \in Nat
    BY BlockSizeAssumption DEF Offsets
  <2>3. (i - 1) * BlockSize = i * BlockSize - BlockSize
    BY <2>1, <2>2
  <2>4. i * BlockSize - BlockSize + o = p
    BY <1>3, <2>1
  <2> QED
    BY <2>1, <2>3, <2>4
<1> QED
  BY <1>2, <1>3, <1>5, <1>6

LEMMA InvResident ==
  ASSUME OffloadInv, ContentInv
  PROVE  ResidentKVSound
<1> SUFFICES ASSUME ~stale, NEW r \in Sessions, NEW p \in 1..q[r].computed
             PROVE  kv[q[r].table[BlockIndex(p)]][Offset(p)] = Cell(weights, q[r].tokens, p)
  BY DEF ResidentKVSound
<1>1. Requests(q)
  BY GoodState
<1>2. PICK c : c = q[r]
  OBVIOUS
<1>3. IsRequest(c) /\ Placed(c)
  BY <1>1, <1>2 DEF Requests
<1>4. Owed(kv, c)
  BY <1>2 DEF ContentInv, Honest, Resident, State
<1>5. p \in 1..c.computed
  BY <1>2
<1>6. /\ p \in Nat /\ p > 0 /\ BlockIndex(p) \in DOMAIN c.table /\ Offset(p) \in Offsets
      /\ (BlockIndex(p) - 1) * BlockSize + Offset(p) = p
  BY <1>3, <1>5, PositionIn
<1>7. PICK i, o : i = BlockIndex(p) /\ o = Offset(p)
  OBVIOUS
<1>8. i \in DOMAIN c.table /\ o \in Offsets /\ (i - 1) * BlockSize + o = p
  BY <1>6, <1>7
<1>9. Through(kv[c.table[i]], c.tokens, c.computed, i)
  BY <1>4, <1>8 DEF Owed
<1>10. (i - 1) * BlockSize + o <= c.computed
  BY <1>5, <1>8
<1>11. kv[c.table[i]][o] = Cell(weights, c.tokens, (i - 1) * BlockSize + o)
  BY <1>8, <1>9, <1>10 DEF Through
<1>12. kv[c.table[i]][o] = Cell(weights, c.tokens, p)
  BY <1>8, <1>11
<1> QED
  BY <1>2, <1>7, <1>12

\* Whatever a session counts as computed is in its pages, under the weights in force and for
\* its own history, also after the pages came back from the host (session_offload.py,
\* block_offload.py, block_store.py), as long as no prefix_parent is stale.
THEOREM OffloadResidentSound == OffloadSpec => []ResidentKVSound
<1>1. OffloadInv /\ ContentInv => ResidentKVSound
  BY InvResident
<1> QED
  BY <1>1, ContentInvariance, PTL

\* What the prefix cache finds under a hash is the KV of that history, also for blocks that a
\* session published after it came back (block_manager.py), as long as no prefix_parent is stale.
THEOREM OffloadCopiesSound == OffloadSpec => []CopiesSound
<1>1. ContentInv => CopiesSound
  BY DEF ContentInv, Honest, Resident, Promise, State, CopiesSound
<1> QED
  BY <1>1, ContentInvariance, PTL

\* Where the tail of n computed tokens begins.
LEMMA TailBegins ==
  ASSUME NEW n \in Nat, NEW i \in 1..BlocksNeededFor(n), ~(i * BlockSize <= n)
  PROVE  (i - 1) * BlockSize = n - (n % BlockSize)
<1> DEFINE B == BlockSize
           d == n \div B
           e == n % B
           m == BlocksNeededFor(n)
<1>1. B \in Nat \ {0} /\ i \in Nat /\ m \in Nat /\ m * B < n + B /\ i <= m
  BY BlocksFor, BlockSizeAssumption
<1>2. d \in Nat /\ e \in Nat /\ e < B /\ n = d * B + e
  <2>1. n \div BlockSize \in Nat /\ n % BlockSize = n - BlockSize * (n \div BlockSize)
    BY BlockSizeAssumption
  <2>2. n % BlockSize \in Nat /\ n % BlockSize < BlockSize
    BY BlockSizeAssumption
  <2>3. d \in Nat /\ e \in Nat /\ e < B /\ e = n - B * d
    BY <2>1, <2>2
  <2> HIDE DEF B, d, e
  <2> QED
    BY <1>1, <2>3
<1>3. ~(i * B <= n)
  OBVIOUS
<1> HIDE DEF B, d, e, m
<1>4. \A a, b, k \in Nat : a <= b => a * k <= b * k
  OBVIOUS
<1>5. i * B \in Nat /\ m * B \in Nat /\ d * B \in Nat /\ i * B <= m * B
  BY <1>1, <1>2, <1>4
<1>6. i > d
  BY <1>1, <1>2, <1>3, <1>4, <1>5
<1>7. ASSUME i > d + 1
      PROVE  FALSE
  <2>1. d + 2 <= i /\ d + 2 \in Nat
    BY <1>1, <1>2, <1>7
  <2>2. (d + 2) * B <= i * B
    BY <1>1, <2>1, <1>4
  <2>3. (d + 2) * B = d * B + B + B
    BY <1>1, <1>2
  <2>4. d * B + B + B < n + B
    BY <1>1, <1>5, <2>2, <2>3
  <2> QED
    BY <1>1, <1>2, <1>5, <2>4
<1>8. i = d + 1
  BY <1>1, <1>2, <1>6, <1>7
<1>9. (i - 1) * B = d * B
  BY <1>1, <1>2, <1>8
<1>10. (i - 1) * B = n - e
  BY <1>2, <1>5, <1>9
<1> QED
  BY <1>10 DEF B, e

\* Nothing is on the GPU of who is on the host.
LEMMA NothingResident ==
  ASSUME NEW c, IsRequest(c), Placed(c), c.res = "cpu"
  PROVE  c.st = "parked" /\ c.table = << >> /\ c.computed = 0
<1>1. c.st = "parked" /\ c.table = << >> /\ Len(c.table) = BlocksNeededFor(c.computed) /\ c.computed \in Nat
  BY DEF Placed, IsRequest
<1>2. BlocksNeededFor(c.computed) = 0
  BY <1>1
<1> QED
  BY <1>1, <1>2, BlocksFor

LEMMA InvSnapshotsSound ==
  ASSUME OffloadInv, ContentInv
  PROVE  SnapshotsSound
<1> SUFFICES ASSUME ~Tiered
             PROVE  SnapshotsSound
  BY DEF SnapshotsSound
<1>1. PICK Z, h : Z = State /\ h = op.hold
  OBVIOUS
<1>2. Z.q = q /\ Z.store = store /\ Z.snapOf = snapOf
  BY <1>1 DEF State
<1>3. Good(Z, h) /\ Requests(q)
  BY <1>1, GoodState
<1>4. Snapped(Z, h)
  BY <1>3, GoodSnaps DEF SnapGood
<1>5. Linked(Z) /\ StoreTyped(Z.store)
  BY <1>4 DEF Snapped, Books
<1>6. ASSUME NEW r \in Sessions
      PROVE  /\ (q[r].res = "cpu") <=> (snapOf[r] # 0)
             /\ snapOf[r] # 0 => /\ snapOf[r] \in Ids(store) /\ q[r].snap = snapOf[r]
                                 /\ q[r].st = "parked" /\ q[r].table = << >> /\ q[r].computed = 0
  <2>1. q[r].res = "cpu" <=> snapOf[r] # 0
    BY <1>2, <1>5 DEF Linked
  <2>2. snapOf[r] # 0 => snapOf[r] \in Ids(store) /\ q[r].snap = snapOf[r]
    BY <1>2, <1>5 DEF Linked, Ids
  <2>3. q[r].res = "cpu" => q[r].st = "parked" /\ q[r].table = << >> /\ q[r].computed = 0
    BY <1>3, NothingResident DEF Requests
  <2> QED
    BY <2>1, <2>2, <2>3
<1>7. ASSUME NEW s \in Snaps(store)
      PROVE  snapOf[s.rid] = s.id /\ s.tokens = q[s.rid].tokens
  BY <1>2, <1>5, <1>7 DEF Linked
<1>8. ASSUME NEW s \in Snaps(store), ~stale, NEW i \in 1..s.n, NEW o \in Offsets
      PROVE  s.pages[i][o] = IF (i - 1) * BlockSize + o <= s.computed
                             THEN Cell(weights, s.tokens, (i - 1) * BlockSize + o) ELSE Junk
  <2>1. OnHost(Z)
    BY <1>1, <1>8 DEF ContentInv, Honest
  <2>2. PageOf(s.pages[i], s.tokens, s.computed, i)
    BY <1>2, <1>8, <2>1 DEF OnHost
  <2>3. IsMeta(s)
    BY <1>2, <1>5, <1>8 DEF StoreTyped
  <2>4. s.n \in Nat /\ s.computed \in Nat
    BY <2>3, BlocksFor DEF IsMeta
  <2>5. (i - 1) * BlockSize + o \in Nat
    BY <2>4, BlockSizeAssumption DEF Offsets
  <2>6. PICK p \in Nat : p = (i - 1) * BlockSize + o
    BY <2>5
  <2>7. p <= s.computed \/ p > s.computed
    BY <2>4, <2>6
  <2> QED
    BY <2>2, <2>4, <2>6, <2>7 DEF PageOf, Through
<1> QED
  BY <1>6, <1>7, <1>8 DEF SnapshotsSound

LEMMA InvCopySourceHeld ==
  ASSUME OffloadInv, ContentInv
  PROVE  CopySourceHeld
<1> SUFFICES ASSUME pend.on
             PROVE  LET m == pend.meta
                    IN  /\ q[m.rid].st = "parked" /\ q[m.rid].table = pend.table /\ m \in store.open
                        /\ \A i \in DOMAIN pend.pages, o \in Offsets :
                             ~stale /\ (i - 1) * BlockSize + o <= m.computed
                               => pend.pages[i][o] = Cell(weights, m.tokens, (i - 1) * BlockSize + o)
  BY DEF CopySourceHeld
<1>1. PICK Z, h : Z = State /\ h = op.hold
  OBVIOUS
<1>2. Z.q = q /\ Z.store = store /\ Z.pend = pend
  BY <1>1 DEF State
<1>3. Good(Z, h)
  BY <1>1, GoodState
<1>4. ~Tiered
  <2>1. ASSUME Tiered
        PROVE  FALSE
    <3>1. NoSnapshots(Z)
      BY <1>3, <2>1, GoodBlocks DEF BlockGood
    <3> QED
      BY <1>2, <3>1 DEF NoSnapshots, NoPend
  <2> QED
    BY <2>1
<1>5. SourceHeld(Z) /\ Reserved(Z)
  BY <1>3, <1>4, GoodSnaps DEF SnapGood, Snapped
<1>6. PICK m : m = pend.meta
  OBVIOUS
<1>7. q[m.rid].st = "parked" /\ q[m.rid].table = pend.table
  BY <1>2, <1>5, <1>6 DEF SourceHeld
<1>8. m \in store.open
  BY <1>2, <1>5, <1>6 DEF Reserved
<1>9. ASSUME NEW i \in DOMAIN pend.pages, NEW o \in Offsets, ~stale, (i - 1) * BlockSize + o <= m.computed
      PROVE  pend.pages[i][o] = Cell(weights, m.tokens, (i - 1) * BlockSize + o)
  <2>1. OnHost(Z)
    BY <1>1, <1>4, <1>9 DEF ContentInv, Honest
  <2>2. Through(pend.pages[i], m.tokens, m.computed, i)
    BY <1>2, <1>6, <1>9, <2>1 DEF OnHost
  <2> QED
    BY <1>9, <2>2 DEF Through
<1> QED
  BY <1>6, <1>7, <1>8, <1>9

\* The source of an early copy in flight stays what the copy was begun for: its session keeps
\* its blocks until the copy is settled, and the pages that have arrived are its KV
\* (async_offload.py).
THEOREM OffloadCopySourceHeld == OffloadSpec => []CopySourceHeld
<1>1. OffloadInv /\ ContentInv => CopySourceHeld
  BY InvCopySourceHeld
<1> QED
  BY <1>1, ContentInvariance, PTL

\* Whose tails are looked for: only a manifest has some, and its tail is where it says.
LEMMA TailSound ==
  ASSUME NEW X, NEW m, NEW r, IsManifest(m, r), TailsSound(X, m), NEW k \in TailsOf(m), Ready(X, k), NEW o \in Offsets
  PROVE  X[k].page[o] = IF m.computed - (m.computed % BlockSize) + o <= m.computed
                        THEN Cell(weights, m.tokens, m.computed - (m.computed % BlockSize) + o) ELSE Junk
<1>1. PICK i \in DOMAIN m.keys : k = m.keys[i] /\ IsTail(k)
  BY DEF TailsOf, Range
<1>2. m.computed \in Nat /\ DOMAIN m.keys = 1..BlocksNeededFor(m.computed)
  BY DEF IsManifest, Keys
<1>3. ~(i * BlockSize <= m.computed)
  BY <1>1, KeyFacts
<1>4. PICK n : n = m.computed
  OBVIOUS
<1>5. (i - 1) * BlockSize = n - (n % BlockSize)
  BY <1>1, <1>2, <1>3, <1>4, TailBegins
<1>6. PageOf(X[k].page, m.tokens, n, i)
  BY <1>1, <1>4 DEF TailsSound
<1>7. n \in Nat /\ (i - 1) * BlockSize + o \in Nat
  BY <1>2, <1>4, BlockSizeAssumption DEF Offsets
<1>8. PICK p \in Nat : p = (i - 1) * BlockSize + o
  BY <1>7
<1>9. p <= n \/ p > n
  BY <1>7, <1>8
<1>10. X[k].page[o] = IF p <= n THEN Cell(weights, m.tokens, p) ELSE Junk
  BY <1>6, <1>7, <1>8, <1>9 DEF PageOf, Through
<1>11. n - (n % BlockSize) + o = p
  BY <1>5, <1>8
<1> QED
  BY <1>4, <1>10, <1>11

LEMMA NoBlocksSound ==
  ASSUME OffloadInv, ~Tiered
  PROVE  BlocksSound
<1>1. PICK Z, h : Z = State /\ h = op.hold
  OBVIOUS
<1>2. Z.blocks = blocks /\ Z.man = man /\ Good(Z, h)
  BY <1>1, GoodState DEF State
<1>3. blocks = << >> /\ man = [r \in Sessions |-> NoMan]
  BY <1>2, GoodSnaps DEF SnapGood, Snapped, NoBlocks, EmptyIndex
<1>4. \A r \in Sessions : man[r].id = 0
  BY <1>3 DEF NoMan
<1>5. DOMAIN blocks = {}
  BY <1>3
<1>6. Cardinality(DOMAIN blocks) <= CpuMax
  BY <1>5, FS_EmptySet, CpuStoreAssumption
<1> QED
  BY <1>4, <1>5, <1>6 DEF BlocksSound

LEMMA InvBlocksSound ==
  ASSUME OffloadInv, ContentInv, Tiered
  PROVE  BlocksSound
<1>1. PICK Z, h : Z = State /\ h = op.hold
  OBVIOUS
<1>2. /\ Z.blocks = blocks /\ Z.man = man /\ Z.lease = lease /\ Z.q = q
      /\ Good(Z, h) /\ Requests(q)
  BY <1>1, GoodState DEF State
<1>3. Manifests(Z) /\ Shelf(Z) /\ (~stale => InBlocks(Z))
  BY <1>1, <1>2, GoodBlocks DEF BlockGood, ContentInv, Honest
<1>4. ASSUME NEW k \in DOMAIN blocks, blocks[k].ready
      PROVE  /\ k[1] = Namespace
             /\ ~stale /\ ~IsTail(k) => \A o \in Offsets :
                  blocks[k].page[o] = Cell(weights, k[2], Len(k[2]) - BlockSize + o)
  <2>1. k[1] = Namespace
    BY <1>2, <1>3, <1>4 DEF Shelf
  <2>2. ~stale /\ ~IsTail(k) => Promise(blocks[k].page, k[2])
    BY <1>2, <1>3, <1>4 DEF InBlocks
  <2> QED
    BY <2>1, <2>2 DEF Promise
<1>5. ASSUME NEW r \in Sessions, man[r].id # 0
      PROVE  /\ \A k \in TailsOf(man[r]) : ~stale /\ Ready(blocks, k) => \A o \in Offsets :
                  LET p == man[r].computed - (man[r].computed % BlockSize) + o
                  IN  blocks[k].page[o] = IF p <= man[r].computed THEN Cell(weights, man[r].tokens, p) ELSE Junk
             /\ q[r].st # "gone"
             /\ q[r].res = "cpu" => /\ man[r].tokens = q[r].tokens /\ man[r].id = q[r].snap
                                    /\ q[r].table = << >> /\ q[r].computed = 0
  <2>1. PICK m : m = man[r]
    OBVIOUS
  <2>2. m # NoMan
    BY <1>5, <2>1 DEF NoMan
  <2>3. IsManifest(m, r) /\ q[r].st # "gone"
    BY <1>2, <1>3, <2>1, <2>2 DEF Manifests
  <2>4. ASSUME NEW k \in TailsOf(m), ~stale, Ready(blocks, k), NEW o \in Offsets
        PROVE  blocks[k].page[o] = IF m.computed - (m.computed % BlockSize) + o <= m.computed
                        THEN Cell(weights, m.tokens, m.computed - (m.computed % BlockSize) + o) ELSE Junk
    <3>1. TailsSound(blocks, m)
      BY <1>2, <1>3, <2>1, <2>4 DEF InBlocks
    <3> QED
      BY <2>3, <2>4, <3>1, TailSound
  <2>5. q[r].res = "cpu" => man[r].tokens = q[r].tokens /\ man[r].id = q[r].snap
    BY <1>2, <1>3 DEF Manifests
  <2>6. q[r].res = "cpu" => q[r].table = << >> /\ q[r].computed = 0
    BY <1>2, NothingResident DEF Requests
  <2> QED
    BY <2>1, <2>3, <2>4, <2>5, <2>6
<1>6. Cardinality(DOMAIN blocks) <= CpuMax
  BY <1>2, <1>3 DEF Shelf
<1>7. ASSUME ~lease.on, NEW k \in DOMAIN blocks
      PROVE  /\ blocks[k].ready /\ blocks[k].pins = 0
             /\ IsTail(k) => \E r \in Sessions : k \in TailsOf(man[r])
  <2>1. ~Leased(Z, k)
    BY <1>2, <1>7 DEF Leased
  <2>2. blocks[k].pins = (IF Leased(Z, k) THEN 1 ELSE 0) /\ (blocks[k].ready \/ Leased(Z, k))
    BY <1>2, <1>3, <1>7 DEF Shelf
  <2>3. IsTail(k) => \E r \in Sessions : k \in TailsOf(man[r])
    BY <1>2, <1>3, <1>7 DEF Shelf
  <2> QED
    BY <2>1, <2>2, <2>3
<1> QED
  BY <1>4, <1>5, <1>6, <1>7 DEF BlocksSound

\* Whatever a restore may find on the host is the KV it is taken for, in either store: a
\* snapshot and its tail hold the session's own history and nothing past it, a shared block
\* what its key promises, and a session is on the host exactly when it has such a copy
\* (session_offload.py, block_offload.py, block_store.py).
THEOREM OffloadHostCopiesSound == OffloadSpec => []HostCopiesSound
<1>1. OffloadInv /\ ContentInv => HostCopiesSound
  BY InvSnapshotsSound, InvBlocksSound, NoBlocksSound DEF HostCopiesSound
<1> QED
  BY <1>1, ContentInvariance, PTL

(***************************************************************************)
(* The pressure episode: what the session cache counts.                    *)
(***************************************************************************)
\* Blocks only go: whoever is parked in Y with some had the same ones in Z.
Thins(Y, Z) ==
  \A x \in Sessions : Y.q[x].st = "parked" /\ Y.q[x].table # << >> =>
    Z.q[x].st = "parked" /\ Y.q[x].table = Z.q[x].table

LEMMA ThinsOn ==
  ASSUME NEW X, NEW Y, NEW Z, Thins(X, Y), Thins(Y, Z)
  PROVE  Thins(X, Z)
BY DEF Thins

LEMMA ThinsSame ==
  ASSUME NEW Y, NEW Z, Y.q = Z.q
  PROVE  Thins(Y, Z)
BY DEF Thins

LEMMA ThinsGone ==
  ASSUME NEW Y, NEW Z, Requests(Z.q), NEW r,
         \A x \in Sessions : x # r => Y.q[x] = Z.q[x],
         r \in Sessions => Y.q[r] = Z.q[r] \/ \E m : Y.q[r] = OffGpu(Z.q[r], m)
  PROVE  Thins(Y, Z)
<1>1. ASSUME NEW m, r \in Sessions, Y.q[r] = OffGpu(Z.q[r], m)
      PROVE  Y.q[r].table = << >>
  <2>1. IsRequest(Z.q[r])
    BY <1>1 DEF Requests
  <2> QED
    BY <1>1, <2>1 DEF OffGpu, IsRequest
<1>2. ASSUME NEW x \in Sessions, Y.q[x].st = "parked", Y.q[x].table # << >>
      PROVE  Z.q[x].st = "parked" /\ Y.q[x].table = Z.q[x].table
  BY <1>1, <1>2
<1> QED
  BY <1>2 DEF Thins

LEMMA ThinsSettled ==
  ASSUME NEW Y, NEW Z, NEW r, Requests(Z.q), Settles(Y, Z, r)
  PROVE  Thins(Y, Z)
<1>1. /\ \A x \in Sessions : x # r => Y.q[x] = Z.q[x]
      /\ Y.q[r] = Z.q[r] \/ Y.q[r] = OffGpu(Z.q[r], Z.pend.meta)
  BY DEF Settles
<1> QED
  BY <1>1, ThinsGone

LEMMA ThinsWaited ==
  ASSUME NEW Z, NEW hold, Good(Z, hold), NEW cancel \in BOOLEAN, NEW Y, Y = Waited(Z, cancel)
  PROVE  Thins(Y, Z)
<1>1. Requests(Z.q)
  BY GoodQ
<1>2. CASE ~Z.pend.on
  BY <1>2, ThinsSame DEF Waited
<1>3. CASE Z.pend.on
  <2>1. SnapGood(Z, hold)
    BY <1>3, GoodBlocks, BlockCalm, GoodSnaps
  <2>2. LET X == Waited(Z, cancel)
        IN  /\ SnapGood(X, hold) /\ Idling(X)
            /\ Z.pend.on => Settles(X, Z, Z.pend.meta.rid)
            /\ ~Z.pend.on => X = Z
    BY <2>1, WaitedGood, Zenon
  <2> QED
    BY <1>1, <1>3, <2>2, ThinsSettled
<1> QED
  BY <1>2, <1>3

LEMMA ThinsWaitedFor ==
  ASSUME NEW hold, Good(State, hold), NEW r, NEW Z, Z = WaitFor(r)
  PROVE  Thins(Z, State)
<1>1. Z = State \/ Z = Waited(State, FALSE)
  BY DEF WaitFor
<1>2. PICK X : X = State
  OBVIOUS
<1> QED
  BY <1>1, <1>2, ThinsWaited, ThinsSame

LEMMA ThinsSettle ==
  ASSUME NEW Z, NEW hold, Good(Z, hold), Z.pend.on, NEW Y, Y = Settle(Z, FALSE)
  PROVE  Thins(Y, Z)
<1>1. SnapGood(Z, hold) /\ Requests(Z.q)
  BY GoodBlocks, BlockCalm, GoodSnaps, GoodQ
<1>2. LET X == Settle(Z, FALSE) IN SnapGood(X, hold) /\ Settles(X, Z, Z.pend.meta.rid)
  BY <1>1, SettleGood, Zenon
<1> QED
  BY <1>1, <1>2, ThinsSettled

LEMMA ThinsReclaimed ==
  ASSUME NEW Z, NEW hold, Good(Z, hold), NEW goal, NEW Y \in Reclaimed(Z, goal)
  PROVE  Y.q = Z.q /\ Thins(Y, Z)
BY ReclaimedCalm, ThinsSame

LEMMA ThinsPrepared ==
  ASSUME NEW Z, Good(Z, op.hold), Calm(Z), ~Z.pend.on, NEW rs \in Seq(Sessions), IsInjective(rs),
         \A r \in Range(rs) : Z.q[r].st = "parked", NEW G \in Prepared(Z, rs)
  PROVE  Thins(G.z, Z)
<1>1. CASE Tiered
  <2>1. BlockGood(Z) /\ G \in BlockPrepare(Z, rs)
    BY <1>1, GoodBlocks DEF Prepared
  <2>2. SameButBlocks(G.z, Z)
    BY <1>1, <2>1, BlockPrepareGood
  <2> QED
    BY <2>2, ThinsSame DEF SameButBlocks
<1>2. CASE ~Tiered
  <2>1. SnapGood(Z, op.hold) /\ G = PrepareGroup(Z, rs) /\ Z.group = {} /\ Requests(Z.q)
    BY <1>2, GoodSnaps, GoodQ DEF Prepared, Calm
  <2>2. LET X == PrepareGroup(Z, rs)
        IN  SnapGood(X.z, op.hold) /\ GroupReady(X, Z, rs)
    BY <2>1, PrepareGroupGood, Zenon
  <2>3. LosesSome(G.z, Z)
    BY <2>1, <2>2 DEF GroupReady
  <2>4. PICK Y : Y = G.z
    OBVIOUS
  <2>5. \A x \in Sessions : Y.q[x].st = Z.q[x].st /\ Y.q[x].table = Z.q[x].table
    BY <2>1, <2>3, <2>4, LosesKeeps
  <2> QED
    BY <2>4, <2>5 DEF Thins
<1> QED
  BY <1>1, <1>2

LEMMA ThinsSaved ==
  ASSUME NEW Z, NEW hold, Good(Z, hold), NEW rs \in Seq(Sessions), IsInjective(rs),
         NEW i \in 1..Len(rs), Awaits(Z, rs, i), NEW Y, Y = Saved(Z, rs[i])
  PROVE  Thins(Y, Z)
<1>0. PICK r : r = rs[i]
  OBVIOUS
<1>1. r \in Range(rs) /\ r \in Sessions /\ Len(rs) \in Nat /\ DOMAIN rs = 1..Len(rs) /\ Requests(Z.q)
  BY <1>0, InRange, LenProperties, GoodQ
<1>2. CASE Tiered
  <2>1. BlockGood(Z) /\ Z.lease.on /\ r \in DOMAIN Z.lease.man
    BY <1>1, <1>2, GoodBlocks DEF Awaits
  <2>2. Y = BlockSave(Z, r)
    BY <1>0, <1>2 DEF Saved
  <2>3. LET X == BlockSave(Z, r) IN BlockGood(X) /\ BlockSaves(X, Z, r)
    BY <2>1, BlockSaveGood, Zenon
  <2>4. BlockSaves(Y, Z, r)
    BY <2>2, <2>3
  <2> QED
    BY <1>1, <2>4, ThinsGone DEF BlockSaves
<1>3. CASE ~Tiered
  <2>1. SnapGood(Z, hold)
    BY <1>3, GoodSnaps
  <2>2. \E m \in Z.group : m.rid = r
    BY <1>0, <1>1, <1>3 DEF Awaits
  <2>3. Idling(Z)
    BY <2>1 DEF Awaits, Idling, SnapGood, Snapped, SourceHeld
  <2>4. Y = Save(Z, r)
    BY <1>0, <1>3 DEF Saved
  <2>5. LET X == Save(Z, r) IN SnapGood(X, hold) /\ Saves(X, Z, r)
    BY <1>1, <2>1, <2>2, <2>3, SaveGood, Zenon
  <2>6. Saves(Y, Z, r)
    BY <2>4, <2>5
  <2>7. /\ \A x \in Sessions : x # r => Y.q[x] = Z.q[x]
        /\ Y.q[r] = Z.q[r] \/ \E m : Y.q[r] = OffGpu(Z.q[r], m)
    BY <2>6 DEF Saves
  <2> QED
    BY <1>1, <2>7, ThinsGone
<1> QED
  BY <1>2, <1>3

LEMMA ThinsRaised ==
  ASSUME NEW Z, NEW hold, Good(Z, hold), NEW rs \in Seq(Sessions),
         NEW i \in 1..Len(rs), Awaits(Z, rs, i), NEW Y \in SavesFailing(Z, rs[i])
  PROVE  Thins(Y, Z)
<1>0. PICK r : r = rs[i]
  OBVIOUS
<1>1. CASE Tiered
  <2>1. BlockGood(Z) /\ Y \in BlockSaveFails(Z, r)
    BY <1>0, <1>1, GoodBlocks DEF SavesFailing
  <2> QED
    BY <2>1, BlockSaveFailsGood, ThinsSame DEF SameButBlocks
<1>2. CASE ~Tiered
  <2>1. Y = SaveFailed(Z, ReservationOf(Z, r)) /\ Zone(Z)
    BY <1>0, <1>2, GoodQ DEF SavesFailing
  <2>2. Y.q = Z.q
    BY <2>1 DEF SaveFailed, Zone
  <2> QED
    BY <2>2, ThinsSame
<1> QED
  BY <1>1, <1>2

LEMMA ThinsClosed ==
  ASSUME NEW Z, NEW hold, Good(Z, hold), NEW Y, Y = Closed(Z)
  PROVE  Y.q = Z.q /\ Thins(Y, Z)
<1>1. CASE Tiered
  <2>1. BlockGood(Z) /\ Y = BlockClose(Z)
    BY <1>1, GoodBlocks DEF Closed
  <2>2. LET X == BlockClose(Z) IN BlockGood(X) /\ SameButBlocks(X, Z) /\ ~X.lease.on
    BY <2>1, BlockCloseGood, Zenon
  <2> QED
    BY <2>1, <2>2, ThinsSame DEF SameButBlocks
<1>2. CASE ~Tiered
  <2>1. Y = CloseGroup(Z) /\ Zone(Z)
    BY <1>2, GoodQ DEF Closed
  <2>2. Y.q = Z.q
    BY <2>1 DEF CloseGroup, Zone
  <2> QED
    BY <2>2, ThinsSame
<1> QED
  BY <1>1, <1>2

LEMMA ThinsCancelled ==
  ASSUME NEW Z, NEW hold, Good(Z, hold), NEW S, NEW C, C = Cancelled(Z, S)
  PROVE  Thins(C, Z)
<1>1. C = Z \/ C = Waited(Z, TRUE)
  BY DEF Cancelled
<1> QED
  BY <1>1, ThinsWaited, ThinsSame

LEMMA ThinsFinished ==
  ASSUME NEW Z, NEW hold, Good(Z, hold), Calm(Z), NEW S \in SUBSET Sessions, NEW Y, Y = Finished(Z, S)
  PROVE  Thins(Y, Z)
<1>1. PICK C : C = IF Tiered THEN Z ELSE Cancelled(Z, S)
  OBVIOUS
<1>2. Thins(C, Z)
  BY <1>1, ThinsCancelled, ThinsSame
<1>3. Y.q = [r \in Sessions |-> IF r \in S THEN NoReq ELSE C.q[r]]
  <2>1. CASE Tiered
    <3>1. BlockGood(Z) /\ ~Z.lease.on
      BY <2>1, GoodBlocks DEF Calm
    <3>2. LET F == Finished(Z, S)
          IN  /\ BlockGood(F) /\ F.q = [r \in Sessions |-> IF r \in S THEN NoReq ELSE Z.q[r]] /\ F.kv = Z.kv
              /\ F.pool = DeallocateAll(Z.pool, [r \in S |-> Z.q[r].table]) /\ BlockRemoves(F, Z, S)
      BY <2>1, <3>1, BlockFinishedGood, Zenon
    <3> QED
      BY <1>1, <2>1, <3>2
  <2>2. CASE ~Tiered
    <3>1. SnapGood(Z, hold) /\ Z.group = {}
      BY <2>2, GoodSnaps DEF Calm
    <3>2. LET F == Finished(Z, S)
              D == Cancelled(Z, S)
          IN  /\ SnapGood(F, hold) /\ IsCancelled(D, Z, S) /\ F.group = {}
              /\ F.q = [r \in Sessions |-> IF r \in S THEN NoReq ELSE D.q[r]] /\ F.kv = D.kv
              /\ F.pool = DeallocateAll(D.pool, [r \in S |-> D.q[r].table])
              /\ F.pend = D.pend /\ Snaps(F.store) \subseteq Snaps(D.store)
      BY <2>2, <3>1, FinishedGood, Zenon
    <3> QED
      BY <1>1, <2>2, <3>2
  <2> QED
    BY <2>1, <2>2
<1>4. ASSUME NEW x \in Sessions, Y.q[x].st = "parked", Y.q[x].table # << >>
      PROVE  C.q[x].st = "parked" /\ Y.q[x].table = C.q[x].table
  <2>1. x \notin S
    BY <1>3, <1>4 DEF NoReq
  <2> QED
    BY <1>3, <1>4, <2>1
<1>5. Thins(Y, C)
  BY <1>4 DEF Thins
<1> QED
  BY <1>2, <1>5, ThinsOn

LEMMA ThinsDropped ==
  ASSUME NEW Z, NEW hold, Good(Z, hold), Calm(Z), NEW r \in Sessions, Z.q[r].st = "parked",
         NEW R, R = Forgotten(Z, {r}),
         NEW Y, Y = [R EXCEPT !.pool = Deallocate(@, R.q[r].table), !.q[r] = Dropped(@)]
  PROVE  Thins(Y, Z) /\ Y.q[r].table = << >>
<1>1. PICK C : C = IF Tiered THEN Z ELSE Cancelled(Z, {r})
  OBVIOUS
<1>2. Thins(C, Z)
  BY <1>1, ThinsCancelled, ThinsSame
<1>3. Y.q = [C.q EXCEPT ![r] = Dropped(C.q[r])] /\ Requests(C.q)
  <2>1. CASE Tiered
    <3>1. BlockGood(Z) /\ ~Z.lease.on
      BY <2>1, GoodBlocks DEF Calm
    <3>2. LET G == Forgotten(Z, {r})
              F == [G EXCEPT !.pool = Deallocate(@, G.q[r].table), !.q[r] = Dropped(@)]
          IN  /\ BlockGood(F) /\ F.q = [Z.q EXCEPT ![r] = Dropped(Z.q[r])] /\ F.kv = Z.kv
              /\ F.pool = Deallocate(Z.pool, Z.q[r].table) /\ BlockRemoves(F, Z, {r})
      BY <2>1, <3>1, BlockDropGood, Zenon
    <3>3. Y.q = [Z.q EXCEPT ![r] = Dropped(Z.q[r])]
      BY <3>2
    <3> QED
      BY <1>1, <2>1, <3>3, GoodQ
  <2>2. CASE ~Tiered
    <3>1. SnapGood(Z, hold) /\ Z.group = {}
      BY <2>2, GoodSnaps DEF Calm
    <3>2. LET G == Forgotten(Z, {r})
              F == [G EXCEPT !.pool = Deallocate(@, G.q[r].table), !.q[r] = Dropped(@)]
              D == Cancelled(Z, {r})
          IN  /\ SnapGood(F, hold) /\ IsCancelled(D, Z, {r}) /\ F.group = {}
              /\ F.q = [D.q EXCEPT ![r] = Dropped(D.q[r])] /\ F.kv = D.kv
              /\ F.pool = Deallocate(D.pool, D.q[r].table)
              /\ F.pend = D.pend /\ Snaps(F.store) \subseteq Snaps(D.store)
      BY <2>2, <3>1, DropGood, Zenon
    <3>3. Y.q = [C.q EXCEPT ![r] = Dropped(C.q[r])]
      BY <1>1, <2>2, <3>2
    <3>4. SnapGood(Cancelled(Z, {r}), hold)
      BY <3>1, CancelledGood
    <3>5. Requests(C.q)
      BY <1>1, <2>2, <3>4 DEF SnapGood, Seated, Seats
    <3> QED
      BY <3>3, <3>5
  <2> QED
    BY <2>1, <2>2
<1>4. Y.q[r].table = << >> /\ \A x \in Sessions : x # r => Y.q[x] = C.q[x]
  <2>1. IsRequest(C.q[r]) /\ DOMAIN C.q = Sessions
    BY <1>3 DEF Requests
  <2>2. Dropped(C.q[r]).table = << >>
    BY <2>1 DEF IsRequest, Dropped
  <2> QED
    BY <1>3, <2>1, <2>2
<1>5. Thins(Y, C)
  BY <1>4 DEF Thins
<1> QED
  BY <1>2, <1>4, <1>5, ThinsOn

\* r moves to the GPU or loses what it has; nobody else moves.
LEMMA ThinsMoved ==
  ASSUME NEW Y, NEW Z, NEW r \in Sessions, OnlyMoves(Y, Z, r), Y.q[r].st # "parked" \/ Y.q[r].table = << >>
  PROVE  Thins(Y, Z)
BY DEF Thins, OnlyMoves

LEMMA ThinsOut ==
  ASSUME NEW Y, NEW Z, NEW r \in Sessions, Requests(Z.q), NEW d, StaysOut(Y, Z, r, d)
  PROVE  Thins(Y, Z)
<1>1. Y.q = [Z.q EXCEPT ![r] = d] /\ d.table = << >> /\ DOMAIN Z.q = Sessions
  BY DEF StaysOut, Requests
<1>2. OnlyMoves(Y, Z, r) /\ Y.q[r].table = << >>
  BY <1>1 DEF OnlyMoves
<1> QED
  BY <1>2, ThinsMoved

LEMMA ThinsRefused ==
  ASSUME NEW Z, NEW hold, Good(Z, hold), Calm(Z), NEW r \in Sessions, Z.q[r].res = "cpu", ~Stale(Z, r),
         NEW R \in BeginRestore(Z, r), NEW Y, Y = RollbackRestore(R, r)
  PROVE  Thins(Y, Z)
<1>1. PICK c, n : Back(R, Z, r, c) /\ IsBack(c, Z.q[r], n)
  BY RestoreBegun
<1>2. Requests(Z.q)
  BY GoodQ
<1>3. LET X == RollbackRestore(R, r)
          d == [c EXCEPT !.table = << >>, !.computed = 0, !.res = "cpu"]
      IN  StaysOut(X, Z, r, d)
  BY <1>1, <1>2, RolledBackOut, Zenon
<1>4. PICK d : StaysOut(Y, Z, r, d)
  BY <1>3
<1> QED
  BY <1>2, <1>4, ThinsOut

LEMMA ThinsFailed ==
  ASSUME NEW Z, NEW hold, Good(Z, hold), Calm(Z), NEW r \in Sessions, Z.q[r].res = "cpu", ~Stale(Z, r),
         Z.pend.on => Z.pend.meta.rid # r, NEW R \in BeginRestoreFails(Z, r)
  PROVE  Thins(R, Z)
<1>1. CASE Tiered
  <2>1. BlockGood(Z) /\ ~BlockStale(Z, r) /\ R \in BlockFailedRestores(Z, r)
    BY <1>1, GoodBlocks DEF Stale, BeginRestoreFails
  <2>2. SameHost(R, Z)
    BY <2>1, BlockFailedRestoreGood
  <2> QED
    BY <2>2, ThinsSame DEF SameHost
<1>2. CASE ~Tiered
  <2>1. SnapGood(Z, hold) /\ Z.group = {} /\ R \in FailedRestores(Z, r) /\ Requests(Z.q)
    BY <1>2, GoodSnaps, GoodQ DEF BeginRestoreFails, Calm
  <2>2. PICK s : HostSnapshot(Z, r, s)
    BY <2>1, HostHasSnapshot
  <2>3. PICK h, P : FailedFrom(R, Z, r, s, h, P)
    BY <2>1, <2>2, FailedParts DEF HostSnapshot
  <2>4. PICK d : SnapGood(R, hold) /\ StaysOut(R, Z, r, d)
    BY <2>1, <2>2, <2>3, FailedRestoreGood
  <2> QED
    BY <2>1, <2>4, ThinsOut
<1> QED
  BY <1>1, <1>2

\* The cache counts anew, or as before, or forgets who has no blocks or is not parked.
Recounts(sg, sh, Q) ==
  /\ sg = [x \in Sessions |-> sg[x]]
  /\ \A x \in Sessions : \/ sg[x] = sh[x]
                         \/ sg[x] = Len(Q[x].table)
                         \/ sg[x] = 0 /\ (Q[x].st # "parked" \/ Q[x].table = << >>)

LEMMA RecountsSame ==
  ASSUME NEW sh \in [Sessions -> Nat], NEW Q
  PROVE  Recounts(sh, sh, Q)
BY DEF Recounts

LEMMA RecountsOne ==
  ASSUME NEW sh \in [Sessions -> Nat], NEW Q, NEW r, NEW sg, sg = [sh EXCEPT ![r] = Len(Q[r].table)]
  PROVE  Recounts(sg, sh, Q)
BY DEF Recounts

LEMMA RecountsNone ==
  ASSUME NEW sh \in [Sessions -> Nat], NEW Q, NEW r \in Sessions, Q[r].st # "parked" \/ Q[r].table = << >>,
         NEW sg, sg = [sh EXCEPT ![r] = 0]
  PROVE  Recounts(sg, sh, Q)
BY DEF Recounts

LEMMA RecountsGroup ==
  ASSUME NEW sh \in [Sessions -> Nat], NEW Q, NEW S,
         NEW sg, sg = [x \in Sessions |-> IF x \in S THEN Len(Q[x].table) ELSE sh[x]]
  PROVE  Recounts(sg, sh, Q)
BY DEF Recounts

LEMMA Recounted ==
  ASSUME NEW Q, Requests(Q), NEW sh \in [Sessions -> Nat], NEW sg, Recounts(sg, sh, Q),
         \A x \in Sessions : Q[x].st = "parked" /\ Q[x].table # << >> => (sg[x] = sh[x] => sh[x] > 0)
  PROVE  Known(Q, sg)
<1>1. \A x \in Sessions : Len(Q[x].table) \in Nat /\ (Q[x].table # << >> => Len(Q[x].table) > 0)
  BY EmptySeq, LenProperties DEF Requests, IsRequest
<1>2. \A x \in Sessions : sg[x] \in Nat
  BY <1>1 DEF Recounts
<1>3. sg \in [Sessions -> Nat]
  BY <1>2 DEF Recounts
<1> QED
  BY <1>1, <1>3 DEF Known, Recounts

LEMMA KnownNext ==
  ASSUME BlocksKnown, NEW Z, NEW hold, Good(Z, hold), Thins(Z, State), q' = Z.q, Recounts(shown', shown, Z.q)
  PROVE  BlocksKnown'
<1>1. Requests(Z.q) /\ shown \in [Sessions -> Nat]
  BY GoodQ DEF BlocksKnown, Known
<1>2. State.q = q
  BY DEF State
<1>3. \A x \in Sessions : Z.q[x].st = "parked" /\ Z.q[x].table # << >> => shown[x] > 0
  BY <1>2 DEF Thins, BlocksKnown, Known
<1>4. PICK sg : sg = shown'
  OBVIOUS
<1>5. Known(Z.q, sg)
  BY <1>1, <1>3, <1>4, Recounted
<1> QED
  BY <1>4, <1>5 DEF BlocksKnown

LEMMA KnownStill ==
  ASSUME BlocksKnown, q' = q, shown' = shown
  PROVE  BlocksKnown'
BY DEF BlocksKnown

LEMMA KnownKept ==
  ASSUME BlocksKnown, NEW Z, NEW hold, Good(Z, hold), Thins(Z, State), Become(Z), UNCHANGED shown
  PROVE  BlocksKnown'
<1>1. q' = Z.q /\ shown \in [Sessions -> Nat] /\ shown' = shown
  BY DEF Become, BlocksKnown, Known
<1>2. Recounts(shown', shown, Z.q)
  BY <1>1, RecountsSame
<1> QED
  BY <1>1, <1>2, KnownNext

LEMMA KnownOne ==
  ASSUME BlocksKnown, NEW Z, NEW hold, Good(Z, hold), Thins(Z, State), Become(Z),
         NEW r, shown' = [shown EXCEPT ![r] = Len(q'[r].table)]
  PROVE  BlocksKnown'
<1>1. q' = Z.q /\ shown \in [Sessions -> Nat]
  BY DEF Become, BlocksKnown, Known
<1>2. PICK sg : sg = shown'
  OBVIOUS
<1>3. sg = [shown EXCEPT ![r] = Len(Z.q[r].table)]
  BY <1>1, <1>2
<1>4. Recounts(sg, shown, Z.q)
  BY <1>1, <1>3, RecountsOne
<1> QED
  BY <1>1, <1>2, <1>4, KnownNext

LEMMA KnownLess ==
  ASSUME BlocksKnown, NEW Z, NEW hold, Good(Z, hold), Thins(Z, State), Become(Z),
         NEW r \in Sessions, shown' = [shown EXCEPT ![r] = 0], Z.q[r].st # "parked" \/ Z.q[r].table = << >>
  PROVE  BlocksKnown'
<1>1. q' = Z.q /\ shown \in [Sessions -> Nat]
  BY DEF Become, BlocksKnown, Known
<1>2. PICK sg : sg = shown'
  OBVIOUS
<1>3. Recounts(sg, shown, Z.q)
  BY <1>1, <1>2, RecountsNone
<1> QED
  BY <1>1, <1>2, <1>3, KnownNext

LEMMA KnownGroup ==
  ASSUME BlocksKnown, NEW Z, NEW hold, Good(Z, hold), Thins(Z, State), Become(Z),
         NEW S, shown' = [x \in Sessions |-> IF x \in S THEN Len(Z.q[x].table) ELSE shown[x]]
  PROVE  BlocksKnown'
<1>1. q' = Z.q /\ shown \in [Sessions -> Nat]
  BY DEF Become, BlocksKnown, Known
<1>2. PICK sg : sg = shown'
  OBVIOUS
<1>3. Recounts(sg, shown, Z.q)
  BY <1>1, <1>2, RecountsGroup
<1> QED
  BY <1>1, <1>2, <1>3, KnownNext

LEMMA KnownState ==
  ASSUME OffloadInv, BlocksKnown, Become(State), UNCHANGED shown
  PROVE  BlocksKnown'
<1>1. Good(State, op.hold) /\ State.q = q
  BY GoodState
<1>2. q' = q
  BY <1>1 DEF Become
<1> QED
  BY <1>2, KnownStill

LEMMA AdmitKnown ==
  ASSUME OffloadInv, BlocksKnown, NEW r \in Sessions, NEW s \in NextTokens, Admit(r, s)
  PROVE  BlocksKnown'
<1>1. op.pc = "idle" /\ r \in Parked /\ shown' = [shown EXCEPT ![r] = 0] /\ s \in TokenLists
  BY TokensType DEF Admit, Unparked
<1>2. PICK Z : Z = WaitFor(r)
  OBVIOUS
<1>3. /\ Good(Z, NoHold) /\ Calm(Z) /\ Kin(Z, State) /\ (Z.pend.on => Z.pend.meta.rid # r) /\ Requests(Z.q)
      /\ \A x \in Sessions : Z.q[x].st = q[x].st /\ Z.q[x].tokens = q[x].tokens
  BY <1>1, <1>2, WaitedIdle
<1>4. Z.q[r].st = "parked" /\ Thins(Z, State)
  <2>1. Good(State, NoHold)
    BY <1>1, GoodState, IdleOp DEF OffloadInv
  <2> QED
    BY <1>1, <1>2, <1>3, <2>1, ThinsWaitedFor DEF Parked
<1>5. ASSUME NEW Y, Good(Y, NoHold), OnlyMoves(Y, Z, r), Y.q[r].st = "active", Become(Y)
      PROVE  BlocksKnown'
  <2>1. PICK X : X = State
    OBVIOUS
  <2>2. Thins(Y, Z)
    BY <1>5, ThinsMoved
  <2>3. Thins(Y, State)
    BY <1>4, <2>1, <2>2, ThinsOn
  <2> QED
    BY <1>1, <1>5, <2>3, KnownLess
<1>6. CASE Z.q[r].res # "cpu" /\ Become(Resumed(Z, r, s))
  <2>1. LET Y == Resumed(Z, r, s)
        IN  Good(Y, NoHold) /\ Calm(Y) /\ OnlyMoves(Y, Z, r) /\ Y.q[r].st = "active"
    BY <1>1, <1>3, <1>4, <1>6, ResumedGood, Zenon
  <2>2. PICK Y : Y = Resumed(Z, r, s)
    OBVIOUS
  <2> QED
    BY <1>5, <1>6, <2>1, <2>2
<1>7. CASE Z.q[r].res = "cpu" /\ ~Stale(Z, r) /\ \E R \in BeginRestore(Z, r) : Become(Resumed(Commits(R, r), r, s))
  <2>1. PICK R \in BeginRestore(Z, r) : Become(Resumed(Commits(R, r), r, s))
    BY <1>7
  <2>2. LET Y == Resumed(Commits(R, r), r, s)
        IN  Good(Y, NoHold) /\ Calm(Y) /\ OnlyMoves(Y, Z, r) /\ Y.q[r].st = "active"
    BY <1>1, <1>3, <1>7, AdmittedGood, Zenon
  <2>3. PICK Y : Y = Resumed(Commits(R, r), r, s)
    OBVIOUS
  <2> QED
    BY <1>5, <2>1, <2>2, <2>3
<1> QED
  BY <1>2, <1>6, <1>7 DEF Admit

LEMMA AdmitRaisesKnown ==
  ASSUME OffloadInv, BlocksKnown, NEW r \in Sessions, AdmitRaises(r)
  PROVE  BlocksKnown'
BY KnownState DEF AdmitRaises, WaitRaises

LEMMA AdmitRefusedKnown ==
  ASSUME OffloadInv, BlocksKnown, NEW r \in Sessions, AdmitRefused(r)
  PROVE  BlocksKnown'
<1>1. op.pc = "idle" /\ r \in Parked /\ UNCHANGED shown
  BY DEF AdmitRefused
<1>2. PICK Z : Z = WaitFor(r)
  OBVIOUS
<1>3. /\ Good(Z, NoHold) /\ Calm(Z) /\ (Z.pend.on => Z.pend.meta.rid # r)
  BY <1>1, <1>2, WaitedIdle
<1>4. Z.q[r].res = "cpu" /\ ~Stale(Z, r) /\ \E R \in BeginRestore(Z, r) : Become(RollbackRestore(R, r))
  BY <1>2 DEF AdmitRefused
<1>5. PICK R \in BeginRestore(Z, r) : Become(RollbackRestore(R, r))
  BY <1>4
<1>6. LET Y == RollbackRestore(R, r) IN Good(Y, NoHold) /\ Calm(Y) /\ Kin(Y, Z)
  BY <1>3, <1>4, RefusedGood, Zenon
<1>7. PICK Y, X : Y = RollbackRestore(R, r) /\ X = State
  OBVIOUS
<1>8. Good(State, NoHold)
  BY <1>1, GoodState, IdleOp DEF OffloadInv
<1>9. Thins(Z, State)
  BY <1>2, <1>8, ThinsWaitedFor
<1>10. Thins(Y, Z)
  BY <1>3, <1>4, <1>7, ThinsRefused
<1>11. Thins(Y, State)
  BY <1>7, <1>9, <1>10, ThinsOn
<1> QED
  BY <1>1, <1>5, <1>6, <1>7, <1>11, KnownKept

LEMMA AdmitFailsKnown ==
  ASSUME OffloadInv, BlocksKnown, NEW r \in Sessions, NEW s \in NextTokens, AdmitFails(r, s)
  PROVE  BlocksKnown'
<1>1. op.pc = "idle" /\ r \in Parked /\ UNCHANGED shown
  BY DEF AdmitFails
<1>2. PICK Z : Z = WaitFor(r)
  OBVIOUS
<1>3. /\ Good(Z, NoHold) /\ Calm(Z) /\ (Z.pend.on => Z.pend.meta.rid # r)
  BY <1>1, <1>2, WaitedIdle
<1>4. PICK R \in BeginRestoreFails(Z, r) : Z.q[r].res = "cpu" /\ ~Stale(Z, r) /\ Become(R)
  BY <1>2 DEF AdmitFails
<1>5. Good(R, NoHold)
  BY <1>3, <1>4, RestoreFailedGood
<1>6. Good(State, NoHold)
  BY <1>1, GoodState, IdleOp DEF OffloadInv
<1>7. Thins(Z, State) /\ Thins(R, Z)
  BY <1>2, <1>3, <1>4, <1>6, ThinsWaitedFor, ThinsFailed
<1>8. PICK X : X = State
  OBVIOUS
<1>9. Thins(R, State)
  BY <1>7, <1>8, ThinsOn
<1> QED
  BY <1>1, <1>4, <1>5, <1>9, KnownKept

LEMMA FinishSessionKnown ==
  ASSUME OffloadInv, BlocksKnown, NEW r \in Sessions, FinishSession(r)
  PROVE  BlocksKnown'
<1>1. op.pc = "idle"
  BY DEF FinishSession
<1>2. CASE Become(Finished(State, {r})) /\ Unparked(r)
  <2>1. PICK Z, S, X, h : S = {r} /\ Z = Finished(State, S) /\ X = State /\ h = op.hold
    OBVIOUS
  <2>2. S \in SUBSET Sessions /\ Become(Z) /\ shown' = [shown EXCEPT ![r] = 0]
    BY <1>2, <2>1 DEF Unparked
  <2>3. Good(Z, h) /\ Z.q[r] = NoReq
    BY <1>1, <2>1, <2>2, FinishedIdle
  <2>4. Good(X, h) /\ Calm(X)
    BY <1>1, <2>1, GoodState
  <2>5. Thins(Z, X)
    BY <2>1, <2>2, <2>4, ThinsFinished
  <2>6. Z.q[r].table = << >> /\ Thins(Z, State)
    BY <2>1, <2>3, <2>5 DEF NoReq
  <2> QED
    BY <2>2, <2>3, <2>6, KnownLess
<1>3. CASE WaitRaises /\ UNCHANGED <<order, shown>>
  BY <1>3, KnownState DEF WaitRaises
<1> QED
  BY <1>2, <1>3 DEF FinishSession

LEMMA AbortAllKnown ==
  ASSUME OffloadInv, BlocksKnown, AbortAll
  PROVE  BlocksKnown'
<1>1. op.pc = "idle" /\ shown' = [r \in Sessions |-> 0]
  BY DEF AbortAll
<1>2. PICK Z, S : S = {r \in Sessions : q[r].st # "gone"} /\ Z = Finished(State, S)
  OBVIOUS
<1>3. S \in SUBSET Sessions /\ Become(Z)
  BY <1>2 DEF AbortAll
<1>4. \A x \in S : Z.q[x] = NoReq
  BY <1>1, <1>2, <1>3, FinishedIdle
<1>5. \A x \in Sessions : x \notin S => Z.q[x].st = q[x].st
  BY <1>1, <1>2, <1>3, FinishedIdle
<1>6. q' = Z.q
  BY <1>3 DEF Become
<1>7. \A x \in Sessions : q'[x].st = "gone"
  BY <1>2, <1>4, <1>5, <1>6 DEF NoReq
<1> QED
  BY <1>1, <1>7 DEF BlocksKnown, Known

LEMMA StepRaisesKnown ==
  ASSUME OffloadInv, BlocksKnown, StepRaises
  PROVE  BlocksKnown'
<1>1. op.pc = "step" /\ UNCHANGED shown
  BY DEF StepRaises
<1>2. PICK Z, S, X, h : S = Active /\ Z = Finished(State, S) /\ X = State /\ h = op.hold
  OBVIOUS
<1>3. S \in SUBSET Sessions /\ Become(Z)
  BY <1>2 DEF StepRaises, Active
<1>4. Good(Z, h)
  BY <1>1, <1>2, <1>3, FinishedIdle
<1>5. Good(X, h) /\ Calm(X)
  BY <1>1, <1>2, GoodState
<1>6. Thins(Z, X)
  BY <1>2, <1>3, <1>5, ThinsFinished
<1>7. Thins(Z, State)
  BY <1>2, <1>6
<1> QED
  BY <1>1, <1>3, <1>4, <1>7, KnownKept

LEMMA DropOldestKnown ==
  ASSUME OffloadInv, BlocksKnown, DropOldest
  PROVE  BlocksKnown' /\ Droppable[1] \in Sessions /\ shown[Droppable[1]] > 0
<1>1. op.pc = "drop" /\ Droppable # << >>
  BY DEF DropOldest
<1>2. PICK r, S, h, X : r = Droppable[1] /\ S = {x \in Sessions : shown[x] > 0} /\ h = op.hold /\ X = State
  OBVIOUS
<1>3. PICK R \in Reclaimed([Forgotten(State, {r}) EXCEPT !.pool = Deallocate(@, Forgotten(State, {r}).q[r].table),
                                                        !.q[r] = Dropped(@)], op.goal) : Become(R)
  BY <1>2 DEF DropOldest
<1>4. r \in Parked /\ r \in S
  <2>1. PICK d : d = Droppable
    OBVIOUS
  <2>2. d = Kept(order, S) /\ order \in Seq(Sessions) /\ Range(order) = Parked /\ d # << >>
    BY <1>1, <1>2, <2>1 DEF Droppable, OffloadInv, Queued
  <2>3. d \in Seq(Sessions) /\ Range(d) = Parked \intersect S
    BY <2>2, KeptFacts
  <2>4. 1 \in 1..Len(d)
    BY <2>2, <2>3, LenProperties, EmptySeq
  <2> QED
    BY <1>2, <2>1, <2>3, <2>4, InRange
<1>5. r \in Sessions /\ X.q[r].st = "parked" /\ Good(X, h) /\ Calm(X)
  BY <1>1, <1>2, <1>4, GoodState
<1>6. LET F == Forgotten(X, {r})
          Y == [F EXCEPT !.pool = Deallocate(@, F.q[r].table), !.q[r] = Dropped(@)]
      IN  Good(Y, h) /\ Calm(Y) /\ Kin(Y, X)
  BY <1>5, DropCalm, Zenon
<1>7. PICK F : F = Forgotten(X, {r})
  OBVIOUS
<1>8. PICK Y : Y = [F EXCEPT !.pool = Deallocate(@, F.q[r].table), !.q[r] = Dropped(@)]
  OBVIOUS
<1>9. Good(Y, h) /\ Calm(Y)
  BY <1>6, <1>7, <1>8
<1>10. Thins(Y, X) /\ Y.q[r].table = << >>
  BY <1>5, <1>7, <1>8, ThinsDropped
<1>11. R \in Reclaimed(Y, op.goal)
  BY <1>2, <1>3, <1>7, <1>8
<1>12. Good(R, h) /\ R.q = Y.q
  BY <1>9, <1>11, ReclaimedCalm
<1>13. Thins(R, State)
  BY <1>2, <1>10, <1>12 DEF Thins
<1>14. shown' = [shown EXCEPT ![r] = 0] /\ R.q[r].table = << >>
  BY <1>2, <1>10, <1>12 DEF DropOldest, DropShown
<1>15. BlocksKnown'
  BY <1>3, <1>5, <1>12, <1>13, <1>14, KnownLess
<1> QED
  BY <1>2, <1>4, <1>5, <1>15

LEMMA BeginStepKnown ==
  ASSUME OffloadInv, BlocksKnown, BeginStep
  PROVE  BlocksKnown'
<1>1. op.pc = "idle"
  BY DEF BeginStep
<1>2. CASE Become(State) /\ UNCHANGED shown
  BY <1>2, KnownState
<1>3. CASE pend.on /\ Become(Settle(State, FALSE)) /\ shown' = [shown EXCEPT ![pend.meta.rid] = Len(q'[pend.meta.rid].table)]
  <2>1. Good(State, NoHold) /\ Calm(State) /\ State.pend.on
    BY <1>1, <1>3, GoodState, IdleOp DEF OffloadInv
  <2>2. LET Y == Settle(State, FALSE) IN Good(Y, NoHold) /\ Calm(Y) /\ Kin(Y, State)
    BY <2>1, SettledCalm, Zenon
  <2>3. PICK Y, X, r : Y = Settle(State, FALSE) /\ X = State /\ r = pend.meta.rid
    OBVIOUS
  <2>4. Thins(Y, X)
    BY <2>1, <2>3, ThinsSettle
  <2>5. Thins(Y, State) /\ Good(Y, NoHold) /\ Become(Y) /\ shown' = [shown EXCEPT ![r] = Len(q'[r].table)]
    BY <1>3, <2>2, <2>3, <2>4
  <2> QED
    BY <2>5, KnownOne
<1> QED
  BY <1>2, <1>3 DEF BeginStep, WaitRaises

LEMMA EarlyOffloadKnown ==
  ASSUME OffloadInv, BlocksKnown, EarlyOffload
  PROVE  BlocksKnown'
<1>1. op.pc = "early"
  BY DEF EarlyOffload
<1>2. Good(State, op.hold) /\ op.hold = NoHold /\ Calm(State) /\ State.q = q /\ State.pend = pend /\ Kin(State, State)
  BY <1>1, GoodState DEF OffloadInv, OpOK
<1>3. CASE Become(State) /\ UNCHANGED shown
  BY <1>3, KnownState
<1>4. ASSUME ~pend.on, NEW Z \in Reclaimed(State, cfg.early),
             LET S == Kept(order, {r \in Sessions : q[r].table # << >> /\ Reclaimable(Z.pool, {r}) > 0})
             IN  IF FreeBlocks(Z.pool) >= cfg.early \/ S = << >>
                 THEN Become(Z) /\ UNCHANGED shown
                 ELSE \/ Become(Finished(Z, Active)) /\ UNCHANGED shown
                      \/ /\ ~Tiered
                         /\ \E R \in EarlySaves(Z, S[1]) : \E E \in Reclaimed(R, cfg.early) :
                              Become(E) /\ shown' = [shown EXCEPT ![S[1]] = Len(R.q[S[1]].table)]
      PROVE  BlocksKnown'
  <2>1. PICK K : K = State
    OBVIOUS
  <2>2. Good(Z, NoHold) /\ Calm(Z) /\ Kin(Z, State) /\ ~Z.pend.on /\ Z.q = q /\ Thins(Z, State)
    BY <1>2, <1>4, <2>1, ReclaimedCalm, ThinsReclaimed
  <2>3. PICK X, S : X = {r \in Sessions : q[r].table # << >> /\ Reclaimable(Z.pool, {r}) > 0} /\ S = Kept(order, X)
    OBVIOUS
  <2>4. CASE Become(Z) /\ UNCHANGED shown
    BY <2>2, <2>4, KnownKept
  <2>5. CASE Become(Finished(Z, Active)) /\ UNCHANGED shown
    <3>1. PICK Y, A : A = Active /\ Y = Finished(Z, A)
      OBVIOUS
    <3>2. A \in SUBSET Sessions /\ Become(Y)
      BY <2>5, <3>1 DEF Active
    <3>3. LET F == Finished(Z, A)
          IN  /\ Good(F, NoHold) /\ Calm(F) /\ (F.pend.on => F.pend.meta.rid \notin A)
              /\ \A x \in A : F.q[x] = NoReq
              /\ \A x \in Sessions : x \notin A => F.q[x].st = Z.q[x].st /\ F.q[x].tokens = Z.q[x].tokens
      BY <2>2, <3>2, FinishedCalm, Zenon
    <3>4. Good(Y, NoHold)
      BY <3>1, <3>3
    <3>5. Thins(Y, Z)
      BY <2>2, <3>1, <3>2, ThinsFinished
    <3>6. Thins(Y, State)
      BY <2>1, <2>2, <3>5, ThinsOn
    <3> QED
      BY <2>5, <3>2, <3>4, <3>6, KnownKept
  <2>6. CASE S # << >> /\ ~Tiered /\ \E R \in EarlySaves(Z, S[1]) : \E E \in Reclaimed(R, cfg.early) :
                              Become(E) /\ shown' = [shown EXCEPT ![S[1]] = Len(R.q[S[1]].table)]
    <3>1. PICK r : r = S[1]
      OBVIOUS
    <3>2. PICK R \in EarlySaves(Z, r) : \E E \in Reclaimed(R, cfg.early) :
                              Become(E) /\ shown' = [shown EXCEPT ![r] = Len(R.q[r].table)]
      BY <2>6, <3>1
    <3>3. PICK E \in Reclaimed(R, cfg.early) : Become(E) /\ shown' = [shown EXCEPT ![r] = Len(R.q[r].table)]
      BY <3>2
    <3>4. r \in Parked /\ r \in X
      <4>1. S \in Seq(Sessions) /\ Range(S) = Parked \intersect X
        BY <2>3, KeptFacts DEF OffloadInv, Queued
      <4>2. 1 \in 1..Len(S)
        BY <2>6, <4>1, LenProperties, EmptySeq
      <4> QED
        BY <3>1, <4>1, <4>2, InRange
    <3>5. r \in Sessions /\ Z.q[r].st = "parked" /\ Z.q[r].table # << >>
      BY <2>2, <2>3, <3>4 DEF Parked
    <3>6. Good(R, op.hold) /\ EarlySaved(R, Z, r)
      BY <1>2, <2>2, <2>6, <3>2, <3>5, EarlySavesGood
    <3>7. Good(R, NoHold)
      BY <1>2, <3>6
    <3>8. Good(E, NoHold) /\ E.q = R.q
      BY <3>3, <3>7, ReclaimedCalm
    <3>9. Requests(Z.q)
      BY <2>2, GoodQ
    <3>10. /\ \A x \in Sessions : x # r => R.q[x] = Z.q[x]
           /\ R.q[r] = Z.q[r] \/ \E m : R.q[r] = OffGpu(Z.q[r], m)
      BY <3>6 DEF EarlySaved
    <3>11. Thins(R, Z)
      BY <3>9, <3>10, ThinsGone
    <3>12. Thins(R, State)
      BY <2>1, <2>2, <3>11, ThinsOn
    <3>13. Thins(E, State) /\ shown' = [shown EXCEPT ![r] = Len(q'[r].table)]
      BY <3>3, <3>8, <3>12 DEF Thins, Become
    <3> QED
      BY <3>3, <3>8, <3>13, KnownOne
  <2>7. \/ Become(Z) /\ UNCHANGED shown
        \/ Become(Finished(Z, Active)) /\ UNCHANGED shown
        \/ /\ S # << >> /\ ~Tiered
           /\ \E R \in EarlySaves(Z, S[1]) : \E E \in Reclaimed(R, cfg.early) :
                              Become(E) /\ shown' = [shown EXCEPT ![S[1]] = Len(R.q[S[1]].table)]
    BY <1>4, <2>3
  <2> QED
    BY <2>4, <2>5, <2>6, <2>7
<1>5. CASE ~(cfg.early = 0 \/ pend.on \/ FreeBlocks(pool) >= cfg.early)
  <2>1. PICK Z \in Reclaimed(State, cfg.early) :
             LET S == Kept(order, {r \in Sessions : q[r].table # << >> /\ Reclaimable(Z.pool, {r}) > 0})
             IN  IF FreeBlocks(Z.pool) >= cfg.early \/ S = << >>
                 THEN Become(Z) /\ UNCHANGED shown
                 ELSE \/ Become(Finished(Z, Active)) /\ UNCHANGED shown
                      \/ /\ ~Tiered
                         /\ \E R \in EarlySaves(Z, S[1]) : \E E \in Reclaimed(R, cfg.early) :
                              Become(E) /\ shown' = [shown EXCEPT ![S[1]] = Len(R.q[S[1]].table)]
    BY <1>5 DEF EarlyOffload
  <2> QED
    BY <1>4, <1>5, <2>1
<1> QED
  BY <1>3, <1>5 DEF EarlyOffload

LEMMA EvictCachedKnown ==
  ASSUME OffloadInv, BlocksKnown, EvictCached
  PROVE  BlocksKnown'
<1>1. op.pc = "evict"
  BY DEF EvictCached
<1>2. PICK h, g, X, r : h = op.hold /\ g = op.goal /\ X = State /\ r = pend.meta.rid
  OBVIOUS
<1>3. Good(X, h) /\ Calm(X)
  BY <1>1, <1>2, GoodState
<1>4. PICK Z \in Reclaimed(State, g) :
        \/ \E R \in Reclaimed(Waited(Z, FALSE), g) : Become(R) /\ shown' = [shown EXCEPT ![r] = Len(q'[r].table)]
        \/ Become(Z) /\ UNCHANGED shown
  BY <1>2 DEF EvictCached
<1>5. Good(Z, h) /\ Calm(Z) /\ Thins(Z, X)
  BY <1>2, <1>3, <1>4, ReclaimedCalm, ThinsReclaimed
<1>6. CASE Become(Z) /\ UNCHANGED shown
  BY <1>2, <1>5, <1>6, KnownKept
<1>7. CASE \E R \in Reclaimed(Waited(Z, FALSE), g) : Become(R) /\ shown' = [shown EXCEPT ![r] = Len(q'[r].table)]
  <2>1. PICK W : W = Waited(Z, FALSE)
    OBVIOUS
  <2>2. PICK R \in Reclaimed(W, g) : Become(R) /\ shown' = [shown EXCEPT ![r] = Len(q'[r].table)]
    BY <1>7, <2>1
  <2>3. LET Y == Waited(Z, FALSE) IN Good(Y, h) /\ Calm(Y) /\ Kin(Y, Z) /\ ~Y.pend.on
    BY <1>5, WaitedCalm, Zenon
  <2>4. Good(W, h) /\ Thins(W, Z)
    BY <1>5, <2>1, <2>3, ThinsWaited
  <2>5. Good(R, h) /\ Thins(R, W)
    BY <2>2, <2>4, ReclaimedCalm, ThinsReclaimed
  <2>6. Thins(R, Z)
    BY <2>4, <2>5, ThinsOn
  <2>7. Thins(R, X)
    BY <1>5, <2>6, ThinsOn
  <2> QED
    BY <1>2, <2>2, <2>5, <2>7, KnownOne
<1> QED
  BY <1>4, <1>6, <1>7

LEMMA OpenGroupKnown ==
  ASSUME OffloadInv, BlocksKnown, OpenGroup
  PROVE  BlocksKnown'
<1>1. op.pc = "offload" /\ op.cand # << >>
  BY DEF OpenGroup
<1>2. PICK cand, rs, rest : /\ cand = op.cand /\ rs = NextGroup(pool, cand, op.goal)
                            /\ rest = SubSeq(cand, Len(rs) + 1, Len(cand))
  OBVIOUS
<1>3. cand \in Seq(Sessions) /\ IsInjective(cand) /\ Range(cand) \subseteq Parked /\ cand # << >>
  BY <1>1, <1>2 DEF OffloadInv, OpOK
<1>4. rs \in Seq(Sessions) /\ IsInjective(rs) /\ Range(rs) \subseteq Range(cand)
  <2>1. PICK goal : goal = op.goal
    OBVIOUS
  <2>2. rs = NextGroup(pool, cand, goal) /\ rest = SubSeq(cand, Len(rs) + 1, Len(cand))
    BY <1>2, <2>1
  <2>3. /\ rs \in Seq(Sessions) /\ IsInjective(rs) /\ Range(rs) \subseteq Range(cand) /\ 1 \in 1..Len(rs)
        /\ rest \in Seq(Sessions) /\ IsInjective(rest) /\ Range(rest) \subseteq Range(cand)
    <3>1. cand \in Seq(Sessions) /\ IsInjective(cand) /\ cand # << >>
      BY <1>3
    <3> QED
      BY <2>2, <3>1, GroupTaken
  <2> QED
    BY <2>3
<1>5. PICK X, h, W : X = State /\ h = op.hold /\ W = Waited(State, FALSE)
  OBVIOUS
<1>6. Good(X, h) /\ Calm(X) /\ X.q = q /\ \A r \in Parked : q[r].st = "parked"
  BY <1>1, <1>5, GoodState
<1>7. Good(W, op.hold) /\ Calm(W) /\ Kin(W, X) /\ ~W.pend.on
  <2>1. LET Y == Waited(X, FALSE) IN Good(Y, h) /\ Calm(Y) /\ Kin(Y, X) /\ ~Y.pend.on
    BY <1>6, WaitedCalm, Zenon
  <2> QED
    BY <1>5, <2>1
<1>8. Thins(W, X)
  BY <1>5, <1>6, ThinsWaited
<1>9. \A r \in Range(rs) : W.q[r].st = "parked"
  BY <1>3, <1>4, <1>6, <1>7 DEF Kin, Parked
<1>10. CASE \E G \in Prepared(W, rs) :
              /\ Become(G.z)
              /\ shown' = IF G.ok THEN shown
                          ELSE [r \in Sessions |-> IF r \in Range(rs) THEN Len(G.z.q[r].table) ELSE shown[r]]
  <2>1. PICK G \in Prepared(W, rs) :
              /\ Become(G.z)
              /\ shown' = IF G.ok THEN shown
                          ELSE [r \in Sessions |-> IF r \in Range(rs) THEN Len(G.z.q[r].table) ELSE shown[r]]
    BY <1>10
  <2>2. Good(G.z, op.hold) /\ Thins(G.z, W)
    BY <1>4, <1>7, <1>9, <2>1, PreparedGood, ThinsPrepared
  <2>3. PICK Y, S : Y = G.z /\ S = Range(rs)
    OBVIOUS
  <2>4. Good(Y, h) /\ Become(Y) /\ Thins(Y, X)
    BY <1>5, <1>8, <2>1, <2>2, <2>3, ThinsOn
  <2>5. CASE G.ok
    BY <1>5, <2>1, <2>4, <2>5, KnownKept
  <2>6. CASE ~G.ok
    <3>1. shown' = [x \in Sessions |-> IF x \in S THEN Len(Y.q[x].table) ELSE shown[x]]
      BY <2>1, <2>3, <2>6
    <3> QED
      BY <1>5, <2>4, <3>1, KnownGroup
  <2> QED
    BY <2>5, <2>6
<1>11. CASE Become(State) /\ UNCHANGED shown
  BY <1>11, KnownState
<1> QED
  BY <1>2, <1>5, <1>10, <1>11 DEF OpenGroup, WaitRaises

LEMMA LeaveGroupKnown ==
  ASSUME BlocksKnown, NEW Z, NEW hold, Good(Z, hold), Thins(Z, State), LeaveGroup(Z)
  PROVE  BlocksKnown'
<1>1. PICK Y, S, X : Y = Closed(Z) /\ S = Range(op.group) /\ X = State
  OBVIOUS
<1>2. LET C == Closed(Z) IN Good(C, hold) /\ Calm(C) /\ Kin(C, Z) /\ C.pend = Z.pend
  BY ClosedGood, Zenon
<1>3. Good(Y, hold) /\ Y.q = Z.q /\ Thins(Y, Z)
  BY <1>1, <1>2, ThinsClosed
<1>4. Thins(Y, X)
  BY <1>1, <1>3, ThinsOn
<1>5. Become(Y) /\ shown' = [x \in Sessions |-> IF x \in S THEN Len(Y.q[x].table) ELSE shown[x]]
  BY <1>1, <1>3 DEF LeaveGroup
<1> QED
  BY <1>1, <1>3, <1>4, <1>5, KnownGroup

LEMMA SaveNextKnown ==
  ASSUME OffloadInv, BlocksKnown, SaveNext
  PROVE  BlocksKnown'
<1>1. op.pc = "save"
  BY DEF SaveNext
<1>2. PICK X, rs, i, S, h : X = State /\ rs = op.group /\ i = op.at /\ S = Saved(State, rs[i]) /\ h = op.hold
  OBVIOUS
<1>3. Good(X, h) /\ Awaits(X, rs, i) /\ i \in 1..Len(rs) /\ rs \in Seq(Sessions) /\ IsInjective(rs)
  BY <1>1, <1>2, GroupAwaits
<1>4. Good(S, h) /\ Thins(S, X)
  <2>1. LET Y == Saved(X, rs[i]) IN Good(Y, h) /\ Kin(Y, X) /\ Awaits(Y, rs, i + 1)
    BY <1>3, SavedGood, Zenon
  <2> QED
    BY <1>2, <1>3, <2>1, ThinsSaved
<1>5. PICK Z \in Reclaimed(S, op.goal) : LeaveGroup(Z) \/ (Become(Z) /\ UNCHANGED shown)
  BY <1>2 DEF SaveNext
<1>6. Good(Z, h) /\ Thins(Z, S)
  <2>1. PICK g : g = op.goal
    OBVIOUS
  <2> QED
    BY <1>4, <1>5, <2>1, ReclaimedCalm, ThinsReclaimed
<1>7. Thins(Z, State)
  BY <1>2, <1>4, <1>6, ThinsOn
<1> QED
  BY <1>5, <1>6, <1>7, LeaveGroupKnown, KnownKept

LEMMA SaveFailsKnown ==
  ASSUME OffloadInv, BlocksKnown, SaveFails
  PROVE  BlocksKnown'
<1>1. op.pc = "save"
  BY DEF SaveFails
<1>2. PICK X, rs, i, h : X = State /\ rs = op.group /\ i = op.at /\ h = op.hold
  OBVIOUS
<1>3. Good(X, h) /\ Awaits(X, rs, i) /\ i \in 1..Len(rs) /\ rs \in Seq(Sessions)
  BY <1>1, <1>2, GroupAwaits
<1>4. PICK Z \in SavesFailing(X, rs[i]) : LeaveGroup(Z) \/ (Become(Closed(Z)) /\ UNCHANGED shown)
  <2>1. \E Z \in SavesFailing(State, op.group[op.at]) :
           \/ LeaveGroup(Z) /\ UNCHANGED fatal
           \/ Become(Closed(Z)) /\ op' = Idle /\ fatal' = TRUE /\ UNCHANGED shown
    BY DEF SaveFails
  <2>2. PICK Z \in SavesFailing(State, op.group[op.at]) :
           \/ LeaveGroup(Z) /\ UNCHANGED fatal
           \/ Become(Closed(Z)) /\ op' = Idle /\ fatal' = TRUE /\ UNCHANGED shown
    BY <2>1, Zenon
  <2>3. LeaveGroup(Z) \/ (Become(Closed(Z)) /\ UNCHANGED shown)
    BY <2>2, Zenon
  <2> QED
    BY <1>2, <2>2, <2>3
<1>5. Good(Z, h) /\ Thins(Z, X)
  BY <1>3, <1>4, SaveRaises, ThinsRaised
<1>6. CASE LeaveGroup(Z)
  BY <1>2, <1>5, <1>6, LeaveGroupKnown
<1>7. CASE Become(Closed(Z)) /\ UNCHANGED shown
  <2>1. PICK Y : Y = Closed(Z)
    OBVIOUS
  <2>2. LET C == Closed(Z) IN Good(C, h) /\ Calm(C) /\ Kin(C, Z) /\ C.pend = Z.pend
    BY <1>5, ClosedGood, Zenon
  <2>3. Good(Y, h) /\ Thins(Y, Z)
    BY <1>5, <2>1, <2>2, ThinsClosed
  <2>4. Thins(Y, X)
    BY <1>5, <2>3, ThinsOn
  <2> QED
    BY <1>2, <1>7, <2>1, <2>3, <2>4, KnownKept
<1> QED
  BY <1>4, <1>6, <1>7

LEMMA OffloadRequestKnown ==
  ASSUME OffloadInv, BlocksKnown, NEW r \in Sessions, OffloadRequest(r)
  PROVE  BlocksKnown'
<1>1. op.pc = "idle" /\ r \in Parked /\ shown' = [shown EXCEPT ![r] = Len(q'[r].table)]
  BY DEF OffloadRequest
<1>2. PICK X, Z, h : X = State /\ Z = Waited(State, FALSE) /\ h = NoHold
  OBVIOUS
<1>3. Good(X, h) /\ Calm(X) /\ op.hold = NoHold /\ X.q = q
  BY <1>1, <1>2, GoodState, IdleOp DEF OffloadInv
<1>4. Good(Z, h) /\ Calm(Z) /\ Kin(Z, X) /\ ~Z.pend.on /\ Thins(Z, X)
  <2>1. LET Y == Waited(X, FALSE) IN Good(Y, h) /\ Calm(Y) /\ Kin(Y, X) /\ ~Y.pend.on
    BY <1>3, WaitedCalm, Zenon
  <2> QED
    BY <1>2, <1>3, <2>1, ThinsWaited
<1>5. ASSUME NEW Y, Good(Y, h), Thins(Y, Z), Become(Y)
      PROVE  BlocksKnown'
  <2>1. Thins(Y, State)
    BY <1>2, <1>4, <1>5, ThinsOn
  <2> QED
    BY <1>1, <1>5, <2>1, KnownOne
<1>6. PICK rs : rs = <<r>>
  OBVIOUS
<1>7. rs \in Seq(Sessions) /\ IsInjective(rs) /\ Range(rs) = {r} /\ 1 \in 1..Len(rs) /\ rs[1] = r
  BY <1>6, OneMember
<1>8. \/ Become(Z)
      \/ \E G \in Prepared(Z, rs) :
           \/ ~G.ok /\ Become(G.z)
           \/ G.ok /\ Become(Closed(Saved(G.z, r)))
           \/ G.ok /\ \E F \in SavesFailing(G.z, r) : Become(Closed(F))
  BY <1>2, <1>6 DEF OffloadRequest
<1>9. CASE \E G \in Prepared(Z, rs) :
           \/ ~G.ok /\ Become(G.z)
           \/ G.ok /\ Become(Closed(Saved(G.z, r)))
           \/ G.ok /\ \E F \in SavesFailing(G.z, r) : Become(Closed(F))
  <2>1. PICK G \in Prepared(Z, rs) :
           \/ ~G.ok /\ Become(G.z)
           \/ G.ok /\ Become(Closed(Saved(G.z, r)))
           \/ G.ok /\ \E F \in SavesFailing(G.z, r) : Become(Closed(F))
    BY <1>9
  <2>2. \A x \in Range(rs) : Z.q[x].st = "parked"
    BY <1>1, <1>3, <1>4, <1>7 DEF Kin, Parked
  <2>3. Good(Z, op.hold)
    BY <1>2, <1>3, <1>4
  <2>4. /\ Good(G.z, op.hold)
        /\ G.ok => Awaits(G.z, rs, 1)
    BY <1>4, <1>7, <2>1, <2>2, <2>3, PreparedGood
  <2>5. Thins(G.z, Z)
    BY <1>4, <1>7, <2>1, <2>2, <2>3, ThinsPrepared
  <2>6. PICK g : g = G.z
    OBVIOUS
  <2>7. Good(g, h) /\ (G.ok => Awaits(g, rs, 1)) /\ Thins(g, Z)
    BY <1>2, <1>3, <2>4, <2>5, <2>6
  <2>8. CASE ~G.ok /\ Become(g)
    BY <1>5, <2>7, <2>8
  <2>9. ASSUME NEW F, Good(F, h), Thins(F, g), Become(Closed(F))
        PROVE  BlocksKnown'
    <3>1. PICK Y : Y = Closed(F)
      OBVIOUS
    <3>2. LET C == Closed(F) IN Good(C, h) /\ Calm(C) /\ Kin(C, F) /\ C.pend = F.pend
      BY <2>9, ClosedGood, Zenon
    <3>3. Good(Y, h) /\ Thins(Y, F)
      BY <2>9, <3>1, <3>2, ThinsClosed
    <3>4. Thins(Y, g)
      BY <2>9, <3>3, ThinsOn
    <3>5. Thins(Y, Z)
      BY <2>7, <3>4, ThinsOn
    <3> QED
      BY <1>5, <2>9, <3>1, <3>3, <3>5
  <2>10. CASE G.ok /\ Become(Closed(Saved(g, r)))
    <3>1. LET Y == Saved(g, rs[1]) IN Good(Y, h) /\ Kin(Y, g) /\ Awaits(Y, rs, 1 + 1)
      BY <1>7, <2>7, <2>10, SavedGood, Zenon
    <3>2. PICK F, i : F = Saved(g, rs[i]) /\ i = 1
      OBVIOUS
    <3>3. Good(F, h) /\ Become(Closed(F))
      BY <1>7, <2>10, <3>1, <3>2
    <3>4. i \in 1..Len(rs) /\ Awaits(g, rs, i)
      BY <1>7, <2>7, <2>10, <3>2
    <3>5. Thins(F, g)
      BY <1>7, <2>7, <3>2, <3>4, ThinsSaved
    <3> QED
      BY <2>9, <3>3, <3>5
  <2>11. CASE G.ok /\ \E F \in SavesFailing(g, r) : Become(Closed(F))
    <3>1. PICK F \in SavesFailing(g, rs[1]) : Become(Closed(F))
      BY <1>7, <2>11
    <3>2. Good(F, h)
      BY <1>7, <2>7, <2>11, SaveRaises
    <3>3. Thins(F, g)
      BY <1>7, <2>7, <2>11, ThinsRaised
    <3> QED
      BY <2>9, <3>1, <3>2, <3>3
  <2> QED
    BY <2>1, <2>6, <2>8, <2>10, <2>11
<1>10. CASE Become(Z)
  <2>1. Thins(Z, Z)
    BY ThinsSame
  <2> QED
    BY <1>4, <1>5, <1>10, <2>1
<1> QED
  BY <1>8, <1>9, <1>10

LEMMA RunTurnKnown ==
  ASSUME OffloadInv, BlocksKnown, NEW r \in Sessions, NEW tok \in Sampled, RunTurn(r, tok)
  PROVE  BlocksKnown'
<1>1. OffloadInv'
  BY RunTurnOK
<1>2. Requests(q') /\ Requests(q)
  <2>1. Good(State, op.hold)'
    BY <1>1 DEF OffloadInv
  <2>2. Requests(q')
    BY <2>1 DEF Good, Seated, Seats, State
  <2> QED
    BY <2>2, GoodState
<1>3. \A x \in Sessions : x # r => q'[x] = q[x]
  <2>1. PICK T \in Turns(pool, q[r], tok) :
          Become([State EXCEPT !.pool = T.pool, !.kv = T.kv,
                               !.q[r] = [T.q EXCEPT !.st = "parked"],
                               !.use[r] = NoUse, !.unsettled = @ - use[r].n])
    BY DEF RunTurn
  <2>2. PICK c, K, Y : /\ c = [T.q EXCEPT !.st = "parked"] /\ K = State
                       /\ Y = [K EXCEPT !.pool = T.pool, !.kv = T.kv, !.q[r] = c, !.use[r] = NoUse,
                                        !.unsettled = @ - use[r].n]
    OBVIOUS
  <2>3. Become(Y) /\ Zone(K) /\ K.q = q
    BY <2>1, <2>2, GoodState
  <2>4. q' = [q EXCEPT ![r] = c]
    BY <2>2, <2>3 DEF Zone, Become
  <2> QED
    BY <2>4
<1>4. shown \in [Sessions -> Nat] /\ shown' = [shown EXCEPT ![r] = Len(q'[r].table)]
  BY DEF RunTurn, BlocksKnown, Known
<1>5. PICK Q, sg : Q = q' /\ sg = shown'
  OBVIOUS
<1>6. Recounts(sg, shown, Q)
  BY <1>4, <1>5, RecountsOne
<1>7. \A x \in Sessions : Q[x].st = "parked" /\ Q[x].table # << >> => (sg[x] = shown[x] => shown[x] > 0)
  <2>1. ASSUME NEW x \in Sessions, x # r, Q[x].st = "parked", Q[x].table # << >>
        PROVE  shown[x] > 0
    BY <1>3, <1>5, <2>1 DEF BlocksKnown, Known
  <2>2. ASSUME Q[r].table # << >>, sg[r] = shown[r]
        PROVE  shown[r] > 0
    <3>1. Q[r].table \in Seq(Blocks)
      BY <1>2, <1>5 DEF Requests, IsRequest
    <3>2. Len(Q[r].table) > 0
      BY <2>2, <3>1, EmptySeq, LenProperties
    <3> QED
      BY <1>4, <1>5, <2>2, <3>2
  <2> QED
    BY <2>1, <2>2
<1>8. Known(Q, sg)
  BY <1>2, <1>4, <1>5, <1>6, <1>7, Recounted
<1> QED
  BY <1>5, <1>8 DEF BlocksKnown

LEMMA RetryAdmissionKnown ==
  ASSUME OffloadInv, BlocksKnown, RetryAdmission
  PROVE  BlocksKnown'
<1>1. op.pc = "retry" /\ op.for \in Parked /\ op.suffix \in TokenLists
  BY DEF RetryAdmission, OffloadInv, OpOK
<1>2. CASE Become(State) /\ UNCHANGED shown
  BY <1>2, KnownState
<1>3. CASE LET r == op.for
               c == Admitted(q[r].tokens \o op.suffix)
               Z == Finished(State, {r})
           IN  /\ \E t \in Attaching(Z.pool, c) :
                    Become([Z EXCEPT !.pool = AttachPool(@, t), !.q[r] = Attached(c, t)])
               /\ Unparked(r)
  <2>1. PICK X, r, S, Z, toks : /\ X = State /\ r = op.for /\ S = {r} /\ Z = Finished(X, S)
                                /\ toks = q[r].tokens \o op.suffix
    OBVIOUS
  <2>2. PICK t \in Attaching(Z.pool, Admitted(toks)) :
          Become([Z EXCEPT !.pool = AttachPool(@, t), !.q[r] = Attached(Admitted(toks), t)])
    BY <1>3, <2>1
  <2>3. PICK Y, c : Y = [Z EXCEPT !.pool = AttachPool(@, t), !.q[r] = c] /\ c = Attached(Admitted(toks), t)
    OBVIOUS
  <2>4. r \in Sessions /\ S \in SUBSET Sessions /\ Become(Y) /\ shown' = [shown EXCEPT ![r] = 0]
    BY <1>1, <1>3, <2>1, <2>2, <2>3 DEF Parked, Unparked
  <2>5. /\ Good(Z, op.hold) /\ Z.q[r] = NoReq /\ (Z.pend.on => Z.pend.meta.rid # r)
        /\ \A x \in Sessions : x # r => Z.q[x].st = q[x].st
    <3>1. op.pc # "save" /\ Z = Finished(State, S)
      BY <1>1, <2>1
    <3>2. /\ Good(Z, op.hold) /\ (Z.pend.on => Z.pend.meta.rid \notin S)
          /\ \A x \in S : Z.q[x] = NoReq
          /\ \A x \in Sessions : x \notin S => Z.q[x].st = q[x].st /\ Z.q[x].tokens = q[x].tokens
      BY <2>4, <3>1, FinishedIdle
    <3> QED
      BY <2>1, <3>2
  <2>6. Zone(Z) /\ DOMAIN Z.q = Sessions
    BY <2>5, GoodQ DEF Requests
  <2>7. Y.q = [Z.q EXCEPT ![r] = c]
    BY <2>3, <2>6 DEF Zone
  <2>8. OffloadInv'
    BY RetryAdmissionOK
  <2>9. c.st = "active"
    <3>1. Admitted(toks).st = "active" /\ DOMAIN Admitted(toks) = DOMAIN NoReq
      BY DEF Admitted, NoReq
    <3> QED
      BY <2>3, <3>1 DEF Attached, NoReq
  <2>10. PICK h : h = op.hold
    OBVIOUS
  <2>11. Good(X, h) /\ Calm(X)
    BY <1>1, <2>1, <2>10, GoodState
  <2>12. Thins(Z, X)
    BY <2>1, <2>4, <2>11, ThinsFinished
  <2>13. OnlyMoves(Y, Z, r) /\ Y.q[r].st # "parked"
    BY <2>4, <2>6, <2>7, <2>9 DEF OnlyMoves
  <2>14. Thins(Y, X)
    <3>1. Thins(Y, Z)
      BY <2>4, <2>13, ThinsMoved
    <3> QED
      BY <2>12, <3>1, ThinsOn
  <2>15. q' = Y.q /\ Requests(q')
    <3>1. Good(State, op.hold)'
      BY <2>8 DEF OffloadInv
    <3>2. Requests(q')
      BY <3>1 DEF Good, Seated, Seats, State
    <3> QED
      BY <2>4, <3>2 DEF Become
  <2>16. PICK sg : sg = shown'
    OBVIOUS
  <2>17. shown \in [Sessions -> Nat] /\ Requests(Y.q)
    BY <2>15 DEF BlocksKnown, Known
  <2>18. Recounts(sg, shown, Y.q)
    BY <2>4, <2>13, <2>16, <2>17, RecountsNone
  <2>19. \A x \in Sessions : Y.q[x].st = "parked" /\ Y.q[x].table # << >> => (sg[x] = shown[x] => shown[x] > 0)
    BY <2>1, <2>14 DEF Thins, BlocksKnown, Known, State
  <2>20. Known(Y.q, sg)
    BY <2>17, <2>18, <2>19, Recounted
  <2> QED
    BY <2>15, <2>16, <2>20 DEF BlocksKnown
<1> QED
  BY <1>2, <1>3 DEF RetryAdmission

LEMMA NewTurnKnown ==
  ASSUME BlocksKnown, NEW r \in Sessions, NEW p \in Prompts, NewTurn(r, p)
  PROVE  BlocksKnown'
<1>1. PICK t \in Attaching(pool, Admitted(p)) : q' = [q EXCEPT ![r] = Attached(Admitted(p), t)]
  BY DEF NewTurn, AddRequest
<1>2. Attached(Admitted(p), t).st = "active"
  <2>1. Admitted(p).st = "active" /\ DOMAIN Admitted(p) = DOMAIN NoReq
    BY DEF Admitted, NoReq
  <2> QED
    BY <2>1 DEF Attached, NoReq
<1>3. shown' = shown
  BY DEF NewTurn, AddRequest
<1>4. ASSUME NEW x \in Sessions, q'[x].st = "parked"
      PROVE  q'[x] = q[x]
  BY <1>1, <1>2, <1>4
<1> QED
  BY <1>3, <1>4 DEF BlocksKnown, Known

LEMMA InvalidateAllKnown ==
  ASSUME OffloadInv, BlocksKnown, NEW change, InvalidateAll(change)
  PROVE  BlocksKnown'
<1>1. op.pc = "idle" /\ Active = {}
  BY DEF InvalidateAll
<1>2. Good(State, NoHold) /\ State.q = q
  BY <1>1, GoodState, IdleOp DEF OffloadInv
<1>3. PICK K, S, Y, h : K = State /\ S = Parked /\ Y = Emptied(K, S) /\ h = NoHold
  OBVIOUS
<1>4. \/ Become(Y) /\ shown' = [r \in Sessions |-> 0]
      \/ WaitRaises /\ UNCHANGED shown
  BY <1>3 DEF InvalidateAll, Emptied
<1>5. CASE WaitRaises /\ UNCHANGED shown
  BY <1>5, KnownState DEF WaitRaises
<1>6. CASE Become(Y) /\ shown' = [r \in Sessions |-> 0]
  <2>1. \A r \in Sessions : K.q[r].st # "active"
    BY <1>1, <1>2, <1>3 DEF Active
  <2>2. S = {r \in Sessions : K.q[r].st = "parked"} /\ Good(K, h)
    BY <1>2, <1>3 DEF Parked
  <2>3. \A r \in Sessions : Y.q[r].table = << >>
    <3>1. CASE Tiered
      BY <1>3, <2>1, <2>2, <3>1, GoodBlocks, BlockInvalidatedGood
    <3>2. CASE ~Tiered
      BY <1>3, <2>1, <2>2, <3>2, GoodSnaps, InvalidatedGood
    <3> QED
      BY <3>1, <3>2
  <2>4. q' = Y.q
    BY <1>6 DEF Become
  <2> QED
    BY <1>6, <2>3, <2>4 DEF BlocksKnown, Known
<1> QED
  BY <1>4, <1>5, <1>6

LEMMA KnownStep ==
  ASSUME OffloadInv, BlocksKnown, OffloadNext
  PROVE  BlocksKnown'
<1>1. CASE EvictCached
  BY <1>1, EvictCachedKnown
<1>2. CASE OpenGroup
  BY <1>2, OpenGroupKnown
<1>3. CASE SaveNext
  BY <1>3, SaveNextKnown
<1>4. CASE SaveFails
  BY <1>4, SaveFailsKnown
<1>5. CASE DropOldest
  BY <1>5, DropOldestKnown
<1>6. CASE RetryAdmission
  BY <1>6, RetryAdmissionKnown
<1>7. CASE UNCHANGED <<pool, epoch, kv, q, order, shown, fatal, weights, stale, offloadVars>>
  BY <1>7, KnownStill
<1>8. CASE EarlyOffload
  BY <1>8, EarlyOffloadKnown
<1>9. CASE StepRaises
  BY <1>9, StepRaisesKnown
<1>10. ASSUME NEW r \in Sessions, NEW tok \in Sampled, RunTurn(r, tok)
       PROVE  BlocksKnown'
  BY <1>10, RunTurnKnown
<1>11. CASE BeginStep
  BY <1>11, BeginStepKnown
<1>12. CASE CopyChunk
  BY <1>12, KnownStill DEF CopyChunk, residencyVars
<1>13. CASE AbortAll
  BY <1>13, AbortAllKnown
<1>14. ASSUME NEW r \in Sessions, NEW p \in Prompts, NewTurn(r, p)
       PROVE  BlocksKnown'
  BY <1>14, NewTurnKnown
<1>15. ASSUME NEW r \in Sessions, NEW s \in NextTokens, Admit(r, s) \/ AdmitFails(r, s)
       PROVE  BlocksKnown'
  BY <1>15, AdmitKnown, AdmitFailsKnown
<1>16. ASSUME NEW r \in Sessions, AdmitRaises(r) \/ AdmitRefused(r) \/ FinishSession(r) \/ OffloadRequest(r)
       PROVE  BlocksKnown'
  BY <1>16, AdmitRaisesKnown, AdmitRefusedKnown, FinishSessionKnown, OffloadRequestKnown
<1>17. ASSUME NEW c \in {0, 1}, InvalidateAll(c)
       PROVE  BlocksKnown'
  BY <1>17, InvalidateAllKnown
<1> QED
  BY <1>1, <1>2, <1>3, <1>4, <1>5, <1>6, <1>7, <1>8, <1>9, <1>10, <1>11, <1>12, <1>13, <1>14, <1>15, <1>16, <1>17
  DEF OffloadNext, Episode

LEMMA KnownBegins ==
  ASSUME OffloadInit
  PROVE  BlocksKnown
<1>1. q = [r \in Sessions |-> NoReq] /\ shown = [r \in Sessions |-> 0]
  BY DEF OffloadInit, ResidencyInit
<1> QED
  BY <1>1 DEF BlocksKnown, Known, NoReq

(***************************************************************************)
(* The pressure episode: what is left to do.                               *)
(***************************************************************************)
LEMMA FewSessions ==
  ASSUME NEW s \in Seq(Sessions), IsInjective(s)
  PROVE  Len(s) \in Nat /\ Cardinality(Sessions) \in Nat /\ Len(s) <= Cardinality(Sessions)
<1>1. Len(s) \in Nat /\ s \in [1..Len(s) -> Sessions] /\ DOMAIN s = 1..Len(s) /\ IsFiniteSet(Sessions)
  BY ResidencyAssumption, LenProperties
<1>2. s \in Injection(1..Len(s), Sessions)
  BY <1>1 DEF IsInjective, Injection
<1>3. Cardinality(1..Len(s)) = Len(s)
  BY <1>1, FS_Interval
<1>4. Cardinality(Sessions) \in Nat /\ Cardinality(1..Len(s)) <= Cardinality(Sessions)
  BY <1>1, <1>2, FS_Injection, FS_CardinalityType
<1> QED
  BY <1>1, <1>3, <1>4

Showing(sh) == {r \in Sessions : sh[r] > 0}
LEMMA FewShown ==
  ASSUME NEW sh
  PROVE  /\ IsFiniteSet(Showing(sh)) /\ Cardinality(Showing(sh)) \in Nat /\ Cardinality(Sessions) \in Nat
         /\ Cardinality(Showing(sh)) <= Cardinality(Sessions)
<1>1. IsFiniteSet(Sessions) /\ Showing(sh) \in SUBSET Sessions
  BY ResidencyAssumption DEF Showing
<1>2. IsFiniteSet(Showing(sh)) /\ Cardinality(Showing(sh)) <= Cardinality(Sessions)
  BY <1>1, FS_Subset
<1> QED
  BY <1>1, <1>2, FS_CardinalityType

LEMMA FewerShown ==
  ASSUME NEW sh \in [Sessions -> Nat], NEW r \in Sessions, sh[r] > 0
  PROVE  Cardinality(Showing([sh EXCEPT ![r] = 0])) < Cardinality(Showing(sh))
<1>1. Showing([sh EXCEPT ![r] = 0]) = Showing(sh) \ {r} /\ r \in Showing(sh)
  BY DEF Showing
<1>2. IsFiniteSet(Showing(sh)) /\ Cardinality(Showing(sh)) \in Nat
  BY FewShown
<1>3. PICK T, n : T = Showing(sh) /\ n = Cardinality(T)
  OBVIOUS
<1>4. Cardinality(T \ {r}) = n - 1 /\ n \in Nat
  BY <1>1, <1>2, <1>3, FS_RemoveElement
<1>5. n - 1 < n
  BY <1>4
<1> QED
  BY <1>1, <1>3, <1>4, <1>5

\* An operation's place, and Work taken apart: the stage, and what the stage has to look at.
Fit(o) ==
  /\ o.pc \in Stages /\ o.then \in {"idle", "step"} /\ o.cand \in Seq(Sessions) /\ IsInjective(o.cand)
  /\ o.pc = "save" => Len(o.group) \in Nat /\ o.at \in 1..Len(o.group)
Rank(o) == Stage(o) + (IF o.then = "step" THEN 5 ELSE 0)
Members(o) == IF o.pc = "save" THEN 2 * (Len(o.group) - o.at + 1) ELSE 0
Drops(o, sh) == IF o.pc = "drop" THEN Cardinality(Showing(sh)) ELSE 0

LEMMA StageRanks ==
  ASSUME NEW o, Fit(o)
  PROVE  /\ Stage(o) = CASE o.pc = "idle" -> 0
                         [] o.pc \in {"drop", "retry"} -> 1
                         [] o.pc \in {"offload", "save"} -> 2
                         [] o.pc = "evict" -> 3
                         [] o.pc = "step" -> 4
                         [] o.pc = "early" -> 9
         /\ Stage(o) \in 0..9 /\ Rank(o) \in 0..14
<1>1. /\ Stage(o) = CASE o.pc = "idle" -> 0
                         [] o.pc \in {"drop", "retry"} -> 1
                         [] o.pc \in {"offload", "save"} -> 2
                         [] o.pc = "evict" -> 3
                         [] o.pc = "step" -> 4
                         [] o.pc = "early" -> 9
  BY DEF Stage
<1>2. Stage(o) \in 0..9
  BY <1>1 DEF Fit, Stages
<1>3. Rank(o) \in 0..14
  <2>1. PICK k : k = Stage(o)
    OBVIOUS
  <2>2. Rank(o) = k + 5 \/ Rank(o) = k + 0
    BY <2>1 DEF Rank
  <2> QED
    BY <1>2, <2>1, <2>2
<1> QED
  BY <1>1, <1>2, <1>3

LEMMA WorkParts ==
  ASSUME NEW o, Fit(o), NEW sh
  PROVE  /\ Cardinality(Sessions) \in Nat /\ StageWeight = 3 * Cardinality(Sessions) + 1
         /\ Len(o.cand) \in Nat /\ Len(o.cand) <= Cardinality(Sessions)
         /\ Members(o) \in Nat /\ Drops(o, sh) \in Nat /\ Drops(o, sh) <= Cardinality(Sessions)
         /\ Rank(o) \in 0..14
         /\ Work(o, sh) = StageWeight * Rank(o) + 3 * Len(o.cand) + Members(o) + Drops(o, sh)
<1>1. Cardinality(Sessions) \in Nat /\ Len(o.cand) \in Nat /\ Len(o.cand) <= Cardinality(Sessions)
  BY FewSessions DEF Fit
<1>2. Members(o) \in Nat
  BY DEF Fit, Members
<1>3. Drops(o, sh) \in Nat /\ Drops(o, sh) <= Cardinality(Sessions)
  BY FewShown, <1>1 DEF Drops
<1>4. Rank(o) \in 0..14
  BY StageRanks
<1>5. Work(o, sh) = StageWeight * Rank(o) + 3 * Len(o.cand) + Members(o) + Drops(o, sh)
  BY DEF Work, Rank, Members, Drops, Showing
<1> QED
  BY <1>1, <1>2, <1>3, <1>4, <1>5 DEF StageWeight

\* A step to a lower stage.
LEMMA LowerStage ==
  ASSUME NEW o, Fit(o), NEW p, Fit(p), NEW sh, NEW sg, Rank(p) < Rank(o),
         p.pc # "save", p.pc = "drop" => p.cand = << >>
  PROVE  Work(p, sg) < Work(o, sh)
<1> DEFINE N == Cardinality(Sessions)
           w == StageWeight
           a == Rank(p)
           b == Rank(o)
           x == 3 * Len(p.cand) + Drops(p, sg)
           y == 3 * Len(o.cand) + Members(o) + Drops(o, sh)
<1>1. N \in Nat /\ w = 3 * N + 1 /\ a \in 0..14 /\ b \in 0..14 /\ a < b
  BY WorkParts
<1>2. y \in Nat /\ Work(o, sh) = w * b + y
  <2>1. /\ Len(o.cand) \in Nat /\ Members(o) \in Nat /\ Drops(o, sh) \in Nat
        /\ Work(o, sh) = w * b + 3 * Len(o.cand) + Members(o) + Drops(o, sh)
    BY WorkParts
  <2>2. w * b \in Nat
    <3> HIDE DEF w, b
    <3> QED
      BY <1>1
  <2>3. PICK wb, m, d, l, v : /\ wb = w * b /\ m = Members(o) /\ d = Drops(o, sh) /\ l = Len(o.cand)
                             /\ v = Work(o, sh)
    OBVIOUS
  <2>4. wb \in Nat /\ m \in Nat /\ d \in Nat /\ l \in Nat /\ v = wb + 3 * l + m + d
    <3> HIDE DEF w, b, y
    <3> QED
      BY <2>1, <2>2, <2>3
  <2>5. PICK z : z = 3 * l + m + d
    OBVIOUS
  <2>6. z \in Nat /\ v = wb + z
    BY <2>4, <2>5
  <2>7. y = z
    BY <2>3, <2>5
  <2> HIDE DEF w, b, y
  <2> QED
    BY <2>3, <2>6, <2>7
<1>3. x \in Nat /\ x <= 3 * N /\ Work(p, sg) = w * a + x
  <2>1. /\ Len(p.cand) \in Nat /\ Len(p.cand) <= N /\ Members(p) = 0 /\ Drops(p, sg) \in Nat /\ Drops(p, sg) <= N
        /\ Work(p, sg) = w * a + 3 * Len(p.cand) + Members(p) + Drops(p, sg)
    BY WorkParts DEF Members
  <2>2. Len(p.cand) = 0 \/ Drops(p, sg) = 0
    BY EmptyList DEF Drops
  <2>3. w * a \in Nat
    <3> HIDE DEF w, a
    <3> QED
      BY <1>1
  <2>4. PICK wa, d, l, n, v : wa = w * a /\ d = Drops(p, sg) /\ l = Len(p.cand) /\ n = N /\ v = Work(p, sg)
    OBVIOUS
  <2>5. wa \in Nat /\ n \in Nat /\ l \in Nat /\ l <= n /\ d \in Nat /\ d <= n /\ (l = 0 \/ d = 0) /\ v = wa + 3 * l + 0 + d
    BY <1>1, <2>1, <2>2, <2>3, <2>4
  <2>6. 3 * l + d \in Nat /\ 3 * l + d <= 3 * n /\ v = wa + (3 * l + d)
    BY <2>5
  <2> QED
    BY <2>4, <2>6
<1> HIDE DEF N, w, a, b, x, y
<1>4. w * a + w <= w * b
  <2>1. PICK d \in Nat : b = a + 1 + d
    BY <1>1
  <2>2. w * b = w * a + w + w * d /\ w * d \in Nat /\ w * a \in Nat /\ w \in Nat
    BY <1>1, <2>1
  <2> QED
    BY <2>2
<1>5. w * a \in Nat /\ w * b \in Nat
  BY <1>1
<1> QED
  BY <1>1, <1>2, <1>3, <1>4, <1>5

\* A step within a stage.
LEMMA LowerWithin ==
  ASSUME NEW o, Fit(o), NEW p, Fit(p), NEW sh, NEW sg, Rank(p) = Rank(o),
         3 * Len(p.cand) + Members(p) + Drops(p, sg) < 3 * Len(o.cand) + Members(o) + Drops(o, sh)
  PROVE  Work(p, sg) < Work(o, sh)
<1>1. PICK k : k = StageWeight * Rank(o)
  OBVIOUS
<1>2. k \in Nat
  <2>1. Cardinality(Sessions) \in Nat /\ StageWeight = 3 * Cardinality(Sessions) + 1 /\ Rank(o) \in 0..14
    BY WorkParts
  <2>2. PICK w, b, n : w = StageWeight /\ b = Rank(o) /\ n = Cardinality(Sessions)
    OBVIOUS
  <2>3. n \in Nat /\ w = 3 * n + 1 /\ b \in Nat /\ k = w * b
    BY <1>1, <2>1, <2>2
  <2>4. w \in Nat
    BY <2>3
  <2> QED
    BY <2>3, <2>4
<1>3. /\ Len(o.cand) \in Nat /\ Members(o) \in Nat /\ Drops(o, sh) \in Nat
      /\ Work(o, sh) = k + 3 * Len(o.cand) + Members(o) + Drops(o, sh)
  BY <1>1, WorkParts
<1>4. /\ Len(p.cand) \in Nat /\ Members(p) \in Nat /\ Drops(p, sg) \in Nat
      /\ Work(p, sg) = k + 3 * Len(p.cand) + Members(p) + Drops(p, sg)
  BY <1>1, WorkParts
<1>5. PICK x1, x2, x3, y1, y2, y3 : /\ x1 = Len(o.cand) /\ x2 = Members(o) /\ x3 = Drops(o, sh)
                                    /\ y1 = Len(p.cand) /\ y2 = Members(p) /\ y3 = Drops(p, sg)
  OBVIOUS
<1>6. k + 3 * y1 + y2 + y3 < k + 3 * x1 + x2 + x3
  <2>1. x1 \in Nat /\ x2 \in Nat /\ x3 \in Nat /\ y1 \in Nat /\ y2 \in Nat /\ y3 \in Nat /\ 3 * y1 + y2 + y3 < 3 * x1 + x2 + x3
    BY <1>3, <1>4, <1>5
  <2> QED
    BY <1>2, <2>1
<1> QED
  BY <1>3, <1>4, <1>5, <1>6

LEMMA OpFits ==
  ASSUME OffloadInv
  PROVE  Fit(op)
BY LenProperties DEF OffloadInv, OpOK, Fit

LEMMA NextFits ==
  ASSUME OffloadInv'
  PROVE  Fit(op')
BY LenProperties DEF OffloadInv, OpOK, Fit

LEMMA Ranks ==
  ASSUME NEW o, Fit(o)
  PROVE  /\ o.pc = "idle" => Stage(o) = 0
         /\ o.pc \in {"drop", "retry"} => Stage(o) = 1
         /\ o.pc \in {"offload", "save"} => Stage(o) = 2
         /\ o.pc = "evict" => Stage(o) = 3
         /\ o.pc = "step" => Stage(o) = 4
         /\ o.pc = "early" => Stage(o) = 9
         /\ Rank(o) = (IF o.then = "step" THEN Stage(o) + 5 ELSE Stage(o))
         /\ Stage(o) \in 0..9
<1>1. Stage(o) \in 0..9
  BY StageRanks
<1>2. Rank(o) = (IF o.then = "step" THEN Stage(o) + 5 ELSE Stage(o))
  BY <1>1 DEF Rank
<1> QED
  BY <1>1, <1>2 DEF Stage

LEMMA SaveRank ==
  ASSUME NEW o, Fit(o), o.pc = "offload" \/ o.pc = "save",
         NEW p, Fit(p), p.pc = "offload" \/ p.pc = "save", p.then = o.then
  PROVE  Rank(p) = Rank(o)
<1>1. Stage(o) = 2
  BY Ranks
<1>2. Stage(p) = 2
  BY Ranks
<1> QED
  BY <1>1, <1>2 DEF Rank

LEMMA Lowered ==
  ASSUME OffloadInv, OffloadInv', Rank(op') < Rank(op), op'.pc # "save", op'.pc = "drop" => op'.cand = << >>
  PROVE  Advances
<1>1. PICK o, p, sh, sg : o = op /\ p = op' /\ sh = shown /\ sg = shown'
  OBVIOUS
<1>2. Fit(o) /\ Fit(p) /\ Rank(p) < Rank(o) /\ p.pc # "save" /\ (p.pc = "drop" => p.cand = << >>)
  BY <1>1, OpFits, NextFits
<1>3. Work(p, sg) < Work(o, sh)
  BY <1>2, LowerStage
<1> QED
  BY <1>1, <1>3 DEF Advances

LEMMA LoweredWithin ==
  ASSUME OffloadInv, OffloadInv', Rank(op') = Rank(op), NEW x \in Nat, NEW y \in Nat, x < y,
         3 * Len(op'.cand) + Members(op') + Drops(op', shown') = x,
         3 * Len(op.cand) + Members(op) + Drops(op, shown) = y
  PROVE  Advances
<1>1. PICK o, p, sh, sg : o = op /\ p = op' /\ sh = shown /\ sg = shown'
  OBVIOUS
<1>2. /\ Fit(o) /\ Fit(p) /\ Rank(p) = Rank(o)
      /\ 3 * Len(p.cand) + Members(p) + Drops(p, sg) < 3 * Len(o.cand) + Members(o) + Drops(o, sh)
  BY <1>1, OpFits, NextFits
<1>3. Work(p, sg) < Work(o, sh)
  BY <1>2, LowerWithin
<1> QED
  BY <1>1, <1>3 DEF Advances

\* An operation that gives up has nothing left to do.
LEMMA GivesUp ==
  ASSUME OffloadInv, OffloadInv', op.pc # "idle", op' = Idle
  PROVE  Advances
<1>1. op'.pc = "idle" /\ op'.then = "idle"
  BY DEF Idle
<1>2. PICK o, p : o = op /\ p = op'
  OBVIOUS
<1>3. Fit(o) /\ Fit(p) /\ p.pc = "idle" /\ p.then = "idle" /\ o.pc # "idle"
  BY <1>1, <1>2, OpFits, NextFits
<1>4. Rank(p) = 0 /\ Rank(o) > 0
  <2>1. Stage(p) = 0 /\ Rank(p) = Stage(p)
    BY <1>3, Ranks
  <2>2. Stage(o) > 0 /\ Stage(o) \in 0..9
    BY <1>3, Ranks DEF Fit, Stages
  <2>3. Rank(o) = Stage(o) \/ Rank(o) = Stage(o) + 5
    BY <1>3, Ranks
  <2> QED
    BY <2>1, <2>2, <2>3
<1> QED
  BY <1>1, <1>2, <1>4, Lowered

LEMMA EvictCachedAdvances ==
  ASSUME OffloadInv, OffloadInv', EvictCached
  PROVE  Advances
<1>1. op.pc = "evict" /\ (op' = Idle \/ op' = StartOffload(op, q'))
  BY DEF EvictCached
<1>2. CASE op' = Idle
  BY <1>1, <1>2, GivesUp
<1>3. CASE op' = StartOffload(op, q')
  <2>1. PICK o, p, c : o = op /\ p = op' /\ c = Candidates(q')
    OBVIOUS
  <2>2. DOMAIN o = DOMAIN Idle /\ p = [o EXCEPT !.pc = "offload", !.cand = c]
    BY <1>3, <2>1 DEF StartOffload, OffloadInv, OpOK
  <2>3. p.pc = "offload" /\ p.then = o.then /\ o.pc = "evict" /\ Fit(o) /\ Fit(p)
    BY <1>1, <2>1, <2>2, OpFits, NextFits DEF Idle
  <2>4. Rank(p) < Rank(o)
    BY <2>3, Ranks
  <2> QED
    BY <2>1, <2>3, <2>4, Lowered
<1> QED
  BY <1>1, <1>2, <1>3

LEMMA OffloadDoneAdvances ==
  ASSUME OffloadInv, OffloadInv', OffloadDone
  PROVE  Advances
<1>1. PICK o, p : o = op /\ p = op'
  OBVIOUS
<1>2. /\ o.pc = "offload" /\ DOMAIN o = DOMAIN Idle
      /\ p = [o EXCEPT !.pc = IF o.for = NoOne THEN "drop" ELSE "retry", !.cand = << >>]
  BY <1>1 DEF OffloadDone, OffloadInv, OpOK
<1>3. p.pc \in {"drop", "retry"} /\ p.then = o.then /\ p.cand = << >> /\ Fit(o) /\ Fit(p)
  BY <1>1, <1>2, OpFits, NextFits DEF Idle
<1>4. Rank(p) < Rank(o)
  <2>1. Stage(p) = 1 /\ Rank(p) = (IF p.then = "step" THEN Stage(p) + 5 ELSE Stage(p))
    BY <1>3, Ranks
  <2>2. Stage(o) = 2 /\ Rank(o) = (IF o.then = "step" THEN Stage(o) + 5 ELSE Stage(o))
    BY <1>2, <1>3, Ranks
  <2> QED
    BY <1>3, <2>1, <2>2
<1> QED
  BY <1>1, <1>3, <1>4, Lowered

LEMMA DropDoneAdvances ==
  ASSUME OffloadInv, OffloadInv', DropDone
  PROVE  Advances
<1>1. PICK o, p : o = op /\ p = op'
  OBVIOUS
<1>2. o.pc = "drop" /\ Fit(o) /\ Fit(p) /\ p = [Idle EXCEPT !.pc = o.then]
  BY <1>1, OpFits, NextFits DEF DropDone
<1>3. p.pc = o.then /\ p.then = "idle" /\ o.then \in {"idle", "step"} /\ p.cand = << >>
  BY <1>2 DEF Idle, Fit
<1>4. Rank(p) < Rank(o)
  <2>1. Rank(p) = Stage(p) /\ Stage(o) = 1
    BY <1>2, <1>3, Ranks
  <2>2. CASE o.then = "idle"
    <3>1. Rank(o) = 1 /\ Rank(p) = 0
      <4>1. Rank(o) = Stage(o) /\ Stage(p) = 0
        BY <1>2, <1>3, <2>2, Ranks
      <4> QED
        BY <2>1, <4>1
    <3> QED
      BY <3>1
  <2>3. CASE o.then = "step"
    <3>1. Rank(o) = 1 + 5 /\ Rank(p) = 4
      BY <1>2, <1>3, <2>1, <2>3, Ranks
    <3> QED
      BY <3>1
  <2> QED
    BY <1>3, <2>2, <2>3
<1> QED
  BY <1>1, <1>3, <1>4, Lowered

LEMMA RunTurnAdvances ==
  ASSUME OffloadInv, OffloadInv', NEW r \in Sessions, NEW tok \in Sampled, RunTurn(r, tok)
  PROVE  Advances
<1>1. PICK o, p : o = op /\ p = op'
  OBVIOUS
<1>2. o.pc = "step" /\ Fit(o) /\ Fit(p) /\ p = StartEvict(Watermark, "idle")
  BY <1>1, OpFits, NextFits DEF RunTurn
<1>3. p.pc = "evict" /\ p.then = "idle"
  BY <1>2 DEF StartEvict, Idle
<1>4. Rank(p) = 3 /\ Stage(o) = 4 /\ (Rank(o) = Stage(o) \/ Rank(o) = Stage(o) + 5)
  BY <1>2, <1>3, Ranks
<1>5. Rank(p) < Rank(o)
  BY <1>4
<1> QED
  BY <1>1, <1>3, <1>5, Lowered

LEMMA EarlyOffloadAdvances ==
  ASSUME OffloadInv, OffloadInv', EarlyOffload
  PROVE  Advances
<1>1. op.pc = "early" /\ (op' = Idle \/ \E P : op' = AfterEarly(P))
  BY DEF EarlyOffload
<1>2. CASE op' = Idle
  BY <1>1, <1>2, GivesUp
<1>3. CASE \E P : op' = AfterEarly(P)
  <2>1. PICK o, p : o = op /\ p = op'
    OBVIOUS
  <2>2. p = [Idle EXCEPT !.pc = "step"] \/ p = StartEvict(1, "step")
    BY <1>3, <2>1 DEF AfterEarly
  <2>3. \/ p.pc = "step" /\ p.then = "idle"
        \/ p.pc = "evict" /\ p.then = "step"
    BY <2>2 DEF StartEvict, Idle
  <2>4. o.pc = "early" /\ Fit(o) /\ Fit(p)
    BY <1>1, <2>1, OpFits, NextFits
  <2>5. Rank(p) = 4 \/ Rank(p) = 3 + 5
    BY <2>3, <2>4, Ranks
  <2>6. Stage(o) = 9 /\ (Rank(o) = Stage(o) \/ Rank(o) = Stage(o) + 5)
    BY <2>4, Ranks
  <2>7. Rank(p) < Rank(o)
    BY <2>5, <2>6
  <2> QED
    BY <2>1, <2>3, <2>7, Lowered
<1> QED
  BY <1>1, <1>2, <1>3

LEMMA LeaveGroupAdvances ==
  ASSUME OffloadInv, OffloadInv', op.pc = "save", NEW Z, LeaveGroup(Z)
  PROVE  Advances
<1>1. PICK o, p : o = op /\ p = op'
  OBVIOUS
<1>2. /\ o.pc = "save" /\ DOMAIN o = DOMAIN Idle /\ p = [o EXCEPT !.pc = "offload", !.group = << >>, !.at = 0]
      /\ Fit(o) /\ Fit(p)
  BY <1>1, OpFits, NextFits DEF LeaveGroup, OffloadInv, OpOK
<1>3. p.pc = "offload" /\ p.then = o.then /\ p.cand = o.cand
  BY <1>2 DEF Idle
<1>4. Rank(p) = Rank(o)
  BY <1>2, <1>3, SaveRank
<1>5. PICK n, m : n = Len(o.cand) /\ m = Len(o.group) - o.at + 1
  OBVIOUS
<1>6. n \in Nat /\ m \in Nat \ {0}
  BY <1>2, <1>5, WorkParts DEF Fit
<1>7. PICK x, y : x \in Nat /\ y \in Nat /\ x < y /\ x = 3 * n + 0 + 0 /\ y = 3 * n + 2 * m + 0
  <2>1. PICK x, y : x = 3 * n /\ y = 3 * n + 2 * m
    OBVIOUS
  <2>2. x \in Nat /\ y \in Nat /\ x < y /\ x = 3 * n + 0 + 0 /\ y = 3 * n + 2 * m + 0
    BY <1>6, <2>1
  <2> QED
    BY <2>2
<1>8. Members(o) = 2 * m /\ Drops(o, shown) = 0 /\ Members(p) = 0 /\ Drops(p, shown') = 0
  BY <1>2, <1>3, <1>5 DEF Members, Drops
<1>9. /\ 3 * Len(op'.cand) + Members(op') + Drops(op', shown') = x
      /\ 3 * Len(op.cand) + Members(op) + Drops(op, shown) = y
  BY <1>1, <1>3, <1>5, <1>7, <1>8
<1> QED
  BY <1>1, <1>4, <1>7, <1>9, LoweredWithin

LEMMA SaveNextAdvances ==
  ASSUME OffloadInv, OffloadInv', SaveNext
  PROVE  Advances
<1>1. op.pc = "save" /\ \/ \E Z : LeaveGroup(Z)
                        \/ op' = [op EXCEPT !.at = @ + 1]
  BY DEF SaveNext
<1>2. CASE \E Z : LeaveGroup(Z)
  BY <1>1, <1>2, LeaveGroupAdvances
<1>3. CASE op' = [op EXCEPT !.at = @ + 1]
  <2>1. PICK o, p : o = op /\ p = op'
    OBVIOUS
  <2>2. o.pc = "save" /\ DOMAIN o = DOMAIN Idle /\ p = [o EXCEPT !.at = o.at + 1] /\ Fit(o) /\ Fit(p)
    BY <1>1, <1>3, <2>1, OpFits, NextFits DEF OffloadInv, OpOK
  <2>3. p.pc = "save" /\ p.then = o.then /\ p.cand = o.cand /\ p.group = o.group /\ p.at = o.at + 1
    BY <2>2 DEF Idle
  <2>4. Rank(p) = Rank(o)
    BY <2>2, <2>3, SaveRank
  <2>5. PICK n, l, i : n = Len(o.cand) /\ l = Len(o.group) /\ i = o.at
    OBVIOUS
  <2>6. PICK x, y : x = 3 * n + 2 * (l - (i + 1) + 1) + 0 /\ y = 3 * n + 2 * (l - i + 1) + 0
    OBVIOUS
  <2>7. n \in Nat /\ l \in Nat /\ i \in 1..l /\ i + 1 \in 1..l
    BY <2>2, <2>3, <2>5, WorkParts DEF Fit
  <2>8. x \in Nat /\ y \in Nat /\ x < y
    BY <2>6, <2>7
  <2>9. /\ Members(o) = 2 * (l - i + 1) /\ Drops(o, shown) = 0
        /\ Members(p) = 2 * (l - (i + 1) + 1) /\ Drops(p, shown') = 0
    BY <2>2, <2>3, <2>5 DEF Members, Drops
  <2>10. /\ 3 * Len(op'.cand) + Members(op') + Drops(op', shown') = x
         /\ 3 * Len(op.cand) + Members(op) + Drops(op, shown) = y
    BY <2>1, <2>3, <2>5, <2>6, <2>9
  <2> QED
    BY <2>1, <2>4, <2>8, <2>10, LoweredWithin
<1> QED
  BY <1>1, <1>2, <1>3

LEMMA SaveFailsAdvances ==
  ASSUME OffloadInv, OffloadInv', SaveFails
  PROVE  Advances
<1>1. op.pc = "save" /\ (op' = Idle \/ \E Z : LeaveGroup(Z))
  <2>1. \E Z \in SavesFailing(State, op.group[op.at]) :
           \/ LeaveGroup(Z) /\ UNCHANGED fatal
           \/ Become(Closed(Z)) /\ op' = Idle /\ fatal' = TRUE /\ UNCHANGED shown
    BY DEF SaveFails
  <2>2. op' = Idle \/ \E Z : LeaveGroup(Z)
    BY <2>1, Zenon
  <2> QED
    BY <2>2 DEF SaveFails
<1> QED
  BY <1>1, GivesUp, LeaveGroupAdvances

LEMMA GroupLeaves ==
  ASSUME NEW P, NEW cand \in Seq(Sessions), IsInjective(cand), cand # << >>, NEW goal,
         NEW rs, rs = NextGroup(P, cand, goal), NEW rest, rest = SubSeq(cand, Len(rs) + 1, Len(cand))
  PROVE  Len(cand) \in Nat /\ Len(rs) \in Nat \ {0} /\ Len(rest) = Len(cand) - Len(rs) /\ Len(rest) \in Nat
<1>1. /\ rs \in Seq(Sessions) /\ IsInjective(rs) /\ Range(rs) \subseteq Range(cand) /\ 1 \in 1..Len(rs)
      /\ rest \in Seq(Sessions) /\ IsInjective(rest) /\ Range(rest) \subseteq Range(cand)
  BY GroupTaken
<1>2. PICK n, k : n = Len(cand) /\ k = Len(rs)
  OBVIOUS
<1>3. n \in Nat /\ k \in Nat \ {0}
  <2>1. n \in Nat /\ k \in Nat /\ 1 \in 1..k
    BY <1>1, <1>2, LenProperties
  <2> QED
    BY <2>1
<1>4. k <= n
  <2>1. n # 0
    BY <1>2, <1>3, EmptySeq
  <2>2. PICK X : X = {i \in 1..Len(cand) : Reclaimable(P, Range(SubSeq(cand, 1, i))) >= goal - FreeBlocks(P)}
    OBVIOUS
  <2>3. PICK l : l = IF X = {} THEN Len(cand) ELSE Min(X)
    OBVIOUS
  <2>4. l \in 1..n
    <3>1. CASE X = {}
      BY <1>2, <1>3, <2>1, <2>3, <3>1
    <3>2. CASE X # {}
      <4>1. X \in SUBSET Nat /\ X \subseteq 1..n
        BY <1>2, <1>3, <2>2
      <4>2. PICK i \in X : \A j \in X : i <= j
        BY <3>2, <4>1, LeastNatural
      <4>3. Min(X) \in X
        BY <4>2 DEF Min
      <4> QED
        BY <2>3, <3>2, <4>1, <4>3
    <3> QED
      BY <3>1, <3>2
  <2>5. rs = SubSeq(cand, 1, l)
    BY <2>2, <2>3 DEF NextGroup
  <2>6. Len(rs) = (l - 1) + 1
    <3>1. 1 \in 1..Len(cand) + 1 /\ l \in 1 - 1..Len(cand)
      BY <1>2, <1>3, <2>4
    <3> QED
      BY <2>5, <3>1, Within
  <2> QED
    BY <1>2, <1>3, <2>4, <2>6
<1>5. Len(rest) = n - (k + 1) + 1
  <2>1. rest = SubSeq(cand, k + 1, n) /\ k + 1 \in 1..n + 1 /\ n \in (k + 1) - 1..n
    BY <1>2, <1>3, <1>4
  <2>2. PICK a : a = k + 1
    OBVIOUS
  <2>3. rest = SubSeq(cand, a, n) /\ a \in 1..Len(cand) + 1 /\ n \in a - 1..Len(cand)
    BY <1>2, <2>1, <2>2
  <2>4. Len(rest) = (n - a) + 1
    BY <2>3, Within
  <2> QED
    BY <1>3, <2>2, <2>4
<1> QED
  BY <1>2, <1>3, <1>4, <1>5

LEMMA OpenGroupAdvances ==
  ASSUME OffloadInv, OffloadInv', OpenGroup
  PROVE  Advances
<1>1. PICK o, p, cand, goal : o = op /\ p = op' /\ cand = op.cand /\ goal = op.goal
  OBVIOUS
<1>2. PICK rs, rest : rs = NextGroup(pool, cand, goal) /\ rest = SubSeq(cand, Len(rs) + 1, Len(cand))
  OBVIOUS
<1>3. op.pc = "offload" /\ cand # << >> /\ \/ op' = Idle
                                           \/ op' = [op EXCEPT !.pc = "save", !.group = rs, !.at = 1, !.cand = rest]
                                           \/ op' = [op EXCEPT !.cand = rest]
  BY <1>1, <1>2 DEF OpenGroup
<1>4. o.pc = "offload" /\ DOMAIN o = DOMAIN Idle /\ Fit(o) /\ Fit(p) /\ o.cand = cand
  BY <1>1, <1>3, OpFits, NextFits DEF OffloadInv, OpOK
<1>5. Len(cand) \in Nat /\ Len(rs) \in Nat \ {0} /\ Len(rest) = Len(cand) - Len(rs) /\ Len(rest) \in Nat
  <2>1. cand \in Seq(Sessions) /\ IsInjective(cand)
    BY <1>4 DEF Fit
  <2> QED
    BY <1>2, <1>3, <2>1, GroupLeaves
<1>6. PICK n, k, m, y : n = Len(cand) /\ k = Len(rs) /\ m = Len(rest) /\ y = 3 * n
  OBVIOUS
<1>7. n \in Nat /\ k \in Nat /\ k > 0 /\ m \in Nat /\ m = n - k /\ y \in Nat
  BY <1>5, <1>6
<1>8. 3 * Len(op.cand) + Members(op) + Drops(op, shown) = y
  <2>1. Members(o) = 0 /\ Drops(o, shown) = 0
    BY <1>4 DEF Members, Drops
  <2>2. y = 3 * n + 0 + 0
    BY <1>6, <1>7
  <2> QED
    BY <1>1, <1>4, <1>6, <2>1, <2>2
<1>9. CASE op' = Idle
  BY <1>3, <1>9, GivesUp
<1>10. CASE op' = [op EXCEPT !.pc = "save", !.group = rs, !.at = 1, !.cand = rest]
  <2>1. p.pc = "save" /\ p.then = o.then /\ p.cand = rest /\ p.group = rs /\ p.at = 1
    BY <1>1, <1>4, <1>10 DEF Idle
  <2>2. Rank(p) = Rank(o)
    BY <1>4, <2>1, SaveRank
  <2>3. PICK x : x = 3 * m + 2 * (k - 1 + 1) + 0
    OBVIOUS
  <2>4. x \in Nat /\ x < y
    BY <1>6, <1>7, <2>3
  <2>5. 3 * Len(op'.cand) + Members(op') + Drops(op', shown') = x
    <3>1. Members(p) = 2 * (k - 1 + 1) /\ Drops(p, shown') = 0
      BY <1>6, <2>1 DEF Members, Drops
    <3> QED
      BY <1>1, <1>6, <2>1, <2>3, <3>1
  <2> QED
    BY <1>1, <1>7, <1>8, <2>2, <2>4, <2>5, LoweredWithin
<1>11. CASE op' = [op EXCEPT !.cand = rest]
  <2>1. p.pc = "offload" /\ p.then = o.then /\ p.cand = rest
    BY <1>1, <1>4, <1>11 DEF Idle
  <2>2. Rank(p) = Rank(o)
    BY <1>4, <2>1, SaveRank
  <2>3. PICK x : x = 3 * m + 0 + 0
    OBVIOUS
  <2>4. x \in Nat /\ x < y
    BY <1>6, <1>7, <2>3
  <2>5. 3 * Len(op'.cand) + Members(op') + Drops(op', shown') = x
    <3>1. Members(p) = 0 /\ Drops(p, shown') = 0
      BY <2>1 DEF Members, Drops
    <3> QED
      BY <1>1, <1>6, <2>1, <2>3, <3>1
  <2> QED
    BY <1>1, <1>7, <1>8, <2>2, <2>4, <2>5, LoweredWithin
<1> QED
  BY <1>3, <1>9, <1>10, <1>11

LEMMA DropOldestAdvances ==
  ASSUME OffloadInv, OffloadInv', BlocksKnown, DropOldest
  PROVE  Advances
<1>1. PICK o, r, sg : o = op /\ r = Droppable[1] /\ sg = shown'
  OBVIOUS
<1>2. o.pc = "drop" /\ op' = o /\ sg = [shown EXCEPT ![r] = 0] /\ Fit(o)
  BY <1>1, OpFits DEF DropOldest, DropShown
<1>3. r \in Sessions /\ shown[r] > 0 /\ shown \in [Sessions -> Nat]
  BY <1>1, DropOldestKnown DEF BlocksKnown, Known
<1>4. Cardinality(Showing(sg)) < Cardinality(Showing(shown))
  BY <1>2, <1>3, FewerShown
<1>5. PICK n, a, b : n = Len(o.cand) /\ a = Cardinality(Showing(sg)) /\ b = Cardinality(Showing(shown))
  OBVIOUS
<1>6. n \in Nat /\ a \in Nat /\ b \in Nat /\ a < b
  BY <1>2, <1>4, <1>5, FewShown, WorkParts
<1>7. PICK x, y : x = 3 * n + 0 + a /\ y = 3 * n + 0 + b
  OBVIOUS
<1>8. x \in Nat /\ y \in Nat /\ x < y
  BY <1>6, <1>7
<1>9. Members(o) = 0 /\ Drops(o, sg) = a /\ Drops(o, shown) = b
  BY <1>2, <1>5 DEF Members, Drops
<1>10. /\ 3 * Len(op'.cand) + Members(op') + Drops(op', shown') = x
       /\ 3 * Len(op.cand) + Members(op) + Drops(op, shown) = y
  BY <1>1, <1>2, <1>5, <1>7, <1>9
<1>11. Rank(op') = Rank(op)
  BY <1>1, <1>2
<1> QED
  BY <1>8, <1>10, <1>11, LoweredWithin

LEMMA AdvancesStep ==
  ASSUME OffloadInv, OffloadInv', BlocksKnown, OffloadNext
  PROVE  Advances
<1>1. CASE EvictCached
  BY <1>1, EvictCachedAdvances
<1>2. CASE OpenGroup
  BY <1>2, OpenGroupAdvances
<1>3. CASE SaveNext
  BY <1>3, SaveNextAdvances
<1>4. CASE SaveFails
  BY <1>4, SaveFailsAdvances
<1>5. CASE DropOldest
  BY <1>5, DropOldestAdvances
<1>6. CASE RetryAdmission
  <2>1. op.pc # "idle" /\ op' = Idle
    BY <1>6 DEF RetryAdmission
  <2> QED
    BY <2>1, GivesUp
<1>7. CASE OffloadDone \/ DropDone
  BY <1>7, OffloadDoneAdvances, DropDoneAdvances
<1>8. CASE EarlyOffload
  BY <1>8, EarlyOffloadAdvances
<1>9. CASE StepRaises
  <2>1. op.pc # "idle" /\ op' = Idle
    BY <1>9 DEF StepRaises
  <2> QED
    BY <2>1, GivesUp
<1>10. ASSUME NEW r \in Sessions, NEW tok \in Sampled, RunTurn(r, tok)
       PROVE  Advances
  BY <1>10, RunTurnAdvances
<1>11. CASE CopyChunk
  BY <1>11 DEF CopyChunk, residencyVars, Advances
<1>12. CASE op.pc = "idle"
  BY <1>12 DEF Advances
<1>13. BeginStep \/ AbortAll => op.pc = "idle"
  BY DEF BeginStep, AbortAll
<1>14. ASSUME NEW r \in Sessions, NEW p \in Prompts, NewTurn(r, p)
       PROVE  op.pc = "idle"
  BY <1>14 DEF NewTurn, AddRequest
<1>15. ASSUME NEW r \in Sessions, NEW s \in NextTokens, Admit(r, s) \/ AdmitFails(r, s)
       PROVE  op.pc = "idle"
  BY <1>15 DEF Admit, AdmitFails
<1>16. ASSUME NEW r \in Sessions, AdmitRaises(r) \/ AdmitRefused(r) \/ FinishSession(r) \/ OffloadRequest(r)
       PROVE  op.pc = "idle"
  BY <1>16 DEF AdmitRaises, AdmitRefused, FinishSession, OffloadRequest
<1>17. ASSUME NEW c \in {0, 1}, InvalidateAll(c)
       PROVE  op.pc = "idle"
  BY <1>17 DEF InvalidateAll
<1> QED
  BY <1>1, <1>2, <1>3, <1>4, <1>5, <1>6, <1>7, <1>8, <1>9, <1>10, <1>11, <1>12, <1>13, <1>14, <1>15, <1>16, <1>17
  DEF OffloadNext, Episode

\* No session is left to drop: none that is parked holds a block.
LEMMA NothingToDrop ==
  ASSUME OffloadInv, BlocksKnown, Droppable = << >>
  PROVE  \A r \in Parked : q[r].table = << >>
<1>1. PICK S : S = {r \in Sessions : shown[r] > 0}
  OBVIOUS
<1>2. order \in Seq(Sessions) /\ Range(order) = Parked
  BY DEF OffloadInv, Queued
<1>3. Kept(order, S) = << >>
  BY <1>1 DEF Droppable
<1>4. Range(Kept(order, S)) = Parked \intersect S
  BY <1>2, KeptFacts
<1>5. Parked \intersect S = {}
  <2>1. Range(<< >>) = {}
    BY DEF Range
  <2> QED
    BY <1>3, <1>4, <2>1
<1>6. ASSUME NEW r \in Parked, q[r].table # << >>
      PROVE  FALSE
  <2>1. r \in Sessions /\ shown[r] > 0
    BY <1>6 DEF Parked, BlocksKnown, Known
  <2> QED
    BY <1>1, <1>5, <2>1
<1> QED
  BY <1>6

LEMMA SufficesStep ==
  ASSUME OffloadInv, BlocksKnown, OffloadNext
  PROVE  Suffices
<1> SUFFICES ASSUME op.pc = "drop", op'.pc # "drop"
             PROVE  FreeBlocks(pool) >= op.goal \/ \A r \in Parked : q[r].table = << >>
  BY DEF Suffices
<1>1. DropDone \/ UNCHANGED op
  <2>1. /\ ~EvictCached /\ ~OpenGroup /\ ~SaveNext /\ ~SaveFails /\ ~RetryAdmission /\ ~OffloadDone
        /\ ~EarlyOffload /\ ~StepRaises
    BY DEF EvictCached, OpenGroup, SaveNext, SaveFails, RetryAdmission, OffloadDone, EarlyOffload, StepRaises
  <2>2. DropOldest \/ CopyChunk => UNCHANGED op
    BY DEF DropOldest, CopyChunk, residencyVars
  <2>3. ~BeginStep /\ ~AbortAll
    BY DEF BeginStep, AbortAll
  <2>4. ASSUME NEW r \in Sessions, NEW tok \in Sampled, RunTurn(r, tok)
        PROVE  FALSE
    BY <2>4 DEF RunTurn
  <2>5. ASSUME NEW r \in Sessions, NEW p \in Prompts, NewTurn(r, p)
        PROVE  FALSE
    BY <2>5 DEF NewTurn, AddRequest
  <2>6. ASSUME NEW r \in Sessions, NEW s \in NextTokens, Admit(r, s) \/ AdmitFails(r, s)
        PROVE  FALSE
    BY <2>6 DEF Admit, AdmitFails
  <2>7. ASSUME NEW r \in Sessions, AdmitRaises(r) \/ AdmitRefused(r) \/ FinishSession(r) \/ OffloadRequest(r)
        PROVE  FALSE
    BY <2>7 DEF AdmitRaises, AdmitRefused, FinishSession, OffloadRequest
  <2>8. ASSUME NEW c \in {0, 1}, InvalidateAll(c)
        PROVE  FALSE
    BY <2>8 DEF InvalidateAll
  <2> QED
    BY <2>1, <2>2, <2>3, <2>4, <2>5, <2>6, <2>7, <2>8 DEF OffloadNext, Episode
<1>2. DropDone
  BY <1>1
<1>3. Droppable = << >> \/ FreeBlocks(pool) >= op.goal
  BY <1>2 DEF DropDone
<1> QED
  BY <1>3, NothingToDrop

\* Every step of a pressure episode leaves it with less to do, whatever fails on the way, and
\* an eviction ends only with its goal reached or no parked session left on the GPU
\* (rollout/execution.py, _evict_for_free_watermark and _offload_oldest_until_safe).
THEOREM OffloadEpisodeAdvances == OffloadSpec => EpisodeAdvances
<1> DEFINE I == OffloadInv /\ BlocksKnown
<1>1. OffloadInit => I
  BY OffloadBegins, KnownBegins
<1>2. OffloadInv /\ [OffloadNext]_vars => OffloadInv'
  BY OffloadStep, OffloadStutter
<1>3. I /\ [OffloadNext]_vars => I'
  <2>1. OffloadInv /\ BlocksKnown /\ OffloadNext => BlocksKnown'
    BY KnownStep
  <2>2. BlocksKnown /\ UNCHANGED vars => BlocksKnown'
    BY KnownStill DEF vars, residencyVars
  <2> QED
    BY <1>2, <2>1, <2>2
<1>4. I /\ I' /\ [OffloadNext]_vars => [Advances /\ Suffices]_residencyVars
  <2>1. OffloadInv /\ OffloadInv' /\ BlocksKnown /\ OffloadNext => Advances /\ Suffices
    BY AdvancesStep, SufficesStep
  <2>2. UNCHANGED vars => UNCHANGED residencyVars
    BY DEF vars
  <2> QED
    BY <2>1, <2>2
<1> QED
  BY <1>1, <1>3, <1>4, PTL DEF OffloadSpec, EpisodeAdvances
=============================================================================
