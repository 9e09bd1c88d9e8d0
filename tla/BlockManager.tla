---------------------------- MODULE BlockManager ----------------------------
(***************************************************************************)
(* The physical KV block pool of one engine: the free list, the reference  *)
(* counts and the content-addressed prefix cache of                        *)
(* engine/block_manager.py and engine/prefix_cache.py, and the pages of    *)
(* kv/paged.py that the block ids name.                                    *)
(*                                                                         *)
(* The pool is a value P = [free, ref, cache], so that a caller can apply  *)
(* several operations to it in one step, in the order the code does.       *)
(* Abstractions:                                                           *)
(*  - the free deque is a set: which free block is handed out is a choice; *)
(*  - the cache is a set of <<hash, block>> copies: which copy a lookup    *)
(*    returns and which unused copies an eviction drops are choices (the   *)
(*    code takes the oldest);                                              *)
(*  - a block hash is the token sequence it digests (no collisions);       *)
(*  - a KV cell is <<weights, token prefix>>, what the attention layers    *)
(*    stored there is a function of, or Junk; a freed page is Junk, so     *)
(*    that no property can rest on what an old page happens to hold.       *)
(***************************************************************************)
EXTENDS Integers, Sequences, FiniteSets, Functions

CONSTANTS Blocks,         \* physical block ids
          BlockSize,      \* tokens in a block
          PrefixCaching   \* config.enable_prefix_cache

ASSUME BlocksAssumption == IsFiniteSet(Blocks) /\ Blocks # {}
ASSUME BlockSizeAssumption == BlockSize \in Nat \ {0}
ASSUME PrefixCachingAssumption == PrefixCaching \in BOOLEAN

VARIABLES pool,           \* [free, ref, cache]
          epoch,          \* bumped by every reset
          kv              \* the pages

poolVars == <<pool, epoch, kv>>

Lesser(m, n) == IF m <= n THEN m ELSE n
Greater(m, n) == IF m >= n THEN m ELSE n

(***************************************************************************)
(* Pages.                                                                  *)
(***************************************************************************)
Junk == << >>
Offsets == 1..BlockSize
JunkPage == [o \in Offsets |-> Junk]

\* The block and the offset of the 1-based token position p in table t.
BlockIndex(p) == ((p - 1) \div BlockSize) + 1
Offset(p) == ((p - 1) % BlockSize) + 1

\* The pages k once the blocks in F have been given back.
Scrub(k, F) == [b \in Blocks |-> IF b \in F THEN JunkPage ELSE k[b]]

(***************************************************************************)
(* Counting references.  A table is a sequence of blocks; T is a family of *)
(* tables, indexed by request.                                             *)
(***************************************************************************)
Occ(t, b) == Cardinality({i \in DOMAIN t : t[i] = b})
Slots(T, b) == UNION {{<<r, i>> : i \in {j \in DOMAIN T[r] : T[r][j] = b}}
                        : r \in DOMAIN T}
Held(T, b) == Cardinality(Slots(T, b))
CopiesOf(E, b) == {e \in E : e[2] = b}
Copies(E, b) == Cardinality(CopiesOf(E, b))

BlocksNeededFor(n) == (n + BlockSize - 1) \div BlockSize

EmptyPool == [free  |-> Blocks,
              ref   |-> [b \in Blocks |-> 0],
              cache |-> {}]

\* _incref and _decref, n[b] times for every block b.
Incref(P, n) ==
  [free  |-> P.free,
   ref   |-> [b \in Blocks |-> P.ref[b] + n[b]],
   cache |-> P.cache]
Decref(P, n) ==
  [free  |-> P.free \union {b \in Blocks : n[b] > 0 /\ P.ref[b] = n[b]},
   ref   |-> [b \in Blocks |-> P.ref[b] - n[b]],
   cache |-> P.cache]

\* P with the copies C cached.
Caching(P, C) == [free |-> P.free, ref |-> P.ref, cache |-> C]

\* Seeded fault: the blocks are forgotten, not given back.
DeallocateLeak(P, t) == P
Deallocate(P, t) == Decref(P, [b \in Blocks |-> Occ(t, b)])
DeallocateAll(P, T) == Decref(P, [b \in Blocks |-> Held(T, b)])

(***************************************************************************)
(* Eviction: only copies whose sole reference is the cache's own.          *)
(***************************************************************************)
Evictable(P) == {e \in P.cache : P.ref[e[2]] = 1}
Victims(P, n) ==
  {V \in SUBSET Evictable(P) :
     Cardinality(V) = Lesser(Greater(n, 0), Cardinality(Evictable(P)))}
EvictUnused(P, V) ==
  Decref(Caching(P, P.cache \ V), [b \in Blocks |-> Copies(V, b)])

(***************************************************************************)
(* Allocation of a token span of request q.                                *)
(***************************************************************************)
\* The blocks q lacks for `limit' more tokens.
Shortfall(P, q, limit) ==
  BlocksNeededFor(q.computed + limit) - Len(q.table) - Cardinality(P.free)
MaxAllocatable(P, q, limit) ==
  LET capacity == (Len(q.table) + Cardinality(P.free)) * BlockSize
  IN  Greater(0, Lesser(limit, capacity - q.computed))

\* The ways to take fresh blocks for the slots in I.
Fresh(P, I) == {g \in [I -> P.free] : IsInjective(g)}
Growth(q, n) ==
  1..Greater(0, BlocksNeededFor(q.computed + n) - Len(q.table))
AllocBlocks(P, g) ==
  [free  |-> P.free \ Range(g),
   ref   |-> [b \in Blocks |-> IF b \in Range(g) THEN 1 ELSE P.ref[b]],
   cache |-> P.cache]

\* _cow_if_shared over the blocks a span of n tokens writes, in table t.
SharedSpan(P, t, computed, n) ==
  IF PrefixCaching
  THEN {i \in BlockIndex(computed + 1)..BlockIndex(computed + n) : P.ref[t[i]] > 1}
  ELSE {}
CowTable(t, c) == [i \in DOMAIN t |-> IF i \in DOMAIN c THEN c[i] ELSE t[i]]
CowPool(P, t, c) ==
  Decref(AllocBlocks(P, c),
         [b \in Blocks |-> Cardinality({i \in DOMAIN c : t[i] = b})])
CowPages(k, t, c) ==
  [b \in Blocks |-> IF b \in Range(c) THEN k[t[CHOOSE i \in DOMAIN c : c[i] = b]]
                                      ELSE k[b]]

(***************************************************************************)
(* The prefix cache: attaching cached blocks to an empty table, publishing *)
(* the full blocks of a request, and truncation after speculation.         *)
(***************************************************************************)
ROOT_HASH == << >>
BlockHash(parent, toks) == parent \o toks

Lookup(P, h) == {b \in Blocks : <<h, b>> \in P.cache /\ P.ref[b] > 0}

\* At least one token stays uncached, so that the last-token sample runs.
MaxCached(q) == (Len(q.tokens) - 1) \div BlockSize
PrefixHash(q, i) == SubSeq(q.tokens, 1, i * BlockSize)
Hit(P, q, k) == \A i \in 1..k : Lookup(P, PrefixHash(q, i)) # {}
LongestHit(P, q) ==
  {k \in 0..MaxCached(q) : Hit(P, q, k) /\ (k = MaxCached(q) \/ ~Hit(P, q, k + 1))}
Attachments(P, q) ==
  UNION {{t \in [1..k -> Blocks] : \A i \in 1..k : t[i] \in Lookup(P, PrefixHash(q, i))}
           : k \in LongestHit(P, q)}
AttachPool(P, t) == Incref(P, [b \in Blocks |-> Occ(t, b)])
Attached(q, t) ==
  [q EXCEPT !.table     = t,
            !.computed  = Len(t) * BlockSize,
            !.published = Len(t),
            !.parent    = PrefixHash(q, Len(t))]

\* publish_full_blocks: q's newly completed blocks, hashed from q.parent on;
\* a slice of token_ids shorter than a block ends the loop.
\* Seeded fault: the partly filled last block counts as full.
FullBlocksRoundUp(q) ==
  Lesser(Lesser(Len(q.table), BlocksNeededFor(q.computed)), Len(q.tokens) \div BlockSize)
FullBlocks(q) ==
  Lesser(Lesser(Len(q.table), q.computed \div BlockSize), Len(q.tokens) \div BlockSize)
\* Seeded fault: the hash of a block does not chain to its parent's.
PublishHashUnchained(q, i) == SubSeq(q.tokens, (i - 1) * BlockSize + 1, i * BlockSize)
PublishHash(q, i) ==
  BlockHash(q.parent, SubSeq(q.tokens, q.published * BlockSize + 1, i * BlockSize))
NewCopies(q) ==
  IF PrefixCaching
  THEN {<<PublishHash(q, i), q.table[i]>> : i \in q.published + 1 .. FullBlocks(q)}
  ELSE {}
AddCopies(P, E) ==
  Incref(Caching(P, P.cache \union E), [b \in Blocks |-> Copies(E, b)])
PublishPool(P, q) == AddCopies(P, NewCopies(q) \ P.cache)
Published(q) ==
  IF PrefixCaching /\ q.published < FullBlocks(q)
  THEN [q EXCEPT !.published = FullBlocks(q), !.parent = PublishHash(q, FullBlocks(q))]
  ELSE q

\* Seeded fault: the tail of the table is cut off but not given back.
TruncatePoolLeak(P, q, n) == P
\* truncate_kv: the kept and the dropped part of q's table.
KeptBlocks(q, n) == Lesser(Len(q.table), BlocksNeededFor(n))
Truncated(q, n) ==
  [q EXCEPT !.table     = SubSeq(q.table, 1, KeptBlocks(q, n)),
            !.published = Lesser(@, BlocksNeededFor(n))]
TruncatePool(P, q, n) ==
  Deallocate(P, SubSeq(q.table, KeptBlocks(q, n) + 1, Len(q.table)))
=============================================================================
