------------------------- MODULE OffloadInvariants -------------------------
(***************************************************************************)
(* The inductive invariant of SessionOffload.  Its parts speak of a value  *)
(* Z like State, so that they can be followed through the manager's        *)
(* operators, several of which make up one step.                           *)
(***************************************************************************)
EXTENDS SessionOffload

Tokens == Sampled \union UNION {Range(p) : p \in Prompts}
TokenLists == Seq(Tokens)

(***************************************************************************)
(* Sessions and the pool.                                                  *)
(***************************************************************************)
IsRequest(c) ==
  /\ DOMAIN c = {"st", "tokens", "computed", "table", "published", "parent", "res", "snap"}
  /\ c.st \in {"gone", "active", "parked"} /\ c.res \in {"none", "gpu", "cpu"}
  /\ c.tokens \in TokenLists /\ c.parent \in TokenLists /\ c.table \in Seq(Blocks)
  /\ c.computed \in Nat /\ c.published \in Nat /\ c.snap \in Nat

\* Who is gone has nothing; who is on the host has nothing on the GPU; a table is as long
\* as what is computed needs, and one token at least is left to compute.
Placed(c) ==
  /\ c.st = "gone" => c.table = << >> /\ c.res = "none" /\ c.published = 0 /\ c.parent = ROOT_HASH
  /\ c.st # "gone" => c.computed < Len(c.tokens)
  /\ c.res = "cpu" => c.st = "parked" /\ c.table = << >>
  /\ Len(c.table) = BlocksNeededFor(c.computed)
Requests(Q) ==
  /\ DOMAIN Q = Sessions
  /\ \A r \in Sessions : IsRequest(Q[r]) /\ Placed(Q[r])

PoolType == [free : SUBSET Blocks, ref : [Blocks -> Nat], cache : SUBSET (TokenLists \X Blocks)]
Counted(P, T) ==
  /\ IsFiniteSet(P.cache)
  /\ \A b \in Blocks : P.ref[b] = Held(T, b) + Copies(P.cache, b)
  /\ P.free = {b \in Blocks : P.ref[b] = 0}
\* Without a prefix cache nothing is shared.
NoneShared(P) == ~PrefixCaching => P.cache = {} /\ \A b \in Blocks : P.ref[b] <= 1

Seats(P, Q) ==
  /\ Requests(Q)
  /\ P \in PoolType /\ Counted(P, Tables(Q)) /\ NoneShared(P)
Seated(Z) == Seats(Z.pool, Z.q)

(***************************************************************************)
(* The host store and its books.                                           *)
(***************************************************************************)
\* A snapshot that may be restored, or a reservation for one.
IsMeta(m) ==
  /\ DOMAIN m = {"id", "rid", "tokens", "computed", "n", "w", "epoch", "pin", "pages"}
  /\ m.id \in Nat \ {0} /\ m.rid \in Sessions /\ m.tokens \in TokenLists /\ m.pin \in BOOLEAN
  /\ m.computed \in Nat /\ m.computed < Len(m.tokens) /\ m.n = BlocksNeededFor(m.computed)

StoreTyped(S) ==
  /\ DOMAIN S = {"snaps", "open", "committed", "reserved", "pinned", "openPinned"}
  /\ S.snaps \in Seq(Snaps(S)) /\ IsFiniteSet(S.open)
  /\ \A m \in Snaps(S) \union S.open : IsMeta(m)
\* No two buffers have one id.
Distinct(S) ==
  /\ \A i, j \in DOMAIN S.snaps : S.snaps[i].id = S.snaps[j].id => i = j
  /\ \A m, o \in S.open : m.id = o.id => m = o
  /\ \A m \in S.open : m.id \notin Ids(S)
StoreCounted(S) ==
  /\ S.committed = SizeOf(Snaps(S)) /\ S.reserved = SizeOf(S.open)
  /\ S.pinned = PinnedOf(Snaps(S)) /\ S.openPinned = PinnedOf(S.open)
  /\ S.pinned + S.openPinned <= PinnedMax
\* The buffer a failed admission still refers to is a snapshot, or is gone for good.
HoldOK(S, hold) ==
  /\ hold.id \in Nat /\ hold.n \in Nat /\ (hold.id = 0 => hold.n = 0)
  /\ hold.id \notin {m.id : m \in S.open}
  /\ \A s \in Snaps(S) : s.id = hold.id => s.n = hold.n
  /\ Owned(S, hold) <= CpuMax
Books(S, hold) == StoreTyped(S) /\ Distinct(S) /\ StoreCounted(S) /\ HoldOK(S, hold)

\* Every snapshot is its session's, every session on the host has one.
Linked(Z) ==
  /\ DOMAIN Z.snapOf = Sessions
  /\ \A s \in Snaps(Z.store) : Z.snapOf[s.rid] = s.id /\ s.tokens = Z.q[s.rid].tokens
  /\ \A r \in Sessions :
       /\ Z.q[r].res = "cpu" <=> Z.snapOf[r] # 0
       /\ Z.snapOf[r] # 0 => /\ \E s \in Snaps(Z.store) : s.rid = r /\ s.id = Z.snapOf[r]
                             /\ Z.q[r].snap = Z.snapOf[r]

\* Bytes come back to the books only for who has been restored and has not run since.
Settling(Z) ==
  /\ DOMAIN Z.use = Sessions
  /\ \A r \in Sessions : Z.use[r].n \in Nat /\ (Z.use[r].n # 0 => Z.q[r].st = "active")
  /\ Z.unsettled = SizeOf(Snaps(Z.store)) + UsedBy(Z, Sessions)

\* The reservations are the group's and the copy's; both describe their sessions.
Reserved(Z) ==
  /\ Z.store.open = Z.group \union (IF Z.pend.on THEN {Z.pend.meta} ELSE {})
  /\ Z.pend.on => Z.group = {}
GroupHeld(Z) ==
  \A m \in Z.group : LET c == Z.q[m.rid]
                     IN  /\ c.st = "parked" /\ c.tokens = m.tokens
                         /\ c.res # "cpu" => c.computed = m.computed
\* The source of the copy in flight stays as it was described.
SourceHeld(Z) ==
  /\ DOMAIN Z.pend = {"on", "meta", "table", "pages"} /\ Z.pend.on \in BOOLEAN
  /\ Z.pend.on =>
       LET m == Z.pend.meta
           c == Z.q[m.rid]
       IN  /\ c.st = "parked" /\ c.res # "cpu" /\ c.table = Z.pend.table
           /\ c.tokens = m.tokens /\ c.computed = m.computed
           /\ Z.pend.pages \in Seq(Range(Z.pend.pages)) /\ Len(Z.pend.pages) <= m.n

NoSnapshots(Z) ==
  /\ Z.store = EmptyStore /\ Z.group = {} /\ Z.pend = NoPend /\ Z.unsettled = 0
  /\ Z.snapOf = [r \in Sessions |-> 0] /\ Z.use = [r \in Sessions |-> NoUse]

(***************************************************************************)
(* The block store.                                                        *)
(***************************************************************************)
IsManifest(m, r) ==
  /\ m.id \in Nat \ {0} /\ m.ns = Namespace /\ m.tokens \in TokenLists /\ m.computed \in Nat
  /\ m.computed < Len(m.tokens)
  /\ m.keys = Keys(m.tokens, m.computed, r, m.id)
\* A manifest is some session's that is not gone; who is on the host has one of its history.
Manifests(Z) ==
  /\ DOMAIN Z.man = Sessions
  /\ \A r \in Sessions :
       /\ Z.man[r] # NoMan => IsManifest(Z.man[r], r) /\ Z.q[r].st # "gone"
       /\ Z.q[r].res = "cpu" => /\ Z.man[r].id # 0 /\ Z.man[r].tokens = Z.q[r].tokens
                                /\ Z.man[r].id = Z.q[r].snap
\* What the open group is to save is still as it was when the lease was taken.
LeaseHeld(Z) ==
  /\ Z.lease.on \in BOOLEAN /\ IsFiniteSet(DOMAIN Z.blocks)
  /\ Z.lease.on => \A r \in DOMAIN Z.lease.man :
       LET m == Z.lease.man[r]
       IN  /\ r \in Sessions /\ IsManifest(m, r) /\ Z.q[r].st = "parked"
           /\ Z.q[r].res # "cpu" => m.tokens = Z.q[r].tokens /\ m.computed = Z.q[r].computed

NoBlocks(Z) ==
  Z.blocks = EmptyIndex /\ Z.lease = NoLease /\ Z.man = [r \in Sessions |-> NoMan]

\* Each manager leaves the other one's state alone.
Snapped(Z, hold) ==
  /\ NoBlocks(Z) /\ Books(Z.store, hold) /\ Linked(Z) /\ Settling(Z) /\ Reserved(Z)
  /\ GroupHeld(Z) /\ SourceHeld(Z)
Blocked(Z, hold) == NoSnapshots(Z) /\ hold = NoHold /\ Manifests(Z) /\ LeaseHeld(Z)
Hosted(Z, hold) == IF Tiered THEN Blocked(Z, hold) ELSE Snapped(Z, hold)

(***************************************************************************)
(* All of it together.                                                     *)
(***************************************************************************)
Zone(Z) == DOMAIN Z = {"pool", "kv", "q", "store", "snapOf", "group", "pend", "use", "unsettled",
                       "blocks", "man", "lease"}
Good(Z, hold) == Zone(Z) /\ Seated(Z) /\ Hosted(Z, hold)

(***************************************************************************)
(* The owner thread.                                                       *)
(***************************************************************************)
Queued ==
  /\ order \in Seq(Sessions) /\ IsInjective(order) /\ Range(order) = Parked
Stages == {"idle", "early", "step", "evict", "offload", "save", "drop", "retry"}
OpOK ==
  /\ DOMAIN op = DOMAIN Idle
  /\ op.pc \in Stages /\ op.then \in {"idle", "step"}
  /\ op.pc \in {"idle", "early", "step"} => op.cand = << >> /\ op.group = << >> /\ op.for = NoOne
  /\ op.cand \in Seq(Sessions) /\ IsInjective(op.cand) /\ Range(op.cand) \subseteq Parked
  /\ op.group \in Seq(Sessions) /\ IsInjective(op.group) /\ Range(op.group) \subseteq Parked
  /\ op.pc = "save" => op.at \in 1..Len(op.group)
  /\ op.for = NoOne => op.hold = NoHold
  /\ op.for # NoOne => op.for \in Parked /\ op.suffix \in TokenLists
  /\ op.pc = "retry" => op.for # NoOne
\* The members still to be saved have what their save needs.
GroupOK ==
  /\ op.pc # "save" => group = {} /\ ~lease.on
  /\ op.pc = "save" => ~pend.on
  /\ op.pc = "save" /\ ~Tiered => \A i \in op.at..Len(op.group) : \E m \in group : m.rid = op.group[i]
  /\ op.pc = "save" /\ Tiered => lease.on /\ DOMAIN lease.man = Range(op.group)

\* The invariant the owner thread keeps at every step of every operation: seats, books, links,
\* reservations, and that whoever is still to be saved or retried is as it was when chosen
\* (execution.py, session_offload.py, async_offload.py, block_offload.py).
OffloadInv ==
  /\ cfg \in Configs /\ Queued /\ OpOK /\ GroupOK
  /\ Good(State, op.hold)

\* Whoever is parked in Q with blocks is counted in sh.
Known(Q, sh) ==
  /\ sh \in [Sessions -> Nat]
  /\ \A r \in Sessions : Q[r].st = "parked" /\ Q[r].table # << >> => sh[r] > 0
\* No parked session that holds blocks is overlooked by the session cache; what it counts may
\* be gone already, when a copy in flight was settled elsewhere (session.py, execution.py).
BlocksKnown == Known(q, shown)

(***************************************************************************)
(* What the pages hold.  Page i of a table of the tokens toks goes from    *)
(* position (i - 1) * BlockSize + 1 on; n tokens are there.                *)
(***************************************************************************)
Through(page, toks, n, i) ==
  \A o \in Offsets :
    (i - 1) * BlockSize + o <= n => page[o] = Cell(weights, toks, (i - 1) * BlockSize + o)
PageOf(page, toks, n, i) ==
  Through(page, toks, n, i) /\ \A o \in Offsets : (i - 1) * BlockSize + o > n => page[o] = Junk
\* What is found under the hash h of a full block.
Promise(page, h) == \A o \in Offsets : page[o] = Cell(weights, h, Len(h) - BlockSize + o)

\* The next block of a request is hashed on from the blocks it has published.
Chained(c) ==
  IF c.table = << >> THEN c.parent = ROOT_HASH => c.published = 0
  ELSE /\ c.parent = SubSeq(c.tokens, 1, c.published * BlockSize)
       /\ c.published * BlockSize <= c.computed
Owed(k, c) ==
  /\ \A i \in DOMAIN c.table : Through(k[c.table[i]], c.tokens, c.computed, i)
  /\ PrefixCaching => Chained(c)
Resident(Z) ==
  /\ \A r \in Sessions : Owed(Z.kv, Z.q[r])
  /\ \A e \in Z.pool.cache : Promise(Z.kv[e[2]], e[1])

\* The snapshots, and the copy in flight as far as it has got.
OnHost(Z) ==
  /\ \A s \in Snaps(Z.store) : \A i \in 1..s.n : PageOf(s.pages[i], s.tokens, s.computed, i)
  /\ Z.pend.on => \A i \in DOMAIN Z.pend.pages :
                    Through(Z.pend.pages[i], Z.pend.meta.tokens, Z.pend.meta.computed, i)

\* The private tails of manifest m, where they are written.
TailsSound(X, m) ==
  \A i \in DOMAIN m.keys : IsTail(m.keys[i]) /\ Ready(X, m.keys[i]) =>
    PageOf(X[m.keys[i]].page, m.tokens, m.computed, i)
InBlocks(Z) ==
  /\ \A k \in DOMAIN Z.blocks : Z.blocks[k].ready /\ ~IsTail(k) => Promise(Z.blocks[k].page, k[2])
  /\ \A r \in Sessions : TailsSound(Z.blocks, Z.man[r])
  /\ Z.lease.on => \A r \in DOMAIN Z.lease.man : TailsSound(Z.blocks, Z.lease.man[r])

\* The block store's own books: what the lease pins and will free, who may be half written,
\* which tails are still named; a member of the group on the host has been written.
Leased(Z, k) == Z.lease.on /\ k \in Z.lease.keys
Shelf(Z) ==
  /\ Cardinality(DOMAIN Z.blocks) <= CpuMax
  /\ \A k \in DOMAIN Z.blocks : /\ k[1] = Namespace /\ DOMAIN Z.blocks[k] = {"ready", "page", "pins"}
                                /\ Z.blocks[k].pins = IF Leased(Z, k) THEN 1 ELSE 0
                                /\ Z.blocks[k].ready \/ Leased(Z, k)
  /\ ~Z.lease.on => \A k \in DOMAIN Z.blocks : IsTail(k) => \E r \in Sessions : k \in TailsOf(Z.man[r])
  /\ Z.lease.on => \A r \in DOMAIN Z.lease.man :
       LET m == Z.lease.man[r]
       IN  /\ Range(m.keys) \subseteq Z.lease.keys \intersect DOMAIN Z.blocks
           /\ Z.q[r].res = "cpu" => \A k \in Range(m.keys) : Z.blocks[k].ready
           /\ Z.man[r].id = m.id => Z.man[r] = m

\* What is resident or on the host is what it is taken for, as long as no prefix_parent is
\* stale: every page of every copy, a transfer in flight and an open lease included.
Honest(Z) ==
  /\ Tiered => Shelf(Z)
  /\ ~stale => Resident(Z) /\ (IF Tiered THEN InBlocks(Z) ELSE OnHost(Z))
\* The invariant the copies keep through saves, restores, evictions and their failures: the
\* pages of every holder of KV are those of its own history (session_offload.py,
\* async_offload.py, block_offload.py, block_store.py).
ContentInv == Honest(State) /\ (~stale => ~StaleParent(q))
=============================================================================
