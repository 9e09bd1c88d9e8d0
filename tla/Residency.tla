------------------------------ MODULE Residency ------------------------------
(***************************************************************************)
(* Parked sessions whose KV moves between the GPU pool and the host: what  *)
(* the snapshot managers (SessionOffload) and the block manager            *)
(* (BlockOffload) share.  It holds the sessions, the turns that run        *)
(* between two offload operations, and the pressure episode of             *)
(* rollout/execution.py: the owner thread's loop that frees blocks by      *)
(* offloading the oldest parked sessions and, failing that, dropping them. *)
(*                                                                         *)
(* Abstractions: a session is one request; the engine's work for a turn    *)
(* (schedule, forward, sample, pause, of which Engine is the detailed      *)
(* model) is one step; a host byte count is a number of KV blocks; every   *)
(* operation runs on the engine's owner thread, whose place in a longer    *)
(* operation is op.                                                        *)
(***************************************************************************)
EXTENDS BlockManager, CpuStore

CONSTANTS Sessions,       \* request ids
          Prompts,        \* bound: first prompts
          Sampled,        \* bound: the tokens sampled and appended between turns
          MaxLen,         \* bound: tokens of a session
          Watermark,      \* FREE_BLOCK_WATERMARK, in blocks
          MaxWeights,     \* bound: weight updates
          MaxEpoch,       \* bound: pool resets
          CopyMayFail     \* transfers may raise

NoOne == "no one"

ASSUME ResidencyAssumption ==
  /\ IsFiniteSet(Sessions) /\ NoOne \notin Sessions
  /\ \A p \in Prompts : p \in Seq(Range(p)) /\ p # << >>
  /\ Watermark \in 1..Cardinality(Blocks)
  /\ MaxLen <= Cardinality(Blocks) * BlockSize

VARIABLES q,              \* the request of every session
          order,          \* SessionCache: parked sessions, oldest stamp first
          shown,          \* _Session.blocks: the block count the cache remembers
          op,             \* what the owner thread is in the middle of
          fatal,          \* Engine._fatal_error
          weights,        \* weight_epoch, and the weights themselves
          stale           \* ghost: some request lost its KV and kept its prefix_parent

residencyVars == <<pool, epoch, kv, q, order, shown, op, fatal, weights, stale>>

NoReq == [st |-> "gone", tokens |-> << >>, computed |-> 0, table |-> << >>,
          published |-> 0, parent |-> ROOT_HASH, res |-> "none", snap |-> 0]

\* pc "early", "evict", "offload", "save", "drop": the steps of a pressure episode that
\* wants goal free blocks; then is where the owner continues.  cand and group are what
\* _offload_oldest_until_safe and reclaim_group still have to look at.  An admission
\* whose restore failed keeps its request, its suffix and a reference to its snapshot.
NoHold == [id |-> 0, n |-> 0]
Idle == [pc |-> "idle", goal |-> 0, cand |-> << >>, group |-> << >>, at |-> 0, then |-> "idle",
         for |-> NoOne, suffix |-> << >>, before |-> 0, hold |-> NoHold]

ResidencyInit ==
  /\ pool = EmptyPool
  /\ epoch = 0
  /\ kv = [b \in Blocks |-> JunkPage]
  /\ q = [r \in Sessions |-> NoReq]
  /\ order = << >>
  /\ shown = [r \in Sessions |-> 0]
  /\ op = Idle
  /\ fatal = FALSE
  /\ weights = 0
  /\ stale = FALSE

NextTokens == [1..1 -> Sampled]
FreeBlocks(P) == Cardinality(P.free)
Tables(Q) == [r \in Sessions |-> Q[r].table]
Remaining(s, r) == Kept(s, Sessions \ {r})
Active == {r \in Sessions : q[r].st = "active"}
Parked == {r \in Sessions : q[r].st = "parked"}

(***************************************************************************)
(* What the pages hold.                                                    *)
(***************************************************************************)
Cell(w, toks, p) == <<w, SubSeq(toks, 1, p)>>
\* export_blocks: page i of a table that covers `valid' tokens, its padding zeroed.
ExportPage(k, t, i, valid) ==
  [o \in Offsets |-> IF (i - 1) * BlockSize + o <= valid THEN k[t[i]][o] ELSE Junk]
\* import_blocks: pages[i] goes to block t[i], for i in I.
ImportPages(k, t, pages, I) ==
  [b \in Blocks |-> IF \E i \in I : t[i] = b THEN pages[CHOOSE i \in I : t[i] = b] ELSE k[b]]
\* The forward of tokens from+1..to.
Computed(k, t, toks, from, to) ==
  [b \in Blocks |-> [o \in Offsets |->
     LET W == {p \in from + 1 .. to : t[BlockIndex(p)] = b /\ Offset(p) = o}
     IN  IF W = {} THEN k[b][o] ELSE Cell(weights, toks, CHOOSE p \in W : TRUE)]]

(***************************************************************************)
(* The pool operations only offload uses.                                  *)
(***************************************************************************)
\* attach_cached_prefix_upto: the longest run of cached full blocks among the first n tokens.
UptoHits(P, toks, n) ==
  {k \in 0 .. n \div BlockSize :
     /\ \A i \in 1..k : Lookup(P, SubSeq(toks, 1, i * BlockSize)) # {}
     /\ k = n \div BlockSize \/ Lookup(P, SubSeq(toks, 1, (k + 1) * BlockSize)) = {}}
AttachUpto(P, toks, n) ==
  IF ~PrefixCaching THEN {<< >>}
  ELSE UNION {{t \in [1..k -> Blocks] : \A i \in 1..k : t[i] \in Lookup(P, SubSeq(toks, 1, i * BlockSize))}
                : k \in UptoHits(P, toks, n)}

\* reclaimable_blocks: the blocks only the requests S and the cache hold.
Reclaimable(P, S) ==
  Cardinality({b \in UNION {Range(q[r].table) : r \in S} :
                 P.ref[b] = Held([r \in S |-> q[r].table], b) + Copies(P.cache, b)})

\* reclaim_cached_blocks(goal): evict unused cache entries until goal blocks are free.
Reclaims(P, goal) == {EvictUnused(P, V) : V \in Victims(P, goal - FreeBlocks(P))}

(***************************************************************************)
(* Turns.                                                                  *)
(***************************************************************************)
\* add_request: the scheduler queues it and its cached prefix is attached.
Admitted(toks) == [NoReq EXCEPT !.st = "active", !.tokens = toks]
Attaching(P, c) == IF PrefixCaching THEN Attachments(P, c) ELSE {<< >>}
AddRequest(r, prompt) ==
  /\ op.pc = "idle" /\ ~fatal
  /\ q[r].st = "gone"
  /\ \E t \in Attaching(pool, Admitted(prompt)) :
       /\ pool' = AttachPool(pool, t)
       /\ q' = [q EXCEPT ![r] = Attached(Admitted(prompt), t)]
  /\ UNCHANGED <<epoch, kv, order, shown, op, fatal, weights, stale>>

\* What an engine turn of r does to its request and the pool: reattach when it holds
\* nothing, evict, allocate, copy shared blocks of the write span, compute, publish, sample.
Reattached(P, c) == IF c.table = << >> /\ c.computed = 0 THEN Attaching(P, c) ELSE {c.table}
Turns(P, c, tok) ==
  UNION {LET a  == IF t = c.table THEN c ELSE Attached(c, t)
             PA == IF t = c.table THEN P ELSE AttachPool(P, t)
             n  == Len(a.tokens) - a.computed
         IN  UNION {IF n > MaxAllocatable(PE, a, n) THEN {}
                    ELSE UNION {LET tb == a.table \o [i \in Growth(a, n) |-> g[i]]
                                    PG == AllocBlocks(PE, g)
                                IN {LET d == [a EXCEPT !.table = CowTable(tb, w),
                                                       !.computed = Len(a.tokens)]
                                    IN [pool |-> PublishPool(CowPool(PG, tb, w), d),
                                        q    |-> [Published(d) EXCEPT !.tokens = Append(@, tok)],
                                        kv   |-> Computed(CowPages(kv, tb, w), d.table, a.tokens,
                                                          a.computed, Len(a.tokens))]
                                    : w \in Fresh(PG, SharedSpan(PG, tb, a.computed, n))}
                                : g \in Fresh(PE, Growth(a, n))}
                    : PE \in {EvictUnused(PA, V) : V \in Victims(PA, Shortfall(PA, a, n))}}
         : t \in Reattached(P, c)}

\* A request in Q that will publish its recomputed blocks under an old prefix_parent: the
\* defect the stale_parent run shows, which voids what the cache promises from then on.
StaleParent(Q) ==
  PrefixCaching /\ \E r \in Sessions : /\ Q[r].st # "gone" /\ Q[r].table = << >>
                                       /\ Q[r].res # "cpu" /\ Q[r].parent # ROOT_HASH

(***************************************************************************)
(* The pressure episode.                                                   *)
(***************************************************************************)
\* _offload_oldest_until_safe: the parked sessions that hold blocks, oldest first.
Candidates(Q) == Kept(order, {r \in Sessions : Q[r].table # << >>})
\* The shortest prefix of the candidates that is expected to reach the goal.
NextGroup(P, cand, goal) ==
  LET enough == {n \in 1..Len(cand) :
                   Reclaimable(P, Range(SubSeq(cand, 1, n))) >= goal - FreeBlocks(P)}
      n      == IF enough = {} THEN Len(cand) ELSE Min(enough)
  IN  SubSeq(cand, 1, n)

\* _evict_for_free_watermark, entered with a goal.
StartEvict(goal, then) == [Idle EXCEPT !.pc = "evict", !.goal = goal, !.then = then]
\* _offload_oldest_until_safe, entered from the eviction or from a failed admission.
StartOffload(o, Q) == [o EXCEPT !.pc = "offload", !.cand = Candidates(Q)]

\* The episode's offload loop is over: the eviction goes on to drop sessions, the failed
\* admission looks at what was freed.
OffloadDone ==
  /\ op.pc = "offload"
  /\ op.cand = << >> \/ FreeBlocks(pool) >= op.goal
  /\ op' = [op EXCEPT !.pc = IF op.for = NoOne THEN "drop" ELSE "retry", !.cand = << >>]

\* The oldest parked session the cache believes to hold blocks, and dropping it.
Droppable == Kept(order, {r \in Sessions : shown[r] > 0})
\* Seeded fault: the session's cached block count is left as it was.
DropShownKept(r) == shown
DropShown(r) == [shown EXCEPT ![r] = 0]
Dropped(c) == [c EXCEPT !.computed = 0, !.table = << >>, !.published = 0, !.res = "none", !.snap = 0]

\* The goal is reached, or nothing is left to drop.
DropDone ==
  /\ op.pc = "drop"
  /\ Droppable = << >> \/ FreeBlocks(pool) >= op.goal
  /\ op' = [Idle EXCEPT !.pc = op.then]

(***************************************************************************)
(* What the KV on the GPU owes its readers.                                *)
(***************************************************************************)
\* Every block is counted once per reference of a request and of the cache, and the free
\* blocks are those nobody refers to: saves, restores and their rollbacks included.
CountsExact ==
  \A b \in Blocks : /\ pool.ref[b] = Held(Tables(q), b) + Copies(pool.cache, b)
                    /\ (b \in pool.free) <=> (pool.ref[b] = 0)

\* Whatever a request counts as computed is in its pages under the current weights, also
\* after the pages came back from the host, as long as no prefix_parent is stale.
ResidentKVSound ==
  ~stale => \A r \in Sessions : \A p \in 1..q[r].computed :
    kv[q[r].table[BlockIndex(p)]][Offset(p)] = Cell(weights, q[r].tokens, p)

\* A cached copy holds the KV its hash promises, also for blocks published after a restore.
CopiesSound ==
  ~stale => \A e \in pool.cache : \A o \in Offsets :
    kv[e[2]][o] = Cell(weights, e[1], Len(e[1]) - BlockSize + o)

\* What an operation that the owner has begun still has to look at: the stages left, then
\* the candidates, the members of the open group, the sessions to drop.
Stage(o) == CASE o.pc = "idle" -> 0
              [] o.pc \in {"drop", "retry"} -> 1
              [] o.pc \in {"offload", "save"} -> 2
              [] o.pc = "evict" -> 3
              [] o.pc = "step" -> 4
              [] o.pc = "early" -> 9
\* A stage weighs more than all the sessions it may have to look at.
StageWeight == 3 * Cardinality(Sessions) + 1
Work(o, sh) ==
  StageWeight * (Stage(o) + (IF o.then = "step" THEN 5 ELSE 0)) + 3 * Len(o.cand)
    + (IF o.pc = "save" THEN 2 * (Len(o.group) - o.at + 1) ELSE 0)
    + (IF o.pc = "drop" THEN Cardinality({r \in Sessions : sh[r] > 0}) ELSE 0)

\* The eviction gives up only when it has nothing left to drop: it ends with the free
\* blocks it was started for, or with no parked session on the GPU.
Suffices ==
  op.pc = "drop" /\ op'.pc # "drop" /\ ~fatal'
    => FreeBlocks(pool) >= op.goal \/ \A r \in Parked : q[r].table = << >>
\* Every step the owner takes inside an operation leaves it with less to do.
Advances ==
  op.pc # "idle" => \/ Work(op', shown') < Work(op, shown)
                    \/ UNCHANGED <<pool, q, order, shown, op, fatal>>
\* No pressure episode goes round in circles, whatever fails on the way, and none ends while
\* blocks it was to free could still be freed (rollout/execution.py).
EpisodeAdvances == [][Advances /\ Suffices]_residencyVars
=============================================================================
