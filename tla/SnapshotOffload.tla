--------------------------- MODULE SnapshotOffload --------------------------
(***************************************************************************)
(* engine/session_offload.py and engine/async_offload.py: paused sessions  *)
(* saved as whole snapshots in the host store and restored when their next *)
(* turn is admitted.  The synchronous manager copies inside the owner's    *)
(* operation; the asynchronous one leaves the early copy to a CUDA stream  *)
(* that runs beside everything the owner does (CopyChunk).                 *)
(*                                                                         *)
(* The manager's functions are operators on a value Z of the state they    *)
(* change; SessionOffload composes them in the order the code calls them.  *)
(***************************************************************************)
EXTENDS Residency, BlockStore

CONSTANTS Configs,        \* the configurations to run
          EngineApi       \* callers also use offload_request and apply_named_weights directly

ASSUME ConfigsAssumption ==
  Configs \subseteq [backend : {"sync", "async", "block"},   \* session_offload_backend
                     mixed : BOOLEAN,                        \* snapshot_mixed_restore
                     early : 0..Cardinality(Blocks)]         \* early fraction, in blocks

VARIABLES cfg,            \* the configuration, fixed at start-up
          store,          \* the host store
          snapOf,         \* SessionOffloadManager._snapshots: snapshot id, 0 = none
          group,          \* _group_reservations: reservation per request
          pend,           \* AsyncSnapshotOffloadManager.pending
          use,            \* _pending_use
          unsettled,      \* committed writes neither counted restored nor unused
          blocks,         \* BlockStore.index and the slots it names
          man,            \* BlockOffloadManager._snapshots: manifest per request
          lease           \* _block_group: the open group's manifests and pinned keys

offloadVars == <<cfg, store, snapOf, group, pend, use, unsettled, blocks, man, lease>>

NoPend == [on |-> FALSE, meta |-> 0, table |-> << >>, pages |-> << >>]
NoMan == [id |-> 0, ns |-> << >>, tokens |-> << >>, computed |-> 0, keys |-> << >>]
NoLease == [on |-> FALSE, man |-> << >>, keys |-> {}]
NoUse == [n |-> 0, valid |-> 0, table |-> << >>, on |-> FALSE]

SnapshotInit ==
  /\ cfg \in Configs
  /\ store = EmptyStore
  /\ snapOf = [r \in Sessions |-> 0]
  /\ group = {}
  /\ pend = NoPend
  /\ use = [r \in Sessions |-> NoUse]
  /\ unsettled = 0
  /\ blocks = EmptyIndex
  /\ man = [r \in Sessions |-> NoMan]
  /\ lease = NoLease

State == [pool |-> pool, kv |-> kv, q |-> q, store |-> store, snapOf |-> snapOf,
          group |-> group, pend |-> pend, use |-> use, unsettled |-> unsettled,
          blocks |-> blocks, man |-> man, lease |-> lease]
Become(Z) ==
  /\ pool' = Z.pool /\ kv' = Scrub(Z.kv, Z.pool.free) /\ q' = Z.q /\ store' = Z.store
  /\ snapOf' = Z.snapOf /\ group' = Z.group /\ pend' = Z.pend /\ use' = Z.use
  /\ unsettled' = Z.unsettled /\ blocks' = Z.blocks /\ man' = Z.man
  /\ lease' = Z.lease /\ stale' = (stale \/ StaleParent(Z.q))

\* Z with its pool reclaimed towards goal free blocks.
Reclaimed(Z, goal) == {[Z EXCEPT !.pool = P] : P \in Reclaims(Z.pool, goal)}

(***************************************************************************)
(* Saving.                                                                 *)
(***************************************************************************)
UsedIds(Z) == Ids(Z.store) \union {m.id : m \in Z.store.open}
                \union {Z.q[r].snap : r \in Sessions} \union {op.hold.id}
NextId(Z) == Min(1 .. Cardinality(UsedIds(Z)) + 1 \ UsedIds(Z))
\* _metadata of request r under snapshot id i.
Metadata(Z, r, i) ==
  [id |-> i, rid |-> r, tokens |-> Z.q[r].tokens, computed |-> Z.q[r].computed,
   n |-> BlocksNeededFor(Z.q[r].computed), w |-> weights, epoch |-> epoch, pin |-> FALSE,
   pages |-> << >>]

\* The request once its snapshot m is committed: no GPU blocks, prefix_parent as it was.
OffGpu(c, m) ==
  [c EXCEPT !.table = << >>, !.computed = 0, !.published = 0, !.res = "cpu", !.snap = m.id]
\* The host copy is committed before the source table is given up.
CommitSave(Z, r, m, pages) ==
  [Z EXCEPT !.store = Commit(@, m, pages), !.group = @ \ {m}, !.snapOf[r] = m.id,
            !.pool = Deallocate(@, Z.q[r].table), !.q[r] = OffGpu(@, m),
            !.unsettled = @ + m.n]
Export(Z, r, m) == [i \in 1..m.n |-> ExportPage(Z.kv, Z.q[r].table, i, m.computed)]

ReservationOf(Z, r) == CHOOSE m \in Z.group : m.rid = r
\* save of a member of the group; one already on the host returns at once.
Save(Z, r) ==
  IF Z.q[r].res = "cpu" /\ Z.q[r].snap # 0 THEN Z
  ELSE LET m == ReservationOf(Z, r) IN CommitSave(Z, r, m, Export(Z, r, m))
\* A transfer that raises: the reservation is aborted, the source is untouched.
SaveFailed(Z, m) == [Z EXCEPT !.store = Abort(@, {m}), !.group = @ \ {m}]

CloseGroup(Z) == [Z EXCEPT !.store = Abort(@, Z.group), !.group = {}]

\* Seeded fault: the request of an evicted snapshot still claims to be on the host.
EvictSnapshotsSilent(Z, k) ==
  LET gone == {Z.store.snaps[i] : i \in 1..k}
      R == {s.rid : s \in gone}
  IN  [Z EXCEPT !.store = Delete(@, {s.id : s \in gone}), !.unsettled = @ - SizeOf(gone),
                !.snapOf = [r \in Sessions |-> IF r \in R THEN 0 ELSE @[r]]]
\* evict_oldest_snapshot, k times: the request stays paused, without KV.
EvictSnapshots(Z, k) ==
  LET gone == {Z.store.snaps[i] : i \in 1..k}
      R == {s.rid : s \in gone}
  IN  [Z EXCEPT !.store = Delete(@, {s.id : s \in gone}), !.unsettled = @ - SizeOf(gone),
                !.snapOf = [r \in Sessions |-> IF r \in R THEN 0 ELSE @[r]],
                !.q = [r \in Sessions |->
                         IF r \in R
                         THEN [Z.q[r] EXCEPT !.res = "none", !.snap = 0,
                                             !.computed = IF Z.q[r].table = << >> THEN 0 ELSE @]
                         ELSE Z.q[r]]]
\* The oldest snapshots that must go before n more blocks fit: all of them if none suffice.
Evictions(Z, n) ==
  LET fits == {k \in 0..Len(Z.store.snaps) :
                 Owned(EvictSnapshots(Z, k).store, op.hold) + n <= CpuMax}
  IN  IF fits = {} THEN Len(Z.store.snaps) ELSE Min(fits)
MakeRoom(Z, n) == EvictSnapshots(Z, Evictions(Z, n))

\* prepare_group: one reservation per member, in order, under increasing ids.
ReserveOne(Z, r) ==
  LET m == Metadata(Z, r, NextId(Z))
  IN  [Z EXCEPT !.store = Reserve(@, m), !.group = @ \union {WithPin(Z.store, m)}]
ReserveAll(Z, rs) ==
  LET reserved[i \in 0..Len(rs)] == IF i = 0 THEN Z ELSE ReserveOne(reserved[i - 1], rs[i])
  IN  reserved[Len(rs)]
GroupSize(Z, rs) == Total([r \in Range(rs) |-> BlocksNeededFor(Z.q[r].computed)])
PrepareGroup(Z, rs) ==
  LET n == GroupSize(Z, rs)
      R == IF n <= CpuMax THEN MakeRoom(Z, n) ELSE Z
      ok == n <= CpuMax /\ Owned(R.store, op.hold) + n <= CpuMax
  IN  [ok |-> ok, z |-> IF ok THEN ReserveAll(R, rs) ELSE R]

(***************************************************************************)
(* The asynchronous copy.                                                  *)
(***************************************************************************)
\* The stream copies the next page of the pending save from the pool as it is now.
CopiedNext(k, p) ==
  [p EXCEPT !.pages = Append(@, k[p.table[Len(p.pages) + 1]])]
CopyLeft(p) == p.on /\ Len(p.pages) < p.meta.n
CopyChunk ==
  /\ CopyLeft(pend)
  /\ pend' = CopiedNext(kv, pend)
  /\ UNCHANGED <<residencyVars, cfg, store, snapOf, group, use, unsettled, blocks, man, lease>>
\* finish(wait=True): the stream is synchronised, so every page has been copied.
Synchronized(Z) ==
  LET p == Z.pend
  IN  [Z EXCEPT !.pend.pages = [i \in 1..p.meta.n |->
                                  IF i <= Len(p.pages) THEN p.pages[i] ELSE Z.kv[p.table[i]]]]

PendingPages(p) ==
  [i \in DOMAIN p.pages |-> [o \in Offsets |->
     IF (i - 1) * BlockSize + o <= p.meta.computed THEN p.pages[i][o] ELSE Junk]]
StillValid(Z) ==
  LET m == Z.pend.meta
      c == Z.q[m.rid]
  IN  /\ c.st = "parked" /\ c.table = Z.pend.table /\ c.tokens = m.tokens
      /\ c.computed = m.computed /\ m.epoch = epoch /\ m.w = weights
\* poll once the transfer has finished: commit, or abort what was cancelled or is stale.
Settle(Z, cancel) ==
  LET p == Z.pend
      m == p.meta
  IN  IF cancel \/ ~StillValid(Z)
      THEN [Z EXCEPT !.store = Abort(@, {m}), !.pend = NoPend]
      ELSE [CommitSave(Z, m.rid, m, PendingPages(p)) EXCEPT !.pend = NoPend]
\* poll(wait=True), which may also raise: then the engine is poisoned and keeps the owners.
Waited(Z, cancel) == IF Z.pend.on THEN Settle(Synchronized(Z), cancel) ELSE Z
WaitRaises == CopyMayFail /\ pend.on /\ fatal' = TRUE /\ Become(State)

(***************************************************************************)
(* Restoring.                                                              *)
(***************************************************************************)
SnapFor(Z, r) == SnapOfId(Z.store, Z.snapOf[r])
StaleSnapshot(Z, r) ==
  \/ Z.snapOf[r] = 0
  \/ LET s == SnapFor(Z, r) IN s.w # weights \/ s.epoch # epoch \/ s.tokens # Z.q[r].tokens
\* The cached GPU blocks a restore of snapshot s reuses, by position: the cached prefix,
\* or with mixed restore every cached full block.
MixedHits(P, s) ==
  LET hits == {i \in 1 .. s.computed \div BlockSize :
                 PrefixCaching /\ Lookup(P, SubSeq(s.tokens, 1, i * BlockSize)) # {}}
  IN  {h \in [hits -> Blocks] : \A i \in hits : h[i] \in Lookup(P, SubSeq(s.tokens, 1, i * BlockSize))}
Hits(P, s) == IF cfg.mixed THEN MixedHits(P, s) ELSE AttachUpto(P, s.tokens, s.computed)
Pinned(P, h) == Incref(P, [b \in Blocks |-> Occ(h, b)])
\* Seeded fault: a failed restore keeps its references to the cached blocks.
UnpinnedNot(P, h) == P
Unpinned(P, h) == Decref(P, [b \in Blocks |-> Occ(h, b)])
\* Blocks to import, and one more when the next token starts a block.
RestoreNeeds(s, h) ==
  s.n - Cardinality(DOMAIN h) + (IF s.computed % BlockSize = 0 THEN 1 ELSE 0)
\* The restored request; attach_cached_prefix_upto counts the attached blocks as published.
Restored(c, s, t, h) ==
  [c EXCEPT !.table = t, !.computed = s.computed, !.res = "gpu",
            !.published = IF cfg.mixed THEN 0 ELSE Len(h),
            !.parent = IF cfg.mixed THEN ROOT_HASH ELSE SubSeq(s.tokens, 1, Len(h) * BlockSize)]
\* A restore that is rolled back leaves the request on the host.
RolledBack(c, s, h) ==
  [Restored(c, s, << >>, h) EXCEPT !.computed = 0, !.res = "cpu"]

\* begin_restore: the ways it succeeds, and the states a failed one leaves behind.
\* Seeded fault: unused cache entries are evicted before the hits are pinned.
RestoresUnpinned(Z, r) ==
  LET s == SnapFor(Z, r)
  IN  UNION {UNION {UNION {LET t == [i \in 1..s.n |-> IF i \in DOMAIN h THEN h[i] ELSE g[i]]
                           IN  {[Z EXCEPT !.pool = Pinned(AllocBlocks(P, g), h),
                                          !.kv = ImportPages(@, t, s.pages, 1..s.n \ DOMAIN h),
                                          !.q[r] = Restored(@, s, t, h)]}
                           : g \in Fresh(P, 1..s.n \ DOMAIN h)}
                    : P \in {P \in Reclaims(Z.pool, RestoreNeeds(s, h)) :
                               FreeBlocks(P) >= RestoreNeeds(s, h)}}
             : h \in Hits(Z.pool, s)}
Restores(Z, r) ==
  LET s == SnapFor(Z, r)
  IN  UNION {UNION {UNION {LET t == [i \in 1..s.n |-> IF i \in DOMAIN h THEN h[i] ELSE g[i]]
                           IN  {[Z EXCEPT !.pool = AllocBlocks(P, g),
                                          !.kv = ImportPages(@, t, s.pages, 1..s.n \ DOMAIN h),
                                          !.q[r] = Restored(@, s, t, h)]}
                           : g \in Fresh(P, 1..s.n \ DOMAIN h)}
                    : P \in {P \in Reclaims(Pinned(Z.pool, h), RestoreNeeds(s, h)) :
                               FreeBlocks(P) >= RestoreNeeds(s, h)}}
             : h \in Hits(Z.pool, s)}
FailedRestores(Z, r) ==
  LET s == SnapFor(Z, r)
  IN  UNION {{[Z EXCEPT !.pool = Unpinned(P, h), !.q[r] = RolledBack(@, s, h)]
                : P \in {P \in Reclaims(Pinned(Z.pool, h), RestoreNeeds(s, h)) :
                           CopyMayFail \/ FreeBlocks(P) < RestoreNeeds(s, h)}}
             : h \in Hits(Z.pool, s)}

\* commit_restore: the host copy goes only now; its bytes wait for mark_used.
CommitRestore(Z, r) ==
  [Z EXCEPT !.store = Delete(@, {Z.snapOf[r]}), !.snapOf[r] = 0,
            !.use[r] = [n |-> SnapFor(Z, r).n, valid |-> Z.q[r].computed, table |-> Z.q[r].table,
                        on |-> TRUE]]
\* rollback_restore, when the scheduler refuses a resume after the restore.
RollbackRestore(Z, r) ==
  [Z EXCEPT !.pool = Deallocate(@, Z.q[r].table),
            !.q[r] = [@ EXCEPT !.table = << >>, !.computed = 0, !.res = "cpu"]]

(***************************************************************************)
(* Forgetting.                                                             *)
(***************************************************************************)
\* The blocks of the sessions S that were restored and have not run since.
UsedBy(Z, S) == Total([r \in S |-> Z.use[r].n])
\* Seeded fault: a copy in flight is left running.
RemoveAllUncancelled(Z, S) ==
  LET gone == {s \in Snaps(Z.store) : \E r \in S : Z.snapOf[r] = s.id}
  IN  [Z EXCEPT !.store = Delete(@, {s.id : s \in gone}),
                !.snapOf = [r \in Sessions |-> IF r \in S THEN 0 ELSE @[r]],
                !.use = [r \in Sessions |-> IF r \in S THEN NoUse ELSE @[r]],
                !.unsettled = @ - SizeOf(gone) - UsedBy(Z, S)]
\* remove, for the requests in S: a pending save of theirs is waited for and cancelled.
RemoveAll(Z0, S) ==
  LET Z == IF Z0.pend.on /\ Z0.pend.meta.rid \in S THEN Waited(Z0, TRUE) ELSE Z0
      gone == {s \in Snaps(Z.store) : \E r \in S : Z.snapOf[r] = s.id}
  IN  [Z EXCEPT !.store = Delete(@, {s.id : s \in gone}),
                !.snapOf = [r \in Sessions |-> IF r \in S THEN 0 ELSE @[r]],
                !.use = [r \in Sessions |-> IF r \in S THEN NoUse ELSE @[r]],
                !.unsettled = @ - SizeOf(gone) - UsedBy(Z, S)]
\* invalidate_all.
Invalidated(Z0) ==
  LET Z == CloseGroup(Waited(Z0, TRUE))
  IN  [Z EXCEPT !.store = InvalidateStore(@),
                !.unsettled = @ - SizeOf(Snaps(Z.store)) - UsedBy(Z, Sessions),
                !.use = [r \in Sessions |-> NoUse],
                !.snapOf = [r \in Sessions |-> 0]]
=============================================================================
