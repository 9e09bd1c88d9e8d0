---------------------------- MODULE BlockOffload ----------------------------
(***************************************************************************)
(* engine/block_offload.py: paused sessions described by a manifest of     *)
(* block keys, whose blocks are shared and evicted one by one in the host  *)
(* store.  A manifest pins nothing: a restore uses what is left of it.     *)
(* Left out: the byte cohorts of report(), which only count.               *)
(***************************************************************************)
EXTENDS SnapshotOffload

Namespace == <<weights, epoch>>
ManifestIds(Z) == {Z.man[r].id : r \in Sessions} \union {Z.q[r].snap : r \in Sessions}
                    \union {k[4] : k \in {j \in DOMAIN Z.blocks : IsTail(j)}}
FreshId(Z, n) == CHOOSE i \in 1 .. Cardinality(ManifestIds(Z)) + n :
                   Cardinality({j \in 1..i : j \notin ManifestIds(Z)}) = n /\ i \notin ManifestIds(Z)
\* _manifest: hashes chain over the whole history, the partial block is private.
Keys(toks, computed, rid, id) ==
  [i \in 1..BlocksNeededFor(computed) |->
     IF i * BlockSize <= computed THEN <<Namespace, SubSeq(toks, 1, i * BlockSize)>>
     ELSE <<Namespace, "tail", rid, id>>]
Manifest(Z, r, id) ==
  [id |-> id, ns |-> Namespace, tokens |-> Z.q[r].tokens, computed |-> Z.q[r].computed,
   keys |-> Keys(Z.q[r].tokens, Z.q[r].computed, r, id)]
TailsOf(m) == {k \in Range(m.keys) : IsTail(k)}

\* prepare_group: one lease over every key of the group and the tails it will replace.
LeaseOf(Z, rs) ==
  LET M == [r \in Range(rs) |-> Manifest(Z, r, FreshId(Z, CHOOSE i \in DOMAIN rs : rs[i] = r))]
  IN  [on |-> TRUE, man |-> M,
       keys |-> UNION {Range(M[r].keys) \union TailsOf(Z.man[r]) : r \in Range(rs)}]
LeaseKeys(L) == UNION {Range(L.man[r].keys) : r \in DOMAIN L.man}
BlockPrepare(Z, rs) ==
  LET L == LeaseOf(Z, rs)
      keys == LeaseKeys(L)
  IN  IF ~CanReserveBlocks(Z.blocks, keys, L.keys) THEN {[ok |-> FALSE, z |-> Z]}
      ELSE {[ok |-> TRUE,
             z |-> [Z EXCEPT !.blocks = ReserveBlocks(@, keys, L.keys, V, JunkPage), !.lease = L]]
              : V \in EvictionChoices(Z.blocks, keys, L.keys)}

\* close_group: private tails no manifest names any more go too.
BlockClose(Z) ==
  LET X == CloseLease(Z.blocks, Z.lease.keys)
      live == UNION {TailsOf(Z.man[r]) : r \in Sessions}
  IN  IF ~Z.lease.on THEN Z
      ELSE [Z EXCEPT !.blocks = EvictBlocks(X, {k \in DOMAIN X : IsTail(k)} \ live),
                     !.lease = NoLease]

\* The keys of manifest m still to be written, and the store once those up to n are.
Unwritten(Z, m) == {i \in DOMAIN m.keys : ~Ready(Z.blocks, m.keys[i])}
Written(Z, r, m, I) ==
  [k \in DOMAIN Z.blocks |->
     IF \E i \in I : m.keys[i] = k
     THEN [Z.blocks[k] EXCEPT !.ready = TRUE,
             !.page = ExportPage(Z.kv, Z.q[r].table, CHOOSE i \in I : m.keys[i] = k, m.computed)]
     ELSE Z.blocks[k]]
\* save inside an open group: copy what is missing, register the manifest, free the GPU.
BlockSave(Z, r) ==
  LET m == Z.lease.man[r]
  IN  IF Z.q[r].table = << >> /\ Z.man[r].id # 0 THEN Z
      ELSE [Z EXCEPT !.blocks = EvictBlocks(Written(Z, r, m, Unwritten(Z, m)), TailsOf(Z.man[r])),
                     !.man[r] = m, !.pool = Deallocate(@, Z.q[r].table),
                     !.q[r] = OffGpu(@, m)]
\* A transfer run raises: the runs before it are committed and stay.
BlockSaveFails(Z, r) ==
  LET m == Z.lease.man[r]
      I == Unwritten(Z, m)
  IN  {[Z EXCEPT !.blocks = Written(Z, r, m, {i \in I : i < n})] : n \in I}

(***************************************************************************)
(* Restoring.                                                              *)
(***************************************************************************)
BlockStale(Z, r) ==
  Z.man[r].id = 0 \/ Z.man[r].ns # Namespace \/ Z.man[r].tokens # Z.q[r].tokens
OnGpu(Z, k) == IF PrefixCaching /\ ~IsTail(k) THEN Lookup(Z.pool, k[2]) ELSE {}
\* Seeded fault: blocks behind a hole are used as well.
PlanLengthPastHoles(Z, m) == Len(m.keys)
\* The plan ends at the first block that is neither cached on the GPU nor in the store.
PlanLength(Z, m) ==
  LET found == {i \in DOMAIN m.keys : OnGpu(Z, m.keys[i]) # {} \/ Ready(Z.blocks, m.keys[i])}
  IN  Max({n \in 0..Len(m.keys) : 1..n \subseteq found})
PlanHits(Z, m) ==
  LET hits == {i \in 1..PlanLength(Z, m) : OnGpu(Z, m.keys[i]) # {}}
  IN  {h \in [hits -> Blocks] : \A i \in hits : h[i] \in OnGpu(Z, m.keys[i])}
PlanValid(Z, m) == Lesser(m.computed, PlanLength(Z, m) * BlockSize)
PlanNeeds(Z, m, h) ==
  PlanLength(Z, m) - Cardinality(DOMAIN h) + (IF PlanValid(Z, m) % BlockSize = 0 THEN 1 ELSE 0)
PlanPage(Z, m, i) == IF Ready(Z.blocks, m.keys[i]) THEN Z.blocks[m.keys[i]].page ELSE JunkPage

BlockRestores(Z, r) ==
  LET m == Z.man[r]
      n == PlanLength(Z, m)
  IN  UNION {UNION {UNION {LET t == [i \in 1..n |-> IF i \in DOMAIN h THEN h[i] ELSE g[i]]
                           IN  {[Z EXCEPT !.pool = AllocBlocks(P, g),
                                          !.kv = ImportPages(@, t, [i \in 1..n |-> PlanPage(Z, m, i)],
                                                             1..n \ DOMAIN h),
                                          !.q[r] = [@ EXCEPT !.table = t, !.computed = PlanValid(Z, m),
                                                             !.res = "gpu", !.published = 0,
                                                             !.parent = ROOT_HASH]]}
                           : g \in Fresh(P, 1..n \ DOMAIN h)}
                    : P \in {P \in Reclaims(Pinned(Z.pool, h), PlanNeeds(Z, m, h)) :
                               FreeBlocks(P) >= PlanNeeds(Z, m, h)}}
             : h \in PlanHits(Z, m)}
BlockFailedRestores(Z, r) ==
  LET m == Z.man[r]
  IN  UNION {{[Z EXCEPT !.pool = Unpinned(P, h)]
                : P \in {P \in Reclaims(Pinned(Z.pool, h), PlanNeeds(Z, m, h)) :
                           CopyMayFail \/ FreeBlocks(P) < PlanNeeds(Z, m, h)}}
             : h \in PlanHits(Z, m)}

(***************************************************************************)
(* Forgetting.                                                             *)
(***************************************************************************)
BlockRemove(Z, S) ==
  [Z EXCEPT !.man = [r \in Sessions |-> IF r \in S THEN NoMan ELSE @[r]],
            !.blocks = EvictBlocks(@, UNION {TailsOf(Z.man[r]) : r \in S})]
BlockInvalidated(Z) ==
  [Z EXCEPT !.blocks = EmptyIndex, !.man = [r \in Sessions |-> NoMan], !.lease = NoLease]
=============================================================================
