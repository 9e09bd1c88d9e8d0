--------------------------- MODULE SessionOffload ---------------------------
(***************************************************************************)
(* Sessions whose KV is offloaded under pressure: the operations of the    *)
(* engine's owner thread (rollout/execution.py, the engine's resume and    *)
(* finish) over whichever manager the configuration selects.  The block    *)
(* manager is a subclass of the snapshot manager: the operators below      *)
(* dispatch on cfg.backend as the method calls do.                         *)
(***************************************************************************)
EXTENDS BlockOffload

vars == <<residencyVars, offloadVars>>

Tiered == cfg.backend = "block"
Stale(Z, r) == IF Tiered THEN BlockStale(Z, r) ELSE StaleSnapshot(Z, r)
BeginRestore(Z, r) == IF Tiered THEN BlockRestores(Z, r) ELSE Restores(Z, r)
BeginRestoreFails(Z, r) == IF Tiered THEN BlockFailedRestores(Z, r) ELSE FailedRestores(Z, r)
\* A manifest outlives its restore, a snapshot does not.
Commits(Z, r) == IF Tiered THEN Z ELSE CommitRestore(Z, r)
LogicalBlocks(Z, r) == IF Tiered THEN BlocksNeededFor(Z.man[r].computed) ELSE SnapFor(Z, r).n
\* The buffer a failed admission still refers to; a manifest has none.
Holding(Z, r) == IF Tiered THEN NoHold ELSE [id |-> Z.snapOf[r], n |-> SnapFor(Z, r).n]
Forgotten(Z, S) == IF Tiered THEN BlockRemove(Z, S) ELSE RemoveAll(Z, S)
Prepared(Z, rs) == IF Tiered THEN BlockPrepare(Z, rs) ELSE {PrepareGroup(Z, rs)}
Saved(Z, r) == IF Tiered THEN BlockSave(Z, r) ELSE Save(Z, r)
SavesFailing(Z, r) == IF Tiered THEN BlockSaveFails(Z, r) ELSE {SaveFailed(Z, ReservationOf(Z, r))}
Closed(Z) == IF Tiered THEN BlockClose(Z) ELSE CloseGroup(Z)
InvalidatedAll(Z) == IF Tiered THEN BlockInvalidated(Z) ELSE Invalidated(Z)
\* finish_request for the requests in S.
Finished(Z0, S) ==
  LET Z == Forgotten(Z0, S)
  IN  [Z EXCEPT !.pool = DeallocateAll(@, [r \in S |-> Z.q[r].table]),
                !.q = [r \in Sessions |-> IF r \in S THEN NoReq ELSE @[r]]]

(***************************************************************************)
(* The owner's operations.                                                 *)
(***************************************************************************)
NewTurn(r, prompt) == AddRequest(r, prompt) /\ UNCHANGED offloadVars

\* resume_request waits for a pending save of the same session, which it may then restore.
WaitFor(r) == IF pend.on /\ pend.meta.rid = r THEN Waited(State, FALSE) ELSE State
Resumed(Z, r, suffix) == [Z EXCEPT !.q[r] = [Z.q[r] EXCEPT !.st = "active", !.tokens = @ \o suffix]]
\* commit_claim, forget: the session leaves the cache.
Unparked(r) == order' = Remaining(order, r) /\ shown' = [shown EXCEPT ![r] = 0]

\* _admit of a turn that continues session r, resumed from the GPU or restored.
Admit(r, suffix) ==
  /\ op.pc = "idle" /\ ~fatal
  /\ r \in Parked /\ Len(q[r].tokens) + Len(suffix) < MaxLen
  /\ LET Z == WaitFor(r)
     IN  \/ Z.q[r].res # "cpu" /\ Become(Resumed(Z, r, suffix))
         \/ /\ Z.q[r].res = "cpu" /\ ~Stale(Z, r)
            /\ \E R \in BeginRestore(Z, r) : Become(Resumed(Commits(R, r), r, suffix))
  /\ Unparked(r)
  /\ UNCHANGED <<epoch, op, fatal, weights, cfg>>

\* The restore does not fit, or its copy raises: with other work active the turn is
\* deferred; on an idle engine parked KV is offloaded first, for the snapshot's blocks.
AdmitFails(r, suffix) ==
  /\ op.pc = "idle" /\ ~fatal
  /\ r \in Parked /\ Len(q[r].tokens) + Len(suffix) < MaxLen
  /\ LET Z == WaitFor(r)
     IN  /\ Z.q[r].res = "cpu" /\ ~Stale(Z, r)
         /\ \E R \in BeginRestoreFails(Z, r) :
              /\ Become(R)
              /\ \/ /\ fatal' = FALSE
                    /\ op' = IF Active # {} THEN Idle
                             ELSE StartOffload([Idle EXCEPT
                                    !.goal = LogicalBlocks(Z, r), !.for = r, !.suffix = suffix,
                                    !.before = FreeBlocks(R.pool),
                                    !.hold = Holding(Z, r)], R.q)
                 \/ CopyMayFail /\ fatal' = TRUE /\ op' = Idle
  /\ UNCHANGED <<epoch, order, shown, weights, cfg>>

\* Waiting for the session's own copy raises.
AdmitRaises(r) ==
  /\ op.pc = "idle" /\ ~fatal
  /\ pend.on /\ pend.meta.rid = r
  /\ WaitRaises
  /\ UNCHANGED <<epoch, order, shown, op, weights, cfg>>

\* The scheduler refuses the resume (the turn is too long for the pool) after the restore.
AdmitRefused(r) ==
  /\ op.pc = "idle" /\ ~fatal
  /\ r \in Parked
  /\ LET Z == WaitFor(r)
     IN  /\ Z.q[r].res = "cpu" /\ ~Stale(Z, r)
         /\ \E R \in BeginRestore(Z, r) : Become(RollbackRestore(R, r))
  /\ UNCHANGED <<epoch, order, shown, op, fatal, weights, cfg>>

\* After the offload of a failed admission: deferred if blocks were freed, otherwise the
\* session is given up and the turn starts cold.
RetryAdmission ==
  /\ op.pc = "retry"
  /\ op' = Idle
  /\ \/ /\ FreeBlocks(pool) > op.before
        /\ Become(State) /\ UNCHANGED <<order, shown>>
     \/ /\ FreeBlocks(pool) <= op.before
        /\ LET r == op.for
               c == Admitted(q[r].tokens \o op.suffix)
               Z == Finished(State, {r})
           IN  /\ \E t \in Attaching(Z.pool, c) :
                    Become([Z EXCEPT !.pool = AttachPool(@, t), !.q[r] = Attached(c, t)])
               /\ Unparked(r)
  /\ UNCHANGED <<epoch, fatal, weights, cfg>>

\* before_step: a finished copy is settled.
BeginStep ==
  /\ op.pc = "idle" /\ ~fatal /\ Active # {}
  /\ \/ /\ op' = [Idle EXCEPT !.pc = "early"]
        /\ fatal' = fatal
        /\ IF pend.on /\ ~CopyLeft(pend)
           THEN /\ Become(Settle(State, FALSE))
                /\ shown' = [shown EXCEPT ![pend.meta.rid] = Len(q'[pend.meta.rid].table)]
           ELSE Become(State) /\ UNCHANGED shown
     \/ WaitRaises /\ UNCHANGED <<op, shown>>
  /\ UNCHANGED <<epoch, order, weights, cfg>>

\* What an early save of r may come to: nothing when it does not fit; a copy in flight;
\* a synchronous save; a copy that raised.
EarlySaves(Z, r) ==
  LET m == Metadata(Z, r, NextId(Z))
      R == ReserveOne(Z, r)
      p == ReservationOf(R, r)
  IN  IF ~CanReserve(Z.store, NoHold, m.n) THEN {Z}
      ELSE (IF CopyMayFail THEN {SaveFailed(R, p)} ELSE {})
           \union (IF cfg.backend = "async" /\ p.pin
                   THEN {[R EXCEPT !.group = {}, !.pend = [on |-> TRUE, meta |-> p,
                                                           table |-> Z.q[r].table, pages |-> << >>]]}
                   ELSE {CommitSave(R, r, p, Export(R, r, p))})
AfterEarly(P) == IF FreeBlocks(P) > 0 THEN [Idle EXCEPT !.pc = "step"] ELSE StartEvict(1, "step")
\* _early_offload: at most one save, of the oldest session that would free a block.  The
\* block manager inherits an early_save its store does not understand: the step raises.
EarlyOffload ==
  /\ op.pc = "early"
  /\ IF cfg.early = 0 \/ pend.on \/ FreeBlocks(pool) >= cfg.early
     THEN Become(State) /\ op' = AfterEarly(pool) /\ UNCHANGED shown
     ELSE \E Z \in Reclaimed(State, cfg.early) :
            LET S == Kept(order, {r \in Sessions : q[r].table # << >> /\ Reclaimable(Z.pool, {r}) > 0})
            IN  IF FreeBlocks(Z.pool) >= cfg.early \/ S = << >>
                THEN Become(Z) /\ op' = AfterEarly(Z.pool) /\ UNCHANGED shown
                ELSE \/ Tiered /\ Become(Finished(Z, Active)) /\ op' = Idle /\ UNCHANGED shown
                     \/ /\ ~Tiered
                        /\ \E R \in EarlySaves(Z, S[1]) : \E E \in Reclaimed(R, cfg.early) :
                             /\ Become(E) /\ op' = AfterEarly(E.pool)
                             /\ shown' = [shown EXCEPT ![S[1]] = Len(R.q[S[1]].table)]
  /\ UNCHANGED <<epoch, order, fatal, weights, cfg>>

\* A turn of r runs, pauses and is parked; mark_used settles the bytes of its restore.
RunTurn(r, tok) ==
  /\ op.pc = "step" /\ r \in Active
  /\ \E T \in Turns(pool, q[r], tok) :
       Become([State EXCEPT !.pool = T.pool, !.kv = T.kv,
                            !.q[r] = [T.q EXCEPT !.st = "parked"],
                            !.use[r] = NoUse, !.unsettled = @ - use[r].n])
  /\ order' = Append(order, r)
  /\ shown' = [shown EXCEPT ![r] = Len(q'[r].table)]
  /\ op' = StartEvict(Watermark, "idle")
  /\ UNCHANGED <<epoch, fatal, weights, cfg>>

\* The step raises because no active request gets a token: all of them are failed.
StepRaises ==
  /\ op.pc = "step"
  /\ \A r \in Active, tok \in Sampled : Turns(pool, q[r], tok) = {}
  /\ Become(Finished(State, Active))
  /\ op' = Idle
  /\ UNCHANGED <<epoch, order, shown, fatal, weights, cfg>>

\* _evict_for_free_watermark: unused cache entries first, then the copy in flight.
EvictCached ==
  /\ op.pc = "evict"
  /\ \E Z \in Reclaimed(State, op.goal) :
       IF FreeBlocks(Z.pool) < op.goal /\ pend.on
       THEN \/ /\ \E R \in Reclaimed(Waited(Z, FALSE), op.goal) : Become(R)
               /\ shown' = [shown EXCEPT ![pend.meta.rid] = Len(q'[pend.meta.rid].table)]
               /\ op' = StartOffload(op, q') /\ fatal' = fatal
            \/ CopyMayFail /\ fatal' = TRUE /\ Become(Z) /\ op' = Idle /\ UNCHANGED shown
       ELSE Become(Z) /\ op' = StartOffload(op, q') /\ UNCHANGED <<shown, fatal>>
  /\ UNCHANGED <<epoch, order, weights, cfg>>

\* reclaim_group starts: a pending copy is waited for, the whole group is reserved.
OpenGroup ==
  /\ op.pc = "offload"
  /\ op.cand # << >> /\ FreeBlocks(pool) < op.goal
  /\ LET rs   == NextGroup(pool, op.cand, op.goal)
         rest == SubSeq(op.cand, Len(rs) + 1, Len(op.cand))
     IN  \/ \E G \in Prepared(Waited(State, FALSE), rs) :
            /\ Become(G.z)
            /\ op' = IF G.ok THEN [op EXCEPT !.pc = "save", !.group = rs, !.at = 1, !.cand = rest]
                     ELSE [op EXCEPT !.cand = rest]
            /\ shown' = IF G.ok THEN shown
                        ELSE [r \in Sessions |-> IF r \in Range(rs) THEN Len(G.z.q[r].table) ELSE shown[r]]
            /\ fatal' = fatal
         \/ WaitRaises /\ op' = Idle /\ UNCHANGED shown
  /\ UNCHANGED <<epoch, order, weights, cfg>>

\* The group is left: unused reservations are aborted and the cache's counts refreshed.
LeaveGroup(Z) ==
  /\ Become(Closed(Z))
  /\ shown' = [r \in Sessions |-> IF r \in Range(op.group) THEN Len(Z.q[r].table) ELSE shown[r]]
  /\ op' = [op EXCEPT !.pc = "offload", !.group = << >>, !.at = 0]
SaveNext ==
  /\ op.pc = "save"
  /\ \E Z \in Reclaimed(Saved(State, op.group[op.at]), op.goal) :
       IF FreeBlocks(Z.pool) >= op.goal \/ op.at = Len(op.group)
       THEN LeaveGroup(Z)
       ELSE Become(Z) /\ op' = [op EXCEPT !.at = @ + 1] /\ UNCHANGED shown
  /\ UNCHANGED <<epoch, order, fatal, weights, cfg>>
\* A transfer of the group raises: what was committed stands, the rest is released.
SaveFails ==
  /\ op.pc = "save" /\ CopyMayFail
  /\ \E Z \in SavesFailing(State, op.group[op.at]) :
         \/ LeaveGroup(Z) /\ UNCHANGED fatal
         \/ Become(Closed(Z)) /\ op' = Idle /\ fatal' = TRUE /\ UNCHANGED shown
  /\ UNCHANGED <<epoch, order, weights, cfg>>

\* The oldest session with blocks loses its KV altogether.
DropOldest ==
  /\ op.pc = "drop"
  /\ Droppable # << >> /\ FreeBlocks(pool) < op.goal
  /\ LET r == Droppable[1]
         Z == Forgotten(State, {r})
     IN  /\ \E R \in Reclaimed([Z EXCEPT !.pool = Deallocate(@, Z.q[r].table), !.q[r] = Dropped(@)],
                               op.goal) : Become(R)
         /\ shown' = DropShown(r)
  /\ UNCHANGED <<epoch, order, op, fatal, weights, cfg>>

\* finish_session, a retired session, or a turn whose caller went away.
FinishSession(r) ==
  /\ op.pc = "idle" /\ q[r].st # "gone"
  /\ \/ Become(Finished(State, {r})) /\ Unparked(r) /\ UNCHANGED fatal
     \/ pend.on /\ pend.meta.rid = r /\ WaitRaises /\ UNCHANGED <<order, shown>>
  /\ UNCHANGED <<epoch, op, weights, cfg>>

\* SessionRollout.abort: everything the rollout owns is finished.
AbortAll ==
  /\ op.pc = "idle" /\ Active # {}
  /\ Become(Finished(State, {r \in Sessions : q[r].st # "gone"}))
  /\ order' = << >> /\ shown' = [r \in Sessions |-> 0]
  /\ UNCHANGED <<epoch, op, fatal, weights, cfg>>

\* apply_named_weights or sleep with sessions parked: snapshots are invalidated first, every
\* request becomes an empty-KV restart, the pool is reset.
InvalidateAll(change) ==
  /\ EngineApi /\ op.pc = "idle" /\ Active = {}
  /\ epoch < MaxEpoch /\ weights + change <= MaxWeights
  /\ \/ /\ LET Z == InvalidatedAll(State)
           IN  Become([Z EXCEPT !.pool = EmptyPool,
                                !.q = [r \in Sessions |->
                                         IF r \in Parked THEN [Dropped(Z.q[r]) EXCEPT !.st = "parked"]
                                         ELSE Z.q[r]]])
        /\ epoch' = epoch + 1 /\ weights' = weights + change
        /\ shown' = [r \in Sessions |-> 0] /\ UNCHANGED fatal
     \/ WaitRaises /\ UNCHANGED <<epoch, weights, shown>>
  /\ UNCHANGED <<order, op, cfg>>

\* Engine.offload_request: a save outside a group makes its own room.
OffloadRequest(r) ==
  /\ EngineApi /\ op.pc = "idle" /\ ~fatal
  /\ r \in Parked /\ q[r].table # << >>
  /\ LET Z == Waited(State, FALSE)
     IN  IF Z.q[r].res = "cpu" THEN Become(Z)
         ELSE \E G \in Prepared(Z, <<r>>) :
                \/ ~G.ok /\ Become(G.z)
                \/ G.ok /\ Become(Closed(Saved(G.z, r)))
                \/ G.ok /\ CopyMayFail /\ \E F \in SavesFailing(G.z, r) : Become(Closed(F))
  /\ shown' = [shown EXCEPT ![r] = Len(q'[r].table)]
  /\ UNCHANGED <<epoch, order, op, fatal, weights, cfg>>

Episode ==
  \/ EvictCached \/ OpenGroup \/ SaveNext \/ SaveFails \/ DropOldest \/ RetryAdmission
  \/ (OffloadDone \/ DropDone) /\ UNCHANGED <<pool, epoch, kv, q, order, shown, fatal, weights, stale, offloadVars>>
  \/ EarlyOffload \/ StepRaises
  \/ \E r \in Sessions, tok \in Sampled : RunTurn(r, tok)
OffloadNext ==
  \/ Episode \/ BeginStep \/ CopyChunk \/ AbortAll
  \/ \E r \in Sessions : \/ \E p \in Prompts : NewTurn(r, p)
                         \/ \E s \in NextTokens : Admit(r, s) \/ AdmitFails(r, s)
                         \/ AdmitRaises(r) \/ AdmitRefused(r) \/ FinishSession(r) \/ OffloadRequest(r)
  \/ \E c \in {0, 1} : InvalidateAll(c)

OffloadInit == ResidencyInit /\ SnapshotInit
OffloadSpec == OffloadInit /\ [][OffloadNext]_vars

(***************************************************************************)
(* Properties.                                                             *)
(***************************************************************************)
\* A snapshot a restore would use holds the KV of exactly the session's history under the
\* current weights, and nothing past it; a session is on the host if and only if it has one.
SnapshotsSound ==
  ~Tiered =>
    /\ \A r \in Sessions :
         /\ (q[r].res = "cpu") <=> (snapOf[r] # 0)
         /\ snapOf[r] # 0 => /\ snapOf[r] \in Ids(store) /\ q[r].snap = snapOf[r]
                             /\ q[r].st = "parked" /\ q[r].table = << >> /\ q[r].computed = 0
    /\ \A s \in Snaps(store) :
         /\ snapOf[s.rid] = s.id /\ s.tokens = q[s.rid].tokens
         /\ ~stale => \A i \in 1..s.n, o \in Offsets :
              LET p == (i - 1) * BlockSize + o
              IN  s.pages[i][o] = IF p <= s.computed THEN Cell(weights, s.tokens, p) ELSE Junk

\* Whatever is found in the block store holds the KV its key promises; a session on the host
\* has a manifest of exactly its history; outside an operation no slot is half written, none
\* is pinned, every private tail belongs to a live manifest, and the budget is respected.
BlocksSound ==
  /\ \A k \in {j \in DOMAIN blocks : blocks[j].ready} :
       /\ k[1] = Namespace
       /\ ~stale /\ ~IsTail(k) => \A o \in Offsets :
            blocks[k].page[o] = Cell(weights, k[2], Len(k[2]) - BlockSize + o)
  /\ \A r \in Sessions : man[r].id # 0 =>
       /\ \A k \in TailsOf(man[r]) : ~stale /\ Ready(blocks, k) => \A o \in Offsets :
            LET p == man[r].computed - (man[r].computed % BlockSize) + o
            IN  blocks[k].page[o] = IF p <= man[r].computed THEN Cell(weights, man[r].tokens, p) ELSE Junk
       /\ q[r].st # "gone"
       /\ q[r].res = "cpu" => /\ man[r].tokens = q[r].tokens /\ man[r].id = q[r].snap
                              /\ q[r].table = << >> /\ q[r].computed = 0
  /\ Cardinality(DOMAIN blocks) <= CpuMax
  /\ ~lease.on => \A k \in DOMAIN blocks :
       /\ blocks[k].ready /\ blocks[k].pins = 0
       /\ IsTail(k) => \E r \in Sessions : k \in TailsOf(man[r])

\* The source of a copy in flight is not touched until the copy is settled: its session
\* stays parked with the same blocks and the pages copied so far are its KV.
CopySourceHeld ==
  pend.on /\ ~fatal =>
    LET m == pend.meta
    IN  /\ q[m.rid].st = "parked" /\ q[m.rid].table = pend.table /\ m \in store.open
        /\ \A i \in DOMAIN pend.pages, o \in Offsets :
             ~stale /\ (i - 1) * BlockSize + o <= m.computed
               => pend.pages[i][o] = Cell(weights, m.tokens, (i - 1) * BlockSize + o)

\* The host budget is never exceeded and its counters are what the store holds; outside
\* an operation only the copy in flight has a reservation.
BudgetExact ==
  /\ store.committed = SizeOf(Snaps(store)) /\ store.reserved = SizeOf(store.open)
  /\ store.pinned = PinnedOf(Snaps(store)) /\ store.openPinned = PinnedOf(store.open)
  /\ Owned(store, op.hold) <= CpuMax /\ store.pinned + store.openPinned <= PinnedMax
  /\ store.open = group \union (IF pend.on THEN {pend.meta} ELSE {})
  /\ op.pc # "save" => group = {}

\* Every block written to the host is accounted for: what is neither restored nor counted
\* unused is in a snapshot or in a restore that has not run yet (report()'s identity).
BytesConserved ==
  unsettled = SizeOf(Snaps(store)) + UsedBy(State, Sessions)

\* Whatever a restore may find on the host is the KV it is taken for, in either store.
HostCopiesSound == SnapshotsSound /\ BlocksSound
\* The host tier's books: no byte is lost by a save, restore or eviction, whatever raises.
HostAccountsExact == BudgetExact /\ BytesConserved

\* The session cache knows how many blocks each parked session holds.
ParkedBlocksKnown == \A r \in Parked : shown[r] = Len(q[r].table)

\* An early save is best effort: it never costs an active turn.
EarlySaveHarmless == [][op.pc = "early" => \A r \in Active : q'[r].st = "active"]_vars
=============================================================================
