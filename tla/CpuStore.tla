------------------------------ MODULE CpuStore ------------------------------
(***************************************************************************)
(* kv/cpu_store.py and kv/host_budget.py: a bounded host store of KV       *)
(* snapshots with reserve, write, commit semantics.  The store is a value  *)
(*   S = [snaps, open, committed, reserved, pinned, openPinned]            *)
(* whose counters are kept as the code keeps them, beside the snapshots    *)
(* and reservations they count.  Sizes are in KV blocks.  The LRU order    *)
(* is the order of commits: nothing in src/ calls get().                   *)
(***************************************************************************)
EXTENDS Integers, Sequences, FiniteSets, FiniteSetsExt

CONSTANTS CpuMax,         \* cpu_kv_max_bytes
          PinnedMax       \* cpu_kv_pinned_max_bytes

ASSUME CpuStoreAssumption ==
  CpuMax \in Nat \ {0} /\ PinnedMax \in 0..CpuMax

EmptyStore == [snaps |-> << >>, open |-> {}, committed |-> 0, reserved |-> 0,
               pinned |-> 0, openPinned |-> 0]

\* The members of the sequence s that are in X, in their order.
Kept(s, X) ==
  LET kept[i \in 0..Len(s)] ==
        IF i = 0 THEN << >> ELSE IF s[i] \in X THEN Append(kept[i - 1], s[i]) ELSE kept[i - 1]
  IN  kept[Len(s)]

\* The sum of a function into the naturals.
Total(f) == Cardinality(UNION {{<<x, i>> : i \in 1..f[x]} : x \in DOMAIN f})

Snaps(S) == {S.snaps[i] : i \in DOMAIN S.snaps}
Ids(S) == {s.id : s \in Snaps(S)}
SnapOfId(S, id) == CHOOSE s \in Snaps(S) : s.id = id
PinnedSize(m) == IF m.pin THEN m.n ELSE 0
SizeOf(X) == Total([s \in X |-> s.n])
PinnedOf(X) == Total([s \in X |-> PinnedSize(s)])

\* HostBudget.owned: every live buffer, a retired snapshot somebody still holds included.
Owned(S, hold) == S.committed + S.reserved + (IF hold.id \in Ids(S) THEN 0 ELSE hold.n)

\* reserve: both the store's counters and the allocation ledger must admit the buffer.
CanReserve(S, hold, n) ==
  /\ S.committed + S.reserved + n <= CpuMax
  /\ Owned(S, hold) + n <= CpuMax
\* HostBudget.allocate: page-locked while the pinned budget lasts.
Pins(S, n) == n > 0 /\ S.pinned + S.openPinned + n <= PinnedMax
WithPin(S, m) == [m EXCEPT !.pin = Pins(S, m.n)]
Reserve(S, m) ==
  LET p == WithPin(S, m)
  IN  [S EXCEPT !.open = @ \union {p}, !.reserved = @ + p.n, !.openPinned = @ + PinnedSize(p)]

\* Seeded fault: the reservation's bytes stay reserved after the commit.
CommitReservedKept(S, m, pages) ==
  [S EXCEPT !.open = @ \ {m}, !.committed = @ + m.n,
            !.openPinned = @ - PinnedSize(m), !.pinned = @ + PinnedSize(m),
            !.snaps = Append(@, [m EXCEPT !.pages = pages])]
Commit(S, m, pages) ==
  [S EXCEPT !.open = @ \ {m}, !.reserved = @ - m.n, !.committed = @ + m.n,
            !.openPinned = @ - PinnedSize(m), !.pinned = @ + PinnedSize(m),
            !.snaps = Append(@, [m EXCEPT !.pages = pages])]

\* abort of the reservations in X.
Abort(S, X) ==
  [S EXCEPT !.open = @ \ X, !.reserved = @ - SizeOf(X), !.openPinned = @ - PinnedOf(X)]

\* delete of the snapshots with an id in I; evict_oldest deletes the first.
Delete(S, I) ==
  LET gone == {s \in Snaps(S) : s.id \in I}
  IN  [S EXCEPT !.snaps = Kept(@, Snaps(S) \ gone),
                !.committed = @ - SizeOf(gone), !.pinned = @ - PinnedOf(gone)]
\* invalidate_all: every reservation is aborted, every snapshot is dropped.
InvalidateStore(S) == [Abort(S, S.open) EXCEPT !.snaps = << >>, !.committed = 0, !.pinned = 0]
=============================================================================
