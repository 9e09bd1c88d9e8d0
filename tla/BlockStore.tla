----------------------------- MODULE BlockStore -----------------------------
(***************************************************************************)
(* kv/block_store.py: a bounded host store of single KV blocks.  A full    *)
(* block is keyed by namespace and prefix hash, a partly filled last block *)
(* by namespace, request and snapshot.  The store is a function X from     *)
(* keys to slots [ready, page, pins]; the slabs the slots are cut from,    *)
(* their generations and the contiguity of transfer runs are left out: the *)
(* free slots and the room to grow are together CpuMax minus the slots in  *)
(* use.  The LRU order is a choice among the slots that may be evicted.    *)
(***************************************************************************)
EXTENDS CpuStore

EmptyIndex == << >>
IsTail(k) == Len(k) > 2
\* lookup: only a committed slot is found.
Ready(X, k) == k \in DOMAIN X /\ X[k].ready
Room(X) == CpuMax - Cardinality(DOMAIN X)
Without(X, K) == [k \in DOMAIN X \ K |-> X[k]]

\* evict: a pinned slot stays.
EvictBlocks(X, K) == Without(X, {k \in K \cap DOMAIN X : X[k].pins = 0})

Missing(X, keys) == keys \ DOMAIN X
Evictables(X, protected) == {k \in DOMAIN X \ protected : X[k].pins = 0 /\ X[k].ready}
\* Fail before eviction when even evicting everything unprotected leaves too little.
CanReserveBlocks(X, keys, protect) ==
  /\ Cardinality(keys \union protect) <= CpuMax
  /\ Cardinality(Missing(X, keys))
       <= Room(X) + Cardinality(Evictables(X, keys \union protect))
EvictionChoices(X, keys, protect) ==
  LET short == Cardinality(Missing(X, keys)) - Room(X)
  IN  IF short <= 0 THEN {{}} ELSE kSubset(short, Evictables(X, keys \union protect))
\* reserve, having evicted V: protected slots are pinned, missing ones are being written.
ReserveBlocks(X, keys, protect, V, blank) ==
  LET Y == Without(X, V)
  IN  [k \in DOMAIN Y \union keys |->
         CASE k \notin DOMAIN Y              -> [ready |-> FALSE, page |-> blank, pins |-> 1]
           [] k \in keys \union protect /\ k \in DOMAIN Y -> [Y[k] EXCEPT !.pins = @ + 1]
           [] OTHER                          -> Y[k]]
CommitBlock(X, k, page) == [X EXCEPT ![k] = [@ EXCEPT !.ready = TRUE, !.page = page]]
\* Lease.close: unpin, and free what was never committed.
CloseLease(X, keys) ==
  LET Y == [k \in DOMAIN X |-> IF k \in keys THEN [X[k] EXCEPT !.pins = @ - 1] ELSE X[k]]
  IN  Without(Y, {k \in keys \cap DOMAIN X : ~X[k].ready})
=============================================================================
