------------------------- MODULE RuntimeInvariants -------------------------
(***************************************************************************)
(* The inductive invariant of the model runner and of the training loop    *)
(* around it: why every query reads its own request's K/V and why no       *)
(* forward reads weights that nobody wrote.                                *)
(***************************************************************************)
EXTENDS WeightSync

(* The page and the offset of position p in table t, and what is there.     *)
Slot(t, p) == <<t[p \div BlockSize + 1], p % BlockSize>>
At(kv, slot) == kv[slot[1]][slot[2]]

(* Tables without repetitions, and without common pages.                    *)
Unshared(t) == t \in Seq(Pages) /\ \A i, j \in 1..Len(t) : t[i] = t[j] => i = j
Apart(t, u) == \A i \in 1..Len(t), j \in 1..Len(u) : t[i] # u[j]

(* The pages of the table hold the first n entries of the request.          *)
Holds(kv, t, r, n) == \A p \in 0..n - 1 : At(kv, Slot(t, p)) = <<r, p, weights>>

-----------------------------------------------------------------------------
(* The runner.                                                              *)

RequestType == [state : {"new", "live", "done"}, prompt : PromptLens, out : Seq(Requests \X Int),
                table : Seq(Pages), computed : Nat]
RunnerTyped ==
  /\ req \in [Requests -> RequestType]
  /\ pool \in PoolType \union {NoPool}
  /\ home \in Nat /\ weights \in Nat /\ setup \in Setups

(* As many requests as the runner is built for.                             *)
FewLive == IsFiniteSet(Live) /\ Cardinality(Live) <= setup.seqs

(* A table has the pages of what is computed, and something is left to do.  *)
TablesFit ==
  \A r \in Requests : /\ Len(req[r].table) = NumPages(req[r].computed)
                      /\ req[r].computed < Length(r)
TablesApart ==
  /\ \A r \in Requests : Unshared(req[r].table)
  /\ \A q, r \in Requests : q # r => Apart(req[q].table, req[r].table)

Resident ==
  pool # NoPool => \A r \in Requests : Holds(pool, req[r].table, r, req[r].computed)

(* A capture is bound to the tensors that are there.                        *)
GraphFields == {"pages", "last", "home", "kv", "table"}
Bound(gs) ==
  /\ DOMAIN gs = 1..MaxSeqs
  /\ \A n \in 1..MaxSeqs : gs[n] = NoGraph \/ (DOMAIN gs[n] = GraphFields /\ gs[n].home = home)

NothingAsleep ==
  pool = NoPool => /\ \A r \in Requests : req[r].computed = 0
                   /\ \A n \in 1..MaxSeqs : graphs[n] = NoGraph

RunnerInv ==
  /\ RunnerTyped /\ FewLive /\ TablesFit /\ TablesApart /\ Resident /\ Bound(graphs)
  /\ NothingAsleep /\ ReadsOwnContext /\ SampledFromOwnRow

-----------------------------------------------------------------------------
(* The training loop.                                                       *)

SyncTyped ==
  /\ tied \in BOOLEAN /\ unverified \in BOOLEAN
  /\ where \in {"device", "host", "released"}
  /\ trained \in Nat /\ delivered \in [HFNames -> 0..trained]

Laid(ps) ==
  /\ DOMAIN ps = DOMAIN Loaded(tied)
  /\ \A p \in DOMAIN Loaded(tied) : DOMAIN ps[p] = DOMAIN Loaded(tied)[p]

(* RowsExact, of any parameters and any deliveries.                         *)
RowsFrom(ps, sent) ==
  \A p \in DOMAIN ps : \A i \in DOMAIN ps[p] :
    ps[p][i] # NaNRow =>
      IF p = "embed" /\ tied
      THEN ps[p][i].version = Max({sent["embed"], sent["lm_head"]})
      ELSE /\ ps[p][i].src = Loaded(tied)[p][i]
           /\ ps[p][i].version = sent[Loaded(tied)[p][i][1]]

(* Weights that are away leave no KV pool behind.                           *)
AwayAsleep == where # "device" => pool = NoPool

(* Rows without weights are there only while the weights are unverified,    *)
(* and nothing is computed then.                                            *)
Written == where # "released" /\ ~unverified => Blanks(params) = {}
ColdUnverified == unverified => \A r \in Requests : req[r].computed = 0

SyncInv ==
  /\ SyncTyped /\ Laid(params) /\ RowsFrom(params, delivered)
  /\ AwayAsleep /\ Written /\ ColdUnverified /\ NoUnwrittenRead

RuntimeInv == RunnerInv /\ SyncInv
=============================================================================
