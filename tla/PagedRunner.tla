---------------------------- MODULE PagedRunner ----------------------------
(***************************************************************************)
(* PagedRunner (engine/model_runner.py): a step's requests are packed into *)
(* one or two forwards, whose new K/V goes to pool slots and whose queries *)
(* read the pool through page metadata: built for this forward (eager), or *)
(* kept in the buffers of a captured decode graph (engine/cuda_graph.py).  *)
(*                                                                         *)
(* A cached K/V entry is the token it belongs to and the weights it was    *)
(* computed with, <<request, position, weights>>; attention is the         *)
(* sequence of entries a query reads.  What the kernels do with them is in *)
(* DecodeAttention.  The engine that picks the requests (Engine.tla) is    *)
(* the environment here: any running requests, any chunk, in any order.    *)
(***************************************************************************)
EXTENDS Integers, FiniteSets, SequencesExt, FiniteSetsExt

CONSTANTS
  Requests,      \* requests, each served once
  PromptLens,    \* prompt lengths a request may arrive with
  MaxLen,        \* tokens of a request at most (bound)
  NumBlocks,     \* pages of the pool
  BlockSize,     \* tokens of a page
  MaxSeqs,       \* requests of a step at most
  WarmRuns,      \* eager runs of a batch size before its capture (2 in the code)
  Setups,        \* [backend, cap, served, seqs]: attention backend, cap on a graph's KV,
                 \* and, as bounds, the requests that arrive and how many at a time
  NoPool, NoGraph, NoToken   \* no KV pool, no capture, no sampled token

ASSUME RunnerAssumption ==
  /\ NumBlocks \in Nat \ {0} /\ BlockSize \in Nat \ {0} /\ MaxSeqs \in Nat \ {0}
  /\ WarmRuns \in Nat
  /\ MaxLen \in Nat /\ PromptLens \subseteq 1..MaxLen
  /\ \A s \in Setups : /\ s.backend \in {"pytorch", "flashinfer", "triton"}
                      /\ s.served \subseteq Requests /\ s.seqs \in 1..MaxSeqs

(* What stands for a missing pool or token is neither.                      *)
Blank == <<>>
Entry == Requests \X Nat \X Nat
PoolType == [1..NumBlocks -> [0..BlockSize - 1 -> Entry \union {Blank}]]

ASSUME MarkersAssumption == NoPool \notin PoolType /\ NoToken \notin Entry

VARIABLES
  req,       \* request -> [state, prompt, out, computed, table]; out: of each token
             \* sampled so far, the entry whose logits it was sampled from
  pool,      \* page -> offset -> entry, or NoPool
  home,      \* identity of the pool and weight tensors a capture is bound to
  weights,   \* identity of the parameters' values
  graphs,    \* _decode_graphs: batch size -> capture, or NoGraph
  warm,      \* _graph_eager: batch size -> eager runs counted before a capture
  setup,     \* the one of Setups this runner was built with
  misread    \* queries whose context was not their own prefix (ghost)

runnerVars == <<req, pool, home, weights, graphs, warm, setup, misread>>

Pages == 1..NumBlocks

EmptyPool == [b \in Pages |-> [o \in 0..BlockSize - 1 |-> Blank]]
NumPages(kv) == (kv + BlockSize - 1) \div BlockSize

(* A captured graph's table has a row of NumBlocks pages for each request. *)
NoRow == [p \in Pages |-> 1]

RunnerInit ==
  /\ setup \in Setups
  /\ \E prompt \in [Requests -> PromptLens] :
       req = [r \in Requests |-> [state |-> IF r \in setup.served THEN "new" ELSE "done",
                                  prompt |-> prompt[r], out |-> <<>>, table |-> <<>>, computed |-> 0]]
  /\ pool = EmptyPool
  /\ home = 0 /\ weights = 0
  /\ graphs = [n \in 1..MaxSeqs |-> NoGraph]
  /\ warm = [n \in 1..MaxSeqs |-> 0]
  /\ misread = {}

-----------------------------------------------------------------------------
(* Packing.  A batch is a sequence of [r, n, table]: a request, the span it *)
(* is scheduled for and the block table the scheduler grew for it.          *)

(* The j-th index of a mask, and the elements of s it selects.              *)
Nth(mask, j) == CHOOSE i \in mask : Cardinality({k \in mask : k <= i}) = j
Selected(s, mask) == [j \in 1..Cardinality(mask) |-> s[Nth(mask, j)]]

Start(s) == req[s.r].computed
End(s) == req[s.r].computed + s.n
Length(r) == req[r].prompt + Len(req[r].out)
Uncomputed(r) == Length(r) - req[r].computed

SlotMapping(s) ==
  [i \in 1..s.n |-> <<s.table[((Start(s) + i - 1) \div BlockSize) + 1],
                      (Start(s) + i - 1) % BlockSize>>]

CuSeqlens(batch) ==
  LET cu[i \in 1..Len(batch) + 1] == IF i = 1 THEN 0 ELSE cu[i - 1] + batch[i - 1].n
  IN  cu

(* The sequence that packed row k belongs to; each[i] has the rows of the   *)
(* i-th, one after the other in the packed tensor.                          *)
SequenceOf(cu, k) == CHOOSE i \in 1..Len(cu) - 1 : cu[i] < k /\ k <= cu[i + 1]
Ragged(cu, each) ==
  [k \in 1..cu[Len(cu)] |-> each[SequenceOf(cu, k)][k - cu[SequenceOf(cu, k)]]]

Entries(s) == [i \in 1..s.n |-> <<s.r, Start(s) + i - 1, weights>>]

PackPaged(batch) ==
  LET cu == CuSeqlens(batch)
  IN  [entries |-> Ragged(cu, [i \in 1..Len(batch) |-> Entries(batch[i])]),
       slots   |-> Ragged(cu, [i \in 1..Len(batch) |-> SlotMapping(batch[i])]),
       cu      |-> cu,
       tables  |-> [i \in 1..Len(batch) |-> batch[i].table],
       kvLens  |-> [i \in 1..Len(batch) |-> End(batch[i])],
       sample  |-> [i \in 1..Len(batch) |-> End(batch[i]) >= Length(batch[i].r)]]

LastTokenIndices(cu) == [i \in 1..Len(cu) - 1 |-> cu[i + 1]]

(* Seeded fault: the rows are taken in order, whichever sequences sample. *)
SampledLogitRowsInOrder(cu, sample) ==
  SubSeq(LastTokenIndices(cu), 1, Cardinality({i \in DOMAIN sample : sample[i]}))
(* The packed rows that need logits: the last of each sampling sequence. *)
SampledLogitRows(cu, sample) ==
  Selected(LastTokenIndices(cu), {i \in DOMAIN sample : sample[i]})

(* sample_scheduled: row j of the logits belongs to the j-th sampling one. *)
SampleScheduled(rows, sample) ==
  [i \in DOMAIN sample |->
     IF sample[i] THEN rows[Cardinality({j \in 1..i : sample[j]})] ELSE NoToken]

-----------------------------------------------------------------------------
(* The pool and the page metadata of the three backends.                    *)

Store(kv, slots, entries) ==
  [b \in Pages |-> [o \in 0..BlockSize - 1 |->
     LET here == {i \in DOMAIN slots : slots[i] = <<b, o>>}
     IN  IF here = {} THEN kv[b][o] ELSE entries[Max(here)]]]

(* PagedKVPool.gather: the first kv entries of the table's pages. *)
Gather(kv, table, n) ==
  [j \in 1..n |-> kv[table[((j - 1) \div BlockSize) + 1]][(j - 1) % BlockSize]]

LastPageLen(kv) == IF kv % BlockSize = 0 THEN BlockSize ELSE kv % BlockSize

(* decode_kv_page_signature: the pages each sequence occupies. *)
PageSignature(tables, kvLens) ==
  [i \in DOMAIN tables |-> SubSeq(tables[i], 1, NumPages(kvLens[i]))]

(* flashinfer_page_tensors: pages and the length of the last one. *)
PageTensors(tables, kvLens) ==
  [pages |-> PageSignature(tables, kvLens),
   last  |-> [i \in DOMAIN kvLens |-> LastPageLen(kvLens[i])]]

(* What a FlashInfer kernel takes for sequence i's context. *)
PlannedContext(kv, plan, i) ==
  Gather(kv, plan.pages[i], (Len(plan.pages[i]) - 1) * BlockSize + plan.last[i])

(* causal_allowed: how many keys row q of a sequence's queries may attend. *)
CausalAllowed(qLen, kvLen, q) == kvLen - qLen + q

(* The context of sequence i of an eager forward.  Triton has a kernel for  *)
(* decode only; a batch with a longer span is the reference gather.         *)
EagerContext(kv, packed, i) ==
  IF setup.backend = "flashinfer"
  THEN PlannedContext(kv, PageTensors(packed.tables, packed.kvLens), i)
  ELSE Gather(kv, packed.tables[i], packed.kvLens[i])

-----------------------------------------------------------------------------
(* Forwards.  Each is a record: the pool after it, the contexts its queries *)
(* read, and for each request the entry of the row its token came from.     *)

(* With the pool after the append, and the rows of the logits. *)
EagerReads(after, packed, rows, batch) ==
  [pool |-> after,
   reads |-> UNION {{<<packed.entries[packed.cu[i] + q],
                       SubSeq(EagerContext(after, packed, i), 1,
                              CausalAllowed(batch[i].n, packed.kvLens[i], q))>> :
                     q \in 1..batch[i].n} : i \in DOMAIN batch},
   tokens |-> SampleScheduled([j \in DOMAIN rows |-> packed.entries[rows[j]]], packed.sample)]
EagerPacked(kv, packed, batch) ==
  EagerReads(Store(kv, packed.slots, packed.entries), packed,
             SampledLogitRows(packed.cu, packed.sample), batch)
Eager(kv, batch) == EagerPacked(kv, PackPaged(batch), batch)

IsPureDecode(s) ==
  req[s.r].computed >= req[s.r].prompt /\ s.n = 1 /\ Uncomputed(s.r) = 1

UseDecodeGraph(batch) ==
  /\ setup.backend \in {"flashinfer", "triton"}
  /\ \A i \in DOMAIN batch : IsPureDecode(batch[i]) /\ Start(batch[i]) <= setup.cap

(* Seeded fault: the plan is skipped while every context has as many pages. *)
CanSkipPlanCounted(planned, signature) ==
  planned # NoGraph /\ [i \in DOMAIN planned |-> Len(planned[i])]
                         = [i \in DOMAIN signature |-> Len(signature[i])]
CanSkipPlan(planned, signature) == planned # NoGraph /\ planned = signature

(* DecodeCudaGraph._fill: the buffers a replay reads.  The plan is kept as  *)
(* long as the pages are the same; the last page's length is always set.    *)
Fill(graph, batch) ==
  LET tables == [i \in DOMAIN batch |-> batch[i].table]
      kvLens == [i \in DOMAIN batch |-> Start(batch[i]) + 1]
      signature == PageSignature(tables, kvLens)
      plan == PageTensors(tables, kvLens)
      skip == CanSkipPlan(graph.pages, signature)
  IN  [graph EXCEPT !.pages = IF skip THEN @ ELSE signature,
                    !.last  = plan.last,
                    !.table = IF setup.backend # "triton" THEN @
                              ELSE [i \in DOMAIN batch |-> [p \in Pages |->
                                 IF p <= NumPages(kvLens[i]) THEN tables[i][p] ELSE @[i][p]]],
                    !.kv    = IF setup.backend # "triton" THEN @ ELSE kvLens]

NewGraph(n) == [pages |-> NoGraph, last |-> <<>>, home |-> home, kv |-> <<>>,
                table |-> [i \in 1..n |-> NoRow]]

(* The captured kernels: the append goes through the plan, and attention    *)
(* through the plan (FlashInfer) or the packed table (Triton).  A capture   *)
(* bound to tensors that are gone reads none of this pool's entries.        *)
Replay(kv, graph, batch) ==
  LET entry(i) == <<batch[i].r, Start(batch[i]), weights>>
      append(i) == <<graph.pages[i][(Start(batch[i]) \div BlockSize) + 1],
                     Start(batch[i]) % BlockSize>>
      after == Store(kv, [i \in DOMAIN batch |-> append(i)], [i \in DOMAIN batch |-> entry(i)])
      context(i) == IF graph.home # home THEN Blank
                    ELSE IF setup.backend = "triton"
                         THEN Gather(after, graph.table[i], graph.kv[i])
                         ELSE PlannedContext(after, graph, i)
  IN  [pool |-> IF graph.home = home THEN after ELSE kv,
       reads |-> {<<entry(i), context(i)>> : i \in DOMAIN batch},
       tokens |-> [i \in DOMAIN batch |-> entry(i)]]

(* _forward: eager runs of a batch size, then a capture, then replays. *)
Forwarded(f, gs, ws) ==
  [pool |-> f.pool, reads |-> f.reads, tokens |-> f.tokens, graphs |-> gs, warm |-> ws]
Replayed(kv, graph, gs, ws, batch) ==
  Forwarded(Replay(kv, graph, batch), [gs EXCEPT ![Len(batch)] = graph], ws)
Forward(kv, gs, ws, batch) ==
  LET n == Len(batch)
      decode == UseDecodeGraph(batch)
  IN  IF decode /\ (gs[n] # NoGraph \/ ws[n] >= WarmRuns)
      THEN Replayed(kv, Fill(IF gs[n] = NoGraph THEN NewGraph(n) ELSE gs[n], batch), gs, ws, batch)
      ELSE Forwarded(Eager(kv, batch), gs, IF decode THEN [ws EXCEPT ![n] = @ + 1] ELSE ws)

(* run with split: prefills and decodes of a mixed batch are two forwards,  *)
(* whose tokens are put back in the order of the batch.                     *)
InBatchOrder(batch, prefills, first, decodes, second) ==
  LET at(spans, r) == CHOOSE i \in DOMAIN spans : spans[i].r = r
  IN  [second EXCEPT
         !.reads = @ \union first.reads,
         !.tokens = [i \in DOMAIN batch |->
                       IF \E j \in DOMAIN prefills : prefills[j].r = batch[i].r
                       THEN first.tokens[at(prefills, batch[i].r)]
                       ELSE @[at(decodes, batch[i].r)]]]
RunDecodes(batch, prefills, first, decodes) ==
  InBatchOrder(batch, prefills, first, decodes,
               Forward(first.pool, first.graphs, first.warm, decodes))
Run(batch) ==
  LET pure == {i \in DOMAIN batch : IsPureDecode(batch[i])}
      decodes == Selected(batch, pure)
      prefills == Selected(batch, DOMAIN batch \ pure)
  IN  IF prefills = <<>> \/ decodes = <<>> THEN Forward(pool, graphs, warm, batch)
      ELSE RunDecodes(batch, prefills, Forward(pool, graphs, warm, prefills), decodes)

-----------------------------------------------------------------------------
(* What the engine around the runner does (external): admit a request, grow *)
(* the tables of a step's requests from the free pages, take the tokens,    *)
(* preempt, and free a request that is complete.                            *)

Live == {r \in Requests : req[r].state = "live"}
FreePages == Pages \ UNION {Range(req[r].table) : r \in Requests}
Cold(rq) == [rq EXCEPT !.table = <<>>, !.computed = 0]

Arrive(r) ==
  /\ req[r].state = "new"
  /\ Cardinality(Live) < setup.seqs
  /\ req' = [req EXCEPT ![r].state = "live"]
  /\ UNCHANGED <<pool, home, weights, graphs, warm, setup, misread>>

(* The places in the tables of the spans that have no page yet. *)
NewPages(spans) ==
  UNION {{i} \X (Len(spans[i].table) + 1 .. NumPages(End(spans[i]))) : i \in DOMAIN spans}

(* The batch of the spans, with tables grown by free pages. *)
Grown(spans) ==
  LET page == CHOOSE g \in [NewPages(spans) -> FreePages] : IsInjective(g)
  IN  [i \in DOMAIN spans |->
         [spans[i] EXCEPT !.table =
            [p \in 1..NumPages(End(spans[i])) |-> IF p <= Len(@) THEN @[p] ELSE page[<<i, p>>]]]]

Fits(spans) == Cardinality(NewPages(spans)) <= Cardinality(FreePages)

Span(r, n) == [r |-> r, n |-> n, table |-> req[r].table]

(* A request is preempted when the pages run out for another. *)
Preempt(r) ==
  /\ r \in Live /\ req[r].table # <<>>
  /\ \E other \in Live \ {r} : ~Fits(<<Span(other, 1)>>)
  /\ req' = [req EXCEPT ![r] = Cold(@)]
  /\ UNCHANGED <<pool, home, weights, graphs, warm, setup, misread>>

(* The entries a query attends when all is well: its request's, in order.   *)
OwnContext(entry) == [j \in 1..entry[2] + 1 |-> <<entry[1], j - 1, entry[3]>>]
Misread(reads) == {read \in reads : read[2] # OwnContext(read[1])}

(* A request with KV for its first n tokens in the table, and these outputs. *)
With(rq, table, n, out) ==
  IF rq.prompt + Len(out) >= MaxLen THEN [Cold(rq) EXCEPT !.state = "done", !.out = out]
  ELSE [rq EXCEPT !.table = table, !.computed = n, !.out = out]

(* After its span, a request has the sampled token as its next one. *)
Taken(s, token) ==
  With(req[s.r], s.table, End(s),
       req[s.r].out \o (IF token = NoToken THEN <<>> ELSE <<<<token[1], token[2]>>>>))

Took(batch, done) ==
  /\ pool # NoPool
  /\ pool' = done.pool /\ graphs' = done.graphs /\ warm' = done.warm
  /\ req' = [r \in Requests |->
               IF \E i \in DOMAIN batch : batch[i].r = r
               THEN LET i == CHOOSE j \in DOMAIN batch : batch[j].r = r
                    IN  Taken(batch[i], done.tokens[i])
               ELSE req[r]]
  /\ misread' = misread \union Misread(done.reads)
  /\ UNCHANGED <<home, weights, setup>>
RunStep(batch) == Took(batch, Run(batch))

(* Speculative verification (run_logits, commit_spec): the request's drafts *)
(* run as one span; what follows the accepted ones was never its token.     *)
Committed(s, accepted, kept, done) ==
  LET rejected == {SlotMapping(s)[i] : i \in {j \in 1..s.n : Start(s) + j > kept}}
  IN  /\ pool # NoPool
      /\ pool' = [b \in Pages |-> [o \in 0..BlockSize - 1 |->
                    IF <<b, o>> \in rejected THEN Blank ELSE done.pool[b][o]]]
      /\ req' = [req EXCEPT ![s.r] =
                   With(@, SubSeq(s.table, 1, NumPages(kept)), kept,
                        @.out \o [i \in 1..accepted + 1 |-> <<s.r, Start(s) + i - 1>>])]
      /\ misread' = misread \union Misread(done.reads)
      /\ UNCHANGED <<home, weights, graphs, warm, setup>>
VerifyStep(s, accepted) == Committed(s, accepted, Length(s.r) + accepted, Eager(pool, <<s>>))

Chunks(r) == {1, Uncomputed(r)}

Steps ==
  \E rs \in SUBSET Live : \E order \in SetToSeqs(rs) : \E n \in [rs -> {1} \union {Uncomputed(r) : r \in rs}] :
    LET spans == [i \in DOMAIN order |-> Span(order[i], n[order[i]])]
    IN  /\ rs # {} /\ \A r \in rs : n[r] \in Chunks(r)
        /\ Fits(spans) /\ RunStep(Grown(spans))

(* release_kv_pool and rebuild_kv_pool.                                     *)
ReleaseKvPool ==
  /\ pool' = NoPool
  /\ graphs' = [n \in 1..MaxSeqs |-> NoGraph]
  /\ warm' = [n \in 1..MaxSeqs |-> 0]

-----------------------------------------------------------------------------
(* Every query of a request attends that request's own entries, from the    *)
(* first to its own position, in order and computed with the current        *)
(* weights -- whatever pages they are in, whichever backend runs, eagerly   *)
(* or as a captured graph.                                                  *)
ReadsOwnContext == misread = {}

(* The outputs of a request are sampled one after the other from the rows   *)
(* of its own last tokens.                                                  *)
SampledFromOwnRow ==
  \A r \in Requests : \A i \in DOMAIN req[r].out :
    req[r].out[i] = <<r, req[r].prompt + i - 2>>
=============================================================================
