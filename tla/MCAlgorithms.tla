---------------------------- MODULE MCAlgorithms ----------------------------
(* Inputs of the pure algorithms, one a state, and what is asked of each.   *)
EXTENDS DecodeAttention, Sampling, NgramDraft, RolloutLogprobs

VARIABLE task

MaskedLogit == -100
NoTask == [kind |-> "none"]

-----------------------------------------------------------------------------
(* Decodes of 0..5 tokens in a batch whose longest context has 5: the split *)
(* count is the batch's.  Four query heads, two KV heads, three pages.      *)
DecodeTasks ==
  [kind : {"decode"}, kvLen : 0..5, batch : {1, 2}, sms : {1, 2, 8}, key : {1, 2},
   table : {t \in [1..3 -> 0..2] : IsInjective(t)}]

DecodeOf(t) ==
  [query |-> [h \in 0..3 |-> (h + 1) \div 2], gqa |-> 2, kvHeads |-> 2, table |-> t.table,
   keys |-> [k \in 0..1 |-> [s \in 0..5 |-> ((IF k = 0 THEN s ELSE 5 - s) * t.key) % 3]],
   values |-> [k \in 0..1 |-> [s \in 0..5 |-> 1 + s * (k + 1)]]]

(* However a context is split and paged, both kernels give every query head *)
(* the softmax-weighted mean of its KV head's values over exactly the       *)
(* context's tokens (kernels/triton_decode.py).                             *)
DecodeExact ==
  task.kind = "decode" =>
    LET d == DecodeOf(task)
        splits == PickNumSplits(task.batch, d.kvHeads, 5, task.sms)
    IN  \A h \in 0..3 :
          /\ SameOutput(NaiveDecode(d, task.kvLen)[h], ReferenceDecode(d, task.kvLen)[h])
          /\ SameOutput(PagedDecode(d, task.kvLen, splits)[h], ReferenceDecode(d, task.kvLen)[h])

-----------------------------------------------------------------------------
Rows == {<<0, 2, 2>>, <<2, 0, -1>>, <<0, 0, 0>>, <<-1, 0, 2>>, <<2, 0, 2>>}
RowOf(r) == [t \in Vocab |-> r[t + 1]]
Penalties == {[rep |-> 1, pres |-> 0, freq |-> 0], [rep |-> 2, pres |-> 0, freq |-> 0],
              [rep |-> 1, pres |-> 1, freq |-> 0], [rep |-> 1, pres |-> 0, freq |-> 1]}
Filters == {[minP |-> <<0, 1>>, topK |-> 0, topP |-> <<1, 1>>],
            [minP |-> <<1, 3>>, topK |-> 0, topP |-> <<1, 1>>],
            [minP |-> <<0, 1>>, topK |-> 2, topP |-> <<1, 1>>],
            [minP |-> <<0, 1>>, topK |-> 0, topP |-> <<1, 2>>],
            [minP |-> <<1, 4>>, topK |-> 2, topP |-> <<2, 3>>]}
ParamsOf(p, f, invTemp, bias, reversed) ==
  [bias |-> [t \in Vocab |-> IF t = 0 THEN bias ELSE 0], rep |-> p.rep, pres |-> p.pres,
   freq |-> p.freq, minP |-> f.minP, topK |-> f.topK, topP |-> f.topP, invTemp |-> invTemp,
   order |-> [t \in Vocab |-> IF reversed THEN -t ELSE t]]

(* The logits the filters see; tasks whose weights add up to a few cells.   *)
Shaped(row, params, tokens) ==
  Evaluated(Tempered(Penalised(row, params, tokens), params))
FewCells(row, params, tokens) == Total(Softmax(Shaped(row, params, tokens))) <= 16

SampleTasks ==
  {[kind |-> "sample", row |-> RowOf(r), tokens |-> tokens,
    params |-> ParamsOf(p, f, invTemp, bias, reversed)] :
     r \in Rows, tokens \in {<<0>>, <<1, 1>>}, p \in Penalties, f \in Filters,
     invTemp \in {0, 1, 2}, bias \in {0, 2}, reversed \in BOOLEAN}

(* Who passes the filters: by min_p on their probability; among those by    *)
(* top_k unless k are strictly better; among those by top_p if the better   *)
(* ones do not already have more than p.                                    *)
Passing(row, params) ==
  LET w == Softmax(row)
      likely == {t \in Vocab : \A u \in Vocab : w[t] * params.minP[2] >= w[u] * params.minP[1]}
      best == IF params.topK = 0 THEN likely
              ELSE {t \in likely : Cardinality({u \in likely : row[u] > row[t]}) < params.topK}
      sum(S) == FoldSet(LAMBDA t, s : s + w[t], 0, S)
      before(t) == {u \in best : row[u] > row[t] \/ (row[u] = row[t] /\ params.order[u] < params.order[t])}
  IN  {t \in best : sum(before(t)) * params.topP[2] <= params.topP[1] * sum(best)}

(* An ordinary token is drawn with exactly its share of the weights that    *)
(* pass the filters, a filtered one never; a greedy one is a maximum before *)
(* any filter.  The logprob reported is that share (sampling.py).           *)
SamplerExact ==
  task.kind = "sample" =>
    LET shaped == Shaped(task.row, task.params, task.tokens)
        passing == IF IsGreedy(task.params) THEN {} ELSE Passing(shaped, task.params)
        w == Softmax(shaped)
        all == FoldSet(LAMBDA t, s : s + w[t], 0, passing)
        drawn(u, n) == SampleRow(task.row, task.params, task.tokens, u, n)
    IN  IF IsGreedy(task.params)
        THEN LET biased == Penalised(task.row, task.params, task.tokens)
             IN  \A t \in Vocab : biased[t] <= biased[drawn(0, 1).tok]
        ELSE /\ \A t \in Vocab : Cardinality({u \in 0..all - 1 : drawn(u, all).tok = t})
                                   = IF t \in passing THEN w[t] ELSE 0
             /\ \A u \in 0..all - 1 :
                  drawn(u, all).logprob[1] * all = w[drawn(u, all).tok] * drawn(u, all).logprob[2]

(* One or two drafts after the token 0. *)
VerifyTasks ==
  {[kind |-> "verify", drafts |-> drafts, rows |-> <<RowOf(a), RowOf(b), RowOf(<<0, 2, 2>>)>>,
    params |-> ParamsOf(p, f, invTemp, 0, FALSE)] :
     drafts \in {<<0>>, <<1>>, <<0, 0>>, <<2, 1>>}, a \in Rows, b \in Rows,
     p \in Penalties, f \in Filters, invTemp \in {0, 1}}

Emitted(t, draws) ==
  VerifyRequest(<<0>> \o t.drafts, Len(t.drafts), SubSeq(t.rows, 1, Len(t.drafts) + 1),
                t.params, draws)
Ordinary(t, i, before, u, n) == SampleRow(t.rows[i], t.params, <<0>> \o before, u, n)

(* Draw i is (u, v), the drafts before it are accepted if they ever are. *)
DrawAt(i, u, n, v, m) ==
  [j \in 1..3 |-> IF j = i THEN [u |-> u, n |-> n, v |-> v, m |-> m]
                  ELSE [u |-> 0, n |-> 1, v |-> 0, m |-> 1]]

GreedyAsOrdinary(t, out) ==
  /\ \A i \in DOMAIN out : out[i] = Ordinary(t, i, [j \in 1..i - 1 |-> out[j].tok], 0, 1)
  /\ Len(out) = Len(t.drafts) + 1 \/ out[Len(out)].tok # t.drafts[Len(out)]

(* Every cell of draw i, the ordinary tokens of as many cells, and as many  *)
(* rest cells to each.                                                      *)
SameLaw(outs, ordinary, rest) ==
  /\ \A x \in Vocab : Cardinality({d \in DOMAIN outs : outs[d].tok = x})
                        = rest * Cardinality({u \in DOMAIN ordinary : ordinary[u].tok = x})
  /\ \A d \in DOMAIN outs : \A u \in DOMAIN ordinary :
       outs[d].tok = ordinary[u].tok => outs[d].logprob = ordinary[u].logprob
StageAsOrdinary(t, i, n, m) ==
  SameLaw(Evaluated([d \in (0..n - 1) \X (0..m - 1) |-> Emitted(t, DrawAt(i, d[1], n, d[2], m))[i]]),
          Evaluated([u \in 0..n - 1 |-> Ordinary(t, i, SubSeq(t.drafts, 1, i - 1), u, n)]), m)

OrdinaryWeights(t) ==
  Evaluated([i \in 1..Len(t.drafts) + 1 |->
     Softmax(ProcessLogits(t.rows[i], t.params, <<0>> \o SubSeq(t.drafts, 1, i - 1)))])
Residual(t, i, w) == IF i > Len(t.drafts) \/ w[i][t.drafts[i]] = Total(w[i]) THEN 1
                     ELSE Total(w[i]) - w[i][t.drafts[i]]
SampledAsOrdinary(t, w) ==
  \A i \in DOMAIN w : (\A j \in 1..i - 1 : w[j][t.drafts[j]] > 0) =>
    StageAsOrdinary(t, i, Total(w[i]), Residual(t, i, w))

(* Speculation cannot be told from ordinary decoding: whatever was accepted *)
(* before it, every token a verification emits is drawn as an ordinary      *)
(* token after the same tokens would be, and reports the same logprob; it   *)
(* stops at the first token that is not its draft (spec_decode.py).         *)
SpecExact ==
  task.kind = "verify" =>
    IF IsGreedy(task.params) THEN GreedyAsOrdinary(task, Emitted(task, DrawAt(1, 0, 1, 0, 1)))
    ELSE SampledAsOrdinary(task, OrdinaryWeights(task))

-----------------------------------------------------------------------------
(* A request's tokens at its proposals: at some prefixes, or at a longer    *)
(* sequence that lost its end.                                              *)
Histories == {<<>>, <<2>>, <<1, 3>>, <<3, 5, 8>>}
NgramTasks ==
  [kind : {"ngram"}, tokens : BoundedSeq({1, 2}, 6), at : Histories, k : {1, 3},
   range : {<<1, 1>>, <<1, 2>>, <<1, 3>>, <<2, 3>>}, maxModelLen : {6, 100}]

TokensAt(t, n) == IF n <= Len(t.tokens) THEN SubSeq(t.tokens, 1, n) ELSE t.tokens \o <<1, 2>>

(* Longest suffix first, then its earliest occurrence before the end. *)
Lookup(tokens, min, max, k, maxModelLen) ==
  LET total == Len(tokens)
      room == Min({k, maxModelLen - total})
      found == {<<n, s>> \in (min..max) \X (0..total) :
                  s + n < total /\ SubSeq(tokens, s + 1, s + n) = SubSeq(tokens, total - n + 1, total)}
      best == CHOOSE f \in found : \A g \in found : g[1] < f[1] \/ (g[1] = f[1] /\ f[2] <= g[2])
  IN  IF room <= 0 \/ found = {} THEN <<>>
      ELSE SubSeq(tokens, best[1] + best[2] + 1, Min({total, best[1] + best[2] + room}))

(* The incremental index proposes, after any history of proposals, what the *)
(* KMP oracle and the definition of a prompt lookup propose from scratch    *)
(* ("Must match ... token-for-token", spec_decode.py:31).                   *)
NgramExact ==
  task.kind = "ngram" =>
    LET min == task.range[1]
        max == task.range[2]
        earlier == FoldLeft(LAMBDA index, n : Refreshed(index, TokensAt(task, n), min, max),
                            NoIndex, task.at)
        now == Refreshed(earlier, task.tokens, min, max)
    IN  /\ Propose(now, task.k, task.maxModelLen)
             = ProposeNgram(task.tokens, min, max, task.k, task.maxModelLen)
        /\ Propose(now, task.k, task.maxModelLen)
             = Lookup(task.tokens, min, max, task.k, task.maxModelLen)

-----------------------------------------------------------------------------
(* A trajectory's completions -- accounted for, with a NaN, or short of a   *)
(* logprob -- and the response the trainer replays, whatever it is.         *)
Completion(c, ids, flaw) ==
  LET lps == [j \in DOMAIN ids |-> 10 * c + j]
  IN  [ids |-> ids, lps |-> CASE flaw = "none" -> lps
                              [] flaw = "nan" -> [lps EXCEPT ![1] = NaN]
                              [] flaw = "short" -> Tail(lps)]
PlaceTasks ==
  {[kind |-> "place", ids |-> ids, flaw |-> flaw, response |-> response] :
     ids \in BoundedSeq({<<1>>, <<1, 1>>, <<2, 1>>}, 3), flaw \in {"none", "nan", "short"},
     response \in BoundedSeq({1, 2}, 5)}

\* Where turn i of turns occurs in the response, at or after start.
Occurs(turns, i, response, start) ==
  {p \in start..Len(response) - Len(turns[i].ids) :
     SubSeq(response, p + 1, p + Len(turns[i].ids)) = turns[i].ids}
SpanOf(turns, at, i) == at[i] + 1..at[i] + Len(turns[i].ids)
\* The end of the last turn before turn i that survived.
EndBefore(turns, at, i) == Max({0} \cup {at[j] + Len(turns[j].ids) : j \in DOMAIN at \cap 1..i - 1})

\* The ways the response may have come about: some turns survived, one after
\* the other, each at its place at[i]; the others were tokenised anew.
Layouts(turns, response) ==
  {at \in UNION {[kept -> 0..Len(response)] : kept \in SUBSET DOMAIN turns} :
     \A i \in DOMAIN at : at[i] \in Occurs(turns, i, response, EndBefore(turns, at, i))}
\* Nothing echoes a turn before its place or after it is lost.
NoEcho(turns, response, at) ==
  \A i \in DOMAIN turns :
    LET found == Occurs(turns, i, response, EndBefore(turns, at, i))
    IN  IF i \in DOMAIN at THEN at[i] = Min(found) ELSE found = {}
\* Every surviving turn's logprobs at its place and nothing elsewhere.
AsSampled(turns, response, at) ==
  [p \in DOMAIN response |->
     IF \E i \in DOMAIN at : p \in SpanOf(turns, at, i)
     THEN LET i == CHOOSE i \in DOMAIN at : p \in SpanOf(turns, at, i) IN turns[i].lps[p - at[i]]
     ELSE NoLogprob]

(* Every served turn is paired with its own record, unless a refused        *)
(* completion of the same tokens came before it.  Whatever is replayed,     *)
(* logprobs are laid where the token is the one they were sampled for, in   *)
(* order and once each.  They lie exactly where they were sampled, and      *)
(* nowhere else, if and only if no text echoes a turn before its place and  *)
(* no turn that was tokenised anew recurs; and turns tokenised anew whose   *)
(* tokens are not in the response leave all the others laid                 *)
(* (rollout/logprobs.py).                                                   *)
LogprobsPlaced ==
  task.kind = "place" =>
    LET completions == Evaluated([c \in DOMAIN task.ids |->
                          Completion(c, task.ids[c], IF c = 2 THEN task.flaw ELSE "none")])
        sidecar == FoldLeft(Appended, <<>>, completions)
        served == SelectSeq(completions, Servable)
        nth(c) == Cardinality({d \in 1..c : Servable(completions[d])})
        found == TurnsFromRecord([i \in DOMAIN served |-> served[i].ids], LoadSidecar(sidecar))
        turns == found.turns
        laid == Placement(task.response, turns)
        covered == {i \in DOMAIN task.response : laid.out[i] # NoLogprob}
    IN  /\ found.missing = 0
        /\ \A c \in DOMAIN completions : Servable(completions[c]) =>
             (turns[nth(c)] = completions[c] <=>
                \A d \in 1..c - 1 : task.ids[d] = task.ids[c] /\ Accounted(completions[d]) =>
                                      Servable(completions[d]))
        /\ Cardinality(covered) = laid.placed
        /\ \A i \in covered : laid.out[i] # NaN =>
             task.ids[laid.out[i] \div 10][laid.out[i] % 10] = task.response[i]
        /\ \A i, j \in covered : i < j /\ NaN \notin {laid.out[i], laid.out[j]} =>
             laid.out[i] < laid.out[j]
        /\ \A at \in Layouts(turns, task.response) :
             LET lost == DOMAIN turns \ DOMAIN at
             IN  /\ laid.out = AsSampled(turns, task.response, at) <=> NoEcho(turns, task.response, at)
                 /\ (\A i \in lost : Occurs(turns, i, task.response, 0) = {}) =>
                      laid.unplaced = Cardinality(lost)
=============================================================================
