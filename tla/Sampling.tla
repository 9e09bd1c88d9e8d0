------------------------------ MODULE Sampling ------------------------------
(***************************************************************************)
(* The logits-processor chain and the draw (sampling.py), and speculative  *)
(* verification (spec_decode.py): which token comes out for which uniform  *)
(* draw, and the logprob reported with it.                                 *)
(*                                                                         *)
(* Logits are integers and softmax has base 2, so that a row's             *)
(* probabilities are weights over their sum.  A uniform draw is a cell     *)
(* 0..n-1 of n equal cells of [0, 1), n a multiple of every bound it is    *)
(* compared with: the law of a choice is a count of cells.  -inf and       *)
(* finfo.min are both Masked.  Rounding is not modelled, nor that torch's  *)
(* own uniforms are multiples of 2^-24.                                    *)
(***************************************************************************)
EXTENDS Integers, FiniteSets, SequencesExt, FiniteSetsExt

CONSTANTS
  Vocab,       \* 0..V-1
  Masked       \* below every logit the chain computes

(* A sampling request's params:                                            *)
(*   [bias : [Vocab -> Int], rep, pres, freq, minP, topP : <<num, den>>,    *)
(*    invTemp, topK]                                                        *)
(* where invTemp = 0 is greedy, and order ranks tokens of equal logits the *)
(* way the device's unstable sort happens to.                               *)
IsGreedy(params) == params.invTemp = 0

(* f itself, evaluated once for all of its domain. *)
Evaluated(f) == f @@ <<>>

(* Weights relative to the lowest logit left. *)
Weight(row, t) ==
  IF row[t] = Masked THEN 0 ELSE 2^(row[t] - Min({row[u] : u \in Vocab} \ {Masked}))
Softmax(row) == Evaluated([t \in Vocab |-> Weight(row, t)])
Total(weights) == FoldSet(LAMBDA t, s : s + weights[t], 0, Vocab)
Argmax(row) == CHOOSE t \in Vocab : \A u \in Vocab : row[u] < row[t] \/ (row[u] = row[t] /\ t <= u)

-----------------------------------------------------------------------------
(* The chain.                                                               *)

ApplyLogitBias(row, params) == [t \in Vocab |-> row[t] + params.bias[t]]

ApplyPenalties(row, params, tokens) ==
  [t \in Vocab |->
     LET count == Cardinality({i \in DOMAIN tokens : tokens[i] = t})
         repeated == IF row[t] > 0 THEN row[t] \div params.rep ELSE row[t] * params.rep
     IN  IF count = 0 THEN row[t] ELSE repeated - params.pres - params.freq * count]

Tempered(row, params) == [t \in Vocab |-> row[t] * params.invTemp]

ApplyMinP(row, params) ==
  LET peak == Max({Weight(row, t) : t \in Vocab})
  IN  [t \in Vocab |-> IF Weight(row, t) * params.minP[2] < params.minP[1] * peak
                       THEN Masked ELSE row[t]]

(* Ties with the k-th largest logit stay. *)
ApplyTopK(row, params) ==
  IF params.topK <= 0 THEN row
  ELSE LET sorted == SetToSortSeq(Vocab, LAMBDA t, u : row[t] > row[u] \/ (row[t] = row[u] /\ t < u))
           threshold == row[sorted[Min({params.topK, Cardinality(Vocab)})]]
       IN  [t \in Vocab |-> IF row[t] < threshold THEN Masked ELSE row[t]]

Sorted(row, params) ==
  SetToSortSeq(Vocab, LAMBDA t, u : row[t] > row[u]
                                    \/ (row[t] = row[u] /\ params.order[t] < params.order[u]))
CumulativeWeight(row, sorted, n) == FoldSeq(LAMBDA t, s : s + Weight(row, t), 0, SubSeq(sorted, 1, n))

(* Seeded fault: the token that crosses top_p is removed with the rest. *)
ApplyTopPCrossing(row, params) ==
  LET sorted == Sorted(row, params)
      all == CumulativeWeight(row, sorted, Len(sorted))
      over(i) == CumulativeWeight(row, sorted, i) * params.topP[2] > params.topP[1] * all
  IN  IF params.topP[1] >= params.topP[2] THEN row
      ELSE [t \in Vocab |-> IF t # sorted[1] /\ over(CHOOSE i \in DOMAIN sorted : sorted[i] = t)
                            THEN Masked ELSE row[t]]
(* Removed: what comes after a token whose cumulative mass is over top_p. *)
ApplyTopP(row, params) ==
  LET sorted == Sorted(row, params)
      all == CumulativeWeight(row, sorted, Len(sorted))
      over(i) == CumulativeWeight(row, sorted, i) * params.topP[2] > params.topP[1] * all
      removed == {sorted[i] : i \in {j \in 2..Len(sorted) : over(j - 1)}}
  IN  IF params.topP[1] >= params.topP[2] THEN row
      ELSE [t \in Vocab |-> IF t \in removed THEN Masked ELSE row[t]]

Filtered(row, params) ==
  IF IsGreedy(params) THEN row
  ELSE LET tempered == Evaluated(Tempered(row, params))
           likely == Evaluated(ApplyMinP(tempered, params))
           best == Evaluated(ApplyTopK(likely, params))
       IN  Evaluated(ApplyTopP(best, params))

Penalised(row, params, tokens) ==
  Evaluated(ApplyPenalties(Evaluated(ApplyLogitBias(row, params)), params, tokens))

ProcessLogits(row, params, tokens) == Filtered(Penalised(row, params, tokens), params)

(* Row i of a block is penalised by its own prefix. *)
ProcessLogitsBatch(rows, params, prefixes) ==
  Evaluated([i \in DOMAIN rows |-> Filtered(Penalised(rows[i], params, prefixes[i]), params)])

-----------------------------------------------------------------------------
(* The draw: the first index whose cumulative weight is above the uniform   *)
(* draw, cell u of n; past the end (by rounding, in the code) the last.     *)
SampleFromProbs(weights, u, n) ==
  LET cdf(t) == FoldSet(LAMBDA i, s : s + weights[i], 0, 0..t)
      above == {t \in Vocab : cdf(t) * n > u * Total(weights)}
  IN  IF above = {} THEN Max(Vocab) ELSE Min(above)

(* The logprob of a token, as its weight and the sum of the weights. *)
Logprob(weights, t) == <<weights[t], Total(weights)>>

(* _sample_row: an ordinary token of the row. *)
SampleRow(row, params, tokens, u, n) ==
  LET processed == ProcessLogits(row, params, tokens)
      weights == Softmax(processed)
      tok == IF IsGreedy(params) THEN Argmax(processed) ELSE SampleFromProbs(weights, u, n)
  IN  [tok |-> tok, logprob |-> Logprob(weights, tok)]

(* sample_scheduled, a forced token: scored on the chain, never drawn. *)
ForcedRow(row, params, tokens, forced) ==
  [tok |-> forced, logprob |-> Logprob(Softmax(ProcessLogits(row, params, tokens)), forced)]

-----------------------------------------------------------------------------
(* Speculative verification of drafts that stand at the end of tokens:      *)
(* rows[i] predicts drafts[i], the last row the token after them.           *)

(* Seeded fault: a row's penalties see the draft it verifies. *)
SpecPrefixesOneLate(tokens, nDraft) ==
  [i \in 1..nDraft + 1 |-> SubSeq(tokens, 1, Min({Len(tokens), Len(tokens) - nDraft + i}))]
SpecPrefixes(tokens, nDraft) ==
  [i \in 1..nDraft + 1 |-> SubSeq(tokens, 1, Len(tokens) - nDraft + i - 1)]

(* The emitted tokens stop at the first one that is not its draft. *)
Emission(drafts, choice) ==
  LET wrong == {i \in DOMAIN drafts : choice[i].tok # drafts[i]}
  IN  SubSeq(choice, 1, IF wrong = {} THEN Len(drafts) + 1 ELSE Min(wrong))

VerifyGreedy(drafts, rows, params, prefixes) ==
  LET processed == ProcessLogitsBatch(rows, params, prefixes)
  IN  Emission(drafts, [i \in DOMAIN rows |->
        [tok |-> Argmax(processed[i]),
         logprob |-> Logprob(Softmax(processed[i]), Argmax(processed[i]))]])

(* A draft is accepted when its probability is not below the uniform draw,  *)
(* cell u of n; else the residual, the row without it, is drawn from with   *)
(* cell v of m.                                                             *)
VerifyDraft(weights, draft, draw) ==
  LET residual == [weights EXCEPT ![draft] = 0]
      recovered == IF Total(residual) = 0
                   THEN CHOOSE t \in Vocab : \A x \in Vocab : weights[x] <= weights[t]
                   ELSE SampleFromProbs(residual, draw.v, draw.m)
      accepted == weights[draft] * draw.n > draw.u * Total(weights)
  IN  [accepted |-> accepted, tok |-> IF accepted THEN draft ELSE recovered]

(* Up to the first rejection, or the bonus token after the last draft; the  *)
(* logprob is the row's own in either case.                                 *)
VerifySampled(drafts, rows, params, prefixes, draws) ==
  LET processed == ProcessLogitsBatch(rows, params, prefixes)
      weights == Evaluated([i \in DOMAIN rows |-> Softmax(processed[i])])
      verified(i) == VerifyDraft(weights[i], drafts[i], draws[i])
      tok(i) == IF i \in DOMAIN drafts THEN verified(i).tok
                ELSE SampleFromProbs(weights[i], draws[i].u, draws[i].n)
      rejected == {i \in DOMAIN drafts : ~verified(i).accepted}
  IN  [i \in 1..(IF rejected = {} THEN Len(drafts) + 1 ELSE Min(rejected)) |->
         [tok |-> tok(i), logprob |-> Logprob(weights[i], tok(i))]]

VerifyRequest(tokens, nDraft, rows, params, draws) ==
  LET drafts == SubSeq(tokens, Len(tokens) - nDraft + 1, Len(tokens))
      prefixes == SpecPrefixes(tokens, nDraft)
  IN  IF IsGreedy(params) THEN VerifyGreedy(drafts, rows, params, prefixes)
      ELSE VerifySampled(drafts, rows, params, prefixes, draws)
=============================================================================
