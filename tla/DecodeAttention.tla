--------------------------- MODULE DecodeAttention ---------------------------
(***************************************************************************)
(* The Triton decode kernels (kernels/triton_decode.py): one query attends *)
(* kvLen cached tokens through its page table, tile by tile with an online *)
(* softmax, in one pass per query head (_naive_kernel) or split over       *)
(* several programs whose partial results are merged (_gqa_split_kernel,   *)
(* _combine_kernel).                                                       *)
(*                                                                         *)
(* Arithmetic is exact: exponentials have base 2 and a program's sums are  *)
(* integers at scale 2^Scale, so that every rescaling is an exact shift.   *)
(* Rounding, and the width of the addresses, are not modelled.             *)
(***************************************************************************)
EXTENDS Integers, FiniteSets, SequencesExt, FiniteSetsExt

CONSTANTS
  BlockN,       \* tokens of a tile (_BLOCK_N, 64)
  PageSize,     \* tokens of a page
  ShortKv,      \* contexts up to this are not split (256)
  SplitTokens,  \* tokens a split is meant for (128)
  MaxSplits,    \* splits at most (32)
  Scale         \* no two scores of a context differ by more

Least(a, b) == IF a <= b THEN a ELSE b
Most(a, b) == IF a >= b THEN a ELSE b
CeilDiv(a, b) == (a + b - 1) \div b

PickNumSplits(batch, kvHeads, kvLen, sms) ==
  IF kvLen <= ShortKv THEN 1
  ELSE Least(Most(1, CeilDiv(kvLen, SplitTokens)),
             Least(MaxSplits, Most(1, (2 * sms) \div Most(1, batch * kvHeads))))

-----------------------------------------------------------------------------
(* A decode: [query, keys, values, table, gqa, kvHeads], query[h] of a query *)
(* head; keys[k][slot], values[k][slot] of the pool's slots and KV heads;    *)
(* table the pages of the context, from 0, in order.                        *)

(* Where logical token t is: each lane resolves its own page. *)
Slot(d, t) == d.table[(t \div PageSize) + 1] * PageSize + (t % PageSize)
Score(d, h, kvHead, t) == d.query[h] * d.keys[kvHead][Slot(d, t)]
Value(d, kvHead, t) == d.values[kvHead][Slot(d, t)]

(* Running maximum, sum and weighted sum; a maximum only once a token came. *)
NoMass == [seen |-> FALSE, max |-> 0, sum |-> 0, acc |-> 0]

Exp(x) == 2^(Scale + x)

(* One tile of the online softmax: the sums so far are rescaled to the new  *)
(* maximum before the tile's tokens are added.                              *)
Tile(d, h, kvHead, run, tokens) ==
  LET score(t) == Score(d, h, kvHead, t)
      new == Max({score(t) : t \in tokens} \union (IF run.seen THEN {run.max} ELSE {}))
      rescaled(x) == IF run.seen THEN x \div 2^(new - run.max) ELSE 0
  IN  IF tokens = {} THEN run
      ELSE [seen |-> TRUE, max |-> new,
            sum |-> rescaled(run.sum) + FoldSet(LAMBDA t, s : s + Exp(score(t) - new), 0, tokens),
            acc |-> rescaled(run.acc)
                      + FoldSet(LAMBDA t, s : s + Exp(score(t) - new) * Value(d, kvHead, t), 0, tokens)]

(* The tiles of width w from first to before last, masked at last. *)
Tiles(first, last, w) ==
  [i \in 1..CeilDiv(Most(last - first, 0), w) |->
     (first + (i - 1) * w)..(Least(first + i * w, last) - 1)]

(* Seeded fault: splits of the rounded-down length, the rest left over. *)
SplitRangeShort(kvLen, splits, s) ==
  [first |-> s * (kvLen \div splits), last |-> Least((s + 1) * (kvLen \div splits), kvLen)]
(* The tokens of split s of a sequence; none for the high splits of a short one. *)
SplitRange(kvLen, splits, s) ==
  LET per == CeilDiv(kvLen, splits)
  IN  [first |-> s * per, last |-> Least((s + 1) * per, kvLen)]

(* _gqa_split_kernel, program (KV head, split), row h of its query group. *)
SplitKernel(d, h, kvHead, kvLen, splits, s) ==
  LET range == SplitRange(kvLen, splits, s)
  IN  FoldLeft(LAMBDA run, tokens : Tile(d, h, kvHead, run, tokens), NoMass,
               Tiles(range.first, range.last, BlockN))

(* The query heads of a KV head's program: the first gqa of its rows. *)
GroupHeads(d, kvHead) == {kvHead * d.gqa + row : row \in 0..d.gqa - 1}

(* _combine_kernel: partials weigh e^lse, a split without tokens nothing.    *)
(* The rescaling to the running maximum of lse cancels in the quotient.      *)
Mass(part) == IF part.seen THEN 2^part.max * part.sum ELSE 0
WeightedMass(part) == IF part.seen THEN 2^part.max * part.acc ELSE 0

Combine(parts) ==
  [sum |-> FoldLeft(LAMBDA x, part : x + Mass(part), 0, parts),
   acc |-> FoldLeft(LAMBDA x, part : x + WeightedMass(part), 0, parts)]

(* paged_decode_attention: numerator and denominator of each head's output. *)
PagedDecode(d, kvLen, splits) ==
  [h \in 0..d.gqa * d.kvHeads - 1 |->
     LET kvHead == CHOOSE k \in 0..d.kvHeads - 1 : h \in GroupHeads(d, k)
         parts == [s \in 1..splits |-> SplitKernel(d, h, kvHead, kvLen, splits, s - 1)]
     IN  IF splits = 1 THEN [sum |-> parts[1].sum, acc |-> parts[1].acc] ELSE Combine(parts)]

(* _naive_kernel: one program per query head, one page per tile. *)
NaiveDecode(d, kvLen) ==
  [h \in 0..d.gqa * d.kvHeads - 1 |->
     LET run == FoldLeft(LAMBDA r, tokens : Tile(d, h, h \div d.gqa, r, tokens), NoMass,
                         Tiles(0, kvLen, PageSize))
     IN  [sum |-> run.sum, acc |-> run.acc]]

-----------------------------------------------------------------------------
(* The reference: gather the context, then one softmax over all of it.      *)
ReferenceDecode(d, kvLen) ==
  [h \in 0..d.gqa * d.kvHeads - 1 |->
     LET weight(t) == 2^Score(d, h, h \div d.gqa, t)
         total(Of(_)) == FoldSet(LAMBDA t, s : s + Of(t), 0, 0..kvLen - 1)
     IN  [sum |-> total(weight),
          acc |-> total(LAMBDA t : weight(t) * Value(d, h \div d.gqa, t))]]

(* Two outputs are the same quotient; an empty context has none. *)
SameOutput(a, b) ==
  /\ a.sum = 0 <=> b.sum = 0
  /\ a.acc * b.sum = b.acc * a.sum
=============================================================================
