----------------------------- MODULE NgramDraft -----------------------------
(***************************************************************************)
(* The n-gram proposer (spec_decode.py): an index of first occurrences,    *)
(* extended at each proposal with what the request gained since, and the   *)
(* proposals read from it; and its oracle, the KMP proposer of             *)
(* reference/propose_ngram.py.                                             *)
(***************************************************************************)
EXTENDS Integers, SequencesExt, FiniteSetsExt

CONSTANT NoIndex

(* An index: [min, max, tokens, first], where first maps an n-gram to the   *)
(* position before its occurrence (0 for the start of the sequence).        *)
EmptyIndex(min, max) == [min |-> min, max |-> max, tokens |-> <<>>, first |-> <<>>]

(* The n-grams that end with the last token. *)
EndingNgrams(tokens, min, max) ==
  {SubSeq(tokens, Len(tokens) - n + 1, Len(tokens)) : n \in min..Min({max, Len(tokens)})}

(* Seeded fault: a later occurrence replaces the earlier one. *)
IndexedLatest(index, tok) ==
  LET tokens == Append(index.tokens, tok)
      keys == EndingNgrams(tokens, index.min, index.max)
  IN  [index EXCEPT !.tokens = tokens,
         !.first = [key \in DOMAIN @ \union keys |->
                      IF key \in keys THEN Len(tokens) - Len(key) ELSE @[key]]]
(* NgramIndex.extend, one token. *)
Indexed(index, tok) ==
  LET tokens == Append(index.tokens, tok)
      keys == EndingNgrams(tokens, index.min, index.max)
  IN  [index EXCEPT !.tokens = tokens,
         !.first = [key \in DOMAIN @ \union keys |->
                      IF key \in DOMAIN @ THEN @[key] ELSE Len(tokens) - Len(key)]]

Extended(index, tokens) == FoldLeft(Indexed, index, tokens)

Propose(index, k, maxModelLen) ==
  LET total == Len(index.tokens)
      room == Min({k, maxModelLen - total})
      matching == {key \in EndingNgrams(index.tokens, index.min, index.max) :
                     key \in DOMAIN index.first /\ index.first[key] + Len(key) < total}
      longest == CHOOSE key \in matching : \A other \in matching : Len(other) <= Len(key)
      from == index.first[longest] + Len(longest)
  IN  IF total < index.min \/ room <= 0 \/ index.min < 1 \/ index.max < index.min
           \/ matching = {}
      THEN <<>>
      ELSE SubSeq(index.tokens, from + 1, from + Min({room, total - from}))

(* propose_drafts: the index follows the request's tokens. *)
Refreshed(index, tokens, min, max) ==
  LET rebuilt == Extended(EmptyIndex(min, max), tokens)
  IN  IF index = NoIndex THEN rebuilt
      ELSE IF index.min # min \/ index.max # max THEN rebuilt
      ELSE IF Len(index.tokens) > Len(tokens) THEN rebuilt
      ELSE Extended(index, SubSeq(tokens, Len(index.tokens) + 1, Len(tokens)))

-----------------------------------------------------------------------------
(* The oracle: KMP on the reversed tokens.  One iteration of its loop; i    *)
(* and the prefix-function table count from 0 as in the code.               *)
KmpStep(s, tokens, max) ==
  LET longer == s.prev + 1
      lps == IF s.i < max THEN [s.lps EXCEPT ![s.i] = longer] ELSE s.lps
      best == longer >= s.longest
  IN  IF tokens[s.prev + 1] = tokens[s.i + 1]
      THEN [lps |-> lps,
            longest |-> IF best THEN longer ELSE s.longest,
            position |-> IF best THEN s.i ELSE s.position,
            prev |-> IF longer = max THEN lps[max - 1] ELSE longer,
            i |-> s.i + 1]
      ELSE IF s.prev # 0 THEN [s EXCEPT !.prev = s.lps[s.prev - 1]]
      ELSE [s EXCEPT !.i = @ + 1]

(* Each iteration advances i or shortens the match: 2n of them end it. *)
Kmp(tokens, max) ==
  FoldLeft(LAMBDA s, n : IF s.i < Len(tokens) THEN KmpStep(s, tokens, max) ELSE s,
           [lps |-> [j \in 0..max - 1 |-> 0], longest |-> 0, position |-> 0, prev |-> 0, i |-> 1],
           [n \in 1..2 * Len(tokens) |-> n])

ProposeNgram(tokens, min, max, k, maxModelLen) ==
  LET total == Len(tokens)
      room == Min({k, maxModelLen - total})
      end == Kmp(Reverse(tokens), max)
      from == total - 1 - end.position + end.longest
  IN  IF total < min \/ room <= 0 \/ min < 1 \/ max < min THEN <<>>
      ELSE IF end.longest < min THEN <<>>
      ELSE SubSeq(tokens, from + 1, from + Min({room, total - from}))
=============================================================================
