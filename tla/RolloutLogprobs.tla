--------------------------- MODULE RolloutLogprobs ---------------------------
(***************************************************************************)
(* Sampling-time logprobs on their way to the trainer: a completion's       *)
(* tokens and logprobs are served and appended to the sidecar               *)
(* (integrations/skyrl/inference_engine.py), and read back, paired with a   *)
(* trajectory's turns and laid onto the replayed response                   *)
(* (rollout/logprobs.py).                                                   *)
(***************************************************************************)
EXTENDS Integers, SequencesExt, FiniteSetsExt

CONSTANTS NaN, NoLogprob

(* _openai_logprob_content, _append_logprob_sidecar: what is not one        *)
(* logprob per token raises and is neither served nor recorded.             *)
Accounted(completion) == Len(completion.ids) = Len(completion.lps)
Servable(completion) ==
  Accounted(completion) /\ \A i \in DOMAIN completion.lps : completion.lps[i] # NaN
Appended(sidecar, completion) ==
  IF Accounted(completion) THEN Append(sidecar, completion) ELSE sidecar

(* load_sidecar: the logprobs of each token sequence, in file order. *)
LoadSidecar(sidecar) ==
  [ids \in {record.ids : record \in ToSet(sidecar)} \ {<<>>} |->
     LET same == SelectSeq(sidecar, LAMBDA record : record.ids = ids /\ Accounted(record))
     IN  [i \in DOMAIN same |-> same[i].lps]]

(* turns_from_record: each event takes the next entry of its tokens. *)
TurnsFromRecord(events, buckets) ==
  FoldLeft(LAMBDA found, ids :
             IF ids = <<>> THEN found
             ELSE IF ids \notin DOMAIN found.buckets \/ found.buckets[ids] = <<>>
                  THEN [found EXCEPT !.missing = @ + 1]
             ELSE [found EXCEPT !.turns = Append(@, [ids |-> ids, lps |-> Head(found.buckets[ids])]),
                                !.buckets[ids] = Tail(@)],
           [turns |-> <<>>, missing |-> 0, buckets |-> buckets], events)

(* _find_from: before the first occurrence at or after start, or -1. *)
FindFrom(seq, sub, start) ==
  LET at == {i \in start..Len(seq) - Len(sub) : SubSeq(seq, i + 1, i + Len(sub)) = sub}
  IN  IF sub = <<>> \/ at = {} THEN -1 ELSE Min(at)

(* Seeded fault: the next turn may start inside this one. *)
CursorAfterInside(at, ids) == at + 1
CursorAfter(at, ids) == at + Len(ids)

(* place_turn_logprobs; placed counts tokens, unplaced turns. *)
Placement(response, turns) ==
  FoldLeft(LAMBDA laid, turn :
             LET at == FindFrom(response, turn.ids, laid.cursor)
             IN  IF at < 0 THEN [laid EXCEPT !.unplaced = @ + 1]
                 ELSE [out |-> [i \in DOMAIN response |->
                                  IF i \in at + 1..at + Len(turn.ids) THEN turn.lps[i - at]
                                  ELSE laid.out[i]],
                       cursor |-> CursorAfter(at, turn.ids),
                       placed |-> laid.placed + Len(turn.ids), unplaced |-> laid.unplaced],
           [out |-> [i \in DOMAIN response |-> NoLogprob], cursor |-> 0,
            placed |-> 0, unplaced |-> 0],
           turns)

(* mask_coverage: the trained positions that carry a logprob. *)
TrainedWithLogprob(mask, laid) == {i \in DOMAIN mask : mask[i] /\ laid.out[i] # NoLogprob}
=============================================================================
