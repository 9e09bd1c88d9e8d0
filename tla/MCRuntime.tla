----------------------------- MODULE MCRuntime -----------------------------
EXTENDS WeightSync, MCAlgorithms

CONSTANTS r1, r2, r3

(* Three requests share pages on each backend, without operations, ...      *)
Crowd == {[backend |-> b, cap |-> MaxLen + 1, served |-> {r1, r2, r3}, seqs |-> 2] :
            b \in {"flashinfer", "triton"}}
(* ... and requests one at a time meet sleeps, updates and capped graphs.   *)
Queue == {[backend |-> b, cap |-> 3, served |-> {r1, r2}, seqs |-> 1] :
            b \in {"pytorch", "flashinfer", "triton"}}
CrowdOrQueue == Crowd \union Queue
QuietOrTraining == {[tied |-> FALSE, ops |-> 0], [tied |-> TRUE, ops |-> 3],
                    [tied |-> FALSE, ops |-> 3]}
MCInit == RuntimeInit /\ (ops = 0 <=> setup \in Crowd)

(* Either the runtime runs, or an algorithm has an input. *)
Init ==
  \/ MCInit /\ task = NoTask
  \/ /\ MCInit /\ ops = 0 /\ setup.backend = "triton"
     /\ \/ task \in DecodeTasks
        \/ task \in SampleTasks /\ FewCells(task.row, task.params, task.tokens)
        \/ task \in VerifyTasks /\ \A i \in 1..2 : FewCells(task.rows[i], task.params, <<0>>)
        \/ task \in NgramTasks
        \/ task \in PlaceTasks
Next == task = NoTask /\ RuntimeNext /\ UNCHANGED task
MCSpec == Init /\ [][Next]_<<allVars, task>>

OneCall == {<<"embed", "q", "v">>, <<"k", "gate", "up", "o">>, <<"lm_head", "qkv">>}
=============================================================================
