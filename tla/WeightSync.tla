----------------------------- MODULE WeightSync -----------------------------
(***************************************************************************)
(* The training loop around the runner: the adapter sleeps, parks or drops *)
(* the weights (engine/weights.py), wakes the weights and the KV pool in   *)
(* one call or in two, and copies the trainer's tensors, named as          *)
(* HuggingFace names them, into the fused parameters of the model, item by *)
(* item (rollout/lifecycle.py, integrations/skyrl/inference_engine.py).    *)
(*                                                                         *)
(* A parameter is a sequence of rows; a row holds the named tensor's row   *)
(* that was copied there and its version, or NaNRow.                       *)
(***************************************************************************)
EXTENDS PagedRunner

CONSTANTS
  Trainings,     \* [tied, ops]: tie_word_embeddings, and a bound on the operations
  Calls,         \* the name sequences an update call may carry
  MaxVersion     \* training steps after the first (bound)

VARIABLES
  params,        \* parameter -> rows
  where,         \* "device", "host" (_offloaded_from) or "released" (_released_params)
  unverified,    \* _weights_unverified
  tied,          \* cfg.tie_word_embeddings
  trained,       \* version of the trainer's tensors
  delivered,     \* name -> version of the last tensor copied under it (ghost)
  blank,         \* a forward read an unwritten row (ghost)
  ops            \* sleeps, updates and weight releases left (bound)

syncVars == <<params, where, unverified, tied, trained, delivered, blank, ops>>
allVars == <<runnerVars, syncVars>>

NaNRow == [src |-> <<>>, version |-> 0]
HFNames == {"embed", "q", "k", "v", "o", "gate", "up", "lm_head"}
(* A call may also name the fused q, k and v as the model does.             *)
Names == HFNames \union {"qkv"}

ASSUME SyncAssumption ==
  /\ \A t \in Trainings : t.tied \in BOOLEAN
  /\ Calls \subseteq Seq(Names)
RowsOf(name) == IF name = "q" THEN 2 ELSE IF name = "qkv" THEN 4 ELSE 1

(* The layout of the loaded model (load_hf_state_dict): whose row is where. *)
Loaded(t) ==
  [p \in {"embed", "qkv", "o", "gate_up"} \union (IF t THEN {} ELSE {"lm_head"}) |->
     CASE p = "qkv"     -> <<<<"q", 1>>, <<"q", 2>>, <<"k", 1>>, <<"v", 1>>>>
       [] p = "gate_up" -> <<<<"gate", 1>>, <<"up", 1>>>>
       [] OTHER         -> <<<<p, 1>>>>]

SyncInit ==
  /\ \E t \in Trainings : tied = t.tied /\ ops = t.ops
  /\ params = [p \in DOMAIN Loaded(tied) |->
                 [i \in DOMAIN Loaded(tied)[p] |-> [src |-> Loaded(tied)[p][i], version |-> 0]]]
  /\ where = "device" /\ unverified = FALSE
  /\ trained = 0 /\ delivered = [n \in HFNames |-> 0]
  /\ blank = FALSE

-----------------------------------------------------------------------------
(* Copying one tensor.                                                      *)

(* Seeded fault: v's slice starts where k's does. *)
DestinationOverlapping(name) ==
  CASE name \in {"q", "k", "v"} ->
         [param |-> "qkv", from |-> IF name = "q" THEN 1 ELSE 3]
    [] name \in {"gate", "up"} -> [param |-> "gate_up", from |-> IF name = "gate" THEN 1 ELSE 2]
    [] name = "lm_head" /\ tied -> [param |-> "embed", from |-> 1]
    [] OTHER -> [param |-> name, from |-> 1]
(* Where a tensor goes: a slice of a fused parameter, the tied embedding,   *)
(* or the parameter of its own name (native fused names included).          *)
Destination(name) ==
  CASE name \in {"q", "k", "v"} ->
         [param |-> "qkv", from |-> CASE name = "q" -> 1 [] name = "k" -> 3 [] OTHER -> 4]
    [] name \in {"gate", "up"} -> [param |-> "gate_up", from |-> IF name = "gate" THEN 1 ELSE 2]
    [] name = "lm_head" /\ tied -> [param |-> "embed", from |-> 1]
    [] OTHER -> [param |-> name, from |-> 1]

(* Row i of the tensor delivered under a name. *)
TensorRow(name, i) == IF name = "qkv" THEN Loaded(tied)["qkv"][i] ELSE <<name, i>>

CopyNamedWeight(ps, name) ==
  LET to == Destination(name)
  IN  [ps EXCEPT ![to.param] = [i \in DOMAIN @ |->
         IF i \in to.from..(to.from + RowsOf(name) - 1)
         THEN [src |-> TensorRow(name, i - to.from + 1), version |-> trained] ELSE @[i]]]

ApplyNamedWeights(ps, names) ==
  LET copied[k \in 0..Len(names)] == IF k = 0 THEN ps ELSE CopyNamedWeight(copied[k - 1], names[k])
  IN  copied[Len(names)]

Delivered(names) ==
  LET given == Range(names) \union (IF "qkv" \in Range(names) THEN {"q", "k", "v"} ELSE {})
  IN  [n \in HFNames |-> IF n \in given THEN trained ELSE delivered[n]]

(* reload_weights: parked parameters come back, released ones as NaNRow. *)
Reloaded ==
  IF where = "released"
  THEN [p \in DOMAIN params |-> [i \in DOMAIN params[p] |-> NaNRow]] ELSE params
ReloadWeights(ps) ==
  /\ params' = ps
  /\ where' = "device"
  /\ unverified' = (unverified \/ where = "released")
  /\ home' = IF where = "device" THEN home ELSE home + 1

Blanks(ps) == {p \in DOMAIN ps : \E i \in DOMAIN ps[p] : ps[p][i] = NaNRow}

-----------------------------------------------------------------------------
(* The adapter's operations.                                                *)

Op == ops > 0 /\ ops' = ops - 1

(* All KV of all requests is dropped; every request restarts cold. *)
ColdRequests == [r \in Requests |-> Cold(req[r])]

Sleep ==
  /\ Op /\ pool # NoPool
  /\ ReleaseKvPool
  /\ req' = ColdRequests
  /\ UNCHANGED <<home, weights, setup, misread, params, where, unverified, tied, trained,
                 delivered, blank>>

(* offload_weights, for a trainer that needs the memory: while asleep. *)
OffloadWeights(keep) ==
  /\ pool = NoPool /\ where = "device"
  /\ Op
  /\ where' = IF keep THEN "host" ELSE "released"
  /\ UNCHANGED <<runnerVars, params, unverified, tied, trained, delivered, blank>>

(* wake_up(tags): the weights, and the pool unless only weights are named. *)
WakeUp(kv) ==
  /\ pool = NoPool
  /\ kv \/ where # "device"
  /\ params' = Reloaded
  /\ where' = "device"
  /\ unverified' = (unverified \/ where = "released")
  /\ home' = IF kv \/ where # "device" THEN home + 1 ELSE home
  /\ pool' = IF kv THEN EmptyPool ELSE pool
  /\ UNCHANGED <<req, weights, graphs, warm, setup, misread, tied, trained, delivered, blank, ops>>

(* The trainer's next step, on the device the engine left. *)
Train ==
  /\ pool = NoPool
  /\ trained < MaxVersion
  /\ trained' = trained + 1
  /\ UNCHANGED <<runnerVars, params, where, unverified, tied, delivered, blank, ops>>

(* invalidate_all_kv and the reset of every request, before the first copy. *)
Invalidated == ColdRequests

(* update_named_weights: reload, drop all KV, then copy item by item; item  *)
(* good + 1 may be one the model has no place for, and the call raises.     *)
UpdateNamedWeights(names, good) ==
  /\ Op
  /\ ReloadWeights(ApplyNamedWeights(Reloaded, SubSeq(names, 1, good)))
  /\ delivered' = Delivered(SubSeq(names, 1, good))
  /\ weights' = IF good = 0 THEN weights ELSE weights + 1
  /\ req' = Invalidated
  /\ UNCHANGED <<pool, graphs, warm, setup, misread, tied, trained, blank>>

(* Seeded fault: the check is done when weights were released, not written. *)
UsableUnscanned == where = "device"
(* assert_weights_usable: what run() asks before every forward. *)
Usable == where = "device" /\ (unverified => Blanks(params) = {})

Forwards ==
  /\ Usable
  /\ Steps
  /\ unverified' = FALSE
  /\ blank' = (blank \/ Blanks(params) # {})
  /\ UNCHANGED <<params, where, tied, trained, delivered, ops>>

(* run_logits asks nothing of the weights. *)
Verifies ==
  /\ where = "device"
  /\ \E r \in Live : \E drafts \in 1..2 : \E accepted \in 0..drafts :
       LET s == Span(r, drafts + 1)
       IN  /\ IsPureDecode(Span(r, 1))
           /\ Length(r) + drafts <= MaxLen
           /\ Fits(<<s>>) /\ VerifyStep(Grown(<<s>>)[1], accepted)
  /\ blank' = (blank \/ Blanks(params) # {})
  /\ UNCHANGED <<params, where, unverified, tied, trained, delivered, ops>>

RuntimeNext ==
  \/ \E r \in Requests : (Arrive(r) \/ Preempt(r)) /\ UNCHANGED syncVars
  \/ Forwards
  \/ Verifies
  \/ Sleep
  \/ \E keep \in BOOLEAN : OffloadWeights(keep)
  \/ \E kv \in BOOLEAN : WakeUp(kv)
  \/ Train
  \/ \E names \in Calls : \E good \in 0..Len(names) : UpdateNamedWeights(names, good)

RuntimeInit == RunnerInit /\ SyncInit
RuntimeSpec == RuntimeInit /\ [][RuntimeNext]_allVars

-----------------------------------------------------------------------------
(* After any calls, in any order and cut short anywhere, every row of the   *)
(* model's fused tensors is the row of the trainer's tensor it was loaded   *)
(* from, in the version last delivered -- or was never filled since the     *)
(* weights were dropped (engine/weights.py).                                *)
RowsExact ==
  \A p \in DOMAIN params : \A i \in DOMAIN params[p] :
    LET row == params[p][i]
        owner == Loaded(tied)[p][i]
    IN  row # NaNRow =>
          IF p = "embed" /\ tied
          THEN row.version = Max({delivered["embed"], delivered["lm_head"]})
          ELSE row.src = owner /\ row.version = delivered[owner[1]]

(* No forward reads weights that nobody has written since a wake-up         *)
(* allocated them (rollout/lifecycle.py, assert_weights_usable).            *)
NoUnwrittenRead == ~blank
=============================================================================
