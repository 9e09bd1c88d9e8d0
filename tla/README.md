# A TLA+ verification of qwen3-runtime

qwen3-runtime serves and rolls out Qwen3 models with a paged KV cache: requests
are queued, scheduled in token chunks, run through the model and sampled; their
keys and values live in physical blocks that requests share through a prefix
cache, hold between the turns of a session, and give up on preemption, weight
updates and sleep. The hard part of such a program is not the arithmetic of the
model but the bookkeeping around it: who owns which block, which tokens a page
really holds, and whether every request gets to the end of its turn whatever
fails or is interleaved on the way. That is what this project models.

## Inventory

| Component | Source (`src/qwen3_runtime/`) | State | Operations | Interacts with |
|---|---|---|---|---|
| Block manager | `engine/block_manager.py` | free deque, reference counts, epoch | allocate, copy-on-write, attach, publish, truncate, evict, deallocate, reset | scheduler (calls), prefix cache (owns), requests' tables |
| Prefix cache | `engine/prefix_cache.py` | hash -> blocks, LRU order | lookup, insert, drop, clear | block manager |
| KV pages | `kv/paged.py` | one tensor of pages | store, copy, export, import, rebuild | model runner writes, attention reads |
| Request | `engine/request.py` | tokens, computed / scheduled counts, drafts, table, published count, parent hash, epoch | append, reset_kv_state | everything |
| Scheduler | `engine/scheduler.py` | waiting, running, paused | add, schedule (admit, defer, preempt), postprocess, pause, resume, release | block manager, engine |
| Engine | `engine/engine.py` | registry, health, asleep | add, resume, finish, abort, step, update weights, sleep, wake | scheduler, runner, lifecycle |
| Lifecycle | `rollout/lifecycle.py` | - | park, sleep, wake, abort, copy weights | engine |
| Speculation | `spec_decode.py` | n-gram index, drafts | propose, verify, trim, commit | scheduler, engine |
| Model runner | `engine/model_runner.py` | KV pool, CUDA graphs | run, run_logits, release / rebuild pool | pages |
| Session CPU offload | `engine/session_offload.py`, `async_offload.py`, `block_offload.py` | snapshots, tickets, pending copies | save, begin / commit / rollback restore, invalidate | engine, CPU stores |
| CPU stores | `kv/cpu_store.py`, `kv/block_store.py`, `kv/host_budget.py` | entries, bytes | put, get, evict, reserve | offload |
| Session rollout | `rollout/session.py`, `rollout/execution.py` | sessions, parked KV | open, extend, evict, finish | engine, driver |
| Engine driver | `rollout/driver.py` | thread, pending turns | submit, run, stop, abort | engine (owner thread), callers |
| SkyRL adapter | `integrations/skyrl/*` | - | generate, sleep, wake, weight sync | driver, rollout |
| OpenAI serving | `serving/openai.py`, `scripts/codescout_openai_server.py` | session table, waiters, pending queue, engine thread | chat, completion, reset | engine, from many handler threads |
| SLO harness | `serving/slo_harness.py` | sessions, traces, counts | offer, admit, step, record | engine |
| Weights | `engine/weights.py`, `rollout/lifecycle.py` | fused parameters, where they are, whether verified | release, reload, copy by name | runner, adapter |
| Numerics | `models/`, `kernels/`, `attention/`, `layers/`, `sampling.py` | tensors | attend, sample, verify | runner |
| Logprob sidecar | `rollout/logprobs.py`, `integrations/skyrl/inference_engine.py` | a file of records | append, pair, place | trainer |

What is hard here: a request is a small state machine that five callers drive
(client, scheduler, verifier, lifecycle, abort) while its table shares blocks
with others; a step has several points where it can raise, with half of its
requests committed; KV is invalidated between steps while requests wait, run
or are held; memory pressure makes schedule() preempt, evict and defer, and it
must neither lose a request nor wait for ever. `PROJECT.json` lists the hazards
one by one, each at its line, with the properties that would catch it.

What makes the parts correct:

- *block manager*: counts equal references, the free list is exactly the
  unreferenced blocks, nothing shared is written;
- *prefix cache and pages*: a cached copy holds the KV of the tokens its hash
  digests, and the KV a request counts as computed is the KV of its own tokens
  under the current weights;
- *scheduler*: a request is in the queue its status names, once; passes are
  enough; every turn ends; giving up happens only when held KV is to blame;
- *engine*: clients see the turn protocol, whatever happens inside;
- *held sessions*: a paused request can always be resumed;
- *CPU offload*: what comes back from the host is the KV that went there, under
  the same weights; a copy in flight keeps its source; budgets, counts and
  leases add up; a pressure episode ends and frees what can be freed;
- *front ends*: an answer has exactly the tokens of its turn, and everybody who
  waits is answered;
- *runner and weights*: a query attends its own request's entries, computed with
  the current weights, and no forward reads a weight nobody wrote;
- *algorithms*: kernels, sampler, verifier, proposer and logprob placement
  compute what their definitions say.

## Modules

| Module | What it is |
|---|---|
| `BlockManager` | The pool `[free, ref, cache]`, epoch and pages as values, and every operation on them. |
| `Scheduler` | Requests and `schedule()`: one action per request considered, per pass ended. Extends `BlockManager`. |
| `Engine` | The whole engine: all actions, `Spec`, `FairSpec` and the properties. Extends `Scheduler`. |
| `EngineInvariants` | The inductive invariant `IInv`: types, counts, privacy, batches and queues. |
| `EngineKV` | What makes the KV right, inductively: `KVInv`, and `EngineInv`, which is `IInv` with it. |
| `Turns` | Abstract specification: the conversation protocol the engine promises its clients. |
| `EngineTurns` | The refinement mapping from `Engine` to `Turns`, and what it rests on: `TurnsInv`, and `ProtocolInv`, which is `EngineInv` with it. |
| `SessionRollout` | `SessionRollout` and `SessionCache` as operators on a record: admission, claims, parking, eviction, clear, abort. |
| `EngineDriver` | Driver threads, the event loop and worker threads around it; its own `Spec`, `FairSpec` and properties. Extends `SessionRollout`. |
| `DriverInvariants` | The inductive invariant `DriverInv` of `EngineDriver`. |
| `MCEngine`, `MCDriver` | The TLC instances (of `Engine` with symmetry). |
| `Residency` | Sessions whose KV moves between pool and host: turns, the pressure episode, what the pages owe their readers. Extends `BlockManager`. |
| `CpuStore`, `BlockStore` | The two host stores and the host budget, as operators on a value. |
| `SnapshotOffload`, `BlockOffload` | The snapshot managers (synchronous and asynchronous) and the block-granular manager, as operators on the state they change. |
| `SessionOffload` | The owner thread's operations over whichever manager is configured; the properties. `MCOffload` is its instance. |
| `OffloadInvariants` | The inductive invariant `OffloadInv` of `SessionOffload`. |
| `StepEngine` | The engine as a front end sees it: which tokens a step emits for which request. |
| `FrontEnd` | Handler threads, session table, answers: what both servers share. |
| `RolloutServer`, `OpenAIServing`, `SloHarness` | The three users of the engine. |
| `Frontends` | The three together: a behaviour runs one of them. `Spec`, `FairSpec` and what they promise. `MCFrontends` is its instance. |
| `FrontendsInvariants`, `HarnessInvariants` | The inductive invariants of `Frontends`: `FrontInv` for the two servers, `RunInv` for the load loops. |
| `PagedRunner` | Packing, page metadata, graph capture and replay, pool release and rebuild, for three attention backends. |
| `WeightSync` | Sleep, wake-up, weight release and updates by name around the runner. Extends `PagedRunner`. |
| `DecodeAttention`, `Sampling`, `NgramDraft`, `RolloutLogprobs` | Pure algorithms as functions, beside their reference definitions. |
| `MCAlgorithms`, `MCRuntime` | Their inputs and properties; the instance of `WeightSync` with them. |
| `RuntimeInvariants` | The inductive invariant `RuntimeInv` of `WeightSync`: `RunnerInv` for the pages and captures, `SyncInv` for the weights. |
| `BlockManagerProofs` | Lemmas about the pool's operators: what each does to counts and privacy. |
| `EngineProofs`, `EngineKVProofs` | Proofs about `Engine`: lemmas that lift the pool's to requests and `IInv`, then the KV, then the refinement of `Turns`. |
| `DriverProofs`, `FrontendsProofs` | Proofs about `EngineDriver`; about the two servers and the load loops. |
| `OffloadProofs`, `OffloadKVProofs` | Proofs about `SessionOffload`: the pool and its sessions, the host stores, then every operation; what the pages hold; a pressure episode ends. |
| `RuntimeProofs` | Proofs about the runner and the weights around it. |

### How the state corresponds to the code

`pool.free`, `pool.ref`, `pool.cache` are `_free`, `_ref_count` and the prefix
cache; `epoch` is `BlockManager.epoch`; `kv` is the tensor of pages. `req[r]`
is the `Request` object of `r` with its fields under short names (`tokens` is
`token_ids`, `computed`, `sched`, `drafts`, `table`, `published`, `parent`,
`kvEpoch`). `waiting` and `running` are the deques; the `paused` dict is the
set of requests with status `"paused"`. `deferred`, `todo`, `batch`, `budget`
and `passes` are the local variables of `schedule()`, `pc` is where the owner
thread is, `raised` the error the last `schedule()` ended with. `registry` is
`_requests`.

| Action | Code |
|---|---|
| `AddRequest`, `ResumeRequest`, `FinishRequest`, `AbortGeneration` | the engine calls of the same name, with the scheduler and block-manager calls they make |
| `StartStep`, `ConsiderRunning`, `ConsiderWaiting`, `ReturnBatch`, `Preempt`, `GiveUp` | `step()` and the loop of `schedule()` |
| `RunLogits`, `VerifySpec` | `_run_spec_step` |
| `RunForward`, `Postprocess`, `Return` | `_run_normal_step`, `postprocess`, the end of `_step_impl` |
| `ForwardFails` | a forward raises; `step()` records a fatal device error |
| `UpdateWeights`, `Sleep`, `WakeUp`, `ResetPrefixCache` | `apply_named_weights` (whose copy may raise), `sleep_engine`, `wake_engine`, the adapter's `reset_prefix_cache` |

### The driver

`EngineDriver` is a specification of its own. It sees the engine as its callers
do: a request is live, paused with KV (`"held"`), paused without (`"cold"`) or
gone, and a step makes some live requests progress; that steps do so is what
`TurnsEnd` says of `Engine`. `thread[g]` is where the g-th driver thread is in
`_loop`; it holds `_cond` while it drains and admits, and every other critical
section is one action. `hand` is the local list of waiters that `_harvest` or
`_fail_everyone` has taken out of `_waiters`; `mail` holds the callbacks that
`call_soon_threadsafe` queued; `loop` says what blocks the event loop.

| Action | Code |
|---|---|
| `CheckStop`, `RunPending`, `Drained`, `ConsiderTurn`, `AdmissionsDone`, `WakeUp`, `Step`, `StepRaises` | `_loop`, `_begin` |
| `Harvest`, `HarvestRaises`, `Answer` | `_harvest` with `on_done` |
| `TakeAll`, `FailOne` | `_fail_everyone` |
| `RunTurn`, `Deliver`, `Retry`, `Resubmit`, `RetryTimesOut`, `Cancel` | `run_turn`, `resolve`, `SessionRollout._run`, a cancelled task |
| `Stop`, `Joined`, `JoinTimesOut`, `Operate` | `stop()` and the sleep, weight update or abort it is for |
| `CheckThread`, `CallDirectly`, `Post`, `CallTimesOut` | `finish_session` on a worker thread, through `run_on_engine` |

A request goes by the turn that last drove it. Which session a turn continues
is the constant `Parent` (the code compares token lists). Free blocks are a
number that steps, admissions and evictions change within the bounds the code
guarantees; freed blocks may stay in the prefix cache, so freeing never lowers
the number but need not raise it. `finish_session`'s effect is one atomic
change also when it races with the driver; that it can race at all is what
`driver_race` shows.

### CPU offload

`q[r]` is a session's request, `order` and `shown` are what `SessionCache` keeps
of it, `op` is where the owner thread is inside a pressure episode or a deferred
admission, with the locals it carries from step to step. `store` holds the
snapshots and open reservations with the counters the code keeps beside them;
`snapOf` is `_snapshots`, `group` `_group_reservations`, `pend` the
asynchronous copy in flight with the pages copied so far; `blocks`, `man` and
`lease` are the block manager's index, manifests and open group. `cfg` selects
the manager: the operators of `SessionOffload` dispatch on it as the methods do.

| Action | Code |
|---|---|
| `NewTurn`, `Admit`, `AdmitFails`, `AdmitRaises`, `AdmitRefused`, `RetryAdmission` | `SessionRollout._admit` with `begin_restore`, `commit_restore`, `rollback_restore` |
| `BeginStep`, `EarlyOffload`, `RunTurn`, `StepRaises` | `before_step`, `_early_offload`, the step and the parking after it |
| `EvictCached`, `OpenGroup`, `SaveNext`, `SaveFails`, `OffloadDone`, `DropOldest`, `DropDone` | `_evict_for_free_watermark`, `_offload_oldest_until_safe`, `reclaim_group` |
| `CopyChunk` | the CUDA stream of `SnapshotCopy`, beside everything the owner does |
| `FinishSession`, `AbortAll`, `InvalidateAll`, `OffloadRequest` | `finish_session`, `abort`, sleep and weight update, `Engine.offload_request` |

A turn is one step here: what happens inside it is `Engine`'s subject. Host
bytes are counted in KV blocks.

### Front ends

`StepEngine` keeps of the engine the order in which requests are served and the
tokens `last_emitted` has for each; a step always serves the head of the queue
and any others, emits up to `MaxEmit` tokens for each, and may raise having done
nothing or everything. `chat[c]` is a handler thread together with its
`_Waiter`. In `RolloutServer`, `loop` is where the engine thread is (it holds
the lock while it drains `_pending`), `waiters` is `_waiters`, and `adding` the
submission between the engine call and its registration. In `OpenAIServing`
each statement of `run_session` and `stream_request` that touches the engine is
a step, because there is no lock. In `SloHarness`, `at` is the place in the
loop, `ses`, `trace`, `traceOf` and `count` its sessions, traces, `rid_trace`
and counters; which arrivals are due and whether a predicted wait misses the
SLO are choices.

### Runner, weights and algorithms

A cached entry is `<<request, position, weights>>` and what a query reads is a
sequence of entries, so that a wrong page, a wrong length or an old entry is
visible. `Run` follows `PagedRunner.run`: it splits a step into decodes and the
rest, replays or captures a graph when all decodes may use one, and runs the
others eagerly. `graphs[n]` is a capture with the buffers it reads, `home` the
identity of the tensors it is bound to. `params` maps each fused parameter to
its rows, each labelled with the tensor row it came from and its version, or
`NaNRow`. The engine is the environment: any running requests in any order.

`DecodeAttention` computes with exact integers (base-2 exponentials at a fixed
scale), `Sampling` with integer weights; a uniform draw is one of n equal cells,
so that the law of a choice is a count of cells. An algorithm's input is an
initial state (`task`) and its property is an invariant of that state.

### Abstractions

- A hash is the token sequence it digests: blake2b has no collisions here.
- A KV cell is `<<weights, prefix>>`: what attention stored at a position is a
  function of the weights and of the tokens up to it. A freed or rebuilt page
  is `Junk`, so that no property rests on what an old page happens to hold.
- Which free block is taken, which cached copy is found and which unused
  copies are evicted are choices (the code takes the oldest).
- A sampled token, a draft and a verdict of the verifier are choices among the
  values the code can produce; log-probabilities are left out.
- The engine runs on one thread, so operations interleave with steps only
  between them. Session CPU offload is off in `Engine`; `SessionOffload` models
  it over the same block manager.
- `apply_named_weights(invalidate_kv=False)` is left out: its caller takes
  responsibility for the KV itself.
- A call that raises before it changes anything is a call not taken.

## Runs

Runs of the engine use `MCEngine`; blocks, requests and tokens are model
values, and symmetry over them is used in every run but `progress`. Runs of the
driver use `MCDriver`, without symmetry because turns continue each other.

| Run | Question | Properties |
|---|---|---|
| `spec` | Speculation with up to 2 drafts, shared prefixes, partly filled blocks, memory pressure, one weight update (no sleep, which `faults` has): 3 blocks of 2 tokens, 2 requests with prompts of 2 and 3. | `ProtocolInv` (`IInv` with `TypeOK` and `FreeExact` in it, `KVInv` and `TurnsInv`), `RefExact`, `WriteSpanPrivate`, `KVSound`, `CacheSound`, `PassesSuffice`, `TurnProtocol` |
| `faults` | Forwards and weight copies that raise, sleeps, and sessions that hold KV while they wait or think, without prefix caching: 4 blocks of 2 tokens, 2 requests. | `EngineInv` (which implies `KVSound`), `HeldTablesResumable`, `QueuesExact`, `GiveUpNamesAnother` |
| `progress` | Three requests that do not fit together: does every turn end? | `TurnsEnd` |
| `driver_faults` | Three turns and a `finish_session` call against steps and admissions that raise, cancelled callers, retries and a stop that may time out, for a sleep, a weight update or an abort. | `DriverInv` (with `DriverTypeOK` in it), `OperationsExclusive`, `TurnsTracked`, `ResultsAreRetired`, `HeldKVIsOwned` |
| `driver_live` | With the CPU tier on: deferred admissions, full pools, steps that fail, blocking retries and a stop that may time out. Is every turn answered, but for the two situations the property names? | `TurnsAnswered` |
| `offload` | Two sessions over 3 blocks of 2 tokens and a host budget of 2 blocks: does KV survive the host, whatever fails, with plain restores, mixed restores and the block tier? | `CountsExact`, `ResidentKVSound`, `CopiesSound`, `HostCopiesSound`, `CopySourceHeld`, `HostAccountsExact`, `EpisodeAdvances` |
| `frontends` | Two chats and a reset on one session key against failing steps and additions and time-outs; three harness sessions of up to two turns. Is every answer whole and does everybody get one? | `AnswersExact`, `NoChatLost`, `ServeRunExact`, `SlotsKept`, `ChatsAnswered`, `HarnessEnds` |
| `runtime` | Do batches, page metadata and captured graphs keep requests apart while pools and weights come and go, and are the algorithms what their definitions say? | `ReadsOwnContext`, `SampledFromOwnRow`, `RowsExact`, `NoUnwrittenRead`, `DecodeExact`, `SamplerExact`, `SpecExact`, `NgramExact`, `LogprobsPlaced` |

Four more runs show where the code disagrees with what its documentation says;
TLC finds the violation (see `findings` in `PROJECT.json`):

| Run | What happens |
|---|---|
| `stale_parent` | A weight copy fails; a running request recomputes from token 0 and publishes block 0 under a hash chained to its old `prefix_parent`. |
| `driver_race` | `run_on_engine` finds no thread; before it calls `fn()` a turn starts one, and two threads use the engine. |
| `offload_early` | With the block-granular manager and early saves on, the inherited `early_save` calls a store with another interface: the step raises `TypeError` and every active turn is failed. |
| `serving_race` | Two handler threads of the OpenAI server each step the engine; each drops the tokens emitted for the other's request, whose answer is cut short. |

### Known limits the models show

These are no runs of their own. The property to check and the change of
constants that shows each of them are given here.

- *Drafts of a failed verification* (`request.py:121`): `TurnProtocol` in
  `faults` with `PrefixCaching = TRUE`, `NumSpec = 1`, `MaxTokens = {2}`.
  The forward fails, the sessions are parked: `reset_kv_state` zeroes
  `spec_draft_len` and leaves the drafts in `token_ids`, so the parked session
  resumes with tokens nobody sampled.
- *A handle without a thread* (`driver.py:123`, `HandleDead`): `stop()` times
  out, the thread ends later, its handle stays, and the next turn is queued for
  a dead thread. `TurnsAnswered` names this exception, and `driver_live`
  reaches it.
- *A starved deferral* (`driver.py:279`, `Starved`): a restore is deferred on
  an idle engine, the turn behind it fails without advancing
  `_completion_generation`, and the memo of the deferral stays valid for ever.
  This is the other exception `TurnsAnswered` names; `driver_live` reaches it
  with its fourth turn.
- *Two holders of one block* (`scheduler.py:59`): two resumed sessions wait with
  their tables, neither can get the last block, nothing runs, and `schedule()`
  raises although no session is paused and each request fits. `faults` reaches
  it. `GiveUpNamesAnother` says what is left: it is never a request's own KV, or
  a running one's, that is in its way.
- *Repeated wake-up*: `KVSound` in `spec` with `WakeWhenAwake = TRUE`:
  `wake_up` while awake replaces the pages under live tables.
- *Finished, then paused*: `FinishedIsFinal` in `faults` with `NumSpec = 1`:
  a request finishes in the speculative half of a step
  whose other half fails; the next park makes it a paused session.
- *Unowned KV after a failed copy*: `HeldKVIsOwned` in `driver_faults` with
  `UpdateMayFail = TRUE`: the request of the interrupted turn runs on, pauses
  and keeps KV that no session owns.
- *A stranded call*: `CallsNotStranded` in `driver_faults`: `stop()` fails
  waiters and admissions but not `_pending`; a call posted while the driver
  stops waits 600 s although the driver is down.
- *Stale block counts* (`session.py:44`): `ParkedBlocksKnown` in `offload`: an
  asynchronous save empties a table that the session cache still counts until
  the copy is settled through it. `EpisodeAdvances` shows that eviction copes.
- *Resets beside the engine thread* (`codescout_openai_server.py:307`): a reset
  that sees no engine thread runs on its handler while a chat starts one,
  against line 310 ("Scheduler mutations run on the engine thread, never
  concurrent with step()"). The ghost `raced` marks these behaviours; the
  properties of `frontends` claim nothing after one.
- *Orphans*: after a step that raised, and when a second chat of a session
  replaces the request of a running one, the earlier request stays in the
  engine and runs on with nobody waiting.
- *Harness*: the closed-batch and sequential loops never end if the engine
  already holds paused sessions when they start; a session refused between its
  turns by a custom policy keeps its KV; `max_active = 0` ends a run at once
  without a word. A custom policy that refuses the next turn of every active
  session while nothing runs ends `run_sessions` (the last `break` of its loop,
  `slo_harness.py:690`) with sessions never started: `ServeRunExact` in
  `frontends` with `Policies = {"any"}`, `MaxActive = 1`, `TurnsOf = <<2, 1>>`.
- *Weights*: `run_logits` does not call `assert_weights_usable`. It is safe only
  because a release costs every request its KV, so that a scanning `run()`
  comes first. `offload_weights` while awake would leave captured graphs on
  freed tensors; the adapter does it asleep only.
- *A draft of probability zero*: `verify_sampled` accepts when
  `q >= uniform`. `torch.rand` can return exactly 0.0 (once in 2^24), and then
  a draft the target distribution excludes is accepted. Uniform draws are cells
  of a continuous draw here, so this value is outside the model.
- *Re-tokenised turns* (`logprobs.py:67`): "a single re-tokenized turn should
  cost only its own positions" does not hold: such a turn can bind to a later
  copy of its tokens and push the cursor past the turns between, and text that
  echoes a completion before its place takes its logprobs. `LogprobsPlaced`
  says when neither happens, and that then, and only then, all logprobs lie
  where they were sampled; and that re-tokenised turns whose tokens are nowhere
  in the response leave all the others laid.
- *Records of refused answers* (`inference_engine.py`, `_append_logprob_sidecar`):
  a record with a NaN is written before the answer is refused, and an identical
  later completion is paired with it. `LogprobsPlaced` says that a served turn
  is paired with its own record if and only if no such record came before it.
  Identical completions of different trajectories are outside the model.

### Bounds, and why they are enough

Two requests are enough for sharing, for preemption of one by the other, and
for a block to be handed from one to the other; three are needed to see a
preempted request compete with two (`progress`). Three or four blocks make the
pool run out in every run. Block size 2 has the boundary cases: full and
partial blocks, prompts that end on a boundary and past it; `faults`
has a prompt of two full blocks, so that failures meet them in short behaviours.
Two tokens make prefixes that match and prefixes that diverge. `MaxWeights` and
`MaxEpoch` bound the number of weight updates and pool resets; one of each is
enough to meet stale state, since a second reset meets only state the first
one already left. The proofs below need none of these bounds.

For the driver, three turns make one wait, one run and one be retired at the
same time, and a continuation compete with a stranger; `driver_live` has
four, two conversations of two, for a restore that was deferred after
reclaiming and a turn behind it that fails. One stop gives two driver threads,
the least with which two owners can meet. `MaxSteps` 2 in `driver_faults`
leaves a turn live when the stop comes.

For offload, two sessions of up to 5 tokens need 6 blocks of a pool of 3, so
that every turn meets pressure; the host holds 2 blocks, so that a snapshot
evicts another and a group does not fit whole. The early threshold is 2 of 3
blocks: the code's cap of one half would round to 1 in so small a pool, where
early saves and eviction would start together. The free-block watermark is 1.

For the front ends, two chats on one key are a continuation and its rival;
three requests are one each and one replacement; turns of 1 and 2 tokens with
up to 2 a step end at a step's first, last or clipped token. Time-outs are
allowed in one server (`impatient`), resets in two. Three harness sessions, one
of them with a single turn, contend for two places and an occupancy of one.

For the runner, two requests share a forward and a third waits; five tokens are
three pages of two. `WarmRuns` is 1 (2 in the code): capture comes one run
earlier. Weight instances have three sleeps, updates or releases in any order,
with update calls cut short at every name. Decodes have up to 5 tokens over
three pages in every order and 1 to 4 splits of tiles of 2; vocabularies have 3
tokens with ties, masks and every filter; n-gram histories up to 6 tokens over
two values; logprob placement three completions and responses up to 5 tokens.
`FewCells` keeps the rows whose weights sum to 16 cells or fewer.

### Fairness

`FairSpec` assumes weak fairness of `Step` and of nothing else: whoever drives
the engine (`stream_request`, `generate`, the driver loop) calls `step()` again
as long as a request waits or runs. Clients need not submit, resume or finish
anything, and forwards that always fail are excluded from `progress`.

`EngineDriver!FairSpec` assumes weak fairness of the driver thread and strong
fairness of the event loop's own steps, strong because some of them need
`_cond`, which the idle driver releases for `idle_poll_s` in every round but
does not leave free for good. Callers need not submit or cancel anything,
nobody has to call `stop()`, and no timeout has to expire.

`Frontends!FairSpec` assumes weak fairness of the engine thread (its loop never
exits and its wait on the condition is bounded by 50 ms), of the single thread
of the harness, and of every handler thread that can go on. Callers need not
come, reset or time out.

The offload model has no fairness: that an episode ends is the action property
`EpisodeAdvances`, a measure that every step of the owner lowers, proved below.

## Proofs

All proofs are for every finite set of requests and blocks, every vocabulary,
block size and limit, with prefix caching and speculation on or off, and for
every number of turns, driver threads, stops and sessions, of chats, session
keys and resets, of pages, captures, sleeps and weight updates, of host budgets,
copies and snapshots. The assumptions are
the named `ASSUME`s of the modules: finite nonempty `Blocks`, finite `Requests`,
positive `BlockSize` and limits, inputs that are token lists of positive length.
A theorem that needs more says so in its statement.

| Theorem | Statement | Hypothesis |
|---|---|---|
| `Invariance` | `Spec => []IInv` | |
| `TypeCorrect` | `Spec => []TypeOK` | |
| `ReferenceCountsExact` | `Spec => []RefExact` | |
| `FreeListExact` | `Spec => []FreeExact` | |
| `WritesArePrivate` | `Spec => []WriteSpanPrivate` | |
| `PassesAlwaysSuffice` | `Spec => []PassesSuffice` | |
| `HeldTablesAreResumable` | `Spec => []HeldTablesResumable` | |
| `QueuesAreExact` | `Spec => []QueuesExact` | |
| `EngineInvariance` | `Spec => []EngineInv` | `OrderlyResets` |
| `KVIsSound` | `Spec => []KVSound` | `OrderlyResets` |
| `CacheIsSound` | `Spec => []CacheSound` | `OrderlyResets` |
| `EngineImplementsTurns` | `Spec => TurnProtocol` | `NoDraftsToLose` |
| `ProtocolInvariance` | `Spec => []ProtocolInv` | `NoDraftsToLose`, `OrderlyResets` |
| `DriverInvariant` | `Spec => []DriverInv` | |
| `OperationsAreExclusive` | `Spec => []OperationsExclusive` | |
| `TurnsAreTracked` | `Spec => []TurnsTracked` | |
| `ResultsAreAllRetired` | `Spec => []ResultsAreRetired` | |
| `HeldKVIsAllOwned` | `Spec => []HeldKVIsOwned` | `~UpdateMayFail` |
| `OffloadInvariance` | `OffloadSpec => []OffloadInv` | |
| `OffloadCountsExact` | `OffloadSpec => []CountsExact` | |
| `OffloadAccountsExact` | `OffloadSpec => []HostAccountsExact` | |
| `ContentInvariance` | `OffloadSpec => [](OffloadInv /\ ContentInv)` | |
| `OffloadResidentSound` | `OffloadSpec => []ResidentKVSound` | |
| `OffloadCopiesSound` | `OffloadSpec => []CopiesSound` | |
| `OffloadCopySourceHeld` | `OffloadSpec => []CopySourceHeld` | |
| `OffloadHostCopiesSound` | `OffloadSpec => []HostCopiesSound` | |
| `OffloadEpisodeAdvances` | `OffloadSpec => EpisodeAdvances` | |
| `FrontInvariant` | `Spec => []FrontInv` | |
| `NoChatIsLost` | `Spec => []NoChatLost` | |
| `AnswersAreExact` | `Spec => []AnswersExact` | `OneAtATime` |
| `RunInvariant` | `Spec => []RunInv` | |
| `SlotsAreKept` | `Spec => []SlotsKept` | |
| `ServeRunIsExact` | `Spec => []ServeRunExact` | `EverySessionStarts` |
| `RuntimeInvariance` | `RuntimeSpec => []RuntimeInv` | |
| `OwnContextRead` | `RuntimeSpec => []ReadsOwnContext` | |
| `OwnRowSampled` | `RuntimeSpec => []SampledFromOwnRow` | |
| `FusedRowsExact` | `RuntimeSpec => []RowsExact` | |
| `UnwrittenNeverRead` | `RuntimeSpec => []NoUnwrittenRead` | |

### Counts, privacy and queues (`EngineProofs`)

None of these properties is inductive by itself. A truncation keeps counts exact
only if the table is really the request's, a resume keeps a table current only if
it was current while paused, and an allocation is private only if the blocks
beyond the computed tokens were. `IInv` therefore adds to the properties: when
a request may carry drafts (`RequestsOK`), what a batch in progress looks like
and that a pass that preempts is never the last (`StepOK`), that queues and
statuses agree in the middle of a step too (`QueuesOK`), and that every table
slot beyond the full computed blocks has exactly one reference (`Private`).

The argument has three layers. `BlockManagerProofs` shows that each pool
operation keeps the counts exact for a family of tables (cardinality arguments
about slots and cached copies). The first part of `EngineProofs` lifts this to requests:
`Sound(P, R)` says that pool `P` is exact and private for requests `R`, and each
operation is shown to preserve it. The second part has one lemma per action of
`Next`. One consequence is worth naming: `NothingShared` shows that
`_cow_if_shared` never finds a shared block, so copy-on-write is a safety net
the scheduler never uses.

### The KV (`EngineKVProofs`)

`KVSound` speaks of the moments between steps. To be kept by a step it has to
hold inside one, where tokens are scheduled, written and not yet counted.
`KVInv` has five parts:

- `Content`: a live request has the KV of its computed tokens (`Computes`), the
  blocks it published are among them and its next hash continues theirs
  (`Chained`), and every cached copy holds what its hash digests (`Backed`).
  The hash is what a later request trusts, so a broken chain today is wrong KV
  tomorrow: publishing keeps `Backed` only from `Chained`;
- `BatchPlaced`: the tokens scheduled for a request exist and its table has
  slots for them, so that a forward writes where the request will look;
- `TodoOK`: a running request is considered once in a pass, so that nothing is
  scheduled twice;
- `WrittenOK`: what a forward wrote stays until it is verified or committed;
- `AsleepOK`: a sleeping engine has no tables, no cached copies and nothing to
  do, so that the new pages of a wake-up are nobody's.

The central lemma is `WrittenCells`: when the requests of a batch write their
scheduled tokens, a slot changes only if it belongs to the span that its own
request was scheduled, because the blocks of a span are referenced once
(`Private`) and no cached copy is among them. Everything else follows from
arithmetic on positions (`PositionSplit`) and from `Computes` of a prefix.

`OrderlyResets` excludes two behaviours with which `KVSound` or `CacheSound` is
false, both shown by TLC: a `wake_up` of an engine that is awake ("Repeated
wake-up" above), and a weight copy that raises while prefix caching is on (run
`stale_parent`). A copy that raises without prefix caching is inside the
theorem, and `faults` checks it.

### The turn protocol (`EngineKVProofs`)

`Turns` knows for each request a phase, a history and the number of tokens its
turn may still emit. The mapping takes the tokens without the drafts a request
carries as its history. Each action of `Engine` is shown to be a step of `Turns`
or to leave phase, history and quota alone: scheduling, preemption, giving up and
forwards stutter; a verified or committed request emits, or commits a prompt's
chunk and stutters; updates and sleeps park all open requests; the end of a step
drops the finished ones.

`TurnsInv` is what that needs beside `IInv`: a request that has not begun has no
tokens; an open one may emit at least one more; drafts and finished requests
occur only in the batch of the step in progress. The last is what a failing
forward breaks when drafts are on: the step ends with the drafts still in
`token_ids`, and the next reset turns them into history ("Drafts of a failed
verification" above). `NoDraftsToLose` says that forwards do not fail or that
nothing is drafted; in both cases updates, sleeps and aborts are free to fail.

`ProtocolInvariance` puts the three inductive invariants together: `ProtocolInv`
is what `spec` checks in every state, with counts, KV and histories in it, and it
holds of every engine that meets the two hypotheses.

### The driver (`DriverProofs`)

`DriverInv` has one part per question:

- `ThreadsOK`: threads are born one after the other, each only after a stop that
  let the last one end, only the thread of the handle is alive, and only it
  holds waiters or admits. `OperationsExclusive` follows;
- `PlacesOK`: a turn is in at most one of `_admissions`, `_waiters`, a driver
  thread's hands and the mail, once, and in none before it is submitted or after
  its answer. With it `TurnsTracked` is inductive: a turn put in two places would
  be answered twice, and one in none never;
- `SessionsOK`: a live request has steps left and belongs to no session, so that
  parking and eviction never touch what runs;
- `RetiredOK`: a result, on its way too, is of a turn out of the ledger whose
  request does not run, and whatever is to be retired is in the ledger;
- `OwnedOK`: every live request is waited for, except between a stop that failed
  it and the operation the stop was for; hence KV that a stopped request holds
  is a session's or about to be. A weight copy that raises breaks exactly this
  ("Unowned KV after a failed copy" above), so `OwnedOK` and the theorem assume
  `~UpdateMayFail`.

### Session offload (`OffloadProofs`, `OffloadKVProofs`)

A step of the owner thread calls several operations of the manager, and each of
those may wait for the copy in flight first, evict, or fail half-way. The
invariant therefore speaks of a value `Z` like `State`, so that it can be followed
from call to call inside a step: `Good(Z, hold)` is `Seated(Z)` and, as the manager
is, `Snapped(Z, hold)` or `Blocked(Z, hold)`. `OffloadInv` adds the owner thread's
own variables. Its parts:

- `Seats`: counts are exact for the tables and the cache (`Counted`), a table is
  exactly as long as what is computed needs, somebody on the host has no table and
  somebody gone has nothing (`Placed`), and without a prefix cache no block is
  shared. A mixed restore that pins cached blocks and then fails has to take
  exactly those pins back; `UnpinSeats` is that argument;
- `Books`: the store's ids are distinct, its counters are the sums over what it
  holds, and what a failed admission still refers to is a snapshot or gone for
  good (`HoldOK`). The last is needed because a Python reference keeps a deleted
  snapshot's buffer alive, and `owned` still counts it;
- `Linked`: a snapshot is its session's and has its tokens, and a session is on
  the host exactly if it has one. `Settling`: bytes come back to the books only for
  a session that was restored and has not run since;
- `Reserved`, `GroupHeld`, `SourceHeld`: reservations are the open group's and the
  copy's, and what both describe has not changed since. A pending save committed
  after its session ran again breaks this before it breaks a count;
- `Manifests`, `LeaseHeld`: the same of the block manager, whose manifests outlive
  a restore;
- `Queued`, `OpOK`, `GroupOK`: candidates and groups are parked sessions, each
  once, from the moment they are chosen to the step that reaches them. A member
  reached after it was resumed would be saved while it runs.

There is one lemma per operation of each manager (`SettleGood`, `CommitSaved`,
`ReserveOne`'s, ...), stated for a step from any `Z` that is `Good`, and one per
action of the owner thread that puts them together. The pool's part rests on the
same lemmas of `BlockManagerProofs` as the engine's. The byte counts are sums over
sets (`Total`), defined by cardinality so that adding and removing a member is a
lemma (`TotalParts`) and not an induction.

What the pages hold is `ContentInv`, the second half of the inductive invariant,
proved in `OffloadKVProofs` on top of the first. It says of a `Z` like `State` that
it is `Honest`:

- `Resident`: every page of a table holds the KV of its owner's tokens as far as
  they are computed (`Owed`), every cached block what its hash promises
  (`Promise`), and the hash a request continues from is that of the blocks it has
  published (`Chained`). Without `Chained` a session that comes back from the host
  and runs on would publish its next block under a hash of another history;
- `OnHost`: every snapshot holds exactly its history and nothing past it, and the
  copy in flight is right as far as it has got. A copy is made in chunks while
  turns run; it stays right because its session stays parked (`SourceHeld`) and
  every write of another request goes to a block of its own (`RunUntouched`);
- `InBlocks`: every written host block holds what its key promises, the private
  tails of the live manifests and of the manifests of an open lease included;
- `Shelf`: the block store's own books. A block is half written or pinned only
  under the open lease, a tail belongs to a live manifest, and a member of the
  group that is already on the host has every block of its manifest written. The
  properties say this only outside an operation, where there is no lease; the
  invariant has to say what holds while one is open, since each save of a group may
  fail with the rest of the group still to be released.

All but `Shelf` is conditional on `~stale`: what the `stale_parent` run shows
wrong (a request that lost its KV and kept its `prefix_parent`) makes the cache
promise KV it does not have. The invariant says in addition that as long as
`stale` is not set no request is in that state, so the theorems hold of every
behaviour up to the first such request, and of all of them without the prefix
cache.

`OffloadEpisodeAdvances` is an action property and rests on the same invariant and
on `BlocksKnown`: no parked session that holds blocks has the count 0 in the session
cache. (The count itself may be stale, as `ParkedBlocksKnown` shows; what eviction
needs is that it is never 0 too early.) Then an eviction that finds nothing to drop
really has dropped everything. The measure `Work` is lexicographic, written as one
number: the stages the operation still has to go through, then the candidates,
the members of the open group and the sessions to drop. `StageWeight` exceeds what
one stage may look at (`LowerStage`); within a stage, every step takes candidates
(`GroupLeaves`), a member of the group, or the count of a session that had one
(`FewerShown`), also when a save, a reservation or the wait for a copy fails.

The assumptions are those of `Residency` and `BlockManager`: finite sessions and
blocks, nonempty prompts, a positive block size. There is no hypothesis about
failures: every copy, save and restore may fail wherever the code lets it.

### The front ends (`FrontendsProofs`)

A chat answered in two pieces, or twice in one, passes every test that looks at
one step. `FrontInv` says what is owed between steps:

- `Orderly`: ids are given out in order and the queue has exactly the active
  requests, so that a new request is nobody's and a step serves only those;
- `Owed`: the tokens a waiting chat has are those its request has emitted in
  this turn, one after the other, and what the request has left is the rest of
  the turn. After a step and before the harvest, what the step emitted is owed
  on top. A token handed out twice, or before the waiter was registered, breaks
  it here, long before an answer is wrong;
- `WaitersOK`: a registered waiter waits for its own request, which is active
  outside a harvest; `PendingOK`: a submission is queued once and neither
  registered nor answered while it is; with both, `Awaited`: whoever waits is
  queued, being registered or registered. `NoChatLost` is this and `Owed`'s
  request put together;
- `HandlerOK`: an event that is set without an error and without a reset comes
  with the whole turn; `OffOK`: before there is an engine thread there is
  nothing to race with;
- `Streams`: in the OpenAI server, a handler between `step()` and its `yield` has
  everything but the tokens of that step.

There is one lemma per action of each server. The facts they share are about
the engine: `StepFacts` and its like say that a step, failed half-way or not,
moves tokens from what a request has left to what it has emitted (`Served`),
and leaves everybody else alone. The engine's queue is filtered by a recursive
function (`Kept`): `InductionOnNaturals` is an induction principle about a set
instead of an operator, which the installed provers can use, and `KeptFacts`
follows from it.

`OneAtATime` says that `OpenAIServer` has one request in flight at a time. Its
handlers step the engine without a lock, and with two of them each drops the
tokens of the other's request (run `serving_race`), so without it the theorem
is false. `RolloutServer` needs no such hypothesis. Neither theorem says
anything once a reset has run beside the engine thread (`raced`).

### The load loops (`FrontendsProofs`)

`ServeRunExact` says of the middle of a run only that its counts add up, and
that the one turn they may miss is one whose start raised and ended the run
(`slo_harness.py:606` counts it before `add_request` or `resume_request` can
raise). What every trace holds it says of the end.
`RunInv` is what makes it so:

- `SessionsOK`: a session that has begun and is not over has a request of its
  own, paused while it thinks, active otherwise, and held exactly as long as
  turns are to come; every active request is some session's. Requests that
  nobody has any more (`Orphans`) are as many as turns refused between two turns;
- `TracesOK`: a trace is the current one of one request, and then `Owed` its
  tokens as a chat is, or it has the tokens of its whole turn. A resume that
  kept the first turn's trace registered would break it at once;
- `SlotsOK`, `CountsAdd`: the two properties themselves, kept by a turn start
  because a resumed turn brings no new request;
- `ComesOn`: whatever is left to start waits for a session that is served or
  thinks, so that an idle loop may leave.

`ComesOn` is why `ServeRunIsExact` has a hypothesis. A policy that refuses what
it likes (`"any"`) can give up every session that is in flight after the loop
has looked for new ones, and the loop then finds nothing to sleep for and ends
with sessions it never started ("Known limits" above). `EverySessionStarts`
says that there is no such policy or that all sessions may be in flight at once.
The policies of the code need no hypothesis: they never refuse a resumed turn.
The hypothesis is sufficient, not necessary: `frontends` has such a policy and
room for two of its three sessions, but one of the first two has a single turn
and cannot be refused between turns, so the property holds there too.

### The runner and the weights (`RuntimeProofs`)

`misread` collects, in every forward, the queries that read something else than
their own request's context. That it stays empty is decided long before the
forward: by the tables the scheduler grew, by what earlier steps stored, by when
a graph was captured and by what the last wake-up left on the pages. `RuntimeInv`
has two halves. `RunnerInv` is about pages:

- `TablesFit`, `TablesApart`: a table has the pages of what is computed and no
  more, no page twice and none of another request's, so that a store touches the
  storing request's entries only. The last page may be partly filled; the next
  store goes on there, which is why the size has to be exact;
- `Resident`: the pages of a table hold the first `computed` entries of its
  request, of the current weights. It speaks of a pool that is there;
- `Bound`: a capture is bound to the tensors that are there. A replay on a
  released pool would otherwise pass every test that looks at one step;
- `NothingAsleep`: without a pool nothing is computed and nothing captured, so
  that the pages of the next wake-up are nobody's;
- `FewLive`: no more requests than a capture has rows for.

`SyncInv` is about weights: rows are where the loaded model has them (`Laid`) and
from the version last delivered (`RowsFrom`); weights that are away leave no pool
behind (`AwayAsleep`); rows nobody wrote are there only while the weights are
unverified, and then nothing is computed (`Written`, `ColdUnverified`).
`UnwrittenNeverRead` rests on the last: `run_logits` does not scan, but it needs
a request with KV, and the first KV after a release comes from a `run` that does.

The argument follows the code. Packing is shown to keep the rows of a sequence
together and in order (`RaggedFacts`, by induction on the number of sequences), so
that a packed row's slot and entry are of one request and position; a store then
makes `Resident` true of the grown tables (`PackedAppend`). Each backend reads
through something else: the block table and a length (pytorch), page indices with a
last-page length (flashinfer), the rows of a capture's buffers (triton and replayed
flashinfer), and for each it is shown that this comes to the first positions of the
request's own table (`EagerContextOwn`, `ReplayDone`). A skipped plan is where this
is delicate: `PlanSame` asks for the pages of the context, which equal signatures
give, and for the length of the last page, which is not in a signature but filled in
for every replay. A split step puts its samples together by request (`InBatchOrder`), and
an eager one selects rows by a mask (`Selected`); both are shown to be the row of
the request's last token.

The assumptions are `RunnerAssumption` (sizes are positive, prompts have a token,
the three backends, no more sequences than captures), `MarkersAssumption` (the
markers for "no pool" and "no token" are neither pools nor entries) and
`SyncAssumption` (an update names tensors the model has).

### Only model-checked

`GiveUpNamesAnother`: it is a statement about all the passes of a step at once.
The liveness properties `TurnsEnd`, `TurnsAnswered`, `ChatsAnswered` and
`HarnessEnds`, because liveness under fairness is out of reach of the prover.
The algorithms (`DecodeExact`, `SamplerExact`, `SpecExact`, `NgramExact`,
`LogprobsPlaced`) recurse over data through folds, and what a recursive
definition computes for every input cannot be proved with the installed provers.

## Plan

1. *Done*: block manager, scheduler, engine, lifecycle; turn protocol; proofs
   of the invariant; driver, event loop and workers.
2. *Done*: session CPU offload with both stores; the rollout server, the OpenAI
   server and the SLO harness; the paged runner with captured graphs; weight
   updates; decode kernels, sampling, verification, n-gram proposal and logprob
   placement.
3. *Done*: proofs of the engine's invariants, of its KV, of the turn protocol,
   of the driver, of both servers, of the load loops, of the runner and of
   weight updates, of the counts and the books of session offload, of what the
   pages and the host copies hold, and of the measure of a pressure episode.
4. Session matching by token content against a reference definition, the
   ordered prefix cache as a refinement of the set, the capacity search of the
   harness.

## Not modelled

Tensor numerics beyond attention and sampling (layers, rotary embedding,
normalisation, rounding), weight file I/O, memory sizing, HTTP and chat
formatting, detokenisation, Ray and IPC plumbing, statistics and reports,
benchmarks, experiment scripts and plots: straight-line code or data movement
without the kind of state this method checks. Finish reasons and stop strings
are data that no property here tells apart. The error of a step whose runner
returned a token without scoring it (`engine.py:332`) guards against a runner
that is not this one. `PagedRunner` verifies one request at a time, where
`run_logits` packs all speculative requests of a step.
