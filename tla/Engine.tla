------------------------------- MODULE Engine -------------------------------
(***************************************************************************)
(* The engine of engine/engine.py with the lifecycle of                    *)
(* rollout/lifecycle.py: it admits, resumes, finishes and aborts requests, *)
(* runs steps (schedule, forward, verify or sample, commit), drops all KV  *)
(* on a weight update or a sleep, and wakes up again.                      *)
(*                                                                         *)
(* One thread owns the engine, so an operation runs only while no step is  *)
(* in progress (pc = "idle"), but in any order and at any time between     *)
(* steps.  CPU offload of sessions is off (session_cpu_offload = "off").   *)
(* A call that raises before it changes anything is a call not taken.      *)
(***************************************************************************)
EXTENDS Scheduler

CONSTANTS PromptLengths,   \* lengths of the prompts of new requests
          SuffixLengths,   \* lengths of the suffixes a held request resumes with
          MaxTokens,       \* values of max_tokens
          Holds,           \* values of hold_kv
          MaxWeights,      \* bound: weight updates
          MaxEpoch,        \* bound: pool resets
          ForwardMayFail,  \* may a forward raise?
          UpdateMayFail,   \* may a weight copy raise?
          WakeWhenAwake    \* may wake_up be called while awake?

ASSUME InputsAssumption ==
  /\ PromptLengths \subseteq Nat \ {0}
  /\ SuffixLengths \subseteq Nat \ {0}
  /\ MaxTokens \subseteq Nat \ {0}
  /\ Holds \subseteq BOOLEAN
ASSUME BoundsAssumption == MaxWeights \in Nat /\ MaxEpoch \in Nat
ASSUME FaultsAssumption ==
  /\ ForwardMayFail \in BOOLEAN
  /\ UpdateMayFail \in BOOLEAN
  /\ WakeWhenAwake \in BOOLEAN

VARIABLES registry,  \* the requests in engine._requests
          weights,   \* version of the weights on the device
          asleep,
          fatal      \* _fatal_error is set

vars == <<poolVars, schedVars, registry, weights, asleep, fatal>>
engineVars == <<registry, weights, asleep, fatal>>

TokenLists(lengths) == UNION {[1..k -> Tokens] : k \in lengths}
Fits(n) == BlocksNeededFor(n) <= Cardinality(Blocks)
Members(s) == {s[i] : i \in DOMAIN s}

Init ==
  /\ pool = EmptyPool
  /\ epoch = 0
  /\ kv = [b \in Blocks |-> JunkPage]
  /\ req = [r \in Requests |-> NoRequest]
  /\ waiting = << >> /\ running = << >> /\ deferred = << >> /\ todo = << >> /\ batch = << >>
  /\ budget = 0 /\ passes = 0
  /\ pc = "idle" /\ raised = "no"
  /\ registry = {}
  /\ weights = 0
  /\ asleep = FALSE /\ fatal = FALSE

(***************************************************************************)
(* Requests enter, continue and leave.                                     *)
(***************************************************************************)
\* add_request: the scheduler queues the request, then its cached prefix is
\* attached while it waits.
AddRequest(r, p, m, h) ==
  /\ pc = "idle" /\ ~fatal /\ ~asleep
  /\ req[r].status = "absent"
  /\ Fits(Len(p) + m)
  /\ LET q == [NoRequest EXCEPT !.status = "waiting", !.tokens = p, !.nPrompt = Len(p),
                                !.maxNew = m, !.hold = h]
     IN \E a \in IF PrefixCaching THEN Attachments(pool, q) ELSE {<< >>} :
          /\ pool' = AttachPool(pool, a)
          /\ req' = [req EXCEPT ![r] = Attached(q, a)]
  /\ waiting' = Append(waiting, r)
  /\ registry' = registry \union {r}
  /\ UNCHANGED <<epoch, kv, running, stepVars, weights, asleep, fatal>>

\* resume_request refuses a table that survived an invalidation.
StaleTable(q) == q.table # << >> /\ (q.kvEpoch # epoch \/ q.computed = 0)
ResumeRequest(r, s, m, h) ==
  /\ pc = "idle" /\ ~fatal /\ ~asleep
  /\ r \in registry /\ req[r].status = "paused"
  /\ ~StaleTable(req[r])
  /\ Fits(Len(req[r].tokens) + Len(s) + m)
  /\ req' = [req EXCEPT ![r] = [req[r] EXCEPT !.status = "waiting", !.tokens = @ \o s,
                                              !.nPrompt = Len(req[r].tokens) + Len(s),
                                              !.maxNew = m, !.hold = h]]
  /\ waiting' = Append(waiting, r)
  /\ UNCHANGED <<poolVars, running, stepVars, engineVars>>

\* A request nothing refers to any more.
Gone == [NoRequest EXCEPT !.status = "gone"]

\* release() of every request in S, which leaves the registry.
Release(S) ==
  /\ pool' = DeallocateAll(pool, [r \in S |-> req[r].table])
  /\ kv' = Scrub(kv, pool'.free)
  /\ req' = [r \in Requests |-> IF r \in S THEN Gone ELSE req[r]]
  /\ registry' = registry \ S

FinishRequest(r) ==
  /\ pc = "idle"
  /\ r \in registry
  /\ Release({r})
  /\ waiting' = Without(waiting, r)
  /\ running' = Without(running, r)
  /\ UNCHANGED <<epoch, stepVars, weights, asleep, fatal>>

AbortGeneration ==
  /\ pc = "idle"
  /\ waiting \o running # << >>
  /\ Release(Members(waiting) \union Members(running))
  /\ waiting' = << >>
  /\ running' = << >>
  /\ UNCHANGED <<epoch, stepVars, weights, asleep, fatal>>

(***************************************************************************)
(* A step: schedule, then run the speculative and the other requests.      *)
(***************************************************************************)
StartStep ==
  /\ pc = "idle" /\ ~fatal
  /\ waiting \o running # << >>
  /\ StartSchedule
  /\ UNCHANGED engineVars

\* The pages k after a forward over the scheduled tokens of the requests S:
\* the runner stores each position's key and value through the slot mapping.
Span(q) == q.computed + 1 .. q.computed + q.sched
WritesTo(r, b, o) ==
  {p \in Span(req[r]) : req[r].table[BlockIndex(p)] = b /\ Offset(p) = o}
Written(k, S) ==
  [b \in Blocks |-> [o \in Offsets |->
     LET W == {r \in S : WritesTo(r, b, o) # {}}
     IN  IF W = {} THEN k[b][o]
         ELSE LET r == CHOOSE r \in W : TRUE
              IN  <<weights, SubSeq(req[r].tokens, 1, CHOOSE p \in WritesTo(r, b, o) : TRUE)>>]]

Forward(positions, next) ==
  /\ kv' = Written(kv, {batch[i] : i \in positions})
  /\ pc' = next
  /\ UNCHANGED <<pool, epoch, req, waiting, running, deferred, todo, batch, budget, passes,
                 raised, engineVars>>

RunLogits == pc = "logits" /\ Forward(SpecPositions(req), "verify")
RunForward == pc = "forward" /\ Forward(RestPositions(req), "commit")

\* A forward raises after having written the KV of any of its requests (a mixed
\* batch may run as two forwards); the step ends there, and a fatal device error
\* makes the engine unhealthy.
ForwardFails ==
  /\ ForwardMayFail
  /\ pc \in {"logits", "forward"}
  /\ LET S == IF pc = "logits" THEN SpecPositions(req) ELSE RestPositions(req)
     IN  \E W \in SUBSET S : kv' = Written(kv, {batch[i] : i \in W})
  /\ pc' = "idle"
  /\ batch' = << >>
  /\ fatal' \in BOOLEAN
  /\ UNCHANGED <<pool, epoch, req, waiting, running, deferred, todo, budget, passes,
                 raised, registry, weights, asleep>>

\* What the verifier and trim_emitted may leave of drafts d: some of them,
\* possibly followed by one token of the target's, within the output room.
Emissions(d, room) ==
  {e \in TokenLists(1..Lesser(Len(d) + 1, room)) :
     \A i \in 1..Len(e) - 1 : e[i] = d[i]}
CommittedTokens(q) == SubSeq(q.tokens, 1, Len(q.tokens) - q.drafts)
Drafts(q) == SubSeq(q.tokens, Len(q.tokens) - q.drafts + 1, Len(q.tokens))

\* Seeded fault: the last emitted token counts as computed.
CommitSpecAllComputed(q, e) ==
  LET n == Len(CommittedTokens(q)) + Len(e)
  IN  Truncated([q EXCEPT !.tokens = CommittedTokens(q) \o e, !.computed = n,
                          !.drafts = 0, !.sched = 0], n)
\* commit_spec: the accepted tokens replace the drafts, all but the last are
\* computed, and the table is cut back to them.
CommitSpec(q, e) ==
  LET n == Len(CommittedTokens(q)) + Len(e) - 1
  IN  Truncated([q EXCEPT !.tokens = CommittedTokens(q) \o e, !.computed = n,
                          !.drafts = 0, !.sched = 0], n)

\* What the step does once the requests are R: verify the next speculative
\* request, forward the others, commit the next of them, or return.
AfterVerify(R) ==
  IF SpecPositions(R) # {} THEN "verify" ELSE IF RestPositions(R) # {} THEN "forward" ELSE "return"
AfterCommit(R) == IF RestPositions(R) # {} THEN "commit" ELSE "return"

VerifySpec ==
  /\ pc = "verify"
  /\ LET r == batch[First(SpecPositions(req))]
         q == req[r]
     IN \E e \in Emissions(Drafts(q), Room(q)) :
          LET c == CommitSpec(q, e)
              P == TruncatePool(pool, q, c.computed)
          IN  \E o \in Outcomes(c) : Settle(r, Published(c), PublishPool(P, c), o)
  /\ pc' = AfterVerify(req')
  /\ UNCHANGED <<epoch, waiting, deferred, todo, batch, budget, passes, raised, engineVars>>

\* postprocess: computed tokens advance, full blocks are published, and a
\* request that has caught up with its tokens gets the sampled one.
Advanced(q) == [q EXCEPT !.computed = @ + q.sched, !.sched = 0]
Sampled(q, t) == [q EXCEPT !.tokens = Append(@, t)]
Postprocess ==
  /\ pc = "commit"
  /\ LET r == batch[First(RestPositions(req))]
         c == Advanced(req[r])
         q == Published(c)
         P == PublishPool(pool, c)
     IN \/ /\ c.computed < Len(c.tokens)
           /\ Settle(r, q, P, "running")
        \/ /\ c.computed = Len(c.tokens)
           /\ \E t \in Tokens : LET s == Sampled(q, t) IN
                \E o \in Outcomes(s) : Settle(r, s, P, o)
  /\ pc' = AfterCommit(req')
  /\ UNCHANGED <<epoch, waiting, deferred, todo, batch, budget, passes, raised, engineVars>>

\* The end of a step: requests of the batch that finished leave the registry.
Return ==
  /\ pc = "return"
  /\ LET S == {r \in Members(batch) : req[r].status = "finished"}
     IN  /\ registry' = registry \ S
         /\ req' = [r \in Requests |-> IF r \in S THEN Gone ELSE req[r]]
  /\ batch' = << >>
  /\ pc' = "idle"
  /\ UNCHANGED <<poolVars, waiting, running, deferred, todo, budget, passes, raised,
                 weights, asleep, fatal>>

Schedule ==
  /\ ConsiderRunning \/ ConsiderWaiting \/ ReturnBatch \/ Preempt \/ GiveUp
  /\ UNCHANGED engineVars

Step == StartStep \/ Schedule \/ RunLogits \/ VerifySpec \/ RunForward \/ Postprocess
        \/ Return

(***************************************************************************)
(* Weight updates, sleep and wake-up.                                      *)
(***************************************************************************)
\* The requests after deallocate and reset_kv_state of all that are registered.
AllCold == [r \in Requests |-> IF r \in registry THEN Cold(req[r]) ELSE req[r]]
\* park_live_sessions: everything registered becomes paused.
Parked(R) ==
  [r \in Requests |-> IF r \in registry THEN [Cold(R[r]) EXCEPT !.status = "paused"] ELSE R[r]]

ResetPool(n) ==
  /\ epoch + n <= MaxEpoch
  /\ pool' = EmptyPool
  /\ kv' = Scrub(kv, Blocks)
  /\ epoch' = epoch + n

\* apply_named_weights: invalidate, copy, and park unless the copy raised.
UpdateWeights ==
  /\ pc = "idle"
  /\ weights < MaxWeights
  /\ ResetPool(1)
  /\ weights' = weights + 1
  /\ \/ /\ req' = Parked(AllCold)
        /\ waiting' = << >> /\ running' = << >>
     \/ /\ UpdateMayFail
        /\ req' = AllCold
        /\ UNCHANGED <<waiting, running>>
  /\ UNCHANGED <<stepVars, registry, asleep, fatal>>

\* sleep_engine: invalidate_all_kv and the sleep itself both reset the pool.
Sleep ==
  /\ pc = "idle"
  /\ ResetPool(2)
  /\ req' = Parked(AllCold)
  /\ waiting' = << >> /\ running' = << >>
  /\ asleep' = TRUE
  /\ UNCHANGED <<stepVars, registry, weights, fatal>>

\* wake_engine with the KV tag: rebuild_kv_pool allocates new pages.
WakeUp ==
  /\ pc = "idle"
  /\ asleep \/ WakeWhenAwake
  /\ kv' = Scrub(kv, Blocks)
  /\ asleep' = FALSE
  /\ UNCHANGED <<pool, epoch, schedVars, registry, weights, fatal>>

\* The adapter's reset_prefix_cache evicts every copy nobody else uses.
ResetPrefixCache ==
  /\ pc = "idle"
  /\ Evictable(pool) # {}
  /\ \E V \in Victims(pool, Cardinality(pool.cache)) : pool' = EvictUnused(pool, V)
  /\ kv' = Scrub(kv, pool'.free)
  /\ UNCHANGED <<epoch, schedVars, engineVars>>

Next ==
  \/ \E r \in Requests, m \in MaxTokens, h \in Holds :
       \/ \E p \in TokenLists(PromptLengths) : AddRequest(r, p, m, h)
       \/ \E s \in TokenLists(SuffixLengths) : ResumeRequest(r, s, m, h)
  \/ \E r \in Requests : FinishRequest(r)
  \/ AbortGeneration
  \/ Step
  \/ ForwardFails
  \/ UpdateWeights
  \/ Sleep
  \/ WakeUp
  \/ ResetPrefixCache

Spec == Init /\ [][Next]_vars

\* The driver steps the engine as long as a request waits or runs.
FairSpec == Spec /\ WF_vars(Step)

(***************************************************************************)
(* Properties.                                                             *)
(***************************************************************************)
Tables == [r \in Requests |-> req[r].table]
Live(r) == req[r].status \in {"waiting", "running", "paused"}

RequestType ==
  [status : {"absent", "waiting", "running", "paused", "finished", "gone"},
   tokens : Seq(Tokens), nPrompt : Nat, maxNew : Nat, hold : BOOLEAN,
   computed : Nat, sched : Nat, drafts : Nat, table : Seq(Blocks), published : Nat,
   parent : Seq(Tokens), kvEpoch : Nat]

PoolType ==
  [free : SUBSET Blocks, ref : [Blocks -> Nat], cache : SUBSET (Seq(Tokens) \X Blocks)]

\* Every variable has its type, and no count of the allocator, the scheduler
\* or a request ever goes below zero (_decref's underflow error never fires).
TypeOK ==
  /\ pool \in PoolType
  /\ epoch \in Nat
  /\ DOMAIN kv = Blocks
  /\ req \in [Requests -> RequestType]
  /\ waiting \in Seq(Requests) /\ running \in Seq(Requests) /\ deferred \in Seq(Requests)
  /\ todo \in Seq(Requests) /\ batch \in Seq(Requests)
  /\ budget \in Nat /\ passes \in Nat
  /\ pc \in {"idle", "pass", "logits", "verify", "forward", "commit", "return"}
  /\ raised \in {"no", "pool", "passes"}
  /\ registry \subseteq Requests
  /\ weights \in Nat /\ asleep \in BOOLEAN /\ fatal \in BOOLEAN

\* A block's reference count is the number of block-table slots that name it
\* plus the number of cached copies made of it, through every allocation,
\* attach, publish, truncation, preemption, abort and reset.
RefExact == \A b \in Blocks : pool.ref[b] = Held(Tables, b) + Copies(pool.cache, b)

\* The free list holds exactly the unreferenced blocks: nothing in use is
\* handed out again, and nothing is lost when requests and copies go.
FreeExact == pool.free = {b \in Blocks : pool.ref[b] = 0}

\* A page that the next tokens of a live request are written to belongs to
\* that request alone: a forward never writes what another request or the
\* prefix cache reads, and _cow_if_shared never finds anything to copy.
WriteSpanPrivate ==
  \A r \in Requests : Live(r) =>
    \A i \in DOMAIN req[r].table :
      i > req[r].computed \div BlockSize => pool.ref[req[r].table[i]] = 1

\* The KV a live request counts as computed is the KV of its own tokens under
\* the weights now on the device, whatever was attached, preempted,
\* speculated, truncated, parked or invalidated before.
KVSound ==
  \A r \in Requests : Live(r) =>
    \A p \in 1..req[r].computed :
      /\ BlockIndex(p) <= Len(req[r].table)
      /\ kv[req[r].table[BlockIndex(p)]][Offset(p)] = <<weights, SubSeq(req[r].tokens, 1, p)>>

\* A cached copy holds the KV of the tokens its hash digests, under the
\* weights now on the device: what an attach shares is what was asked for.
CacheSound ==
  \A e \in pool.cache : \A o \in Offsets :
    kv[e[2]][o] = <<weights, SubSeq(e[1], 1, Len(e[1]) - BlockSize + o)>>

\* resume_request's stale-table error never refuses a session: a paused
\* request has no table or one of the current epoch with computed tokens.
HeldTablesResumable ==
  \A r \in registry : req[r].status = "paused" => ~StaleTable(req[r])

\* Between steps every registered request is where its status says it is:
\* in exactly one of the two queues, once, or in neither when it is paused or
\* finished; an unregistered request is in no queue and holds no block.
QueuesExact ==
  pc = "idle" =>
    \A r \in Requests :
      LET places == Cardinality({i \in DOMAIN waiting : waiting[i] = r}
                        \union {-i : i \in {j \in DOMAIN running : running[j] = r}})
      IN  /\ req[r].status = "waiting" => places = 1 /\ r \in Members(waiting)
          /\ req[r].status = "running" => places = 1 /\ r \in Members(running)
          /\ ~(req[r].status \in {"waiting", "running"}) => places = 0
          /\ ~(r \in registry) => req[r].table = << >>

\* schedule() never runs out of passes: its bound leaves one pass for every
\* request that can be preempted and one to admit a waiting request.
PassesSuffice == raised # "passes"

\* schedule() never gives up on a request's own account: add and resume check a request
\* against the whole pool and running requests are preempted first, so every request that it
\* leaves waiting has KV of another session in its way that is never preempted: of a paused
\* one, or of one that was resumed and waits with its table.
GiveUpNamesAnother ==
  [][raised # "pool" /\ raised' = "pool" =>
       \A r \in Members(waiting') : \E s \in Requests \ {r} :
         req'[s].status \in {"waiting", "paused"} /\ req'[s].table # << >>]_vars

\* A finished request stays finished: no park makes it a session again.
FinishedIsFinal ==
  [][\A r \in Requests : req[r].status = "finished" => req'[r].status \in {"finished", "gone"}]_vars

\* Every request that waits or runs is eventually paused or finished, unless
\* the scheduler reports that the pool is exhausted.
TurnsEnd ==
  \A r \in Requests :
    req[r].status \in {"waiting", "running"} ~>
      (req[r].status \in {"paused", "finished", "gone"} \/ raised # "no")
=============================================================================
