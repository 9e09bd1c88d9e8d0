------------------------------ MODULE Scheduler ------------------------------
(***************************************************************************)
(* The unified scheduler of engine/scheduler.py over the requests of       *)
(* engine/request.py: waiting, running and paused requests, chunked        *)
(* prefill, draft tokens attached to decoding requests, preemption.        *)
(*                                                                         *)
(* schedule() runs on the thread that owns the engine.  It is one loop of  *)
(* passes, and a pass considers one request after another; the model takes *)
(* one step per request considered (pc = "pass") and one per pass ended.   *)
(* The paused dict is the set of requests whose status is "paused".        *)
(* Which tokens a proposer drafts is a choice of at most NumSpec tokens.   *)
(***************************************************************************)
EXTENDS BlockManager, SequencesExt

CONSTANTS Requests,        \* request ids
          Tokens,          \* the vocabulary
          NumSpec,         \* config.num_speculative_tokens
          MaxNumSeqs,      \* config.max_num_seqs
          MaxBatchedTokens \* config.max_num_batched_tokens

ASSUME RequestsAssumption == IsFiniteSet(Requests)
ASSUME NumSpecAssumption == NumSpec \in Nat
ASSUME LimitsAssumption == MaxNumSeqs \in Nat \ {0} /\ MaxBatchedTokens \in Nat \ {0}

VARIABLES req,       \* the Request objects
          waiting,   \* deque, head first
          running,   \* deque, oldest first
          deferred,  \* waiting requests this pass could not give a token
          todo,      \* running requests this pass still has to consider
          batch,     \* requests scheduled in this step, in order
          budget,    \* token_budget left in this pass
          passes,    \* passes left before schedule() gives up
          pc,        \* where the owner thread is
          raised     \* the error the last schedule() ended with, "no" if none

stepVars == <<deferred, todo, batch, budget, passes, pc, raised>>
schedVars == <<req, waiting, running, stepVars>>

(***************************************************************************)
(* Requests.                                                               *)
(***************************************************************************)
NoRequest ==
  [status |-> "absent", tokens |-> << >>, nPrompt |-> 0, maxNew |-> 0, hold |-> FALSE,
   computed |-> 0, sched |-> 0, drafts |-> 0, table |-> << >>, published |-> 0,
   parent |-> ROOT_HASH, kvEpoch |-> 0]

Uncomputed(q) == Greater(0, Len(q.tokens) - q.computed)
NumOut(q) == Len(q.tokens) - q.drafts - q.nPrompt
Room(q) == Greater(0, q.maxNew - NumOut(q))

\* Seeded fault: the computed count survives.
ResetKvStateKeepComputed(q) == [q EXCEPT !.sched = 0, !.drafts = 0, !.published = 0]
\* Request.reset_kv_state.  prefix_parent and token_ids are left as they are.
ResetKvState(q) == [q EXCEPT !.computed = 0, !.sched = 0, !.drafts = 0, !.published = 0]

\* Seeded fault: the table survives.
ColdKeepTable(q) == ResetKvState(q)
\* deallocate() followed by reset_kv_state().
Cold(q) == ResetKvState([q EXCEPT !.table = << >>])

\* Seeded fault: the draft tokens stay in token_ids.
StripSpecDraftsCountOnly(q) == [q EXCEPT !.drafts = 0]
StripSpecDrafts(q) ==
  [q EXCEPT !.tokens = SubSeq(@, 1, Len(@) - q.drafts), !.drafts = 0]
WithDrafts(q, d) == [q EXCEPT !.tokens = @ \o d, !.drafts = Len(d)]

\* What _maybe_attach_spec_drafts may leave attached before memory is asked
\* for: the drafts q already carries, none, or a proposal that fits the room
\* and the token budget left.
MaxDraft(q) ==
  IF q.drafts = 0 /\ q.computed >= q.nPrompt /\ Uncomputed(q) = 1
  THEN Greater(0, Lesser(Lesser(NumSpec, Room(q)), budget - 1))
  ELSE 0
Drafted(q) == {q} \union {WithDrafts(q, d) : d \in UNION {[1..k -> Tokens] : k \in 1..MaxDraft(q)}}

(***************************************************************************)
(* One request of a pass.                                                  *)
(***************************************************************************)
Full == Len(batch) >= MaxNumSeqs \/ budget <= 0
Want(q) == Lesser(Uncomputed(q), budget)

\* allocate_for_tokens(q, n) from pool P, then n tokens of r are scheduled.
Reserve(r, q, n, P) ==
  \E g \in Fresh(P, Growth(q, n)) :
    LET t  == q.table \o g
        P1 == AllocBlocks(P, g)
        S  == SharedSpan(P1, t, q.computed, n)
    IN \E c \in Fresh(P1, S) :
         /\ pool' = CowPool(P1, t, c)
         /\ kv' = CowPages(Scrub(kv, P.free), t, c)
         /\ req' = [req EXCEPT ![r] = [q EXCEPT !.table = CowTable(t, c), !.kvEpoch = epoch,
                                                !.sched = n, !.status = "running"]]
         /\ batch' = Append(batch, r)
         /\ budget' = budget - n

\* _consider_running.  A draft that does not fit whole is stripped, and the
\* evictions made while asking for memory stay.
ConsiderRunning ==
  /\ pc = "pass" /\ todo # << >> /\ ~Full
  /\ todo' = Tail(todo)
  /\ LET r == Head(todo) IN
     \E p \in Drafted(req[r]) :
     \E V \in Victims(pool, Shortfall(pool, p, Want(p))) :
       LET P == EvictUnused(pool, V)
           m == MaxAllocatable(P, p, Want(p))
           fits == p.drafts = 0 \/ m = 1 + p.drafts
           q == IF fits THEN p ELSE StripSpecDrafts(p)
           n == IF fits THEN m ELSE Lesser(m, 1)
       IN \/ /\ n = 0
             /\ pool' = P
             /\ kv' = Scrub(kv, P.free)
             /\ req' = [req EXCEPT ![r] = q]
             /\ UNCHANGED <<batch, budget>>
          \/ /\ n > 0
             /\ Reserve(r, q, n, P)
  /\ UNCHANGED <<epoch, waiting, running, deferred, passes, pc, raised>>

\* One iteration of _schedule_waiting.
Reattaches(q) == PrefixCaching /\ q.table = << >> /\ q.computed = 0
ConsiderWaiting ==
  /\ pc = "pass" /\ todo = << >> /\ waiting # << >> /\ ~Full
  /\ waiting' = Tail(waiting)
  /\ LET r == Head(waiting)
         again == Reattaches(req[r])
     IN
     \E a \in IF again THEN Attachments(pool, req[r]) ELSE {<< >>} :
     LET q == IF again THEN Attached(req[r], a) ELSE req[r]
         PA == AttachPool(pool, a)
     IN
     \E V \in Victims(PA, Shortfall(PA, q, Want(q))) :
       LET P == EvictUnused(PA, V)
           n == MaxAllocatable(P, q, Want(q))
           Detach == Deallocate(P, a)
       IN \/ /\ n = 0
             /\ pool' = Detach
             /\ kv' = Scrub(kv, Detach.free)
             /\ req' = [req EXCEPT ![r] = IF a # << >> THEN Cold(q) ELSE q]
             /\ deferred' = Append(deferred, r)
             /\ UNCHANGED <<running, batch, budget>>
          \/ /\ n > 0
             /\ Reserve(r, q, n, P)
             /\ running' = Append(running, r)
             /\ UNCHANGED deferred
  /\ UNCHANGED <<epoch, todo, passes, pc, raised>>

(***************************************************************************)
(* Beginning and ending a pass.                                            *)
(***************************************************************************)
\* Seeded fault: one pass per running request and none after the last.
PassBoundShort == Len(running)
PassBound == MaxNumSeqs + Len(running) + Len(waiting) + 1

StartSchedule ==
  /\ pc' = "pass"
  /\ todo' = running
  /\ batch' = << >>
  /\ deferred' = << >>
  /\ budget' = MaxBatchedTokens
  /\ passes' = PassBound
  /\ raised' = "no"
  /\ UNCHANGED <<poolVars, req, waiting, running>>

PassOver ==
  /\ pc = "pass"
  /\ Full \/ (todo = << >> /\ waiting = << >>)

\* The positions of the batch that wait for verification, and for a plain
\* forward, given the requests R.
SpecPositions(R) == {i \in DOMAIN batch : R[batch[i]].drafts > 0}
RestPositions(R) == {i \in DOMAIN batch : R[batch[i]].drafts = 0 /\ R[batch[i]].sched > 0}
First(S) == CHOOSE i \in S : \A j \in S : i <= j

\* The waiting queue after a pass: deferred requests go back to its front.
\* Seeded fault: they do not.
RequeuedLost == waiting
Requeued == deferred \o waiting

\* A batch was built: its speculative requests run first, then the others.
ReturnBatch ==
  /\ PassOver /\ batch # << >>
  /\ waiting' = Requeued
  /\ deferred' = << >>
  /\ todo' = << >>
  /\ pc' = IF SpecPositions(req) # {} THEN "logits" ELSE "forward"
  /\ budget' = 0 /\ passes' = 0
  /\ UNCHANGED <<poolVars, req, running, batch, raised>>

\* Nothing was scheduled: the youngest running request gives its KV back and
\* goes to the front of the waiting queue, and another pass begins.
Preempt ==
  /\ PassOver /\ batch = << >> /\ running # << >>
  /\ LET r == Last(running) IN
     /\ req' = [req EXCEPT ![r] = [Cold(StripSpecDrafts(@)) EXCEPT !.status = "waiting"]]
     /\ pool' = Deallocate(pool, req[r].table)
     /\ kv' = Scrub(kv, pool'.free)
     /\ waiting' = <<r>> \o Requeued
  /\ running' = Front(running)
  /\ deferred' = << >>
  /\ passes' = passes - 1
  /\ IF passes > 1
     THEN todo' = Front(running) /\ budget' = MaxBatchedTokens /\ UNCHANGED <<pc, raised>>
     ELSE todo' = << >> /\ budget' = 0 /\ pc' = "idle" /\ raised' = "passes"
  /\ UNCHANGED <<epoch, batch>>

\* Nothing was scheduled and nothing can be preempted.
GiveUp ==
  /\ PassOver /\ batch = << >> /\ running = << >>
  /\ waiting' = Requeued
  /\ deferred' = << >>
  /\ todo' = << >>
  /\ pc' = "idle"
  /\ raised' = IF Requeued # << >> THEN "pool" ELSE "no"
  /\ budget' = 0 /\ passes' = 0
  /\ UNCHANGED <<poolVars, req, running, batch>>

(***************************************************************************)
(* Completion.                                                             *)
(***************************************************************************)
\* _finish_reason: the output budget ends a turn, a stop token or a stop
\* string may; a held request is paused, any other is finished.
Outcomes(q) ==
  LET ended == IF q.hold THEN "paused" ELSE "finished"
  IN  IF NumOut(q) >= q.maxNew THEN {ended} ELSE {"running", ended}

\* Seeded fault: nothing is removed.
WithoutKept(s, r) == s
\* deque.remove, or nothing when r is not in s.
Without(s, r) ==
  IF r \in Range(s) THEN RemoveAt(s, First({i \in DOMAIN s : s[i] = r})) ELSE s

\* _complete_if_done, with pause and _finish.
Settle(r, q, P, o) ==
  /\ req' = [req EXCEPT ![r] = [q EXCEPT !.status = o,
                                         !.table = IF o = "finished" THEN << >> ELSE @]]
  /\ pool' = IF o = "finished" THEN Deallocate(P, q.table) ELSE P
  /\ kv' = Scrub(kv, pool'.free)
  /\ running' = IF o = "running" THEN running ELSE Without(running, r)
=============================================================================
