-------------------------- MODULE EngineInvariants --------------------------
(***************************************************************************)
(* The inductive invariant of Engine: what has to hold between any two     *)
(* steps, in the middle of a schedule() or a forward too, for the type,    *)
(* reference-count, privacy, queue and pass properties of Engine to hold.  *)
(***************************************************************************)
EXTENDS Engine

\* A request carries drafts only on top of a table and exactly one token
\* whose KV is missing, and never while it is paused; a request that is over
\* or not begun has no table; and the KV that a running or a paused request
\* holds is of the current pool.
RequestOK(q, ep) ==
  /\ q.drafts > 0 => Len(q.tokens) = q.computed + 1 + q.drafts /\ q.table # << >>
  /\ q.status = "paused" => q.drafts = 0
  /\ q.status \in {"absent", "finished", "gone"} => q.table = << >>
  /\ q.status \in {"running", "paused"} /\ q.table # << >> => q.kvEpoch = ep
  /\ q.status = "paused" /\ q.table # << >> => q.computed > 0

RequestsOK == \A r \in Requests : RequestOK(req[r], epoch)

\* The batch being built or run: its requests are registered and have tokens
\* scheduled; a verification or a commit has a request to work on; and the
\* pass that preempts is never the last one.
StepOK ==
  /\ pc = "idle" => batch = << >>
  /\ pc # "pass" => todo = << >> /\ deferred = << >>
  /\ pc = "pass" => /\ batch = << >> => passes > Len(running)
                    /\ \A r \in Members(batch) : req[r].sched > 0 /\ req[r].table # << >>
  /\ pc \in {"logits", "verify"} => SpecPositions(req) # {}
  /\ pc \in {"forward", "commit"} => RestPositions(req) # {}
  /\ \A r \in Members(batch) :
       /\ r \in registry
       /\ req[r].sched > 0 \/ req[r].drafts > 0 => req[r].status = "running"
  /\ PassesSuffice

\* A request is in the queue its status names, once, and is registered then; an
\* unregistered request has no table.
QueuesOK ==
  /\ IsInjective(waiting) /\ IsInjective(deferred) /\ IsInjective(running)
  /\ Members(waiting) \intersect Members(deferred) = {}
  /\ Members(todo) \subseteq Members(running)
  /\ \A r \in Requests :
       /\ req[r].status = "waiting" <=> r \in Members(waiting) \union Members(deferred)
       /\ req[r].status = "running" <=> r \in Members(running)
       /\ req[r].status \in {"waiting", "running"} => r \in registry
       /\ r \notin registry => req[r].table = << >>

\* Every block of a table beyond the computed tokens has one reference, its
\* own: it is in no other table and no copy of it is cached.
Private(P, R) ==
  \A r \in Requests : \A i \in DOMAIN R[r].table :
    i > R[r].computed \div BlockSize => P.ref[R[r].table[i]] = 1

PoolOK == IsFiniteSet(pool.cache) /\ RefExact /\ FreeExact /\ Private(pool, req)

\* The inductive invariant: an engine step or an operation between steps
\* leaves requests, queues, batch and block pool consistent with each other.
IInv == TypeOK /\ RequestsOK /\ StepOK /\ QueuesOK /\ PoolOK
=============================================================================
