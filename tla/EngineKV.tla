------------------------------ MODULE EngineKV ------------------------------
(***************************************************************************)
(* What has to hold between any two steps of Engine, beside IInv, for the  *)
(* KV that a request or a cached copy counts on to be the right one: in    *)
(* the middle of a schedule() and between a forward and its commits too.   *)
(***************************************************************************)
EXTENDS EngineInvariants

LiveStates == {"waiting", "running", "paused"}

\* The pages k hold the KV of the first n tokens of q under the weights w.
Computes(k, w, q, n) ==
  \A p \in 1..n :
    /\ BlockIndex(p) <= Len(q.table)
    /\ k[q.table[BlockIndex(p)]][Offset(p)] = <<w, SubSeq(q.tokens, 1, p)>>

\* The blocks q has published are computed, and its next hash goes on from theirs.
Chained(q) ==
  /\ q.parent = PrefixHash(q, q.published)
  /\ q.published * BlockSize <= q.computed

\* A live request has the KV it counts as computed, at most that of all its
\* tokens; a waiting one has no drafts; and with prefix caching the chain of
\* its hashes is only broken while it has no table, which is never when it runs.
Good(k, w, q) ==
  /\ q.computed <= Len(q.tokens)
  /\ Computes(k, w, q, q.computed)
  /\ q.status = "waiting" => q.drafts = 0
  /\ PrefixCaching => /\ q.table # << >> => Chained(q)
                      /\ q.status = "running" => q.table # << >>

\* A cached copy e holds the KV of the last block of the tokens it is hashed by.
Backed(k, w, e) ==
  \A o \in Offsets : k[e[2]][o] = <<w, SubSeq(e[1], 1, Len(e[1]) - BlockSize + o)>>

Content(P, R, k, w) ==
  /\ \A r \in Requests : R[r].status \in LiveStates => Good(k, w, R[r])
  /\ \A e \in P.cache : Backed(k, w, e)

\* The tokens scheduled for q exist, its table has the slots for them, and
\* drafts are scheduled together with the token they follow.
Placed(q) ==
  /\ q.drafts > 0 => q.sched = 1 + q.drafts
  /\ q.sched > 0 => /\ q.computed + q.sched <= Len(q.tokens)
                    /\ BlocksNeededFor(q.computed + q.sched) <= Len(q.table)

BatchPlaced == \A r \in Members(batch) : Placed(req[r])

\* A running request is considered once in a pass.
TodoOK == IsInjective(todo) /\ Members(todo) \intersect Members(batch) = {}

\* What a forward has written stays there until it is verified or committed.
WaitsAt(at, q) == \/ at = "verify" /\ q.drafts > 0
                  \/ at = "commit" /\ q.drafts = 0 /\ q.sched > 0
WrittenOK ==
  \A r \in Members(batch) :
    WaitsAt(pc, req[r]) => Computes(kv, weights, req[r], req[r].computed + req[r].sched)

\* A sleeping engine has no KV and nothing to do.
AsleepOK ==
  asleep => /\ pc = "idle" /\ waiting = << >> /\ running = << >>
            /\ pool.cache = {}
            /\ \A r \in Requests : req[r].table = << >>

\* The inductive invariant, on top of IInv, of KVSound and CacheSound.
KVInv == Content(pool, req, kv, weights) /\ BatchPlaced /\ TodoOK /\ WrittenOK /\ AsleepOK

\* The whole inductive invariant of the engine.
EngineInv == IInv /\ KVInv

\* The pool is only reset in ways after which nothing counts on its old pages.
\* Two of the engine's do not qualify: waking up an engine that is awake gives
\* it new pages under old tables, and a weight copy that raises leaves running
\* requests that go on publishing from the hash of a prefix they have lost.
OrderlyResets == ~WakeWhenAwake /\ (~PrefixCaching \/ ~UpdateMayFail)
=============================================================================
