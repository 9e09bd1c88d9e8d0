--------------------------- MODULE SessionRollout ---------------------------
(***************************************************************************)
(* SessionRollout and its SessionCache: which turn drives a request, which *)
(* finished requests are kept as sessions for their continuation, and what *)
(* stopping, sleeping, updating weights and aborting do to both.  Every    *)
(* operation is an operator on the record o, run by one thread; the module *)
(* EngineDriver says which thread runs it when.                            *)
(*                                                                         *)
(* A request goes by the name of the turn that last drove it: when a turn  *)
(* claims a session, the request is renamed to the turn.  Session KV is    *)
(* on (QWEN3_SESSION_KV=0 is a measurement arm).  The engine below is the  *)
(* one of module Engine, reduced to what this layer sees of it: a request  *)
(* is live (waiting or running), paused with KV, paused without, or gone.  *)
(***************************************************************************)
EXTENDS Integers, FiniteSets

CONSTANTS
  Turns,       \* turns that callers submit
  Parent,      \* the turn whose history a turn continues, or NoTurn
  NoTurn,
  MaxSteps,    \* steps a turn takes at most
  MaxFree,     \* free blocks are 0..MaxFree
  CpuOffload,  \* whether parked sessions may move to the CPU tier
  MaxSessions  \* SessionCache.max_sessions, or the block bound in sessions

ASSUME TurnsAssumption ==
  /\ IsFiniteSet(Turns)
  /\ NoTurn \notin Turns
  /\ Parent \in [Turns -> Turns \union {NoTurn}]
  /\ MaxSteps \in Nat \ {0}
  /\ MaxFree \in Nat
  /\ CpuOffload \in BOOLEAN
  /\ MaxSessions \in Nat \ {0}

\* The rollout's state: the engine's requests, the steps they have left, the
\* parked sessions, the ledger _pending_prompt and the free blocks.
Rollout ==
  [req : [Turns -> {"none", "live", "held", "cold"}],
   left : [Turns -> 0..MaxSteps],
   sessions : SUBSET Turns,
   ledger : SUBSET Turns,
   free : 0..MaxFree]

NoRollout ==
  [req |-> [t \in Turns |-> "none"], left |-> [t \in Turns |-> 0],
   sessions |-> {}, ledger |-> {}, free |-> MaxFree]

Active(o) == {t \in Turns : o.req[t] = "live"}

\* The requests of S in another state, in which they are not stepped.
SetReq(o, S, state) ==
  [o EXCEPT !.req = [t \in Turns |-> IF t \in S THEN state ELSE @[t]],
            !.left = [t \in Turns |-> IF t \in S THEN 0 ELSE @[t]]]

\* Freed blocks go to the free list unless the prefix cache keeps them.
Freed(o) == {[o EXCEPT !.free = f] : f \in o.free..MaxFree}

\* engine.finish_request of the requests S; unknown ids are ignored.
FinishRequests(o, S) == SetReq(o, S, "none")

\* The start of a request for turn t, which enters the ledger.
Enter(o, t) ==
  {[SetReq(o, {t}, "live") EXCEPT !.left[t] = MaxSteps, !.ledger = @ \union {t}, !.free = f] :
      f \in 0..o.free}

\* reserve_claim: the parked session whose history the turn extends.
Claim(o, t) == {Parent[t]} \intersect o.sessions

\* The claimed session is forgotten and its request finished or renamed.
Consume(o, t) == FinishRequests([o EXCEPT !.sessions = @ \ Claim(o, t)], Claim(o, t))

\* A renamed request keeps its blocks; a finished one may give some back.
Consumed(o, t) == IF CpuOffload THEN Freed(Consume(o, t)) ELSE {Consume(o, t)}

\* _admit, as the states it may leave when the turn is admitted: the claimed
\* session is resumed, or (CPU offload: its snapshot cannot be restored) is
\* dropped and the turn starts cold; without a claim the turn starts cold.
Admit(o, t) == UNION {Enter(q, t) : q \in Consumed(o, t)}

\* The oldest parked sessions give up their KV: finished without CPU offload,
\* kept without KV with it.
Evict(o, E) ==
  IF CpuOffload THEN SetReq(o, E, "cold")
  ELSE FinishRequests([o EXCEPT !.sessions = @ \ E], E)

\* When blocks are short any sessions with KV on the device may have to go.
Reclaim(o) ==
  UNION {Freed(Evict(o, E)) : E \in SUBSET {u \in o.sessions : o.req[u] = "held"}}

\* before_step, _reclaim_for_active_step: idle KV yields when no block is
\* free; with CPU offload it may be saved earlier than that.
BeforeStep(o) == IF o.free = 0 \/ CpuOffload THEN Reclaim(o) ELSE {o}

\* _admit raises AdmissionDeferred for a session whose KV must come back from
\* the CPU: the claim is rolled back.  Active work occupies the blocks it
\* needs, or the KV of other idle sessions was just moved out.
Defer(o, t) ==
  IF ~CpuOffload \/ \A u \in Claim(o, t) : o.req[u] # "cold" THEN {}
  ELSE IF Active(o) # {} THEN {o}
  ELSE {p \in Reclaim(o) : p.req # o.req /\ p.free > o.free}

\* _admit raises something else: the claim is rolled back, or (CPU offload)
\* its session is already gone when the cold start is refused.
Refuse(o, t) == {o} \union (IF CpuOffload THEN Consumed(o, t) ELSE {})

\* SessionCache.park and _evict_to_fit: as many sessions go as are too many.
Park(o, t) ==
  LET all == o.sessions \union {t}
  IN  UNION {Freed(FinishRequests([o EXCEPT !.sessions = all \ E], E)) :
               E \in {X \in SUBSET all : Cardinality(all \ X) <= MaxSessions}}

\* on_done: the turn leaves the ledger and is parked if it was in it.
ParkOrRelease(o, t) ==
  LET p == [o EXCEPT !.ledger = @ \ {t}]
  IN  IF t \in o.ledger THEN UNION {Reclaim(q) : q \in Park(p, t)} ELSE {p}

\* finish_session: the one session with this history, if it is parked.
FinishSession(o) ==
  {o} \union UNION {Freed(FinishRequests([o EXCEPT !.sessions = @ \ {u}], {u})) : u \in o.sessions}

\* _drop_sessions: every session is forgotten and finished.
DropSessions(o) == FinishRequests([o EXCEPT !.sessions = {}], o.sessions)

\* clear(), once the driver is stopped.
Clear(o) == [DropSessions(o) EXCEPT !.ledger = {}]

\* engine.step: the turns of S get tokens; those of D stop and keep their KV,
\* and so does a turn with no step left.
AdvanceUnlimited(o, S, D) ==  \* seeded fault: no turn stops by itself
  LET p == [o EXCEPT !.left = [t \in Turns |-> IF t \in S THEN @[t] - 1 ELSE @[t]]]
  IN  {[SetReq(p, D, "held") EXCEPT !.free = f] : f \in 0..MaxFree}

Advance(o, S, D) ==
  LET stop == D \union {t \in S : o.left[t] = 1}
      p == [o EXCEPT !.left = [t \in Turns |-> IF t \in S THEN @[t] - 1 ELSE @[t]]]
  IN  {[SetReq(p, stop, "held") EXCEPT !.free = f] : f \in 0..MaxFree}

\* sleep: no KV survives and live requests are parked without it.
SleepAll(o) == {[SetReq(Clear(o), {t \in Turns : Clear(o).req[t] # "none"}, "cold")
                   EXCEPT !.free = MaxFree]}

\* apply_named_weights after clear(); when the copy raises, live requests
\* stay live.
UpdateAll(o, fails) ==
  LET p == Clear(o)
      S == {t \in Turns : p.req[t] = "held" \/ (p.req[t] = "live" /\ ~fails)}
  IN  {[SetReq(p, S, "cold") EXCEPT !.free = MaxFree]}

\* abort: whatever is in the ledger, parked or live is finished.
Abort(o) ==
  LET p == FinishRequests(o, o.ledger \union o.sessions \union Active(o))
  IN  Freed([p EXCEPT !.sessions = {}, !.ledger = {}])
=============================================================================
