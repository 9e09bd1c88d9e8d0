----------------------------- MODULE StepEngine -----------------------------
(***************************************************************************)
(* The engine as the front ends see it: requests are added, stepped,       *)
(* paused at the end of a turn (hold_kv), resumed and finished.  Memory,   *)
(* scheduling and speculation are Engine's; what is kept is the order in   *)
(* which requests are served, the tokens each step emits for each of them  *)
(* and the errors a step may raise.  Token i of a request is the number i. *)
(***************************************************************************)
EXTENDS Integers, Sequences, FiniteSets, SequencesExt, Functions

CONSTANTS MaxRequests,    \* bound on the requests ever added
          TurnLengths,    \* tokens a turn produces (max_tokens or an earlier stop)
          Chunks,         \* prefill chunks before a turn's first token
          MaxEmit,        \* tokens one step emits for a request (1 + num_speculative_tokens)
          StepMayFail     \* BOOLEAN: a step may raise

ASSUME StepEngineAssumption ==
  /\ MaxRequests \in Nat \ {0} /\ MaxEmit \in Nat \ {0}
  /\ TurnLengths \subseteq Nat \ {0} /\ TurnLengths # {} /\ Chunks \subseteq Nat /\ Chunks # {}
  /\ StepMayFail \in BOOLEAN

Ids == 1..MaxRequests

VARIABLE engine   \* req: the requests ever added; order: running ++ waiting; last: last_emitted

Unborn == [st |-> "unborn", hold |-> FALSE, chunks |-> 0, left |-> 0, out |-> 0]

NothingEmitted == [r \in Ids |-> << >>]
EngineInit == engine = [req |-> [r \in Ids |-> Unborn], order |-> << >>, last |-> NothingEmitted]

\* The id the next Request takes from itertools.count.
NextId(E) == Cardinality({r \in Ids : E.req[r].st # "unborn"}) + 1
CanAdd(E) == NextId(E) \in Ids

Known(E, r) == r \in Ids /\ E.req[r].st \in {"active", "paused"}   \* engine._requests
Live(E) == {r \in Ids : Known(E, r)}
Paused(E) == {r \in Ids : E.req[r].st = "paused"}                  \* scheduler.paused
HasWork(E) == E.order # << >>                                      \* waiting or running
IsFinished(E) == Live(E) = {}

\* engine.add_request
AddRequest(E, n, c, hold) ==
  [E EXCEPT !.req[NextId(E)] = [st |-> "active", hold |-> hold, chunks |-> c, left |-> n, out |-> 0],
            !.order = Append(@, NextId(E))]

\* engine.resume_request of a request that is paused
ResumeRequest(E, r, n, c, hold) ==
  [E EXCEPT !.req[r] = [@ EXCEPT !.st = "active", !.hold = hold, !.chunks = c, !.left = n],
            !.order = Append(@, r)]

\* The members of the queue s that are in S, in their order.
Kept(s, S) ==
  LET f[i \in 0..Len(s)] ==
        IF i = 0 THEN << >> ELSE IF s[i] \in S THEN Append(f[i - 1], s[i]) ELSE f[i - 1]
  IN f[Len(s)]

\* engine.finish_request for every id of V: a no-op for those the engine does not know
FinishRequests(E, V) ==
  LET gone == {r \in V : Known(E, r)}
  IN [E EXCEPT !.req = [r \in Ids |-> IF r \in gone THEN [E.req[r] EXCEPT !.st = "gone"] ELSE E.req[r]],
               !.order = Kept(@, Ids \ gone)]
FinishRequest(E, r) == FinishRequests(E, {r})

\* What one step does to a request it schedules: a prefill chunk, or up to n tokens
Emitted(q, n) == IF q.chunks > 0 THEN 0 ELSE IF n < q.left THEN n ELSE q.left

\* The length and stop test of postprocess, and where the request goes.
Advanced(q, n) ==
  LET e == Emitted(q, n)
      ends == q.chunks = 0 /\ e = q.left
  IN [q EXCEPT !.chunks = IF @ > 0 THEN @ - 1 ELSE 0,
               !.left = @ - e, !.out = @ + e,
               !.st = IF ~ends THEN "active" ELSE IF q.hold THEN "paused" ELSE "gone"]

\* One step that schedules the requests S and emits up to n[r] tokens for each.
Stepped(E, S, n) ==
  LET req == [r \in Ids |-> IF r \in S THEN Advanced(E.req[r], n[r]) ELSE E.req[r]]
  IN [req |-> req,
      order |-> Kept(E.order, {r \in Ids : req[r].st = "active"}),
      last |-> [r \in Ids |->
                  IF r \notin S THEN << >>
                  ELSE [i \in 1..(req[r].out - E.req[r].out) |-> E.req[r].out + i]]]

\* The results of a step: the head of the queue is always in the batch (FCFS).
Steps(E) ==
  IF ~HasWork(E) THEN {[E EXCEPT !.last = NothingEmitted]}
  ELSE UNION {{Stepped(E, S, n) : n \in [S -> 1..MaxEmit]} :
                S \in {T \in SUBSET Range(E.order) : Head(E.order) \in T}}

\* A step that raises may have done nothing, or everything but return.
FailedSteps(E) == IF StepMayFail /\ HasWork(E) THEN {[E EXCEPT !.last = NothingEmitted]} \union Steps(E) ELSE {}
=============================================================================
