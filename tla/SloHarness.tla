----------------------------- MODULE SloHarness -----------------------------
(***************************************************************************)
(* serving/slo_harness.py: the loops that offer load to an engine and      *)
(* record what it emits: run_sessions, run_poisson, run_closed_batch and   *)
(* run_sequential_requests.  One thread; an iteration starts the turns     *)
(* that are due and then steps the engine once or sleeps until the next.   *)
(* Clock readings are left out: which arrivals and wake-ups are due, and   *)
(* whether a predicted wait misses the SLO, are free choices.              *)
(***************************************************************************)
EXTENDS FrontEnd

CONSTANTS Modes,          \* the loops to run
          Policies,       \* the admit functions to run them with
          TurnsOf,        \* turns of each session (run_sessions), one entry per prompt
          MaxActive,      \* max_active of run_sessions
          MaxOccupancy    \* SESSION_MAX_OCCUPANCY

ASSUME HarnessAssumption ==
  /\ Modes \subseteq {"sessions", "poisson", "batch", "sequence"}
  /\ Policies \subseteq {"always", "session_slo", "request_slo", "any"}
  /\ TurnsOf \in Seq(Nat \ {0}) /\ MaxActive \in Nat \ {0} /\ MaxOccupancy \in Nat \ {0}

VARIABLES mode, policy,   \* the loop and its admit function, fixed at start-up
          at,             \* where the loop is
          slept,          \* it slept until something was due
          next,           \* next_start, next_i
          ses,            \* _State of each session
          trace,          \* the RequestTraces in order
          traceOf,        \* rid_trace, rid_map: request id -> index in trace, 0 = none
          count           \* offered, admitted, rejected, kv_exhausted

harnessVars == <<mode, policy, at, slept, next, ses, trace, traceOf, count>>

N == Len(TurnsOf)
Turns(s) == IF mode = "sessions" THEN TurnsOf[s] ELSE 1

HarnessInit ==
  /\ mode \in Modes
  /\ policy \in IF mode \in {"batch", "sequence"} THEN {"always"} \intersect Policies ELSE Policies
  /\ at = "top" /\ slept = FALSE /\ next = 0
  /\ ses = [s \in 1..N |-> [idx |-> 0, rid |-> 0, thinks |-> FALSE, done |-> FALSE]]
  /\ trace = << >> /\ traceOf = [r \in Ids |-> 0]
  /\ count = [offered |-> 0, admitted |-> 0, rejected |-> 0, exhausted |-> FALSE]

---------------------------------------------------------------------------
(* Admission. *)

\* AdmissionView.occupancy: waiting + running + paused
Occupancy(E) == Cardinality(Live(E))

\* Seeded fault: every turn has to find a free slot, also one that holds its own.
DecisionsEveryTurn(E, resume) ==
  CASE policy = "always" -> {TRUE}
    [] policy = "session_slo" -> {Occupancy(E) < MaxOccupancy}
    [] OTHER -> BOOLEAN

\* slo_aware_admit: a resumed turn keeps its slot, a full house refuses, and otherwise the
\* predicted wait may (request_slo_admit) or may not (session_slo_admit) count.
Decisions(E, resume) ==
  CASE policy = "always" -> {TRUE}
    [] policy = "any" -> BOOLEAN
    [] policy = "session_slo" -> {resume \/ Occupancy(E) < MaxOccupancy}
    [] policy = "request_slo" -> IF resume THEN {TRUE} ELSE BOOLEAN

---------------------------------------------------------------------------
(* Starting turns.  H is the harness state a turn start changes. *)

Harness == [e |-> engine, next |-> next, ses |-> ses, trace |-> trace, of |-> traceOf, count |-> count]
BecomeHarness(H) ==
  /\ engine' = H.e /\ next' = H.next /\ ses' = H.ses /\ trace' = H.trace /\ traceOf' = H.of
  /\ count' = H.count

Outstanding(H) == Cardinality({s \in 1..N : (H.ses[s].rid # 0 \/ H.ses[s].thinks) /\ ~H.ses[s].done})

\* Seeded fault: the trace of the session's first turn stays registered.
StartSessionTurnKeepsTrace(H, s, resume, ok, n) ==
  LET st == H.ses[s]
      rid == IF resume THEN st.rid ELSE NextId(H.e)
      more == st.idx + 1 < Turns(s)
      C == [H.count EXCEPT !.offered = @ + 1]
  IN IF ~ok
     THEN [H EXCEPT !.ses[s] = [st EXCEPT !.done = TRUE, !.rid = 0, !.thinks = FALSE],
                    !.trace = Append(@, [want |-> n, toks |-> << >>, admitted |-> FALSE, from |-> 0, resumed |-> resume]),
                    !.count = [C EXCEPT !.rejected = @ + 1]]
     ELSE [H EXCEPT !.e = IF resume THEN ResumeRequest(H.e, rid, n, 0, more)
                          ELSE AddRequest(H.e, n, 0, more),
                    !.ses[s] = [st EXCEPT !.rid = rid, !.thinks = FALSE],
                    !.trace = Append(@, [want |-> n, toks |-> << >>, admitted |-> TRUE,
                                         from |-> H.e.req[rid].out, resumed |-> resume]),
                    !.of[rid] = IF @ = 0 THEN Len(H.trace) + 1 ELSE @,
                    !.count = [C EXCEPT !.admitted = @ + 1]]

\* _start_turn (run_sessions) and the arrival of run_poisson: offer the turn, then reject it
\* and give the session up, or add or resume its request; hold_kv while turns remain.
StartSessionTurn(H, s, resume, ok, n) ==
  LET st == H.ses[s]
      rid == IF resume THEN st.rid ELSE NextId(H.e)
      more == st.idx + 1 < Turns(s)
      C == [H.count EXCEPT !.offered = @ + 1]
  IN IF ~ok
     THEN [H EXCEPT !.ses[s] = [st EXCEPT !.done = TRUE, !.rid = 0, !.thinks = FALSE],
                    !.trace = Append(@, [want |-> n, toks |-> << >>, admitted |-> FALSE, from |-> 0, resumed |-> resume]),
                    !.count = [C EXCEPT !.rejected = @ + 1]]
     ELSE [H EXCEPT !.e = IF resume THEN ResumeRequest(H.e, rid, n, 0, more)
                          ELSE AddRequest(H.e, n, 0, more),
                    !.ses[s] = [st EXCEPT !.rid = rid, !.thinks = FALSE],
                    !.trace = Append(@, [want |-> n, toks |-> << >>, admitted |-> TRUE,
                                         from |-> H.e.req[rid].out, resumed |-> resume]),
                    !.of[rid] = Len(H.trace) + 1,
                    !.count = [C EXCEPT !.admitted = @ + 1]]

\* while next_start < len(states) and in flight < max_active; the arrivals due of run_poisson;
\* all prompts of a closed batch; the next of run_sequential_requests.
MayStart(H) ==
  /\ H.next < N
  /\ CASE mode = "sessions" -> Outstanding(H) < MaxActive
       [] mode = "sequence" -> IsFinished(H.e)
       [] OTHER -> TRUE

StartNext ==
  /\ at = "start" /\ MayStart(Harness)
  /\ \E ok \in Decisions(engine, FALSE), n \in TurnLengths :
       /\ ok => CanAdd(engine)
       /\ BecomeHarness([StartSessionTurn(Harness, next + 1, FALSE, ok, n) EXCEPT !.next = next + 1])
  /\ slept' = (slept /\ mode # "poisson")
  /\ UNCHANGED <<mode, policy, at>>

\* Only run_poisson leaves arrivals for later; after a sleep one of them was due.
StartsDone ==
  /\ at = "start" /\ (mode = "poisson" \/ ~MayStart(Harness))
  /\ mode = "poisson" => ~slept
  /\ at' = "resume" /\ UNCHANGED <<engine, mode, policy, slept, next, ses, trace, traceOf, count>>

Thinking == {s \in 1..N : ses[s].thinks /\ ~ses[s].done}

\* A session whose think time is over: idx advances and its next turn starts.
ResumeSession(s) ==
  /\ at = "resume" /\ s \in Thinking
  /\ \E ok \in Decisions(engine, TRUE), n \in TurnLengths :
       BecomeHarness(StartSessionTurn([Harness EXCEPT !.ses[s].idx = @ + 1], s, TRUE, ok, n))
  /\ slept' = FALSE /\ UNCHANGED <<mode, policy, at>>

\* The sessions that think on; after a sleep one of them was due.
ResumesDone ==
  /\ at = "resume" /\ ~slept
  /\ at' = "serve" /\ UNCHANGED <<engine, mode, policy, slept, next, ses, trace, traceOf, count>>

\* The loop condition: sessions left to serve, arrivals to come or requests in the engine.
More == \/ IF mode = "poisson" THEN next < N ELSE \E s \in 1..N : ~ses[s].done
        \/ ~IsFinished(engine)
LoopTop ==
  /\ at = "top"
  /\ at' = IF More THEN "start" ELSE "end"
  /\ UNCHANGED <<engine, mode, policy, slept, next, ses, trace, traceOf, count>>

\* add_request or resume_request raises for a turn that was offered and let in (it needs more
\* blocks than the pool has, say).  It gets no trace and is neither admitted nor rejected.
\* run_sessions takes a KV exhaustion as its result, all else propagates.  S and n are the
\* sessions and the number of sessions started, this one counted.
TurnStartRaises(S, n) ==
  /\ AddMayFail
  /\ \/ /\ mode = "sessions" /\ at' = "end"
        /\ ses' = [s \in 1..N |-> [S[s] EXCEPT !.done = TRUE]]
        /\ count' = [count EXCEPT !.offered = @ + 1, !.exhausted = TRUE]
     \/ /\ at' = "raised" /\ ses' = S
        /\ count' = [count EXCEPT !.offered = @ + 1]
  /\ next' = n
  /\ UNCHANGED <<engine, mode, policy, slept, trace, traceOf>>

StartRaises ==
  /\ at = "start" /\ MayStart(Harness) /\ TRUE \in Decisions(engine, FALSE)
  /\ TurnStartRaises(ses, IF mode = "sessions" THEN next + 1 ELSE next)

ResumeRaises(s) ==
  /\ at = "resume" /\ s \in Thinking /\ TRUE \in Decisions(engine, TRUE)
  /\ TurnStartRaises([ses EXCEPT ![s].idx = @ + 1], next)

---------------------------------------------------------------------------
(* One step. *)

\* _record_emitted: every token of last_emitted, to the trace its request has now
RecordEmitted(E) ==
  [i \in DOMAIN trace |->
     LET rids == {r \in Ids : traceOf[r] = i}
     IN IF rids = {} THEN trace[i]
        ELSE [trace[i] EXCEPT !.toks = @ \o E.last[CHOOSE r \in rids : TRUE]]]

\* The rows of a step that are done: the session thinks, or is over after its last turn.
TurnOver(E, s) == ses[s].rid # 0 /\ ~ses[s].done /\ engine.req[ses[s].rid].st = "active"
                  /\ E.req[ses[s].rid].st # "active"
AfterStep(E) ==
  [s \in 1..N |->
     IF ~TurnOver(E, s) THEN ses[s]
     ELSE IF ses[s].idx = Turns(s) - 1 THEN [ses[s] EXCEPT !.done = TRUE, !.rid = 0]
     ELSE [ses[s] EXCEPT !.thinks = TRUE]]

ServeStep ==
  /\ at = "serve" /\ HasWork(engine)
  /\ \E E \in Steps(engine) : engine' = E /\ trace' = RecordEmitted(E) /\ ses' = AfterStep(E)
  /\ at' = "top"
  /\ UNCHANGED <<mode, policy, slept, next, traceOf, count>>

\* step() raises: run_sessions takes a KV exhaustion as its result, all else propagates.
ServeRaises ==
  /\ at = "serve" /\ HasWork(engine)
  /\ engine' \in FailedSteps(engine)
  /\ \/ /\ mode = "sessions" /\ at' = "end"
        /\ count' = [count EXCEPT !.exhausted = TRUE]
        /\ ses' = [s \in 1..N |-> [ses[s] EXCEPT !.done = TRUE]]
     \/ at' = "raised" /\ UNCHANGED <<count, ses>>
  /\ UNCHANGED <<mode, policy, slept, next, trace, traceOf>>

\* Seeded fault: the loop only ends through its condition.
ServeIdleForever ==
  /\ at = "serve" /\ ~HasWork(engine)
  /\ slept' = (Thinking # {} \/ (mode = "poisson" /\ next < N))
  /\ at' = "top"
  /\ UNCHANGED <<engine, mode, policy, next, ses, trace, traceOf, count>>

\* Nothing to step: sleep until the next wake-up or arrival, or leave the loop.
ServeIdle ==
  /\ at = "serve" /\ ~HasWork(engine)
  /\ slept' = (Thinking # {} \/ (mode = "poisson" /\ next < N))
  /\ at' = IF slept' THEN "top" ELSE "end"
  /\ UNCHANGED <<engine, mode, policy, next, ses, trace, traceOf, count>>

HarnessNext ==
  \/ StartNext
  \/ StartRaises
  \/ StartsDone
  \/ ResumesDone
  \/ \E s \in 1..N : ResumeSession(s) \/ ResumeRaises(s)
  \/ LoopTop
  \/ ServeStep
  \/ ServeRaises
  \/ ServeIdle

---------------------------------------------------------------------------
(* Properties. *)

\* The counts of a ServeRun add up at every moment: every turn offered has its trace, admitted or
\* rejected, except one whose start raised and ended the run.  A run that ends without KV
\* exhaustion accounts for every turn: each admitted trace has the tokens of its own turn, all of
\* them; no session was left out; and nothing stays in the engine but the held request of a
\* session whose next turn was refused.
ServeRunExact ==
  /\ count.admitted + count.rejected = Len(trace)
  /\ count.rejected = Cardinality({i \in DOMAIN trace : ~trace[i].admitted})
  /\ \/ count.offered = Len(trace)
     \/ count.offered = Len(trace) + 1 /\ (count.exhausted \/ at = "raised")
  /\ at = "end" /\ ~count.exhausted =>
       /\ \A i \in DOMAIN trace : trace[i].admitted =>
            trace[i].toks = [j \in 1..trace[i].want |-> trace[i].from + j]
       /\ \A s \in 1..N : ses[s].done
       /\ Cardinality(Live(engine)) = Cardinality({i \in DOMAIN trace : ~trace[i].admitted /\ trace[i].resumed})

\* session_slo_admit never lets more sessions in than the knee it was given, thinking ones
\* counted, and neither SLO policy turns a session away between two of its turns, which would
\* leave its KV held: a slot is kept from the first turn to the last.
SlotsKept ==
  /\ policy = "session_slo" => Cardinality(Live(engine)) <= MaxOccupancy
  /\ policy \in {"session_slo", "request_slo"} =>
       \A i \in DOMAIN trace : trace[i].resumed => trace[i].admitted

\* The loop ends, whatever the arrivals, the think times and the policy.
HarnessEnds == front = "harness" => <>(at \in {"end", "raised"})
=============================================================================
