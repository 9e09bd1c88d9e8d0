-------------------------- MODULE HarnessInvariants --------------------------
(***************************************************************************)
(* What has to hold between any two steps of a load loop of the SLO        *)
(* harness for its ServeRun to be exact at the end, and for no session to  *)
(* lose its slot: the inductive invariant of ServeRunExact and SlotsKept.  *)
(***************************************************************************)
EXTENDS FrontendsInvariants

Traces == [want : Nat, toks : Seq(Nat), admitted : BOOLEAN, from : Nat, resumed : BOOLEAN]
States == [idx : Nat, rid : Ids \union {0}, thinks : BOOLEAN, done : BOOLEAN]
Counts == [offered : Nat, admitted : Nat, rejected : Nat, exhausted : BOOLEAN]

\* The two functions without a policy of their own admit everything.
HarnessTypeOK ==
  /\ mode \in {"sessions", "poisson", "batch", "sequence"}
  /\ policy \in Policies /\ policy \in {"always", "session_slo", "request_slo", "any"}
  /\ mode \in {"batch", "sequence"} => policy = "always"
  /\ at \in {"top", "start", "resume", "serve", "end", "raised"}
  /\ slept \in BOOLEAN /\ next \in 0..N
  /\ ses \in [1..N -> States]
  /\ trace \in Seq(Traces)
  /\ traceOf \in [Ids -> Nat]
  /\ count \in Counts

Refused == {i \in DOMAIN trace : ~trace[i].admitted}
RefusedBetween == {i \in DOMAIN trace : ~trace[i].admitted /\ trace[i].resumed}
CountsAdd ==
  /\ count.admitted + count.rejected = Len(trace)
  /\ count.rejected = Cardinality(Refused)
  /\ \/ count.offered = Len(trace)
     \/ count.offered = Len(trace) + 1 /\ (count.exhausted \/ at = "raised")

\* Only the policies that may refuse a next turn do.
SlotsOK ==
  /\ policy = "session_slo" => Cardinality(Live(engine)) <= MaxOccupancy
  /\ policy # "any" => \A i \in DOMAIN trace : trace[i].resumed => trace[i].admitted

---------------------------------------------------------------------------
(* Sessions and their requests, while the loop runs and if it ends well.   *)

\* A session has a request from its first turn to its last, which is paused
\* while it thinks and held as long as there are turns to come.
SessionOK(s) ==
  /\ ses[s].idx < Turns(s)
  /\ ses[s].rid = 0 => ~ses[s].thinks /\ (ses[s].done \/ s > next)
  /\ s > next => ses[s].rid = 0 /\ ses[s].idx = 0 /\ ~ses[s].done
  /\ ses[s].done => ses[s].rid = 0
  /\ ses[s].rid # 0 =>
       IF ses[s].thinks
       THEN engine.req[ses[s].rid].st = "paused" /\ ses[s].idx + 1 < Turns(s)
       ELSE /\ engine.req[ses[s].rid].st = "active"
            /\ engine.req[ses[s].rid].hold <=> ses[s].idx + 1 < Turns(s)

Holders == {s \in 1..N : ses[s].rid # 0}
\* A request in the engine that no session has any more.
Orphans == Live(engine) \ {ses[s].rid : s \in Holders}

SessionsOK ==
  /\ \A s \in 1..N : SessionOK(s)
  /\ \A s, t \in Holders : ses[s].rid = ses[t].rid => s = t
  /\ \A r \in Ids : engine.req[r].st = "active" => \E s \in Holders : ses[s].rid = r
  /\ mode # "sessions" => \A r \in Ids : engine.req[r].st # "paused"
  /\ Cardinality(Orphans) = Cardinality(RefusedBetween)

\* A trace is the current one of a request, or has all its tokens.
TracesOK ==
  /\ \A r \in Ids : /\ traceOf[r] = 0 <=> engine.req[r].st = "unborn"
                    /\ engine.req[r].st = "unborn" => engine.req[r].out = 0
                    /\ traceOf[r] # 0 =>
                         /\ traceOf[r] \in DOMAIN trace /\ trace[traceOf[r]].admitted
                         /\ Owed(trace[traceOf[r]], engine.req[r], trace[traceOf[r]].toks)
  /\ \A r, q \in Ids : traceOf[r] # 0 /\ traceOf[r] = traceOf[q] => r = q
  /\ \A i \in DOMAIN trace : trace[i].admitted =>
       \/ \E r \in Ids : traceOf[r] = i
       \/ trace[i].toks = TokensFrom(trace[i].from, trace[i].want)

---------------------------------------------------------------------------
(* The end of the loop.                                                    *)

\* With a function that refuses what it likes, run_sessions may find nothing
\* to wait for while sessions wait to be started, unless all may be active.
EverySessionStarts == "any" \in Policies => N <= MaxActive

\* What is left to start waits for a session that is served or thinks.
ComesOn ==
  at \in {"resume", "serve"} /\ mode # "poisson" =>
    next = N \/ (Holders # {} /\ ~(mode = "sessions" /\ policy = "any"))

\* A loop that has ended has nothing to step.
EndOK ==
  at = "end" => /\ EverySessionStarts => \A s \in 1..N : ses[s].done
                /\ \A r \in Ids : engine.req[r].st # "active"

HarnessInv ==
  /\ HarnessTypeOK /\ CountsAdd /\ SlotsOK /\ Orderly(engine)
  /\ count.exhausted => at = "end"
  /\ ~count.exhausted /\ at # "raised" =>
       /\ SessionsOK /\ TracesOK /\ EndOK
       /\ EverySessionStarts => ComesOn

\* The harness's variables stay as they are where another front end runs.
HarnessIdle == mode = "batch" /\ policy = "always" /\ at = "top" /\ trace = << >>
               /\ count = [offered |-> 0, admitted |-> 0, rejected |-> 0, exhausted |-> FALSE]

RunInv ==
  IF front = "harness" THEN HarnessInv ELSE HarnessIdle
=============================================================================
