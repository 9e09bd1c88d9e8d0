-------------------------- MODULE DriverInvariants --------------------------
(***************************************************************************)
(* The inductive invariant of EngineDriver: what has to hold between any   *)
(* two steps of the threads for the exclusion, tracking and ownership      *)
(* properties of EngineDriver to hold.                                     *)
(***************************************************************************)
EXTENDS EngineDriver

\* The turns in _admissions, in a driver thread's local list, and in the
\* callbacks on their way to the event loop.
Queued == ToSet(admissions)
Hands == UNION {hand[g] : g \in Threads}
Mailed == {m[1] : m \in ToSet(mail)}

\* The driver threads made so far.
Born == {g \in Threads : thread[g] # "unborn"}

\* No turn has two callbacks in m.
Unambiguous(m) == \A i, j \in DOMAIN m : m[i][1] = m[j][1] => i = j

\* Threads are made one after the other, each one after the stop that let the
\* last one end; only the thread of the handle is alive, and only it holds
\* waiters or is in an admission round.
ThreadsOK ==
  /\ \E n \in 0..MaxStops + 1 :
       /\ Born = 1..n
       /\ n <= stops + (IF handle # 0 /\ loop[1] # "join" THEN 1 ELSE 0)
  /\ \A g \in Threads :
       /\ g # handle => thread[g] \in {"unborn", "dead"}
       /\ hand[g] # {} => thread[g] \in {"done", "pool", "error"}
       /\ thread[g] \in {"pool", "error"} => hand[g] = {} \/ waiters = {}
  /\ handle # 0 => thread[handle] # "unborn"
  /\ todo > 0 => handle # 0 /\ thread[handle] = "admit"
  /\ loop[1] = "own" => handle = 0
  /\ loop[1] = "join" => handle # 0

\* A turn is in one place at most, and once; somebody waits for it only if it
\* is in one, and it is in none before it is submitted and after its answer.
PlacesOK ==
  /\ IsInjective(admissions)
  /\ Unambiguous(mail)
  /\ Queued \intersect waiters = {} /\ Queued \intersect Hands = {}
  /\ Queued \intersect Mailed = {} /\ waiters \intersect Hands = {}
  /\ waiters \intersect Mailed = {} /\ Hands \intersect Mailed = {}
  /\ \A t \in Turns :
       /\ future[t] = "pending" => t \in Queued \union waiters \union Hands \union Mailed
       /\ future[t] \in {"new", "retry", "result", "error"} =>
            t \notin Queued \union waiters \union Hands \union Mailed
  /\ loop[1] \in {"retry", "blocked", "resubmit"} => future[loop[2]] = "retry"

\* A live request has steps left and is no parked session, and a turn that
\* is a session is over: it is not tried again.
SessionsOK ==
  /\ \A t \in Turns : o.req[t] = "live" => o.left[t] > 0
  /\ \A t \in o.sessions :
       /\ o.req[t] # "live"
       /\ t \notin Queued \union waiters \union Hands
       /\ future[t] \notin {"new", "retry"}
       /\ <<t, "pool">> \notin ToSet(mail)

\* A turn with a result is retired, on its way to its caller too; what is to
\* be retired or failed is in the ledger; what a harvest took out of _waiters
\* does not run; and what is in _waiters outside a step does.
RetiredOK ==
  /\ waiters \union Hands \subseteq o.ledger
  /\ \A t \in Turns :
       future[t] = "result" \/ <<t, "result">> \in ToSet(mail) =>
         t \notin o.ledger /\ o.req[t] # "live"
  /\ \A g \in Threads : thread[g] = "done" => \A t \in hand[g] : o.req[t] # "live"
  /\ handle = 0 => waiters = {}
  /\ \A t \in waiters : o.req[t] = "live" \/ thread[handle] \in {"harvest", "pool", "error"}

\* What runs is waited for, unless a stop has just failed it and the operation
\* it was for is next; what holds KV is owned.
OwnedOK ==
  ~UpdateMayFail =>
    /\ \A t \in Turns : o.req[t] = "live" => t \in waiters \union Hands \/ loop[1] = "own"
    /\ HeldKVIsOwned

\* The inductive invariant: the threads, the places of a turn, the sessions
\* and the requests below stay consistent with each other.
DriverInv == DriverTypeOK /\ ThreadsOK /\ PlacesOK /\ SessionsOK /\ RetiredOK /\ OwnedOK
=============================================================================
