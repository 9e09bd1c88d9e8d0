---------------------------- MODULE EngineDriver ----------------------------
(***************************************************************************)
(* EngineDriver: the thread that owns the engine, and everybody who hands  *)
(* it work.  Three kinds of threads meet here:                             *)
(*                                                                         *)
(*   - driver threads run _loop: drain _pending, admit turns, step, and    *)
(*     harvest.  start() makes one, stop() joins it; a stop that times out *)
(*     leaves it running.                                                  *)
(*   - the event loop runs the coroutines: it submits turns, gets their    *)
(*     answers, retries a turn that found the KV pool full, and stops the  *)
(*     driver to sleep, update weights or abort.  What a coroutine does    *)
(*     between two awaits is not interleaved with other coroutines, but is *)
(*     with the other threads.                                             *)
(*   - worker threads run finish_session through run_on_engine.            *)
(*                                                                         *)
(* The lock _cond is held by a driver thread while it drains and admits;   *)
(* every other critical section is one action.                             *)
(***************************************************************************)
EXTENDS SessionRollout, Sequences, SequencesExt

CONSTANTS
  Calls,           \* finish_session calls
  MaxNumSeqs,      \* config.max_num_seqs
  MaxStops,        \* bound: how often the event loop stops the driver
  Operations,      \* what it stops it for: "sleep", "update", "abort"
  StepErrors,      \* what before_step, step and harvest may raise
  AdmitMayFail,    \* whether start() of a turn may raise
  UpdateMayFail,   \* whether a weight copy may raise
  StopMayTimeOut,  \* whether join(30 s) may time out
  CallMayTimeOut,  \* whether a posted call may wait longer than 600 s
  MayCancel        \* whether callers cancel turns

ASSUME DriverAssumption ==
  /\ Calls \intersect Turns = {}
  /\ MaxNumSeqs \in Nat \ {0}
  /\ MaxStops \in Nat
  /\ Operations \subseteq {"sleep", "update", "abort"}
  /\ StepErrors \subseteq {"pool", "error"}
  /\ {AdmitMayFail, UpdateMayFail, StopMayTimeOut, CallMayTimeOut, MayCancel} \subseteq BOOLEAN

VARIABLES
  handle,      \* _thread: the number of the driver thread, 0 if None
  stopping,    \* _stop is set
  thread,      \* where each driver thread is
  hand,        \* the turns a driver thread has taken out of _waiters
  todo,        \* admissions left of this round
  pending,     \* _pending
  admissions,  \* _admissions
  waiters,     \* the keys of _waiters
  memo,        \* what a deferred admission saw
  generation,  \* _completion_generation
  future,      \* the future of each turn
  mail,        \* call_soon_threadsafe callbacks, in order
  retried,     \* turns that had their second attempt
  loop,        \* where the event loop is, and what for
  stops,       \* stops so far
  call,        \* where each worker's call is
  o            \* the rollout and the engine below it

vars == <<handle, stopping, thread, hand, todo, pending, admissions, waiters, memo,
          generation, future, mail, retried, loop, stops, call, o>>

queueVars == <<pending, admissions, waiters, memo, generation>>
loopVars == <<future, mail, retried, loop, stops>>
threadVars == <<handle, stopping>>

\* Each stop makes room for one more driver thread.
Threads == 1..MaxStops + 1

NoMemo == [active |-> {}, free |-> -1, generation |-> -1]

Init ==
  /\ handle = 0 /\ stopping = FALSE
  /\ thread = [g \in Threads |-> "unborn"]
  /\ hand = [g \in Threads |-> {}]
  /\ todo = 0
  /\ pending = << >> /\ admissions = << >> /\ waiters = {}
  /\ memo = [t \in Turns |-> NoMemo]
  /\ generation = 0
  /\ future = [t \in Turns |-> "new"]
  /\ mail = << >> /\ retried = {}
  /\ loop = <<"free", "idle">>
  /\ stops = 0
  /\ call = [w \in Calls |-> "new"]
  /\ o = NoRollout

\* _cond is not held.
LockFree == \A g \in Threads : thread[g] \notin {"drain", "admit"}

Goto(g, pc) == thread' = [thread EXCEPT ![g] = pc]

\* waiter.resolve: nothing if the future is done, else a callback for the
\* event loop.
Resolve(t, value) == IF future[t] = "pending" THEN <<<<t, value>>>> ELSE << >>

ResolveAll(S, value) == SetToSeq({<<t, value>> : t \in {u \in S : future[u] = "pending"}})
-----------------------------------------------------------------------------
(***************************************************************************)
(* The driver thread: _loop.                                               *)
(***************************************************************************)

\* while not _stop.is_set()
CheckStop(g) ==
  /\ thread[g] = "top"
  /\ IF stopping THEN Goto(g, "dead") ELSE LockFree /\ Goto(g, "drain")
  /\ UNCHANGED <<threadVars, hand, todo, queueVars, loopVars, call, o>>

\* What a pending callable does and where it leaves its caller, who may have
\* stopped waiting for it.  A turn stands for the callable of its retry.
Served(c) ==
  IF c \in Turns
  THEN /\ o' \in Freed(DropSessions(o))
       /\ loop' = IF loop = <<"blocked", c>> THEN <<"resubmit", c>> ELSE loop
       /\ UNCHANGED call
  ELSE /\ o' \in FinishSession(o)
       /\ call' = [call EXCEPT ![c] = IF @ = "posted" THEN "done" ELSE @]
       /\ UNCHANGED loop

\* while self._pending: self._pending.pop(0)()
RunPending(g) ==
  /\ thread[g] = "drain" /\ pending # << >>
  /\ pending' = Tail(pending)
  /\ Served(Head(pending))
  /\ UNCHANGED <<threadVars, thread, hand, todo, admissions, waiters, memo, generation,
                 future, mail, retried, stops>>

Drained(g) ==
  /\ thread[g] = "drain" /\ pending = << >>
  /\ todo' = Len(admissions)
  /\ Goto(g, "admit")
  /\ UNCHANGED <<threadVars, hand, queueVars, loopVars, call, o>>

\* What decides whether a deferred admission is worth another try.
Seen == [active |-> Active(o), free |-> o.free, generation |-> generation]

StillBlocked(t) ==
  /\ memo[t].active = Seen.active
  /\ Seen.free <= memo[t].free
  /\ memo[t].generation = Seen.generation

\* A deferred turn goes to the end of the queue.
Dropped(t) == Tail(admissions)  \* seeded fault: it is not put back

Requeued(t) == Append(Tail(admissions), t)

\* The memo is of what was seen before the attempt, whatever it reclaimed.
RememberAfter(t) ==
  memo' = [memo EXCEPT ![t] = [Seen EXCEPT !.free = o'.free]]  \* seeded fault: seen after it

Remember(t) == memo' = [memo EXCEPT ![t] = Seen]

\* The memo of a turn that leaves the queue is never read again.
ForgetMemo(t) == memo' = [memo EXCEPT ![t] = NoMemo]

\* _begin, with what the loop does about its outcome: admitted, deferred to
\* the end of the queue, or failed.
Begin(t) ==
  \/ /\ o' \in Admit(o, t)
     /\ waiters' = waiters \union {t}
     /\ admissions' = Tail(admissions)
     /\ ForgetMemo(t)
     /\ UNCHANGED mail
  \/ /\ o' \in Defer(o, t)
     /\ Remember(t)
     /\ admissions' = Requeued(t)
     /\ UNCHANGED <<waiters, mail>>
  \/ /\ AdmitMayFail
     /\ o' \in Refuse(o, t)
     /\ mail' = mail \o Resolve(t, "error")
     /\ admissions' = Tail(admissions)
     /\ ForgetMemo(t)
     /\ UNCHANGED waiters

\* One round of the admission loop.
ConsiderTurn(g) ==
  /\ thread[g] = "admit" /\ todo > 0 /\ Cardinality(Active(o)) < MaxNumSeqs
  /\ todo' = todo - 1
  /\ LET t == Head(admissions)
     IN  \/ /\ future[t] # "pending"
            /\ admissions' = Tail(admissions)
            /\ UNCHANGED <<waiters, memo, mail, o>>
         \/ /\ future[t] = "pending" /\ StillBlocked(t)
            /\ admissions' = Requeued(t)
            /\ UNCHANGED <<waiters, memo, mail, o>>
         \/ /\ future[t] = "pending" /\ ~StillBlocked(t)
            /\ Begin(t)
  /\ UNCHANGED <<threadVars, thread, hand, pending, generation, future, retried, loop, stops, call>>

\* The round is over: step if anything is live, else wait for a notification
\* or idle_poll_s.
AdmissionsDone(g) ==
  /\ thread[g] = "admit" /\ (todo = 0 \/ Cardinality(Active(o)) >= MaxNumSeqs)
  /\ todo' = 0
  /\ Goto(g, IF Active(o) = {} THEN "idle" ELSE "step")
  /\ UNCHANGED <<threadVars, hand, queueVars, loopVars, call, o>>

WakeUp(g) ==
  /\ thread[g] = "idle"
  /\ Goto(g, "top")
  /\ UNCHANGED <<threadVars, hand, todo, queueVars, loopVars, call, o>>

\* before_step, then engine.step: idle sessions yield when no block is free,
\* and some live requests get tokens.
Step(g) ==
  /\ thread[g] = "step"
  /\ \E p \in BeforeStep(o), S \in SUBSET Active(o) \ {{}} :
       \E D \in SUBSET S : o' \in Advance(p, S, D)
  /\ Goto(g, "harvest")
  /\ UNCHANGED <<threadVars, hand, todo, queueVars, loopVars, call>>

\* One of them raises; some requests of the step may have stopped already.
StepRaises(g) ==
  /\ thread[g] = "step"
  /\ \E p \in BeforeStep(o), S \in SUBSET Active(o) :
       \E D \in SUBSET S : o' \in Advance(p, S, D)
  /\ \E e \in StepErrors : Goto(g, e)
  /\ UNCHANGED <<threadVars, hand, todo, queueVars, loopVars, call>>

\* _harvest: the waiters whose request paused or is gone are taken out.
Harvest(g) ==
  /\ thread[g] = "harvest" /\ LockFree
  /\ hand' = [hand EXCEPT ![g] = {t \in waiters : o.req[t] # "live"}]
  /\ waiters' = waiters \ hand'[g]
  /\ generation' = generation + Cardinality(hand'[g])
  /\ Goto(g, "done")
  /\ UNCHANGED <<threadVars, todo, pending, admissions, memo, loopVars, call, o>>

\* _harvest finds a token without its log-probability.
HarvestRaises(g) ==
  /\ thread[g] = "harvest"
  /\ "error" \in StepErrors
  /\ Goto(g, "error")
  /\ UNCHANGED <<threadVars, hand, todo, queueVars, loopVars, call, o>>

\* on_done, then the answer; on_done may raise once it has parked the turn.
RetireUnparked(t, values) ==  \* seeded fault: the answer only
  /\ UNCHANGED o
  /\ \E v \in values : mail' = mail \o Resolve(t, v)

Retire(t, values) ==
  /\ o' \in ParkOrRelease(o, t)
  /\ \E v \in values : mail' = mail \o Resolve(t, v)

\* The rest of _harvest, one waiter at a time.
Answer(g) ==
  /\ thread[g] = "done"
  /\ IF hand[g] = {}
     THEN Goto(g, "top") /\ UNCHANGED <<hand, mail, o>>
     ELSE \E t \in hand[g] :
            /\ Retire(t, {"result"} \union (StepErrors \intersect {"error"}))
            /\ hand' = [hand EXCEPT ![g] = @ \ {t}]
            /\ UNCHANGED thread
  /\ UNCHANGED <<threadVars, todo, queueVars, future, retried, loop, stops, call>>

\* _fail_everyone takes all waiters ...
TakeAll(g) ==
  /\ thread[g] \in StepErrors /\ waiters # {} /\ LockFree
  /\ hand' = [hand EXCEPT ![g] = waiters]
  /\ waiters' = {}
  /\ UNCHANGED <<threadVars, thread, todo, pending, admissions, memo, generation, loopVars, call, o>>

\* The request of a failed turn gives its blocks back.
FailRegistered(t) == {o}  \* seeded fault: it stays registered

Fail(t) == Freed(FinishRequests(o, {t}))

\* ... and fails them one by one.
FailOne(g) ==
  /\ thread[g] \in StepErrors /\ waiters = {}
  /\ IF hand[g] = {}
     THEN Goto(g, "top") /\ UNCHANGED <<hand, mail, o>>
     ELSE \E t \in hand[g] :
            /\ o' \in Fail(t)
            /\ mail' = mail \o Resolve(t, thread[g])
            /\ hand' = [hand EXCEPT ![g] = @ \ {t}]
            /\ UNCHANGED thread
  /\ UNCHANGED <<threadVars, todo, queueVars, future, retried, loop, stops, call>>

DriverStep ==
  \E g \in Threads :
    \/ CheckStop(g) \/ RunPending(g) \/ Drained(g) \/ ConsiderTurn(g) \/ AdmissionsDone(g)
    \/ WakeUp(g) \/ Step(g) \/ StepRaises(g) \/ Harvest(g) \/ HarvestRaises(g)
    \/ Answer(g) \/ TakeAll(g) \/ FailOne(g)
-----------------------------------------------------------------------------
(***************************************************************************)
(* The event loop.                                                         *)
(***************************************************************************)

Free == loop[1] = "free"

\* start(): a new thread unless there is a handle.
Start ==
  IF handle # 0 THEN UNCHANGED <<handle, stopping, thread>>
  ELSE LET g == Cardinality({h \in Threads : thread[h] # "unborn"}) + 1
       IN  /\ handle' = g
           /\ stopping' = FALSE
           /\ Goto(g, "top")

\* run_turn up to its await, of a new waiter.
Enqueue(t) ==
  /\ LockFree
  /\ Start
  /\ admissions' = Append(admissions, t)
  /\ memo' = [memo EXCEPT ![t] = NoMemo]
  /\ UNCHANGED <<hand, todo, pending, waiters, generation, stops, call, o>>

\* A caller submits a turn; a continuation comes after its parent's result.
RunTurn(t) ==
  /\ Free /\ future[t] = "new"
  /\ Parent[t] # NoTurn => future[Parent[t]] = "result"
  /\ Enqueue(t)
  /\ future' = [future EXCEPT ![t] = "pending"]
  /\ UNCHANGED <<mail, retried, loop>>

\* A callback of resolve: the answer, unless the future is done.  _run catches
\* the first "KV pool" error.
Deliver ==
  /\ Free /\ mail # << >>
  /\ mail' = Tail(mail)
  /\ LET t == Head(mail)[1]
         v == Head(mail)[2]
         retry == future[t] = "pending" /\ v = "pool" /\ t \notin retried
     IN  /\ future' = [future EXCEPT ![t] = CASE @ # "pending" -> @
                                              [] v = "result" -> "result"
                                              [] retry -> "retry"
                                              [] OTHER -> "error"]
         /\ retried' = IF retry THEN retried \union {t} ELSE retried
         /\ loop' = IF retry THEN <<"retry", t>> ELSE loop
  /\ UNCHANGED <<threadVars, thread, hand, todo, queueVars, stops, call, o>>

\* The retry drops the sessions through run_on_engine, which blocks the event
\* loop while a driver thread is there to ask.
Retry ==
  /\ loop[1] = "retry"
  /\ IF handle = 0
     THEN /\ o' \in Freed(DropSessions(o))
          /\ loop' = <<"resubmit", loop[2]>>
          /\ UNCHANGED pending
     ELSE /\ LockFree
          /\ pending' = Append(pending, loop[2])
          /\ loop' = <<"blocked", loop[2]>>
          /\ UNCHANGED o
  /\ UNCHANGED <<threadVars, thread, hand, todo, admissions, waiters, memo, generation,
                 future, mail, retried, stops, call>>

\* ... and runs the turn once more.
Resubmit ==
  /\ loop[1] = "resubmit"
  /\ Enqueue(loop[2])
  /\ future' = [future EXCEPT ![loop[2]] = "pending"]
  /\ loop' = <<"free", "idle">>
  /\ UNCHANGED <<mail, retried>>

\* The 600 seconds of run_on_engine pass.
RetryTimesOut ==
  /\ CallMayTimeOut
  /\ loop[1] = "blocked"
  /\ future' = [future EXCEPT ![loop[2]] = "error"]
  /\ loop' = <<"free", "idle">>
  /\ UNCHANGED <<threadVars, thread, hand, todo, queueVars, mail, retried, stops, call, o>>

\* The caller's task is cancelled while it waits.
Cancel(t) ==
  /\ MayCancel
  /\ Free /\ future[t] = "pending"
  /\ future' = [future EXCEPT ![t] = "cancelled"]
  /\ UNCHANGED <<threadVars, thread, hand, todo, queueVars, mail, retried, loop, stops, call, o>>

\* sleep, update_named_weights or abort_generation begins with stop().
Stop(op) ==
  /\ Free /\ stops < MaxStops
  /\ stops' = stops + 1
  /\ LockFree
  /\ IF handle = 0
     THEN loop' = <<"own", op>> /\ UNCHANGED stopping
     ELSE loop' = <<"join", op>> /\ stopping' = TRUE
  /\ UNCHANGED <<handle, thread, hand, todo, queueVars, future, mail, retried, call, o>>

\* Whom stop() has to fail.
StrandedRunning == waiters  \* seeded fault: not the turns that were never admitted

Stranded == waiters \union ToSet(admissions)

\* join returns: the handle is cleared and everybody still waiting is failed.
Joined ==
  /\ loop[1] = "join" /\ thread[handle] = "dead"
  /\ handle' = 0
  /\ mail' = mail \o ResolveAll(Stranded, "error")
  /\ waiters' = {} /\ admissions' = << >>
  /\ loop' = <<"own", loop[2]>>
  /\ UNCHANGED <<stopping, thread, hand, todo, pending, memo, generation,
                 future, retried, stops, call, o>>

\* The handle after a join that timed out.
HandleForgotten == 0  \* seeded fault: as if the thread had ended

HandleKept == handle

\* join times out: stop() raises and the operation is not done.
JoinTimesOut ==
  /\ StopMayTimeOut
  /\ loop[1] = "join" /\ thread[handle] # "dead"
  /\ handle' = HandleKept
  /\ loop' = <<"free", "idle">>
  /\ UNCHANGED <<stopping, thread, hand, todo, queueVars, future, mail, retried, stops, call, o>>

\* The operation, on the event loop's own thread.
Operate ==
  /\ loop[1] = "own"
  /\ o' \in CASE loop[2] = "sleep" -> SleepAll(o)
              [] loop[2] = "update" -> UpdateAll(o, FALSE)
                                         \union (IF UpdateMayFail THEN UpdateAll(o, TRUE) ELSE {})
              [] loop[2] = "abort" -> Abort(o)
  /\ loop' = <<"free", "idle">>
  /\ UNCHANGED <<threadVars, thread, hand, todo, queueVars, future, mail, retried, stops, call>>

LoopStep == Deliver \/ Retry \/ Resubmit \/ Joined \/ Operate
-----------------------------------------------------------------------------
(***************************************************************************)
(* The workers: finish_session through run_on_engine.                      *)
(***************************************************************************)

\* The check of _thread, which takes no lock.
CheckThread(w) ==
  /\ call[w] = "new"
  /\ call' = [call EXCEPT ![w] = IF handle = 0 THEN "direct" ELSE "posting"]
  /\ UNCHANGED <<threadVars, thread, hand, todo, queueVars, loopVars, o>>

\* No thread: just a call, on the worker's own thread.
CallDirectly(w) ==
  /\ call[w] = "direct"
  /\ o' \in FinishSession(o)
  /\ call' = [call EXCEPT ![w] = "done"]
  /\ UNCHANGED <<threadVars, thread, hand, todo, queueVars, loopVars>>

Post(w) ==
  /\ call[w] = "posting" /\ LockFree
  /\ pending' = Append(pending, w)
  /\ call' = [call EXCEPT ![w] = "posted"]
  /\ UNCHANGED <<threadVars, thread, hand, todo, admissions, waiters, memo, generation, loopVars, o>>

\* 600 seconds pass; the callable stays in _pending.
CallTimesOut(w) ==
  /\ CallMayTimeOut
  /\ call[w] = "posted"
  /\ call' = [call EXCEPT ![w] = "timed out"]
  /\ UNCHANGED <<threadVars, thread, hand, todo, queueVars, loopVars, o>>
-----------------------------------------------------------------------------
Next ==
  \/ DriverStep
  \/ LoopStep \/ RetryTimesOut \/ JoinTimesOut
  \/ \E t \in Turns : RunTurn(t) \/ Cancel(t)
  \/ \E op \in Operations : Stop(op)
  \/ \E w \in Calls : CheckThread(w) \/ CallDirectly(w) \/ Post(w) \/ CallTimesOut(w)

Spec == Init /\ [][Next]_vars

\* A driver thread keeps running, and the event loop gets to its callbacks and
\* to the lock, which the driver gives up between rounds.  Nobody has to
\* submit, cancel or stop anything, and no timeout has to expire.
FairSpec == Spec /\ WF_vars(DriverStep) /\ SF_vars(LoopStep)
-----------------------------------------------------------------------------
\* Every variable keeps its type.
DriverTypeOK ==
  /\ handle \in {0} \union Threads /\ stopping \in BOOLEAN
  /\ thread \in [Threads -> {"unborn", "top", "drain", "admit", "idle", "step", "harvest",
                              "done", "pool", "error", "dead"}]
  /\ hand \in [Threads -> SUBSET Turns]
  /\ todo \in 0..Len(admissions)
  /\ pending \in Seq(Calls \union Turns)
  /\ admissions \in Seq(Turns) /\ waiters \subseteq Turns
  /\ generation \in Nat
  /\ memo \in [Turns -> [active : SUBSET Turns, free : -1..MaxFree, generation : -1..generation]]
  /\ future \in [Turns -> {"new", "pending", "retry", "result", "error", "cancelled"}]
  /\ mail \in Seq(Turns \X {"result", "pool", "error"})
  /\ retried \subseteq Turns
  /\ loop \in {<<"free", "idle">>} \union ({"retry", "blocked", "resubmit"} \X Turns)
                \union ({"join", "own"} \X Operations)
  /\ stops \in 0..MaxStops
  /\ call \in [Calls -> {"new", "direct", "posting", "posted", "done", "timed out"}]
  /\ o \in Rollout

\* Driver threads in the middle of using the engine or the sessions.
Busy ==
  {g \in Threads : thread[g] \in {"drain", "admit", "step", "harvest", "done", "pool", "error"}}

\* A sleep, a weight update or an abort "has to be the only thing touching the
\* engine" besides calls that found no driver, and there is never a second
\* driver thread at work: not after a stop that timed out, not after a restart.
OperationsExclusive == Cardinality(Busy) + (IF loop[1] = "own" THEN 1 ELSE 0) <= 1

\* One thread owns the engine, calls included: what a turn's start consults,
\* "it sees a scheduler that nothing else is touching".
EngineOwnedByOne ==
  Cardinality(Busy) + (IF loop[1] = "own" THEN 1 ELSE 0)
    + Cardinality({w \in Calls : call[w] = "direct"}) <= 1

\* The places where a turn may be while its caller waits, with multiplicity.
Places(t) ==
  Cardinality({i \in DOMAIN admissions : admissions[i] = t})
    + (IF t \in waiters THEN 1 ELSE 0)
    + Cardinality({g \in Threads : t \in hand[g]})
    + Cardinality({i \in DOMAIN mail : mail[i][1] = t})

\* A turn somebody waits for is queued, running, being retired or answered,
\* and only one of these: stop, failure, deferral, cancellation and retry
\* neither lose a turn nor answer it twice.
TurnsTracked == \A t \in Turns : future[t] = "pending" => Places(t) = 1

\* A turn is answered only once it is retired: its request does not run any
\* more and it is out of the ledger, so that its continuation finds it parked
\* or not at all ("complete and park a turn before admitting its continuation").
ResultsAreRetired ==
  \A t \in Turns : future[t] = "result" => t \notin o.ledger /\ o.req[t] # "live"

\* KV that a stopped request keeps belongs to a parked session or to a turn on
\* its way there, so that eviction can get it back: no failure shrinks the
\* pool for good.
HeldKVIsOwned ==
  \A t \in Turns : o.req[t] = "held" =>
    t \in o.sessions \union waiters \/ \E g \in Threads : t \in hand[g]

\* When the driver is down nobody is left waiting for it: "if it is down, this
\* is just a call".
CallsNotStranded == handle = 0 => \A w \in Calls : call[w] # "posted"

\* A stop timed out and its thread ended later: start() takes the handle it left for a thread
\* that runs.
HandleDead == handle # 0 /\ thread[handle] = "dead" /\ loop[1] # "join"

\* An engine without work keeps turn t deferred: it deferred it before and, because some turn
\* failed, what it sees is again what it saw then.
Starved(t) ==
  /\ t \in ToSet(admissions) /\ Active(o) = {} /\ StillBlocked(t)
  /\ \E u \in Turns : future[u] = "error"

\* Every submitted turn is answered, its retry included: deferred admissions are tried again
\* when capacity returns, a stop fails what it interrupts, and the thread that the blocked event
\* loop waits for needs nothing of the event loop.  A turn waits for ever in two situations
\* only, for a dead thread, or starved by the failure of another turn.
TurnsAnswered ==
  \A t \in Turns :
    <>[](future[t] \in {"pending", "retry"}) => <>[](HandleDead \/ Starved(t))
=============================================================================
