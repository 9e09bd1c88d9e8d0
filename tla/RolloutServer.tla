--------------------------- MODULE RolloutServer ----------------------------
(***************************************************************************)
(* scripts/codescout_openai_server.py: RolloutState.  Handler threads put  *)
(* submissions and resets on _pending under _cond; one engine thread pops  *)
(* them under the lock, steps the engine without it and hands out what the *)
(* step emitted under the lock again.  A handler waits on its _Waiter.     *)
(***************************************************************************)
EXTENDS FrontEnd

CONSTANTS TimeOutIn,      \* bound: the front ends in which a waiting handler's 600 s may run out
          ResetIn         \* bound: the front ends in which resets arrive

VARIABLES loop,           \* where the engine thread is; "off" = _loop_thread is None
          pending,        \* _pending
          waiters,        \* _waiters: request id -> chat
          adding,         \* the submission between _continue_or_add and _waiters[rid] = waiter
          raced           \* ghost: a reset ran on its handler's thread beside the engine thread

NoChat == "none"
ASSUME RolloutServerAssumption == NoChat \notin Chats

serverVars == <<loop, pending, waiters, adding, raced>>
Rollout == front \in {"held", "unheld", "impatient"}

ServerInit ==
  /\ loop = "off" /\ pending = << >> /\ waiters = [r \in Ids |-> NoChat]
  /\ adding = NoChat /\ raced = FALSE

\* The engine thread holds the lock while it drains _pending.
LockFree == loop \notin {"drain", "reg"}

---------------------------------------------------------------------------
(* Handlers. *)

\* do_POST of a chat, up to tokenize_chat: the body and its session key are read.
ChatArrives(c) ==
  /\ chat[c].pc = "idle"
  /\ \E k \in Keys : chat' = [chat EXCEPT ![c].pc = "ensure", ![c].key = k]
  /\ UNCHANGED <<engine, front, sessions, reset, serverVars>>

\* _ensure_engine_loop
EnsureEngineLoop(c) ==
  /\ chat[c].pc = "ensure" /\ LockFree
  /\ loop' = IF loop = "off" THEN "top" ELSE loop
  /\ chat' = [chat EXCEPT ![c].pc = "enqueue"]
  /\ UNCHANGED <<engine, front, sessions, reset, pending, waiters, adding, raced>>

\* chat_completions: the submission is queued and the handler waits.
Enqueue(c) ==
  /\ chat[c].pc = "enqueue" /\ LockFree
  /\ pending' = Append(pending, c)
  /\ chat' = [chat EXCEPT ![c].pc = "wait"]
  /\ UNCHANGED <<engine, front, sessions, reset, loop, waiters, adding, raced>>

\* The waiter's event is set: the handler answers or raises waiter.error.
Answer(c) ==
  /\ chat[c].pc = "wait" /\ chat[c].set
  /\ chat' = [chat EXCEPT ![c] = Ended(c, IF chat[c].err THEN "error" ELSE "done")]
  /\ UNCHANGED <<engine, front, sessions, reset, serverVars>>

\* waiter.event.wait(timeout=600) runs out; the submission and the request stay.
TimeOut(c) ==
  /\ front \in TimeOutIn /\ chat[c].pc = "wait" /\ ~chat[c].set
  /\ chat' = [chat EXCEPT ![c] = Ended(c, "timeout")]
  /\ UNCHANGED <<engine, front, sessions, reset, serverVars>>

\* do_POST of a reset; _run_on_engine reads _loop_thread without the lock.
ResetArrives(h) ==
  /\ front \in ResetIn /\ reset[h].pc = "idle"
  /\ \E k \in Keys \union {All} :
       reset' = [reset EXCEPT ![h] = [pc |-> IF loop = "off" THEN "direct" ELSE "enqueue", key |-> k]]
  /\ UNCHANGED <<engine, front, sessions, chat, serverVars>>

\* The reset is queued; that its handler stops waiting after 600 s changes nothing.
EnqueueReset(h) ==
  /\ reset[h].pc = "enqueue" /\ LockFree
  /\ pending' = Append(pending, h)
  /\ reset' = [reset EXCEPT ![h].pc = "wait"]
  /\ UNCHANGED <<engine, front, sessions, chat, loop, waiters, adding, raced>>

---------------------------------------------------------------------------
(* Resets. *)

\* The requests a reset finishes.
Victims(k) == IF k = All THEN Live(engine) ELSE {sessions[k]} \ {0}

\* Seeded fault: a reset finishes the requests and forgets who waits for them.
ResetTheseForgetsWaiters(k) ==
  /\ engine' = FinishRequests(engine, Victims(k))
  /\ sessions' = IF k = All THEN [s \in Keys |-> 0] ELSE [sessions EXCEPT ![k] = 0]
  /\ waiters' = [r \in Ids |-> IF r \in Victims(k) THEN NoChat ELSE waiters[r]]
  /\ chat' = chat

\* _reset_sessions_unlocked (All) and _reset_session_unlocked: finish the requests, release
\* their waiters without an error, forget the session keys.
ResetThese(k) ==
  /\ engine' = FinishRequests(engine, Victims(k))
  /\ sessions' = IF k = All THEN [s \in Keys |-> 0] ELSE [sessions EXCEPT ![k] = 0]
  /\ waiters' = [r \in Ids |-> IF r \in Victims(k) THEN NoChat ELSE waiters[r]]
  /\ chat' = [c \in Chats |->
                IF chat[c].pc = "wait" /\ \E r \in Victims(k) : waiters[r] = c
                THEN [chat[c] EXCEPT !.set = TRUE, !.cut = TRUE] ELSE chat[c]]

\* fn() on the handler's own thread, because there was no engine thread when it looked.
DirectReset(h) ==
  /\ reset[h].pc = "direct"
  /\ ResetThese(reset[h].key)
  /\ reset' = [reset EXCEPT ![h].pc = "done"]
  /\ raced' = (raced \/ loop # "off")
  /\ UNCHANGED <<front, loop, pending, adding>>

---------------------------------------------------------------------------
(* The engine thread. *)

TakeLock ==
  /\ loop = "top" /\ loop' = "drain"
  /\ UNCHANGED <<engine, frontVars, pending, waiters, adding, raced>>

HoldKV == front # "unheld"     \* --no-hold-kv frees the request at the end of its turn
HeldBy(k) == IF sessions[k] # 0 /\ sessions[k] \in Paused(engine) THEN sessions[k] ELSE 0

\* _continue_or_add for a turn of n tokens and k prefill chunks: the key's paused request is
\* resumed when the prompt extends what it holds (plan_session_continuation says "exact"),
\* else finished and replaced.  A request of the key that is still running is left alone.
ContinueOrAdd(c, extends, n, k) ==
  LET key == chat[c].key
      held == HeldBy(key)
      exact == held # 0 /\ extends
      E == IF exact THEN ResumeRequest(engine, held, n, k, HoldKV)
           ELSE AddRequest(FinishRequest(engine, held), n, k, HoldKV)
      rid == IF exact THEN held ELSE NextId(engine)
  IN /\ exact \/ CanAdd(engine)
     /\ engine' = E
     /\ sessions' = [sessions EXCEPT ![key] = rid]
     /\ chat' = [chat EXCEPT ![c].rid = rid, ![c].from = E.req[rid].out, ![c].want = n]

\* submit() up to waiter.request_id
Submit(c) ==
  /\ loop = "drain" /\ pending # << >> /\ Head(pending) = c
  /\ \E extends \in BOOLEAN, n \in TurnLengths, k \in Chunks : ContinueOrAdd(c, extends, n, k)
  /\ pending' = Tail(pending) /\ adding' = c /\ loop' = "reg"
  /\ UNCHANGED <<front, reset, waiters, raced>>

\* submit(): self._waiters[rid] = waiter
Register ==
  /\ loop = "reg"
  /\ waiters' = [waiters EXCEPT ![chat[adding].rid] = adding]
  /\ adding' = NoChat /\ loop' = "drain"
  /\ UNCHANGED <<engine, frontVars, pending, raced>>

\* submit() whose resume_request or add_request raises: a request that was finished to be
\* replaced is gone with its session.
SubmitFails(c) ==
  /\ AddMayFail /\ loop = "drain" /\ pending # << >> /\ Head(pending) = c
  /\ LET held == HeldBy(chat[c].key)
     IN \/ UNCHANGED <<engine, sessions>>
        \/ /\ held # 0
           /\ engine' = FinishRequest(engine, held)
           /\ sessions' = [sessions EXCEPT ![chat[c].key] = 0]
  /\ chat' = [chat EXCEPT ![c].err = (chat[c].pc = "wait"), ![c].set = (chat[c].pc = "wait")]
  /\ pending' = Tail(pending)
  /\ UNCHANGED <<front, reset, loop, waiters, adding, raced>>

\* wrapped() of a queued reset
RunReset(h) ==
  /\ loop = "drain" /\ pending # << >> /\ Head(pending) = h
  /\ ResetThese(reset[h].key)
  /\ pending' = Tail(pending)
  /\ reset' = [reset EXCEPT ![h].pc = "done"]
  /\ UNCHANGED <<front, loop, adding, raced>>

\* _pending is empty: step if there is work, else wait on _cond (at most 50 ms) and look again.
ReleaseLock ==
  /\ loop = "drain" /\ pending = << >>
  /\ loop' = IF HasWork(engine) THEN "step" ELSE "top"
  /\ UNCHANGED <<engine, frontVars, pending, waiters, adding, raced>>

EngineStep ==
  /\ loop = "step"
  /\ engine' \in Steps(engine)
  /\ loop' = "harvest"
  /\ UNCHANGED <<frontVars, pending, waiters, adding, raced>>

EngineStepRaises ==
  /\ loop = "step"
  /\ engine' \in FailedSteps(engine)
  /\ loop' = "fail"
  /\ UNCHANGED <<frontVars, pending, waiters, adding, raced>>

\* The handlers that still look at a registered waiter: one that timed out has left it.
Waits(c) == chat[c].pc = "wait" /\ \E r \in Ids : waiters[r] = c

\* Seeded fault: only the waiters of requests that are still running are failed.
FailWaitersRunning ==
  /\ loop = "fail"
  /\ chat' = [c \in Chats |-> IF Waits(c) /\ engine.req[chat[c].rid].st = "active"
                              THEN [chat[c] EXCEPT !.err = TRUE, !.set = TRUE] ELSE chat[c]]
  /\ waiters' = [r \in Ids |-> NoChat] /\ loop' = "top"
  /\ UNCHANGED <<engine, front, sessions, reset, pending, adding, raced>>

\* except Exception: every waiter gets the error; the requests stay in the engine.
FailWaiters ==
  /\ loop = "fail"
  /\ chat' = [c \in Chats |-> IF Waits(c) THEN [chat[c] EXCEPT !.err = TRUE, !.set = TRUE] ELSE chat[c]]
  /\ waiters' = [r \in Ids |-> NoChat] /\ loop' = "top"
  /\ UNCHANGED <<engine, front, sessions, reset, pending, adding, raced>>

\* Seeded fault: the finished check comes before the tokens of this step are added.
HarvestEarly ==
  /\ loop = "harvest"
  /\ LET over == {r \in Ids : waiters[r] # NoChat /\ engine.req[r].st # "active"}
     IN /\ chat' = [c \in Chats |->
                     IF Waits(c)
                     THEN [chat[c] EXCEPT !.toks = IF chat[c].rid \in over THEN @ ELSE @ \o engine.last[chat[c].rid],
                                          !.set = (@ \/ chat[c].rid \in over)]
                     ELSE chat[c]]
        /\ waiters' = [r \in Ids |-> IF r \in over THEN NoChat ELSE waiters[r]]
  /\ loop' = "top"
  /\ UNCHANGED <<engine, front, sessions, reset, pending, adding, raced>>

\* After a step: every waiter gets its request's tokens and is released when the request
\* paused, finished or is gone.
Harvest ==
  /\ loop = "harvest"
  /\ LET over == {r \in Ids : waiters[r] # NoChat /\ engine.req[r].st # "active"}
     IN /\ chat' = [c \in Chats |->
                     IF Waits(c)
                     THEN [chat[c] EXCEPT !.toks = @ \o engine.last[chat[c].rid],
                                          !.set = (@ \/ chat[c].rid \in over)]
                     ELSE chat[c]]
        /\ waiters' = [r \in Ids |-> IF r \in over THEN NoChat ELSE waiters[r]]
  /\ loop' = "top"
  /\ UNCHANGED <<engine, front, sessions, reset, pending, adding, raced>>

EngineLoop ==
  \/ TakeLock
  \/ \E c \in Chats : Submit(c)
  \/ \E c \in Chats : SubmitFails(c)
  \/ Register
  \/ \E h \in Resets : RunReset(h)
  \/ ReleaseLock
  \/ EngineStep
  \/ EngineStepRaises
  \/ FailWaiters
  \/ Harvest

Handler(c) == EnsureEngineLoop(c) \/ Enqueue(c) \/ Answer(c)

ServerNext ==
  \/ \E c \in Chats : ChatArrives(c) \/ Handler(c) \/ TimeOut(c)
  \/ \E h \in Resets : ResetArrives(h) \/ EnqueueReset(h) \/ DirectReset(h)
  \/ EngineLoop

---------------------------------------------------------------------------
(* Properties. *)

\* A chat whose event is not set is queued, being registered, or the waiter of exactly one
\* request that will still be harvested or failed: nobody waits for a request that is over.
NoChatLost ==
  raced \/ \A c \in Chats : chat[c].pc = "wait" /\ ~chat[c].set =>
    \/ \E i \in DOMAIN pending : pending[i] = c
    \/ adding = c
    \/ /\ {r \in Ids : waiters[r] = c} = {chat[c].rid}
       /\ engine.req[chat[c].rid].st = "active" \/ loop \in {"harvest", "fail"}

=============================================================================
