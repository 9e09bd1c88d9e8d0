--------------------------- MODULE OpenAIServing ----------------------------
(***************************************************************************)
(* serving/openai.py: OpenAIServer.  Every handler thread of the           *)
(* ThreadingHTTPServer works on the engine itself: run_session looks its   *)
(* session up, adds or resumes a request and drains it through             *)
(* Engine.stream_request, stepping the engine until its own request        *)
(* pauses.  There is no lock.  A call of the engine is one action here;    *)
(* what two threads inside step() do to each other is not modelled.        *)
(***************************************************************************)
EXTENDS FrontEnd

CONSTANT Concurrent       \* BOOLEAN: two handlers may be in flight at once

InFlight == {c \in Chats : chat[c].pc \in {"lookup", "found", "add", "open", "loop", "step", "read"}}

\* do_POST: a chat of a session, or a completion (All), which has none
RequestArrives(c) ==
  /\ chat[c].pc = "idle"
  /\ Concurrent \/ InFlight = {}
  /\ \E k \in Keys \union {All} :
       chat' = [chat EXCEPT ![c].pc = IF k = All THEN "add" ELSE "lookup", ![c].key = k]
  /\ UNCHANGED <<engine, front, sessions, reset>>

\* run_session: sessions.get(key) and the status test, before the engine is called
LookUp(c) ==
  /\ chat[c].pc = "lookup"
  /\ LET rid == sessions[chat[c].key]
     IN chat' = [chat EXCEPT ![c].rid = rid,
                             ![c].pc = IF rid \in Paused(engine) THEN "found" ELSE "add"]
  /\ UNCHANGED <<engine, front, sessions, reset>>

\* add_request and self.sessions[key] = rid, after finishing the request that is replaced; the
\* request of a completion (run_prompt) is held by nobody.
StartTurn(c, E, n, k) ==
  /\ CanAdd(E)
  /\ engine' = AddRequest(E, n, k, chat[c].key # All)
  /\ sessions' = [q \in Keys |-> IF q = chat[c].key THEN NextId(E) ELSE sessions[q]]
  /\ chat' = [chat EXCEPT ![c].pc = "open", ![c].rid = NextId(E), ![c].from = 0, ![c].want = n]
  /\ UNCHANGED <<front, reset>>

AddTurn(c) ==
  /\ chat[c].pc = "add"
  /\ \E n \in TurnLengths, k \in Chunks : StartTurn(c, engine, n, k)

\* The prompt does not extend the held tokens: finish_request, then add.
ReplaceTurn(c) ==
  /\ chat[c].pc = "found"
  /\ \E n \in TurnLengths, k \in Chunks : StartTurn(c, FinishRequest(engine, chat[c].rid), n, k)

\* resume_request of the session's request: it raises unless the request is still paused.
ResumeTurn(c) ==
  /\ chat[c].pc = "found"
  /\ IF chat[c].rid \notin Paused(engine)
     THEN /\ chat' = [chat EXCEPT ![c] = Ended(c, "error")]
          /\ UNCHANGED <<engine, front, sessions, reset>>
     ELSE \E n \in TurnLengths, k \in Chunks :
            /\ engine' = ResumeRequest(engine, chat[c].rid, n, k, TRUE)
            /\ chat' = [chat EXCEPT ![c].pc = "open", ![c].want = n,
                                    ![c].from = engine.req[chat[c].rid].out]
            /\ UNCHANGED <<front, sessions, reset>>

\* add_request or resume_request raises; a request that was to be replaced is finished.
TurnRaises(c) ==
  /\ AddMayFail /\ chat[c].pc \in {"found", "add"}
  /\ \/ engine' = engine
     \/ chat[c].pc = "found" /\ engine' = FinishRequest(engine, chat[c].rid)
  /\ chat' = [chat EXCEPT ![c] = Ended(c, "error")]
  /\ UNCHANGED <<front, sessions, reset>>

\* stream_request: req = self._requests[request_id], a KeyError if it is gone
StreamOpens(c) ==
  /\ chat[c].pc = "open"
  /\ chat' = [chat EXCEPT ![c] = IF Known(engine, @.rid) THEN [@ EXCEPT !.pc = "loop"] ELSE Ended(c, "error")]
  /\ UNCHANGED <<engine, front, sessions, reset>>

\* stream_request: while the request is neither paused nor finished
StreamTests(c) ==
  /\ chat[c].pc = "loop"
  /\ chat' = [chat EXCEPT ![c] = IF engine.req[@.rid].st = "active"
                                 THEN [@ EXCEPT !.pc = "step"] ELSE Ended(c, "done")]
  /\ UNCHANGED <<engine, front, sessions, reset>>

\* stream_request: self.step(); a step that served nobody raises "made no progress".
StreamSteps(c) ==
  /\ chat[c].pc = "step"
  /\ engine' \in Steps(engine)
  /\ chat' = [chat EXCEPT ![c] = IF HasWork(engine) THEN [@ EXCEPT !.pc = "read"] ELSE Ended(c, "error")]
  /\ UNCHANGED <<front, sessions, reset>>

StreamRaises(c) ==
  /\ chat[c].pc = "step"
  /\ engine' \in FailedSteps(engine)
  /\ chat' = [chat EXCEPT ![c] = Ended(c, "error")]
  /\ UNCHANGED <<front, sessions, reset>>

\* stream_request: last_emitted of this request is yielded
StreamYields(c) ==
  /\ chat[c].pc = "read"
  /\ chat' = [chat EXCEPT ![c].pc = "loop", ![c].toks = @ \o engine.last[chat[c].rid]]
  /\ UNCHANGED <<engine, front, sessions, reset>>

\* finish_session and finish_all: the requests the table names are finished.
FinishSessions(h) ==
  /\ reset[h].pc = "idle" /\ (Concurrent \/ InFlight = {})
  /\ \E k \in Keys \union {All} :
       LET ks == IF k = All THEN Keys ELSE {k}
           gone == {sessions[q] : q \in ks} \ {0}
       IN /\ engine' = FinishRequests(engine, gone)
          /\ sessions' = [q \in Keys |-> IF q \in ks THEN 0 ELSE sessions[q]]
          /\ chat' = [c \in Chats |->
                        IF c \in InFlight /\ chat[c].rid \in gone
                        THEN [chat[c] EXCEPT !.cut = TRUE] ELSE chat[c]]
          /\ reset' = [reset EXCEPT ![h] = [pc |-> "done", key |-> k]]
  /\ UNCHANGED front

Serve(c) ==
  \/ LookUp(c) \/ AddTurn(c) \/ ReplaceTurn(c) \/ ResumeTurn(c) \/ TurnRaises(c)
  \/ StreamOpens(c) \/ StreamTests(c) \/ StreamSteps(c) \/ StreamRaises(c) \/ StreamYields(c)

ServingNext ==
  \/ \E c \in Chats : RequestArrives(c) \/ Serve(c)
  \/ \E h \in Resets : FinishSessions(h)

---------------------------------------------------------------------------
(* Properties. *)

\* stream_request yields exactly the tokens of this request's turn, also when a request that an
\* earlier failed step left running shares its steps.  (With two handlers in flight it does not:
\* each steps the engine and drops the tokens of the other's request.)
StreamExact ==
  front = "openai" => AnswersWhole

=============================================================================
