----------------------------- MODULE Frontends ------------------------------
(***************************************************************************)
(* The front ends together.  A behaviour runs one of them, chosen at       *)
(* start-up; the variables of the others stay as they are.                 *)
(***************************************************************************)
EXTENDS RolloutServer, OpenAIServing, SloHarness

vars == <<engine, frontVars, serverVars, harnessVars>>

Init ==
  /\ EngineInit /\ FrontInit /\ ServerInit /\ HarnessInit
  /\ front # "harness" => mode = "batch"

Next ==
  \/ Rollout /\ ServerNext /\ UNCHANGED harnessVars
  \/ front = "openai" /\ ServingNext /\ UNCHANGED <<serverVars, harnessVars>>
  \/ front = "harness" /\ HarnessNext /\ UNCHANGED <<frontVars, serverVars>>

Spec == Init /\ [][Next]_vars

\* The engine thread never exits (_stop is never set) and its wait on _cond is bounded; the
\* harness is a single thread that runs on; a handler thread that can go on does.
MainThread ==
  \/ Rollout /\ EngineLoop /\ UNCHANGED harnessVars
  \/ front = "harness" /\ HarnessNext /\ UNCHANGED <<frontVars, serverVars>>
HandlerThread(c) ==
  \/ Rollout /\ Handler(c) /\ UNCHANGED harnessVars
  \/ front = "openai" /\ Serve(c) /\ UNCHANGED <<serverVars, harnessVars>>
FairSpec == Spec /\ WF_vars(MainThread) /\ \A c \in Chats : WF_vars(HandlerThread(c))

\* A chat answered without an error has every token of its turn once and in order, however its
\* submission, other chats of its session, failing steps, time-outs and resets fell between the
\* engine's steps, in either server (of OpenAIServer with one request in flight at a time).
\* Only a reset that took its request away cuts an answer short.
AnswersExact == raced \/ AnswersWhole

\* Every chat that waits for the engine thread or drives the engine itself comes to an end,
\* with a result or an error, failing steps included.
ChatsAnswered ==
  \A c \in Chats :
    chat[c].pc \in {"wait", "lookup", "add"} ~> (chat[c].pc \in {"done", "error", "timeout"} \/ raced)
=============================================================================
