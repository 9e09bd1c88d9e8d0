------------------------------ MODULE FrontEnd ------------------------------
(***************************************************************************)
(* What the two HTTP servers share: handler threads, one per request, that *)
(* run a chat on a named session or reset sessions, and the table from     *)
(* session keys to engine requests.                                        *)
(***************************************************************************)
EXTENDS StepEngine

CONSTANTS FrontEnds,      \* the front ends to run
          Chats,          \* handler threads that serve a chat completion
          Resets,         \* handler threads that serve a reset
          Keys,           \* session keys of the URL
          All,            \* the key of reset_all
          AddMayFail      \* BOOLEAN: add_request or resume_request may raise

ASSUME FrontEndAssumption == All \notin Keys /\ Chats \cap Resets = {} /\ AddMayFail \in BOOLEAN

VARIABLES front,          \* the front end this behaviour runs, fixed at start-up
          sessions,       \* session key -> request id, 0 = none
          chat,           \* handler thread and its _Waiter
          reset           \* pc and key of a reset handler

frontVars == <<front, sessions, chat, reset>>

\* from and want are ghosts: what the request had emitted when this chat's turn began and
\* what the turn produces.  cut marks a chat whose request a reset took away, exact one that
\* left with every token of its turn.
NewChat == [pc |-> "idle", key |-> All, rid |-> 0, toks |-> << >>, set |-> FALSE, err |-> FALSE,
            cut |-> FALSE, exact |-> FALSE, from |-> 0, want |-> 0]
NewReset == [pc |-> "idle", key |-> All]

FrontInit ==
  /\ front \in FrontEnds
  /\ sessions = [k \in Keys |-> 0]
  /\ chat = [c \in Chats |-> NewChat]
  /\ reset = [h \in Resets |-> NewReset]

\* The whole answer of a turn, the tokens from + 1 .. from + want of the request.
WholeTurn(c) == [i \in 1..chat[c].want |-> chat[c].from + i]

\* The handler leaves with an answer, an error or a time-out, and its waiter with it.
Ended(c, how) ==
  [NewChat EXCEPT !.pc = how, !.key = IF how = "timeout" THEN chat[c].key ELSE All,
                  !.rid = IF how = "timeout" THEN chat[c].rid ELSE 0, !.cut = chat[c].cut,
                  !.exact = (how = "done" /\ chat[c].toks = WholeTurn(c))]

\* Every answer has exactly the tokens of its turn, unless a reset cut it short.
AnswersWhole == \A c \in Chats : chat[c].pc = "done" => chat[c].exact \/ chat[c].cut
=============================================================================
