------------------------ MODULE FrontendsInvariants -------------------------
(***************************************************************************)
(* What has to hold between any two steps of a front end, and of the       *)
(* engine below it, for every answer to be whole and for nobody to be left *)
(* waiting: the inductive invariant of AnswersExact and NoChatLost.        *)
(***************************************************************************)
EXTENDS Frontends

Requests == [st : {"unborn", "active", "paused", "gone"}, hold : BOOLEAN,
             chunks : Nat, left : Nat, out : Nat]
Engines == [req : [Ids -> Requests], order : Seq(Ids), last : [Ids -> Seq(Nat)]]

\* Ids are given out one after the other, and the queue has the active requests.
Orderly(E) ==
  /\ E \in Engines
  /\ \E n \in 0..MaxRequests : \A r \in Ids : E.req[r].st = "unborn" <=> r > n
  /\ Range(E.order) = {r \in Ids : E.req[r].st = "active"}

Places == {"idle", "done", "error",
           "ensure", "enqueue", "wait", "timeout",
           "lookup", "found", "add", "open", "loop", "step", "read"}
ChatType == [pc : Places, key : Keys \union {All}, rid : Ids \union {0}, toks : Seq(Nat),
             set : BOOLEAN, err : BOOLEAN, cut : BOOLEAN, exact : BOOLEAN,
             from : Nat, want : Nat]
ChatsOK ==
  /\ chat \in [Chats -> ChatType]
  /\ sessions \in [Keys -> Ids \union {0}]
  /\ reset \in [Resets -> [pc : {"idle", "direct", "enqueue", "wait", "done"}, key : Keys \union {All}]]

---------------------------------------------------------------------------
(* What a turn has emitted. *)

\* n tokens of a request, the first of them after token a.
TokensFrom(a, n) == [i \in 1..n |-> a + i]

\* A chat that has the tokens t has every token its request q has emitted in
\* this turn, and what q has left to emit is what the turn is still owed.
Owed(c, q, t) ==
  /\ c.from <= q.out
  /\ t = TokensFrom(c.from, q.out - c.from)
  /\ q.out + (IF q.st = "active" THEN q.left ELSE 0) = c.from + c.want

---------------------------------------------------------------------------
(* The rollout server. *)

\* Chat c is the waiter of request r.  It is harvested or failed while it waits,
\* and after a step it is owed what the step has emitted too.
WaiterOf(c, r) ==
  /\ chat[c].rid = r
  /\ chat[c].pc \in {"wait", "timeout"}
  /\ engine.req[r].st # "unborn"
  /\ engine.req[r].st = "active" \/ loop \in {"harvest", "fail"}
  /\ chat[c].pc = "wait" =>
       /\ ~chat[c].set
       /\ loop # "fail" =>
            Owed(chat[c], engine.req[r],
                 IF loop = "harvest" THEN chat[c].toks \o engine.last[r] ELSE chat[c].toks)

WaitersOK ==
  /\ waiters \in [Ids -> Chats \union {NoChat}]
  /\ adding \in Chats \union {NoChat}
  /\ adding # NoChat <=> loop = "reg"
  /\ \A r \in Ids : waiters[r] # NoChat => WaiterOf(waiters[r], r) /\ adding # waiters[r]
  /\ adding # NoChat => /\ chat[adding].rid \in Ids
                        /\ WaiterOf(adding, chat[adding].rid)
                        /\ waiters[chat[adding].rid] = NoChat

\* A submission is queued once, and not before it is made or after it is taken.
PendingOK ==
  /\ pending \in Seq(Chats \union Resets)
  /\ IsInjective(pending)
  /\ \A c \in Chats \intersect Range(pending) :
       /\ chat[c].pc \in {"wait", "timeout"}
       /\ ~chat[c].set /\ chat[c].toks = << >>
       /\ adding # c
       /\ \A r \in Ids : waiters[r] # c
  /\ \A h \in Resets \intersect Range(pending) : reset[h].pc = "wait"

\* Somebody will set the event of chat c.
Awaited(c) ==
  \/ c \in Range(pending)
  \/ adding = c
  \/ chat[c].rid \in Ids /\ waiters[chat[c].rid] = c

\* A handler has nothing before it waits, and once its event is set without an
\* error it has the whole answer, unless a reset set it.
HandlerOK(c) ==
  /\ chat[c].pc \in {"idle", "ensure", "enqueue", "wait", "done", "error", "timeout"}
  /\ chat[c].pc \in {"idle", "ensure", "enqueue"} => ~chat[c].set /\ chat[c].toks = << >>
  /\ chat[c].pc = "wait" /\ chat[c].set /\ ~chat[c].err =>
       chat[c].cut \/ chat[c].toks = WholeTurn(c)
  /\ chat[c].pc = "wait" /\ ~chat[c].set => Awaited(c)

\* Before there is an engine thread nobody has asked anything of the engine.
OffOK ==
  loop = "off" =>
    /\ \A c \in Chats : chat[c].pc \in {"idle", "ensure"}
    /\ \A h \in Resets : reset[h].pc \in {"idle", "direct", "done"}
    /\ pending = << >> /\ waiters = [r \in Ids |-> NoChat]
    /\ \A r \in Ids : engine.req[r].st = "unborn"
    /\ sessions = [k \in Keys |-> 0]

ServerInv ==
  /\ loop \in {"off", "top", "drain", "reg", "step", "harvest", "fail"}
  /\ ChatsOK /\ AnswersWhole
  /\ Orderly(engine) /\ WaitersOK /\ PendingOK
  /\ \A c \in Chats : HandlerOK(c)
  /\ OffOK

---------------------------------------------------------------------------
(* The OpenAI server. *)

\* A handler that streams request r has what the steps before its own emitted,
\* and after its own step all but the tokens of that step.
Streams(c) ==
  /\ engine.req[chat[c].rid].st # "unborn"
  /\ Owed(chat[c], engine.req[chat[c].rid],
          IF chat[c].pc = "read" THEN chat[c].toks \o engine.last[chat[c].rid] ELSE chat[c].toks)

ServingPlaces == {"idle", "done", "error"} \union {"lookup", "found", "add"} \union {"open", "loop", "step", "read"}
Streaming == {c \in Chats : chat[c].pc \in {"open", "loop", "step", "read"}}

ServingInv ==
  /\ ChatsOK /\ Orderly(engine)
  /\ \A c \in Chats :
       /\ chat[c].pc \in ServingPlaces
       /\ chat[c].pc \in {"idle", "lookup", "found", "add"} => chat[c].toks = << >>
       /\ chat[c].pc = "lookup" => chat[c].key \in Keys
       /\ c \in Streaming => chat[c].rid \in Ids
  /\ ~Concurrent =>
       /\ AnswersWhole
       /\ \A c, d \in InFlight : c = d
       /\ \A c \in Streaming : Streams(c)

---------------------------------------------------------------------------
\* Concurrent handlers of the OpenAI server each drop tokens of the other's
\* request: its answers are only whole with one request in flight at a time.
OneAtATime == Concurrent => "openai" \notin FrontEnds

\* The inductive invariant.  Nothing is claimed once a reset has run beside
\* the engine thread.
FrontInv ==
  /\ front \in FrontEnds
  /\ raced \in BOOLEAN
  /\ ~raced =>
       /\ Rollout => ServerInv
       /\ front = "openai" => ServingInv
       /\ ~Rollout /\ front # "openai" => \A c \in Chats : chat[c].pc = "idle"
=============================================================================
