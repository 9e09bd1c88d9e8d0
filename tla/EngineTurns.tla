----------------------------- MODULE EngineTurns -----------------------------
(***************************************************************************)
(* The engine implements the turn protocol of Turns.  The history of a     *)
(* request is its token_ids without the drafts it carries: a draft is a    *)
(* guess until the verifier emits it.                                      *)
(***************************************************************************)
EXTENDS EngineKV

PhaseOf(q) ==
  CASE q.status = "absent" -> "new"
    [] q.status \in {"waiting", "running"} -> "open"
    [] q.status = "paused" -> "held"
    [] q.status = "finished" -> "closed"
    [] q.status = "gone" -> "gone"
QuotaOf(q) == IF PhaseOf(q) = "open" THEN Room(q) ELSE 0

Phase == [r \in Requests |-> PhaseOf(req[r])]
History == [r \in Requests |-> CommittedTokens(req[r])]
Quota == [r \in Requests |-> QuotaOf(req[r])]

Turn == INSTANCE Turns WITH phase <- Phase, history <- History, quota <- Quota
\* The turn protocol clients see: a token enters a request's history only by
\* being submitted or emitted, and none is ever lost or replaced.
TurnProtocol == Turn!Spec

\* What the protocol rests on, beside IInv.  A request that has not begun has
\* no tokens, and one that is open may emit more.  Drafts and finished
\* requests belong to the batch of the step in progress and are gone when it
\* is over: a reset between steps would turn drafts into history, and reopen a
\* finished request that is still registered.
TurnOK(q, registered, scheduled, at) ==
  /\ q.status \in {"absent", "gone"} => q.tokens = << >> /\ q.drafts = 0 /\ ~registered
  /\ q.status \in {"waiting", "running"} => NumOut(q) < q.maxNew
  /\ q.drafts <= NumSpec
  /\ q.drafts > 0 => scheduled /\ at \in {"pass", "logits", "verify"}
  /\ q.status = "finished" => /\ scheduled
                              /\ at \in {"verify", "forward", "commit", "return"}
                              /\ at \in {"verify", "forward"} => NumSpec > 0
TurnsInv == \A r \in Requests : TurnOK(req[r], r \in registry, r \in Members(batch), pc)

\* The inductive invariants together: what the engine keeps between any two
\* steps for the KV to be right and for clients to see the protocol.
ProtocolInv == EngineInv /\ TurnsInv

\* The protocol survives a forward that raises only in an engine without drafts:
\* those of the batch would stay in token_ids and become history.
NoDraftsToLose == ForwardMayFail => NumSpec = 0
=============================================================================
