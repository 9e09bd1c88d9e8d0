-------------------------------- MODULE Turns --------------------------------
(***************************************************************************)
(* What the engine promises its clients: a request is a conversation of    *)
(* turns.  A turn is opened with a prompt (or, for a held request, with a  *)
(* suffix) and a token quota; while it is open, tokens are appended to the *)
(* history, never more than the quota; it ends held or closed, and a       *)
(* closed request is dropped.  Nothing else ever changes a history: not    *)
(* preemption, not speculation, not a weight update, not sleep.            *)
(***************************************************************************)
EXTENDS Integers, Sequences, SequencesExt

CONSTANTS Requests, Tokens, NumSpec, PromptLengths, SuffixLengths, MaxTokens

VARIABLES phase,    \* "new", "open", "held", "closed" or "gone"
          history,  \* the conversation so far
          quota     \* tokens the open turn may still emit

vars == <<phase, history, quota>>

Init ==
  /\ phase = [r \in Requests |-> "new"]
  /\ history = [r \in Requests |-> << >>]
  /\ quota = [r \in Requests |-> 0]

\* A client opens a turn of a new or a held request.
OpenTurn(r) ==
  /\ phase[r] \in {"new", "held"}
  /\ \E k \in IF phase[r] = "new" THEN PromptLengths ELSE SuffixLengths : \E p \in [1..k -> Tokens] :
       history' = [history EXCEPT ![r] = @ \o p]
  /\ \E m \in MaxTokens : quota' = [quota EXCEPT ![r] = m]
  /\ phase' = [phase EXCEPT ![r] = "open"]

\* A step emits 1..NumSpec + 1 tokens within the quota; the turn may end with
\* them and must end when the quota is used up.
Emit(r) ==
  /\ phase[r] = "open"
  /\ \E k \in 1..NumSpec + 1 :
       /\ k <= quota[r]
       /\ \E e \in [1..k -> Tokens] : history' = [history EXCEPT ![r] = @ \o e]
       /\ \/ /\ k < quota[r]
             /\ quota' = [quota EXCEPT ![r] = @ - k]
             /\ UNCHANGED phase
          \/ /\ quota' = [quota EXCEPT ![r] = 0]
             /\ \E x \in {"held", "closed"} : phase' = [phase EXCEPT ![r] = x]

\* The turns of the requests S are cut short by a sleep or a weight update.
Park(S) ==
  /\ \A r \in S : phase[r] \in {"open", "held"}
  /\ phase' = [r \in Requests |-> IF r \in S THEN "held" ELSE phase[r]]
  /\ quota' = [r \in Requests |-> IF r \in S THEN 0 ELSE quota[r]]
  /\ UNCHANGED history

\* The requests S are dropped: finished, cancelled or aborted.
Drop(S) ==
  /\ \A r \in S : phase[r] \in {"open", "held", "closed"}
  /\ phase' = [r \in Requests |-> IF r \in S THEN "gone" ELSE phase[r]]
  /\ history' = [r \in Requests |-> IF r \in S THEN << >> ELSE history[r]]
  /\ quota' = [r \in Requests |-> IF r \in S THEN 0 ELSE quota[r]]

Next ==
  \/ \E r \in Requests : OpenTurn(r) \/ Emit(r)
  \/ \E S \in SUBSET Requests : Park(S) \/ Drop(S)

Spec == Init /\ [][Next]_vars
=============================================================================
