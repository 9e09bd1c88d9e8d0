------------------------------ MODULE MCDriver ------------------------------
(***************************************************************************)
(* Small instances of EngineDriver for TLC.                                *)
(***************************************************************************)
EXTENDS DriverInvariants

CONSTANTS t1, t2, t3, t4

\* Turn t2 continues turn t1; any other turn opens a conversation.
OneContinuation == [t \in Turns |-> IF t = t2 THEN t1 ELSE NoTurn]

\* Two conversations of two turns.
TwoContinuations ==
  [t \in Turns |-> CASE t = t2 -> t1 [] t = t4 -> t3 [] OTHER -> NoTurn]
=============================================================================
