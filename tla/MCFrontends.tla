---------------------------- MODULE MCFrontends -----------------------------
(***************************************************************************)
(* A small instance of the front ends for TLC.                             *)
(***************************************************************************)
EXTENDS Frontends, TLC

\* Two sessions of two turns and one of a single turn.
SessionTurns == <<2, 1, 2>>
=============================================================================
