------------------------------ MODULE MCEngine ------------------------------
(***************************************************************************)
(* Small instances of Engine for TLC.                                      *)
(***************************************************************************)
EXTENDS EngineTurns, TLC

\* Block, request and token names are interchangeable.
Symmetry == Permutations(Blocks) \union Permutations(Requests) \union Permutations(Tokens)
=============================================================================
