----------------------------- MODULE MCOffload -----------------------------
(***************************************************************************)
(* Small instances of the offload managers for TLC.                        *)
(***************************************************************************)
EXTENDS OffloadInvariants, TLC

Config(backend, mixed, early) == [backend |-> backend, mixed |-> mixed, early |-> early]
\* Every manager; early saves where the manager has them.
Managers == {Config("async", FALSE, 2), Config("async", TRUE, 2), Config("block", FALSE, 0)}
\* The block manager with early saves on.
TieredEarly == {Config("block", FALSE, 1)}

\* A prompt that fills a block and one that does not.
TwoPrompts == {<<"x", "x">>, <<"y">>}

Symmetry == Permutations(Blocks) \union Permutations(Sessions)
=============================================================================
