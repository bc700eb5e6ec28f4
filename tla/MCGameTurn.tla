------------------------------ MODULE MCGameTurn ------------------------------
(***************************************************************************)
(* Small instances of GameTurn for TLC: a few requests of any kind.        *)
(***************************************************************************)
EXTENDS GameTurn, TLC

\* Requests are interchangeable; used in runs without liveness.
Symmetry == Permutations(Requests)

=============================================================================
