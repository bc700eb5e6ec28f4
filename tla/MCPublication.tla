---------------------------- MODULE MCPublication ----------------------------
(***************************************************************************)
(* Small instances of Publication for TLC.                                 *)
(***************************************************************************)
EXTENDS Publication, TLC

\* Requests, and the names of games, are interchangeable.
Symmetry == Permutations(Requests) \cup Permutations(Games)

=============================================================================
