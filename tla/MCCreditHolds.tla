---------------------------- MODULE MCCreditHolds ----------------------------
(***************************************************************************)
(* Small instances of CreditHolds for TLC: two actions against a signup    *)
(* grant that covers one estimate of 2 but not two, a cost beyond the      *)
(* estimate, and a give-up after two attempts.                             *)
(***************************************************************************)
EXTENDS CreditHolds, TLC

MCAdjustments == {-1}

\* Actions and sweepers are interchangeable; used without liveness.
Symmetry == Permutations(Actions) \cup Permutations(Sweepers)

=============================================================================
