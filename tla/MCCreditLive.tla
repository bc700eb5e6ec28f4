---------------------------- MODULE MCCreditLive ----------------------------
(***************************************************************************)
(* CreditHolds under two sets of assumptions, one execution for each:      *)
(*   "plain"  two actions and one sweep loop, no action outlives the TTL,  *)
(*            fairly scheduled;                                            *)
(*   "race"   one action that may outlive the TTL, and two sweep loops.    *)
(***************************************************************************)
EXTENDS Integers, TLC

CONSTANTS a1, a2, w1, w2, NoAction

VARIABLES
    assumed,
    wallet, balance, held, granted, ledger, clawed, debits, rows, overrun,
    status, estimate, charged, captured, attempts, old,
    pc, used, recorded, outcome, spc, todo, cur, rpc, snap, repaired

vars == <<assumed, wallet, balance, held, granted, ledger, clawed, debits, rows, overrun,
          status, estimate, charged, captured, attempts, old,
          pc, used, recorded, outcome, spc, todo, cur, rpc, snap, repaired>>

Plain_ == INSTANCE CreditHolds WITH
    Actions <- {a1, a2}, Sweepers <- {w1}, Estimates <- {2}, Costs <- {3}, MaxUse <- 3,
    SignupGrant <- 4, Adjustments <- {1}, MaxAdjusted <- 0, MaxAttempts <- 2,
    GateFailsOpen <- FALSE, TTLCovers <- TRUE, Repairs <- FALSE
Race_ == INSTANCE CreditHolds WITH
    Actions <- {a1}, Sweepers <- {w1, w2}, Estimates <- {2}, Costs <- {3}, MaxUse <- 3,
    SignupGrant <- 2, Adjustments <- {1, -1}, MaxAdjusted <- 1, MaxAttempts <- 2,
    GateFailsOpen <- TRUE, TTLCovers <- FALSE, Repairs <- FALSE

Init ==
    \/ assumed = "plain" /\ Plain_!Init
    \/ assumed = "race" /\ Race_!Init

Next ==
    /\ UNCHANGED assumed
    /\ \/ assumed = "plain" /\ Plain_!Next
       \/ assumed = "race" /\ Race_!Next

\* The fairness of CreditHolds, as its module explains it.
Plain(A) == assumed = "plain" /\ A /\ UNCHANGED assumed

Fairness ==
    /\ \A a \in {a1, a2} : WF_vars(Plain((pc[a] # "idle" /\ Plain_!ActionStep(a)) \/ Plain_!Age(a)))
    /\ WF_vars(Plain(Plain_!SweepLoadFailed(w1) \/ Plain_!SweepEnd(w1)))
    /\ SF_vars(Plain(Plain_!SweepLoadOrphans(w1)))
    /\ SF_vars(Plain(\E a \in {a1, a2} : Plain_!Replay(w1, a)))
    /\ SF_vars(Plain(Plain_!ReplayReread(w1))) /\ SF_vars(Plain(Plain_!GiveUp(w1)))
    /\ SF_vars(Plain(\E a \in {a1, a2} : Plain_!ChargeOrphan(w1, a) \/ Plain_!ForgiveOrphan(w1, a)))
    /\ SF_vars(Plain(Plain_!OrphanReread(w1))) /\ SF_vars(Plain(Plain_!Forgive(w1)))

FairSpec == Init /\ [][Next]_vars /\ Fairness

-----------------------------------------------------------------------------
\* Every reservation is resolved in the end, though settlements may fail for ever
\* (credit_service.py sweep_holds).
HoldResolved ==
    \A a \in {a1, a2} :
        assumed = "plain" /\ status[a] \in Plain_!Unresolved ~> assumed = "plain" /\ status[a] = "settled"

\* A hold that two parties resolve at once still leaves a balance the ledger explains, and
\* locks no credits for ever (credit_service.py settle_hold, sweep_holds).
RaceLeavesNoTrace == assumed = "race" => Race_!LedgerBalanced /\ Race_!NoLeakedReservation
=============================================================================
