\* Two actions, one sweep loop, grants, claw-backs and repairs; no action outlives the TTL.
SPECIFICATION Spec
CONSTANTS
    a1 = a1
    a2 = a2
    w1 = w1
    Actions = {a1, a2}
    Sweepers = {w1}
    Estimates = {2}
    Costs = {3}
    MaxUse = 3
    SignupGrant = 3
    Adjustments <- MCAdjustments
    MaxAdjusted = 1
    MaxAttempts = 2
    GateFailsOpen = TRUE
    TTLCovers = TRUE
    Repairs = TRUE
    NoAction = NoAction
SYMMETRY Symmetry
INVARIANTS LedgerBalanced NoOverspend ChargedOnce
PROPERTIES SettledIsFinal HeldFollowsHolds
