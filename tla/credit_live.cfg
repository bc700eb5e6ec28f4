\* Two actions fairly scheduled; one action raced by two sweeps.  The sizes are in MCCreditLive.
SPECIFICATION FairSpec
CONSTANTS
    a1 = a1
    a2 = a2
    w1 = w1
    w2 = w2
    NoAction = NoAction
INVARIANT RaceLeavesNoTrace
PROPERTY HoldResolved
