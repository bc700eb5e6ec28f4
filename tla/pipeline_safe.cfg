\* Two attempts, fields in any order; the sizes of the parts are in MCTurnPipeline.
SPECIFICATION AllSpec
CONSTANTS
    MaxAttempts = 2
    InOrder = FALSE
    Nobody = Nobody
    t1 = t1
    t2 = t2
    n1 = n1
    n2 = n2
SYMMETRY Symmetry
INVARIANTS BundleOnce NothingIsForgotten EveryoneIsServed
PROPERTY OrderOfEvents
