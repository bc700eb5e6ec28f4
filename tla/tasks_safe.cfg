\* Two requests beside a world recognized before, under a limit of one; one worker may hang.
SPECIFICATION Spec
CONSTANTS
    t0 = t0
    t1 = t1
    t2 = t2
    s1 = s1
    Tasks = {t0, t1, t2}
    NoTask = NoTask
    Earlier = {t0}
    Streams = {s1}
    Limit = 1
    MayHang = {t1}
CHECK_DEADLOCK FALSE
INVARIANT PaidIfSucceeded
PROPERTIES EndedStreamIsComplete NoLateWrite
