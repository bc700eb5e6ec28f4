\* Four requests that play, replay, recap, pause and withdraw, with one off-stage tick;
\* a behaviour is followed until a request outlives its lock or a tick overwrites a turn.
SPECIFICATION Spec
CONSTANTS
    r1 = r1
    r2 = r2
    r3 = r3
    r4 = r4
    Requests = {r1, r2, r3, r4}
    NoRequest = NoRequest
    Opening = Opening
    MaxRetries = 1
    MaxTicks = 1
    Kinds = {"action", "retry", "resume", "withdraw", "pause"}
SYMMETRY Symmetry
CHECK_DEADLOCK FALSE
CONSTRAINT Undisturbed
INVARIANTS NoOrphanMessages
PROPERTIES NoLostBoard
