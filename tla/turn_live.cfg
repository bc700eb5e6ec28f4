\* Two requests of every kind, which may outlive their lock, with one off-stage tick.
SPECIFICATION FairSpec
CONSTANTS
    r1 = r1
    r2 = r2
    Requests = {r1, r2}
    NoRequest = NoRequest
    Opening = Opening
    MaxRetries = 1
    MaxTicks = 1
    Kinds = {"action", "retry", "resume", "withdraw", "exit", "pause", "abandon"}
CHECK_DEADLOCK FALSE
PROPERTIES NoLostTurn LockFreed
