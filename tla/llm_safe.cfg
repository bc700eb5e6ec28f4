SPECIFICATION FairSpec
CONSTANTS
  c1 = c1
  c2 = c2
  k1 = k1
  k2 = k2
  k3 = k3
  Nil = Nil
  Calls = {c1, c2}
  Modes = {"tools", "json", "image"}
  Keys <- MCKeys
  Hash <- MCHash
  Timed = {c1}
  Retries = 1
  Cap <- MCCap
  Wheel = 6
CHECK_DEADLOCK FALSE
INVARIANTS NoSlotIsLost BookedIsRead
PROPERTY EveryCallEnds
