\* Two scripts and two free worlds, thresholds scaled down; the worlds and the sizes of the other parts are in MCStory.
CONSTANTS
  None = None
  Segments = 2
  ClimaxRound = 4
  ClimaxClues = 2
  IntroRound = 2
  IntroClues = 1
  ForcedAfter = 3
  ForcedQuiet = 3
  ForcedLinger = 2
  LogMax = 1
  Away = 1
  TickAfter = 1
  MaxRetries = 1
  Worlds <- MCWorlds
  Gone = Gone
  p1 = p1
  m1 = m1
  m2 = m2
  a1 = a1
  a2 = a2
  chat = chat
  k = k
  ab = ab
  word = word
  hall = hall
  unset = unset
SPECIFICATION AllSpec
SYMMETRY Symmetry
CHECK_DEADLOCK FALSE
INVARIANTS FiresOnce BoardKnowsItsClues EndsInTime FactsAreGrounded TextIsTree BindingIsSound
