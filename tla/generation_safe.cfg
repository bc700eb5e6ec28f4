\* One person of the original work and one who is not; one place in three spellings.
SPECIFICATION AllSpec
CONSTANTS
    None = None
    a = a
    x = x
    q = q
    Persons = {a, x}
    Canon = {a}
    Places = {q}
    Fidelities = {"strict", "loose", "none"}
    MinCharacters = 1
    MinEvents = 5
    RolesMin = 1
    RolesTarget = 3
    PlayableMin = 1
    PlayableMax = 1
    EventsTarget = 12
    EventCounts = {3, 6}
    CallBudget = 18
    NodeBudget = 24
    Extra = {0, 2}
CHECK_DEADLOCK FALSE
INVARIANTS ResultMeetsContract PaidFor NothingIsLost LowIsOutvoted NamedIsThere PicturesBelong
