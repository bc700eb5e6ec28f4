\* One script, a stranger, two requests that overlap, three live games.
SPECIFICATION Spec
CONSTANTS
    s1 = s1
    p1 = p1
    r1 = r1
    r2 = r2
    Scripts = {s1}
    World = World
    Players = {p1}
    Owner = Owner
    Requests = {r1, r2}
    g1 = g1
    g2 = g2
    g3 = g3
    Games = {g1, g2, g3}
INVARIANTS ListedIsPublished StrangersSawPublic NoDanglingGame
SYMMETRY Symmetry
CHECK_DEADLOCK FALSE
