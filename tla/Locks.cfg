SPECIFICATION Spec
CONSTANTS
    s1 = s1
    s2 = s2
    g1 = g1
    g2 = g2
    Socket = {s1, s2}
    GameID = {g1}
SYMMETRY Symmetric
INVARIANTS
    NoCircleOfGuards
