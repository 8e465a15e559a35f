SPECIFICATION PartsSpec
CONSTANTS
    u1 = u1
    u2 = u2
    s1 = s1
    c1 = c1
    x1 = x1
    x2 = x2
    b1 = b1
    t1 = t1
    t2 = t2
    Nobody = Nobody
    Manual = Manual
    Background = Background
INVARIANTS ClaimsAreLast PiecesAssigned EngineTrue
PROPERTY SwarmGoesOn
CHECK_DEADLOCK FALSE
