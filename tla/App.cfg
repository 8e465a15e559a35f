SPECIFICATION AppSpec
CONSTANTS
    t1 = t1
    t2 = t2
    h1 = h1
    h2 = h2
    h3 = h3
    p1 = p1
    p2 = p2
    q1 = q1
    q2 = q2
    x1 = x1
    x2 = x2
    e1 = e1
    c1 = c1
    c2 = c2
    c3 = c3
    Nobody = Nobody
INVARIANTS LanWhole SourcesTrue FrontsSound KeptInStep
PROPERTY AppGoesOn
CHECK_DEADLOCK FALSE
