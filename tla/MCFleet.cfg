CONSTANTS
    n1 = n1
    s1 = s1
    s2 = s2
    o1 = o1
    c1 = c1
    None = None
    Names = {n1}
    Specs = {s1, s2}
    Ops = {o1}
    Calls = {c1}
    MaxProcs = 3
SPECIFICATION Spec
SYMMETRY Symmetry
CHECK_DEADLOCK FALSE
INVARIANTS ProcessesAccounted ServesWhatItMay FleetMatchesRegistry
PROPERTIES HealthyIsKept
