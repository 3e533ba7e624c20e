CONSTANTS
    n1 = n1
    s1 = s1
    s2 = s2
    o1 = o1
    c1 = c1
    None = None
    Names = {n1}
    Specs = {s1}
    Ops = {o1}
    Calls = {c1}
    MaxProcs = 2
SPECIFICATION FairSpec
CHECK_DEADLOCK FALSE
PROPERTIES ProcessesAreReaped
