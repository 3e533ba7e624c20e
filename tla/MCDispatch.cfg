CONSTANTS
    s1 = s1
    t1 = t1
    p1 = p1
    p2 = p2
    c1 = c1
    c2 = c2
    None = None
    Subjects = {s1}
    Tools = {t1}
    Providers = {p1, p2}
    Calls = {c1, c2}
    MaxSlots = 1
    Controls <- Both
    Windows <- TwoWindows
SPECIFICATION FairSpec
CHECK_DEADLOCK FALSE
INVARIANTS TrailIsTheCall NothingLeaks ConfigurationHolds
PROPERTIES CallsEnd
