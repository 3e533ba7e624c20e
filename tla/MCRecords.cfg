SPECIFICATION RecSpec
CONSTANTS
    s1 = s1 s2 = s2 c1 = c1 NoCaller = NoCaller Kept = Kept
    Callers = {s1, s2, c1} HostOf <- MCHost Recs <- MCRecs Unreadable = 9
    MaxRows <- MCMaxRows MaxLegacy = 1 MaxBoots <- MCMaxBoots MaxBeats = 1 PageLimit = 1
    Emitters = {e1, e2} LateEmits = TRUE Buffer = 1 MaxEvents = 3 MaxClock = 2
    Backends = {b1} Calls = {"c1"} MaxListed = 2 Interval = 1 Grace = 0 MaxDials = 2 Bounds <- MCBounds
    Servers = {s} Tools = {t} Bodies = {d1, d2} Outputs = {x} NoOutput = NoOutput Operators = {o1, o2} MaxManifests = 1
CONSTRAINT Bounded
SYMMETRY Symmetry
CHECK_DEADLOCK FALSE
INVARIANTS StoreCoherent UsableWasReviewed ChainIsSound CopyIsSound ReadersSeeAll LossIsAdmitted StatusIsTrue
PROPERTIES ImplementsLog OperatorDecides
