SPECIFICATION Spec
CONSTANTS
    Operators = {o1, o2} Subjects = {s1} Users = {u1} Groups = {g1, g2}
    Peers = {"root", "operator", "delegate"} Ends = {2} MaxTime = 2 Bounds <- BlocksAndEdits
    Names = {n1} Clerks = {p1, p2} Requests <- Asked Images = {"i1", "i2"}
    SigningKeys = {"k1", "k2"} Trusted = {"k1"} RequireSigned = TRUE
    AllowCredentialedStdio = FALSE ActBounds <- Acts
    k1 = k1 k2 = k2
    Backups = {k1, k2} Keep = 1 FirstGrades = {"old", "new", "broken"} Foreign <- Forged
    Interrupted = FALSE MaxCommits = 3 MaxDbs = 3 MaxStamp = 2 Plans <- Sessions
SYMMETRY Symmetry
VIEW View
CONSTRAINT GroupsStand
CHECK_DEADLOCK FALSE
INVARIANTS BlocksAreTold NothingClings CopiesAreSound NothingIsLost
PROPERTIES PeopleAreGuarded SignedWasShown
