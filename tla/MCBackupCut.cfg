CONSTANTS k1 = k1 k2 = k2
CONSTANTS Backups = {k1, k2} Keep = 1 FirstGrades = {"old", "new", "broken"} Foreign <- F Interrupted = TRUE
          MaxCommits = 3 MaxDbs = 3 MaxStamp = 2
          Plans <- P
SPECIFICATION BkSpec
CHECK_DEADLOCK FALSE
INVARIANT NothingIsLost
