SPECIFICATION Spec
CONSTANTS
    r1 = r1
    r2 = r2
    w1 = w1
    w2 = w2
    n1 = n1
    n2 = n2
    Names <- OneName
    Resolvers <- TwoResolvers
    Writers <- OneWriter
    None = None
    MaxVersions = 2
    MaxHandEdits = 0
    FileMayFail = FALSE
    RotatedWhileStarting = TRUE
INVARIANTS StampTellsContents
