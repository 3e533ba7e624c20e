SPECIFICATION FairSpec
CONSTANTS
    r1 = r1
    r2 = r2
    w1 = w1
    w2 = w2
    n1 = n1
    n2 = n2
    Names <- TwoNames
    Resolvers <- TwoResolvers
    Writers <- TwoWriters
    None = None
    MaxVersions = 3
    MaxHandEdits = 1
    FileMayFail = TRUE
    RotatedWhileStarting = FALSE
INVARIANTS VaultIsExact
PROPERTIES RotationIsPickedUp
