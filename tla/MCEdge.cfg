SPECIFICATION Spec
CONSTANTS
    Sources = {s1, s2, s3} MaxNow = 4 MaxAttempts = 8 SourceRate = 1 SourceBurst = 2
    GlobalRate = 1 GlobalBurst = 3 MarkerWindow = 2 MaxSources = 2 Sample = 2
    Clients = {d1, d2} Keys = {"k1", "k2"} Tokens <- MCTokens Configs <- MCConfigs Policies <- MCPolicies
    Advertised <- MCAdvertised RefetchInterval = 2 MaxRotations = 1
    Requests = {r1, r2} Callers = {c1, c2}
    Tools <- MCTools Unservable <- MCUnservable Forwarded <- MCForwarded
    Retention = 1 MaxListed = 1 EndBounds <- MCEndBounds
    Documents <- D IngestOptions <- Opts Schemas <- S HeaderFold <- Folded LowerCase <- Lowered
    LegalName <- Legal MaxSchemaNodes = 30 MaxToolNameLen = 4
    MaxDefinition = 20 MaxSet = 36 MaxRefDepth = 2 MaxOperations = 5 MaxAliases = 3
    Calls = {k1} Answers <- Ans Addresses <- Addrs MaxBody = 2 MaxRedirects = 2 MaxRotate = 2
SYMMETRY Symmetry
CHECK_DEADLOCK FALSE
INVARIANTS FloodIsBoundedAndTold RolesMeanWhatTheySay CallsAreAnsweredFor TranslationIsFair RefusedForCause CallsAreContained
PROPERTY KeysAreKept
