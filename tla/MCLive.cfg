SPECIFICATION LiveSpec
CONSTANTS
    Emitters = {e1} LateEmits = TRUE Buffer = 1 MaxEvents = 2 MaxClock = 2
    Clients = {d1, d2} Keys = {"k1", "k2"} Tokens <- MCTokens Configs <- MCConfigs Policies <- MCPolicies
    Advertised = {} RefetchInterval = 2 MaxRotations = 1
    Backends = {b1} Calls = {"c1"} MaxListed = 2 Interval = 1 Grace = 0 MaxDials = 2 Bounds <- MCBounds
    Requesters = {q1, q2} None = None MaxBoots = 2 MaxEdits = 0 MaxSignals = 1 StoreMayFail = FALSE ServeMayDie = TRUE
CHECK_DEADLOCK FALSE
INVARIANT DoneAtMostOnce
PROPERTIES CloseEndsLoop KeyRotationIsPickedUp StoreCatchesUp RungIsAnswered
