SPECIFICATION RegSpec
CONSTANTS
    Names = {n1} Clerks = {p1, p2} Requests <- Asked Images = {"i1"}
    SigningKeys = {"k1"} Trusted = {"k1"} RequireSigned = TRUE
    AllowCredentialedStdio = FALSE ActBounds <- Acts
CHECK_DEADLOCK FALSE
PROPERTY SignedFieldsWereShown
