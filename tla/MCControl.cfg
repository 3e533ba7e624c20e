SPECIFICATION Spec
CONSTANTS
    q1 = q1
    q2 = q2
    Requesters <- TwoRequesters
    None = None
    MaxBoots = 2
    MaxEdits = 1
    MaxSignals = 1
    StoreMayFail = TRUE
    ServeMayDie = TRUE
CHECK_DEADLOCK FALSE
CONSTRAINT FewOperators
SYMMETRY Symmetric
INVARIANTS AnswersAreTrue
PROPERTIES FirstAnswerStands
