CONSTANTS
    Notes = {1, 2, 3, 4}
    K = 2
    Limit = 3
CHECK_DEADLOCK FALSE
SPECIFICATION Spec
INVARIANTS BothBeatOne BothSurvive
