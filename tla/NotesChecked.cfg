CONSTANTS
    None = None
    p1 = p1  p2 = p2
    a = a  b = b  c = c
    t1 = t1  t2 = t2
    Ids = {a, b, c}
    Threads = {t1, t2}
    Processes = {p1, p2}
    ProcessOf <- EachOwnProcess
    Scores = {30, 80}
    Theta = 50
    Retries = 2
    MaxEdges = 1
    MaxAssessments = 3
    MaxClock = 0
    MaxCrashes = 0
    Limit = 1
SYMMETRY Symmetry
CHECK_DEADLOCK FALSE
SPECIFICATION RSpec
INVARIANTS OwnHead ChainConnected CycleVerdict SuggestedUnlinked OneCurrentPerEdge
PROPERTIES ReassessmentWins HistoryKept
