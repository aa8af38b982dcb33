CONSTANTS
    None = None
    p1 = p1  p2 = p2
    a = a  b = b  c = c
    t1 = t1  t2 = t2
    Ids = {a, b, c}
    Threads = {t1, t2}
    Processes = {p1}
    ProcessOf <- OneProcessOf
    Scores = {0, 50}
    Theta = 50
    Retries = 2
    MaxEdges = 2
    MaxAssessments = 5
    MaxClock = 1
    MaxCrashes = 1
SYMMETRY SymmetryAll
CHECK_DEADLOCK FALSE
SPECIFICATION Spec
INVARIANTS TypeOK Acyclic PoolAccounted
PROPERTIES PriorReported PoolDropsRecorded
