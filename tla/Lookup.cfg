CONSTANTS
    None = None
    x = x  y = y  z = z
    p1 = p1  p2 = p2
    Processes = {p1, p2}
    Width <- TwoWidths
    Statements = 2
    Contents <- MCIds
    Found <- MCFound
    MaxFiles = 1
    MaxCrashes = 1
    MaxResets = 0
    Words = {x, y, z}
    WordCount = 2
    Radius = 1
    Requests = {"dropped", "garbled"}
    Meant <- MCMeant
CHECK_DEADLOCK FALSE
SPECIFICATION LSpec
INVARIANTS ServedIsWhole RowsTellTheTruth SameCorrection OneEditRecovered
PROPERTY AllServe
