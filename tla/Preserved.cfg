CONSTANTS
    None = None
    p1 = p1
    page = page  wall = wall  broken = broken
    Keys = {k1, k2}
    Workers = {w1}
    Humans = {h1}
    Processes = {p1}
    ProcessOf <- OneProcessOf
    Writers = {p1}
    Bodies = {page, wall, broken}
    Doms = {}
    Reads <- MCReads
    Texts = {note}
    Expected <- MCExpected
    HumanOps = {"retry", "acknowledge", "reextract"}
    MaxAttempts = 2
    MaxCrashes = 1
CHECK_DEADLOCK FALSE
SPECIFICATION PFairSpec
INVARIANTS CapturesCited ReadingReproducible StatusFollowsReading ExpectationKept
PROPERTIES LossReported LostOnlyInHand QueueDrains
