CONSTANTS
    None = None
    p1 = p1  p2 = p2
    page = page  wall = wall  broken = broken
    Keys = {k1}
    Workers = {w1}
    Humans = {h1}
    Processes = {p1}
    ProcessOf <- OneProcessOf
    Bodies = {page, wall}
    Doms = {}
    Reads <- MCReads
    Texts = {note}
    Expected <- MCExpected
    HumanOps = {"paste", "reextract"}
    MaxAttempts = 2
    MaxCrashes = 0
SPECIFICATION Spec
INVARIANTS RoomForHuman
