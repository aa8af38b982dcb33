CONSTANTS
    None = None
    p1 = p1  p2 = p2
    page = page  wall = wall  broken = broken
    Keys = {k1}
    Workers = {w1, w2}
    Humans = {h1, h2}
    Processes = {p1}
    ProcessOf <- OneProcessOf
    Bodies = {page, wall}
    Doms = {page}
    Reads <- MCReads
    Texts = {note}
    Expected <- MCExpected
    HumanOps = {"paste", "browser", "retry", "acknowledge", "reextract", "extract"}
    MaxAttempts = 2
    MaxCrashes = 1
SYMMETRY Symmetry
SPECIFICATION Spec
INVARIANTS TypeOK RawWitnessed NothingLost AttemptsBounded
PROPERTIES ManualFinal PromiseKept
