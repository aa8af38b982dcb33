CONSTANTS
    None = None
    p1 = p1  p2 = p2
    page = page  wall = wall  broken = broken
    Keys = {k1}
    Workers = {w1}
    Humans = {h1, h2}
    Processes = {p1, p2}
    ProcessOf <- ServeAndReview
    Bodies = {page, wall, broken}
    Doms = {page, wall}
    Reads <- MCReads
    Texts = {note}
    Expected <- MCExpected
    HumanOps = {"paste", "browser", "retry", "acknowledge", "reextract", "extract"}
    MaxAttempts = 2
    MaxCrashes = 0
SPECIFICATION FairSpec
INVARIANT NoSilentHole
PROPERTIES BytesImmutable FilledOnce BytesGetRead
