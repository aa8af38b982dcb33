CONSTANTS
    None = None
    Processes = {p1}
    Width <- OneWidth
    Statements = 2
    Contents = {n1}
    Found <- MCFound
    MaxFiles = 2
    MaxCrashes = 1
    MaxResets = 1
CHECK_DEADLOCK FALSE
SPECIFICATION Spec
INVARIANT ArchiveReadable
