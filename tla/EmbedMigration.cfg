CONSTANTS
    None = None
    s1 = s1  s2 = s2  d1 = d1  old = old  new = new
    Ids = {n1, n2, n3}
    Servers = {s1}
    Drains = {d1}
    Models = {old, new}
    ModelOf <- MCModelOf
    Loaded = {s1, d1}
    BatchSize = 2
    MaxBatches = 2
    MaxDrains = 1
    MaxCrashes = 1
SPECIFICATION FairSpec
INVARIANTS TypeOK VectorsOnRecord NoPhantomVector
PROPERTY EmbeddedEventually
