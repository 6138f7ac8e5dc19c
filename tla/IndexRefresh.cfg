SPECIFICATION FairSpec
CONSTANTS
    Artifacts = {a1}
    short = short
    long = long
    Contents <- TwoContents
    BodyChunks <- ChunksOf
    ServerModels = {m1, m2, none}
    ReembedModel = m1
    NoModel = none
    Writers = {w1}
    Reembeds = {r1, r2}
    MaxRev = 2
    MaxAttempts = 2
    MaxFaults = 1
INVARIANTS
    TypeOK
    IndexedIsExact
PROPERTIES
    ChunksOnlyReplaced
    AttemptsCounted
    Recovers
