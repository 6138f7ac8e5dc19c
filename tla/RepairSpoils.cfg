SPECIFICATION Spec
CONSTANTS
    Artifacts = {a1}
    short = short
    long = long
    Contents <- TwoContents
    BodyChunks <- ChunksOf
    ServerModels = {m1}
    ReembedModel = m1
    NoModel = none
    Writers = {w1}
    Reembeds = {r1}
    MaxRev = 2
    MaxAttempts = 2
    MaxFaults = 1
PROPERTIES
    RepairNeverSpoils
