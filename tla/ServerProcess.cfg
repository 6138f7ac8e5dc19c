SPECIFICATION FairSpec
CONSTANTS
    none = none
    blank = blank
    s1 = s1
    s2 = s2
    old = old
    new = new
    edited = edited
    sum1 = sum1
    sum2 = sum2
    sum3 = sum3
    v0 = v0
    v1 = v1
    v2 = v2
    Servers = {s1, s2}
    Binaries = {old, new, edited}
    Builds <- BuildsOf
    LastMigration = 2
    Sums = {sum1, sum2, sum3}
    Versions = {v0, v1, v2}
    None = none
    Blank = blank
    Manifest <- Manifests
    Version <- BinaryVersions
    SeedLedger <- OldLedger
    SeedStored = {none, v0}
    SeedVersion = v0
    BufferSize = 1
    BatchSize = 2
    MaxStarts = 2
    MaxCalls = 2
    MaxFaults = 1
INVARIANTS
    TypeOK
    SchemaIsMigrated
    EarlierCallsAreFlushed
PROPERTIES
    ChangeNoticedOnce
    EveryPhaseEnds
CHECK_DEADLOCK FALSE
