SPECIFICATION FairSpec
CONSTANTS
    ann = ann
    bob = bob
    cy = cy
    c1 = c1
    c2 = c2
    c3 = c3
    sent = sent
    doc = doc
    Calls = {c1, c2, c3}
    Seeds = {sent}
    Users = {ann, bob, cy}
    Loopback = {}
    Artifacts = {doc}
    SeedRoles <- Founders
    SeedInvites <- OneInvite
    SeedProject = "public"
    SeedTiers <- OneDoc
    Extension = 1
    Requests <- MeetingRequests
    MaxTime = 1
    MaxFaults = 1
INVARIANTS
    TypeOK
    InviteSettledOnce
    JoinedInTime
    HistoryIsComplete
PROPERTIES
    ExtensionsAreKept
    PatchKeepsCap
    ImplementsAccess
    EveryCallEnds
CHECK_DEADLOCK FALSE
