SPECIFICATION Spec
CONSTANTS
    ann = ann
    bob = bob
    cy = cy
    c1 = c1
    c2 = c2
    c3 = c3
    sent = sent
    doc = doc
    Calls = {c1, c2, c3}
    Seeds = {sent}
    Users = {ann, bob, cy}
    Loopback = {}
    Artifacts = {doc}
    SeedRoles <- Founders
    SeedInvites <- OneInvite
    SeedProject = "public"
    SeedTiers <- OneDoc
    Extension = 1
    Requests <- RemoveRequestsOnly
    MaxTime = 0
    MaxFaults = 0
PROPERTIES
    ProjectKeepsOwner
CHECK_DEADLOCK FALSE
