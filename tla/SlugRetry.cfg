SPECIFICATION Spec
CONSTANTS
    old = old
    new = new
    newer = newer
    t1 = t1
    t2 = t2
    t3 = t3
    ann = ann
    bob = bob
    once = once
    none = none
    nil = nil
    Calls = {c1, c2, c3}
    Seeds = {seed}
    NoArtifact = nil
    Slugs = {old, new, newer}
    Titles = {t1, t2, t3}
    Authors = {ann, bob}
    Receipts = {once}
    OneUse = {once}
    NoReceipt = none
    Requests <- MeetingRequests
    SeedRows <- OneSeed
    ExemptionLimit = 2
    MaxFaults = 1
INVARIANT
    SlugRetrySettles
CHECK_DEADLOCK FALSE
