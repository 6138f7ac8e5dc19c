SPECIFICATION Spec
CONSTANTS
    ann = ann
    nobody = nobody
    c1 = c1
    c2 = c2
    c3 = c3
    fresh = fresh
    used = used
    web = web
    old = old
    Calls = {c1, c2, c3}
    Families = {fresh, used}
    SeedClients = {web, old}
    Nobody = nobody
    Users = {ann}
    Scopes = {"pindoc", "offline_access"}
    Requests <- MeetingRequests
    SeedRows <- TwoFamilies
    SeedConsents <- Consented
    ClientRows <- TwoClients
    DcrMax = 2
    MaxFaults = 1
INVARIANTS
    TypeOK
    ScopesConsented
    NonceConfirmsOnce
    EndedFamilyStaysDead
    OneActiveRefresh
    DcrBounded
CHECK_DEADLOCK FALSE
