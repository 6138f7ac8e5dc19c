SPECIFICATION Spec
CONSTANTS
    Artifacts = {a1}
    Items = {i1}
    Agents = {u1}
    Areas = {x1, x2}
    Callers = {c1, c2}
    MaxTries = 2
    MaxVer = 3
    InitialTasks <- OneTaskInitial
    Requests <- OneTaskRequests
SYMMETRY Symmetry
CHECK_DEADLOCK FALSE
INVARIANTS
    TypeOK
    RevisionsContiguous
    HeadIsNewestBody
    RetryAppliesOnce
    AcceptedIsRecorded
PROPERTIES
    DoneMeansResolved
    CancelledStaysCancelled
    ImplementsLog
