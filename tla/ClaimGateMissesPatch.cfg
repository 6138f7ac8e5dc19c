SPECIFICATION Spec
CONSTANTS
    Artifacts = {a1}
    Items = {i1}
    Agents = {u1}
    Areas = {x1, x2}
    Callers = {c1}
    MaxTries = 1
    MaxVer = 1
    InitialTasks <- OneTaskInitial
    Requests <- OneTaskRequests
CHECK_DEADLOCK FALSE
PROPERTIES
    ClaimedDoneIsGated
