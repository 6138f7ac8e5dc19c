SPECIFICATION FairSpec
CONSTANTS
    Artifacts = {a1, a2}
    Items = {i1}
    Agents = {u1}
    Areas = {x1, x2}
    Callers = {c1, c2}
    MaxTries = 2
    MaxVer = 2
    InitialTasks <- TwoTasksInitial
    Requests <- TwoTasksRequests
CHECK_DEADLOCK FALSE
PROPERTIES
    EveryRequestAnswered
