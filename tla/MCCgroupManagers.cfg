SPECIFICATION Spec
CONSTANTS
    Containers = {"c1"}
    Layouts <- Hosts
    Requests <- Limits
    RootCpus = {0, 1}
    MaxForks = 2
    Tries = 4
    Jobs <- Creators
    Available = {"cpu", "memory"}
    Needed = {"cpu", "memory"}
    Children = {}
    Inner = {}
    HasKill = {TRUE}
    Readonly <- Denied
    Rootless = TRUE
    MaxAttempts = 4
    Versions = {1, 2}
    MaxIter = 30
    ThawEvery = 7
    MaxThaws = 2
    Programs <- YoukiPrograms
    Buses = {"system", "session"}
    PrivateSocket = TRUE
    LateReplies = {TRUE, FALSE}
    MaxRetries = 7
    MaxPolls = 2
    MaxDisturbances = 1
INVARIANTS
    InEveryHierarchy
    ControllersReachTheLeaf
    PauseIsWhole
    ReportedIsDone
    ExchangeIsFaithful
PROPERTIES
    RemovesExactly
    OperationsEnd
