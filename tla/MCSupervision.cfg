SPECIFICATION Spec
CHECK_DEADLOCK FALSE
CONSTANTS
    Lists <- HookLists
    StateSize = 2
    PipeSize = 2
    Writes = 2
    Capacity = 2
    Sizes = 0
    Signals = {}
    Reopens = FALSE
INVARIANTS
    OneAfterAnother
    ReturnsFaithfully
    ReportIsConsistent
PROPERTIES
    SupervisionEnds
