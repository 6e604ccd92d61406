SPECIFICATION Spec
CONSTANTS
    Clients = {"c1"}
    MaxBytes = 4
    Requests <- MemoryRequests
    MemoryManagers = {"v1", "v2", "systemd"}
    MaxApplies = 2
    Updaters = {"u1", "u2"}
    RuleLists <- RaceRules
    DeviceManagers <- RaceManagers
    FirstFilters <- Filtered
    ProcDevices <- DeviceLines
    Nodes <- DeviceNodes
    Probes = {}
    Containers = {"c1", "c2"}
    Specs <- RdtSpecs
    Hosts = {{"L3"}, {"L3", "MB"}}
    Prepared = {{"shared"}}
    MaxClos = 2
INVARIANTS
    UpdateLands
    ManagersAgree
    AccessAsRuled
    NewestStays
    StaysInItsGroup
    MaskIsTheNodes
PROPERTIES
    UnnamedIsKept
