CONSTANTS
    Rootfs <- RootfsPath
    HostTrees <- HostLayouts
    TargetLists <- TwoMounts
    HostTargets <- HostLater
    MaxEvents = 1
    Asked = {"none", "shared", "slave", "private", "unbindable"}
    NoPivot = TRUE
SPECIFICATION Spec
INVARIANTS
    HostUntouched
