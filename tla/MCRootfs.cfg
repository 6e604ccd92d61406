SPECIFICATION Spec
CONSTANTS
    Jobs <- RootfsJobs
    HostDev <- HostDevices
INVARIANTS
    MountedOnceAsAsked
    HostUntouched
    RootIsChanged
    CoveredAsAsked
    DevAsAsked
