SPECIFICATION FairSpec
CONSTANTS
    Specs <- MCSpecs
INVARIANTS
    NoSurprise
    InitBornReady
    SetupBeforeFilter
    CreatedIsComplete
    FailedCreateLeavesNothing
PROPERTIES
    MainReturns
    WaitersReleased
