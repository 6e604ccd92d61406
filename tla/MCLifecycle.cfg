SPECIFICATION FairSpec
CONSTANTS
    Cmds = {c1, c2}
    c1 = c1
    c2 = c2
    MaxCreates = 2
    Environments <- MCEnvironments
INVARIANTS
    ReportedIsTrue
    NoOrphan
PROPERTIES
    OrderlyKillTakesEffect
    ImplementsContainerLife
