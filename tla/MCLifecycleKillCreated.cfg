SPECIFICATION FairSpec
CONSTANTS
    Cmds = {c1, c2}
    c1 = c1
    c2 = c2
    MaxCreates = 1
    Environments <- KillCreated
INVARIANTS
    RunningWasStarted
