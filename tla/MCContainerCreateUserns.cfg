SPECIFICATION FairSpec
CONSTANTS
    Specs <- RootlessUserns
CHECK_DEADLOCK FALSE
PROPERTIES
    WaitersReleased
