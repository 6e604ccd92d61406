SPECIFICATION Spec
CONSTANTS
    Specs <- NsSpecs
    Hosts <- NsHosts
    IdBits = 3
    Spec0 <- MapSpecs
    Cap = {"SYS_ADMIN", "SETPCAP", "NET_RAW"}
    LastFd = 6
    Process <- Processes
INVARIANTS
    EnteredAsAsked
    IdsAsAsked
    PayloadAsAsked
    ProfileInForce
    DecidesAsMeant
PROPERTIES
    NeverHangs
