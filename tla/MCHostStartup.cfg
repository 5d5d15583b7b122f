CONSTANTS
    n1 = n1
    n2 = n2
    Proxies <- MCProxies
    Natives <- MCProxies
    Observers = {}
    MaxFaults = 1
    NoHost = NoHost
SPECIFICATION FairSpec
INVARIANTS
    DescriptorLeads
    OneSession
    StartupHasAWinner
PROPERTIES
    AttachesToTheWriter
    EveryAttachEnds
    PoisonedHostReleases
CHECK_DEADLOCK FALSE
