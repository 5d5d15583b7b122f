CONSTANTS
    n1 = n1
    n2 = n2
    Proxies <- MCProxies
    Natives <- MCProxies
    Observers = {}
    MaxFaults = 0
    NoHost = NoHost
SPECIFICATION Spec
PROPERTIES
    SlowStartIsAttached
CHECK_DEADLOCK FALSE
