SPECIFICATION Spec
CONSTANTS
    a = a
    b = b
    Endpoints <- MCEndpoints
    Props <- MCProps
    FirstProps = {1}
    Subscribers = {s1}
    Backends = {"native", "polling"}
    OutCap = 1
    MaxChanges = 2
    MaxFailures = 1
INVARIANTS
    SubscribersFollow
    OnTheWay
PROPERTIES
    CacheConverges
    ClosedIsQuiet
