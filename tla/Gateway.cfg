\* Two handlers with the monitors they share.
CONSTANTS
    ip1 = ip1  ip2 = ip2  ip3 = ip3  h1 = h1  h2 = h2
    Ips <- ThreeIps
    Handlers <- TwoHandlers
    hash_ip <- Hash
    Requests <- SomeRequests
    RateBuckets = {1, 2}
    RateLimit = 1
    RateWindow = 2
    EventMax = 2
    AgentEvents = 1
    ConnMax = 2
    ConnWindow = 1
    ProbeThreshold = 2
    MaxMetrics = 3
    MaxRequests = 4
    MaxTime = 2
SPECIFICATION GatewaySpec
INVARIANTS GatewayTypeOK ProbesReported RateEnforced ShownIsTrue
PROPERTY RingIsWindow
SYMMETRY HandlersAlike
CHECK_DEADLOCK FALSE
