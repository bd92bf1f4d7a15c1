\* Requests are read reliably; clients, waits, socket faults and the address
\* stay arbitrary.
SPECIFICATION Spec
CONSTANTS
    PscRequests = {"ReadySleep", "Awake"}
    MaxGetRequestFailures = 0
    Addrs = {a1, a2}
    NoAddr = NoAddr
    MaxIpChanges = 1
    KeepAwake = TRUE
    LogLevel = 4
    NetcheckEvery = 1
    Announcements = 0
    MaxServed = 2
    MaxWaitSlices = 1
    MaxFaults = 1
PROPERTIES
    EveryRequestAcknowledged
    ListenerRestored
    DetectedChangeIsAdvertised
