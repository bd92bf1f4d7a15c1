\* Every order of power requests against a serving, waiting or idle loop.
SPECIFICATION Spec
CONSTANTS
    PscRequests <- SleepAndWakePair
    MaxGetRequestFailures = 1
    Addrs = {a1}
    NoAddr = NoAddr
    MaxIpChanges = 0
    KeepAwake = TRUE
    LogLevel = 1
    NetcheckEvery = 2
    Announcements = 1
    MaxServed = 2
    MaxWaitSlices = 2
    MaxFaults = 1
INVARIANTS
    SleepQuiescence
    AckAnswersRequest
    ScheduledLeavesWithClient
    PingNeverLate
PROPERTIES
    SilentWhileAsleep
