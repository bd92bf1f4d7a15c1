\* Every call of another service may fail.
SPECIFICATION Spec
CONSTANTS
    Controls = {a, b}
    Server = Server
    Nobody = Nobody
    Reliable = FALSE
    Programs = {p, q}
    NoProgram = NoProgram
    BootPids = 1
    MaxPid = 3
    Ops = {"attach", "tap", "hold", "release", "detach", "clear", "touch", "status", "wait", "start", "stop", "restart"}
SYMMETRY LendingSymmetry
INVARIANTS
    HeldOnlyWithSession
