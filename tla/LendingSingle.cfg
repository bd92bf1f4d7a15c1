\* One program, perhaps running since boot, started, stopped and restarted.
SPECIFICATION FairSpec
CONSTANTS
    Controls = {a}
    Server = Server
    Nobody = Nobody
    Reliable = TRUE
    Programs = {p}
    NoProgram = NoProgram
    BootPids = 1
    MaxPid = 4
    Ops = {"tap", "touch", "status", "wait", "start", "stop", "restart"}
INVARIANTS
    OneInstance
    BoostOnlyOnLoan
    LoanRespected
PROPERTIES
    LoanReturns
