CONSTANTS
    Conns = {c1, c2}
    Free = Free
    File = File
    ReqCount = 1
    MaxFd = 5
    SockBuf = 1
    RbinMax = 2
    DoneMoves = {"finish", "keep", "throw"}
    Unmatched = TRUE
    OpenFails = TRUE
    MayVanish = TRUE
    MaxSignals = 0
    Scripts <- OddScripts
SPECIFICATION Spec
CHECK_DEADLOCK FALSE
INVARIANTS SpoolsOwned
PROPERTIES ImplementsService
