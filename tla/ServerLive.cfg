CONSTANTS
    Conns = {c1, c2}
    Free = Free
    File = File
    ReqCount = 2
    MaxFd = 5
    SockBuf = 1
    RbinMax = 2
    DoneMoves = {"finish", "keep"}
    Unmatched = FALSE
    OpenFails = FALSE
    MayVanish = TRUE
    MaxSignals = 0
    Scripts <- GetOnly
SPECIFICATION FairSpec
CHECK_DEADLOCK FALSE
PROPERTIES Served SlotReturned
