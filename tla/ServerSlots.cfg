CONSTANTS
    Conns = {c1, c2}
    Free = Free
    File = File
    ReqCount = 2
    MaxFd = 5
    SockBuf = 2
    RbinMax = 2
    DoneMoves = {"finish", "keep"}
    Unmatched = FALSE
    OpenFails = FALSE
    MayVanish = FALSE
    MaxSignals = 1
    Scripts <- GoodScripts
SPECIFICATION Spec
CHECK_DEADLOCK FALSE
SYMMETRY Symmetry
INVARIANTS TypeOK SocketsOwned SpoolsOpen NoEofBetweenRuns DoneAfterAllInput
