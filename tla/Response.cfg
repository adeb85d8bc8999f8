CONSTANTS
    REQ_MAX_OUT = 3
    StatLen = 1
    MaxRounds = 5
    Lengths = {1, 2}
    Statuses = {0, 404}
    Setups <- Orderly
SPECIFICATION FairSpec
CHECK_DEADLOCK FALSE
INVARIANTS OutBufferBounded Framed CompleteAtClose StatusOnlyInFirstStdout EndAfterHandlerEnd
PROPERTIES ImplementsStream EndedIsClosed
