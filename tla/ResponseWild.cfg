CONSTANTS
    REQ_MAX_OUT = 3
    StatLen = 1
    MaxRounds = 2
    Lengths = {1, 2}
    Statuses = {404}
    Setups <- Wild
SPECIFICATION Spec
CHECK_DEADLOCK FALSE
INVARIANTS TypeOK Ordered SendingIsPolled
