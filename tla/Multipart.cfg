CONSTANTS
    MAX_MP = 22
    Boundary <- Bound
    Names = {"w", "x", "y", "z"}
    REQ_MAX_FLDDATA = 18
    REQ_MAX_UPLOADS = 2
    BodyBuffer = 2
    SizeLimit = 96
    Forms <- MCForms
    Junks <- MCJunks
SPECIFICATION FairSpec
CHECK_DEADLOCK FALSE
INVARIANTS TypeOK AsOnePass Closed
PROPERTIES ImplementsParts Ends
