CONSTANTS
    SizeMax = 8
    MaxKeys = 3
    MaxName = 3
    MaxText = 12
    Lost = Lost
    Inputs <- MCInputs
    Names <- MCNames
    Values <- MCValues
SPECIFICATION Spec
CHECK_DEADLOCK FALSE
INVARIANTS TypeOK NoOverrun RoundTrip
PROPERTIES ImplementsStore
