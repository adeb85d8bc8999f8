CONSTANTS
    RBMAX = 3
    Bytes = {0, 1}
    Zero = 0
    Inputs <- MCInputs
SPECIFICATION Spec
INVARIANTS TypeOK FullFlagSound
PROPERTIES ImplementsFifo UnreadUndoesRead
