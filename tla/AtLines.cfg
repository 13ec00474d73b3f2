SPECIFICATION Spec
CONSTANTS
    Prefixes = {"CCHO", "CGLA"}
    Room = 2
    MaxPieces = 3
    MaxCommands = 4
    MaxFaults = 2
    MaxUnsolicited = 1
INVARIANT
    AnswersMatch
PROPERTIES
    EndsInOrder
    WaitEnds
CHECK_DEADLOCK FALSE
