SPECIFICATION Spec
CONSTANTS
    Procs = {p1, p2}
    Numbers = {0, 1, 2}
    NumMod = 4
    Commands <- MCCommands
    MaxFaults = 2
SYMMETRY Interchangeable
INVARIANTS
    TypeOK NeverLost SuccessMeansDone AloneSucceeds FreedTwiceOnlyOnError
CHECK_DEADLOCK FALSE
