SPECIFICATION Spec
CONSTANTS
    Procs = {p1, p2}
    Profiles <- MCProfileSet
    Iccid <- MCIccid
    Aid <- MCAid
    Keep = {"b"}
    Retain = {"a"}
    Texts <- MCTexts
    MaxRuns = 2
    MaxFaults = 1
SYMMETRY Interchangeable
INVARIANTS
    ReportIsTrue
    ShownIsAccepted
PROPERTY
    ActsOnNamedProfile
CHECK_DEADLOCK FALSE
