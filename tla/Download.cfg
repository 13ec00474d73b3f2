SPECIFICATION Spec
CONSTANTS
    Procs = {p1, p2}
    Segments = 2
    MaxFaults = 2
    NoOne = nobody
    Departed = gone
SYMMETRY Interchangeable
INVARIANTS
    TypeOK OutcomeIsTrue EarlyCancelIsFinal
    OrphanSession CancelReachesBoth ContextReady CleanRunSucceeds
