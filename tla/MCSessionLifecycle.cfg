SPECIFICATION Spec
CONSTANTS
    Tasks = {t1, t2, t3}
    NoTask = NoTask
    MaxEvents = 3
SYMMETRY Symmetry
INVARIANTS TypeOK CloserExclusion IdleSessionIsWatched
CHECK_DEADLOCK FALSE
