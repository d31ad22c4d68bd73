SPECIFICATION Spec
CONSTANTS
    Tasks = {t1, t2, t3}
    NoTask = NoTask
    MaxEvents = 2
SYMMETRY Symmetry
INVARIANTS NoRebuildInClose
CHECK_DEADLOCK FALSE
