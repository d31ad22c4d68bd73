SPECIFICATION Spec
CONSTANTS
    Tasks = {t1, t2, t3}
    NoTask = NoTask
    MaxEvents = 3
PROPERTIES CleanupSparesRebuilt
CHECK_DEADLOCK FALSE
