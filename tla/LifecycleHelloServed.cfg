SPECIFICATION FairSpec
CONSTANTS
    Tasks = {t1, t2}
    NoTask = NoTask
    MaxEvents = 3
PROPERTIES HelloServed
CHECK_DEADLOCK FALSE
