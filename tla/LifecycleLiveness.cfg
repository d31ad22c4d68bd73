SPECIFICATION FairSpec
CONSTANTS
    Tasks = {t1, t2, t3}
    NoTask = NoTask
    MaxEvents = 2
PROPERTIES LatchReleased HelloServedUnlessWedged
CHECK_DEADLOCK FALSE
