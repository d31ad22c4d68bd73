SPECIFICATION FairSpec
CONSTANTS
    Turns = {u1}
    Callers = {c1, c2}
    MaxFrames = 1
    QueueCap = 1
    Width = 8
INVARIANT PendingStopHasOwner
PROPERTIES TtsEnds OnEndCalled
CHECK_DEADLOCK FALSE
