SPECIFICATION Spec
CONSTANTS
    Turns = {u1}
    Callers = {c1}
    MaxFrames = 1
    QueueCap = 2
    Width = 8
PROPERTIES FramesOnlyWhileSpeaking
CHECK_DEADLOCK FALSE
