SPECIFICATION DialogueSpec
CONSTANTS
    Turns = {u1, u2}
    Callers = {c1}
    MaxFrames = 1
    QueueCap = 1
    Width = 8
    MaxSpawned = 1
    MaxEmpty = 2
    MaxWaits = 1
    JobCap = 1
SYMMETRY Symmetry
INVARIANTS
    DialogueTypeOK
    TurnsAreAccounted
    SessionListens
CONSTRAINT Undisturbed
CHECK_DEADLOCK FALSE
