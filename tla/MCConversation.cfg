SPECIFICATION ConversationSpec
CONSTANTS
    Inits = {i1, i2}
    Calls = {c1}
    Refreshes = {r1}
    Inline = {i2}
    NoTask = NoTask
    MaxResets = 1
    MaxBegun = 3
    Speakers = {s1, s2}
    NoSpeaker = NoSpeaker
    Chatty = {s2}
    Readies = {d1}
    Resets = {e1}
    Asks = {a1, a2}
    NoAsk = NoAsk
    Lines = 1
    Fragments = 2
    Conns = {n1, n2}
    NoConn = NoConn
    Messages = {m1}
    Frames = 2
    Resends = 1
    Notices = {x1, x2, x3}
    Replays = {p1, p2}
    MaxQueue = 2
    MaxRetry = 2
    Letters = {"a", "b"}
    MaxText = 5
    MaxSeq = 4
INVARIANTS
    ConversationTypeOK
    EntryIsLive OwnAnswer OneInitUnlessMixed
    SpeakRequestIsKept
    WarmupEndsWithAnswer
    AgentsAreHeard
PROPERTIES
    McpTasksEnd McpIsTable SpeakersEnd TextAfterStart
CHECK_DEADLOCK FALSE
