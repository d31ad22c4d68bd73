SPECIFICATION ProvidersSpec
CONSTANTS
    s1 = s1  s2 = s2
    asr = asr  tts = tts
    k1 = k1  k2 = k2
    Sessions <- MCSessions
    Pools <- MCPools
    Keys <- MCKeys
    Order <- MCOrder
    MaxSize = 1
    MaxTasks = 2
    MaxChunks = 1
    MaxSaid = 3
    MaxFaults = 1
    MaxTurns = 2
    MaxWords = 2
    MaxArgs = 2
    ChanCap = 1
    Speeches = {1, 2}
    FrameSize = 2
    Sizes = {1, 3}
    MaxPieces = 2
    RawCap = 1
    OutCap = 1
    MaxVoices = 1
    NoModel = NoModel
    Providers = {"dify", "weknora"}
    Docs = {k1}
    NoDoc = NoDoc
    MaxJobs = 3
SYMMETRY Symmetry
INVARIANTS
    ProvidersTypeOK
    InUseCountsHandles
    OvershootBounded
    
    ModelAnswers
    TextIsSpoken
    
CONSTRAINT ProvidersBounds
