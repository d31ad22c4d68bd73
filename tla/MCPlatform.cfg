SPECIFICATION PlatformSpec
CONSTANTS
    Handlers = {h1}
    MaxMessages = 3
    MaxTransports = 2
    MaxLinks = 3
    MaxTexts = 2
    QueueCap = 1
    Pieces = 1
    Rounds = 1
    MaxStarts = 1
    MaxStops = 1
    Playbacks = {b1, b2}
    NoPlay = NoPlay
    Users = {u1, u2}
    Playlist = 2
    TrackFrames = 2
    MaxControls = 3
    Servers = {v1, v2}
    HubCalls = {q1}
    NoAsker = NoAsker
    MaxLists = 3
    Asked = {g1, g2}
    Streamed = {g1}
    MaxSockets = 2
    Clones = {c1, c2}
    Workers = {w1, w2}
    NoClone = NoClone
    MaxQuota = 1
    MaxCrashes = 1
    Owners = {o1, o2}
    Agents = {a1}
    Requests = {r1, r2}
    Nobody = Nobody
    MaxRows = 2
    Savers = {e1, e2}
    MaxWrites = 2
    MaxTroubles = 1
    Urls = {"l1", "l2"}
    Admins = {k2, k3}
    MaxImported = 1
    MaxManual = 1
    Members = {1, 2}
    Keepers = {1}
    Bearer = 1
    RoleNames = {{"x"}, {"x", "y"}}
    Editors = {t1, t2}
    MaxRoles = 2
    Groups = {y1}
    Samples = {1, 2}
    FileNames = {"f", "h"}
    Spokesmen = {7, 8}
    Erasers = {z1, z2}
    MaxLost = 1
    Talks = {1, 2}
    Personas = {"p", "q"}
    Holders = {7, 8}
    MaxAsked = 2
    MaxHands = 1
    MaxCalls = 2
    ToolRounds = 2
INVARIANTS
    PlatformTypeOK
    
    
    
    AskersGetTheirOwn
    ServerIsReached
    SettingsAreOne
    ClonesAreWorked
    ActiveMeansOwned
    RolesAndPrintsAreOne
PROPERTY OwnerIsKept
CONSTRAINT Undisturbed
CHECK_DEADLOCK FALSE
