----------------------------- MODULE MCPlatform -----------------------------
(***************************************************************************)
(* The parts of the server and of the console whose hazards are races and  *)
(* restarts: the devices on MQTT and on web sockets, the turns of a        *)
(* dialogue and what is kept of it, the media player, the shared MCP       *)
(* servers, the socket to the console, the system configuration and the    *)
(* imported MCP services, and in the console the devices' records, their   *)
(* roles, the voice prints and the voice clones.                           *)
(* They share no state: a behaviour picks one part and runs it, and the    *)
(* others hold nothing.                                                    *)
(***************************************************************************)
EXTENDS MqttDevices, WsAccess, ChatTurn, DialogueMemory, MediaPlayer, McpHub, ManagerWs,
        ConfigSync, McpMarket, VoiceClone, DeviceRecords, DeviceRoles, SpeakerPrints

VARIABLE part

deviceVars == <<mqttVars, accessVars, chatVars, memoryVars, mediaVars>>
sharedVars == <<hubVars, wsVars, configVars, marketVars>>
consoleVars == <<cloneVars, recordVars, roleVars, printVars>>
platformVars == <<part, deviceVars, sharedVars, consoleVars>>

\* What the variables of a part that does not run hold; the records of devices are always there.
Nothing == "nothing"

MqttRests == handler = Nothing /\ entry = Nothing /\ endpoint = Nothing /\ registry = Nothing /\
    made = Nothing /\ outLoop = Nothing /\ conns = Nothing /\ destroy = Nothing /\
    sweep = Nothing /\ life = Nothing /\ messages = Nothing /\ overlapped = Nothing
AccessRests == web = Nothing /\ counter = Nothing /\ count = Nothing /\ managers = Nothing /\
    hub = Nothing /\ channel = Nothing /\ reports = Nothing /\ shown = Nothing /\ odd = Nothing
ChatRests == phase = Nothing /\ listenMode = Nothing /\ realtime = Nothing /\ abort = Nothing /\
    loop = Nothing /\ deferred = Nothing /\ queue = Nothing /\ turn = Nothing /\ audio = Nothing /\
    speaking = Nothing /\ tasks = Nothing /\ said = Nothing /\ budget = Nothing
MemoryRests == talk = Nothing /\ persona = Nothing /\ dialogue = Nothing /\ memories = Nothing /\
    entries = Nothing /\ holder = Nothing /\ asked = Nothing /\ inquiry = Nothing /\
    resume = Nothing /\ unsaved = Nothing /\ apart = Nothing /\ strayed = Nothing /\
    tenure = Nothing
MediaRests == media = Nothing /\ play = Nothing /\ user = Nothing /\ controls = Nothing /\
    late = Nothing
HubRests == rpc = Nothing /\ table = Nothing /\ unanswered = Nothing /\ bindings = Nothing /\
    nextCall = Nothing /\ hubDown = Nothing /\ lists = Nothing /\ crossed = Nothing
WsRests == socket = Nothing /\ clients = Nothing /\ link = Nothing /\ ask = Nothing /\
    waiting = Nothing /\ streams = Nothing /\ wire = Nothing /\ overtaken = Nothing
ConfigRests == rows = Nothing /\ writes = Nothing /\ memory = Nothing /\ saver = Nothing /\
    net = Nothing /\ joining = Nothing /\ offer = Nothing /\ onWire = Nothing /\
    pushed = Nothing /\ got = Nothing /\ served = Nothing /\ running = Nothing /\
    timer = Nothing /\ troubles = Nothing /\ missed = Nothing
MarketRests == imported = Nothing /\ manual = Nothing /\ ids = Nothing /\ edits = Nothing /\
    admin = Nothing /\ hubList = Nothing /\ upset = Nothing
CloneRests == row = Nothing /\ creating = Nothing /\ quota = Nothing /\ grant = Nothing /\
    worker = Nothing /\ up = Nothing /\ crashes = Nothing
RoleRests == roles = Nothing /\ created = Nothing /\ given = Nothing /\ editing = Nothing /\
    renamed = Nothing
PrintRests == group = Nothing /\ sampled = Nothing /\ stored = Nothing /\ prints = Nothing /\
    adding = Nothing /\ erasing = Nothing /\ lost = Nothing /\ blurred = Nothing

PlatformInit ==
    /\ part \in {"mqtt", "web", "chat", "memory", "media", "hub", "console", "config",
                "market", "clone", "records", "roles", "prints"}
    /\ IF part = "mqtt" THEN MqttInit ELSE MqttRests
    /\ IF part = "web" THEN AccessInit ELSE AccessRests
    /\ IF part = "chat" THEN ChatInit ELSE ChatRests
    /\ IF part = "memory" THEN MemoryInit ELSE MemoryRests
    /\ IF part = "media" THEN MediaInit ELSE MediaRests
    /\ IF part = "hub" THEN HubInit ELSE HubRests
    /\ IF part = "console" THEN WsInit ELSE WsRests
    /\ IF part = "config" THEN ConfigInit ELSE ConfigRests
    /\ IF part = "market" THEN MarketInit ELSE MarketRests
    /\ IF part = "clone" THEN CloneInit ELSE CloneRests
    /\ RecordInit
    /\ IF part = "roles" THEN RoleInit ELSE RoleRests
    /\ IF part = "prints" THEN PrintInit ELSE PrintRests

PlatformNext ==
    \/ /\ UNCHANGED <<part, sharedVars, consoleVars>>
       /\ \/ part = "mqtt" /\ MqttNext /\ UNCHANGED <<accessVars, chatVars, memoryVars, mediaVars>>
          \/ part = "web" /\ AccessNext /\ UNCHANGED <<mqttVars, chatVars, memoryVars, mediaVars>>
          \/ part = "chat" /\ ChatNext /\ UNCHANGED <<mqttVars, accessVars, memoryVars, mediaVars>>
          \/ part = "memory" /\ MemoryNext /\ UNCHANGED <<mqttVars, accessVars, chatVars, mediaVars>>
          \/ part = "media" /\ MediaNext /\ UNCHANGED <<mqttVars, accessVars, chatVars, memoryVars>>
    \/ /\ UNCHANGED <<part, deviceVars, consoleVars>>
       /\ \/ part = "hub" /\ HubNext /\ UNCHANGED <<wsVars, configVars, marketVars>>
          \/ part = "console" /\ WsNext /\ UNCHANGED <<hubVars, configVars, marketVars>>
          \/ part = "config" /\ ConfigNext /\ UNCHANGED <<hubVars, wsVars, marketVars>>
          \/ part = "market" /\ MarketNext /\ UNCHANGED <<hubVars, wsVars, configVars>>
    \/ /\ UNCHANGED <<part, deviceVars, sharedVars>>
       /\ \/ part = "clone" /\ CloneNext /\ UNCHANGED <<recordVars, roleVars, printVars>>
          \/ part = "records" /\ RecordNext /\ UNCHANGED <<cloneVars, roleVars, printVars>>
          \/ part = "roles" /\ RoleNext /\ UNCHANGED <<cloneVars, recordVars, printVars>>
          \/ part = "prints" /\ PrintNext /\ UNCHANGED <<cloneVars, recordVars, roleVars>>

PlatformSpec == PlatformInit /\ [][PlatformNext]_platformVars

\* The properties of MQTT devices and of configurations say nothing of what follows such a
\* disturbance; what is told of presence changes nothing for the web sockets, and two at a time
\* are enough of those.  Three texts, starts and stops of a chat are enough, as are two statements
\* and troubles of a configuration.  Once it is open what the voice server keeps of a group, one
\* more request at a time is enough.  Nothing is said of a dialogue once its session was replaced
\* under a turn or could not be restored, one failure, deleted row, change of agent or change of
\* owner is enough, and the second of two texts has one round of calls.
Swapped == IF persona = FirstPersona THEN {} ELSE {"swapped"}
Undisturbed ==
    /\ part = "mqtt" => ~ overlapped
    /\ part = "web" => odd \subseteq {"overlap", "recount"} /\ Cardinality(Active) <= 2
    /\ part = "chat" => said + budget.starts + budget.stops <= 3
    /\ part = "config" => missed = {} /\ writes + troubles <= 2
    /\ part = "memory" =>
          /\ strayed \cap {"moved", "unfetched"} = {}
          /\ asked = 2 => inquiry.round = 0
          /\ tenure.times + Cardinality(unsaved) + Cardinality(strayed \cup Swapped)
             + Cardinality({i \in DOMAIN entries : entries[i].gone}) <= 1
    /\ part = "market" => "half" \notin upset
    /\ part = "prints" => blurred = {} \/ Cardinality({e \in Erasers : erasing[e].pc # "away"}) <= 1

\* The types of the part that runs.
PlatformTypeOK ==
    /\ part = "mqtt" => MqttTypeOK
    /\ part = "web" => AccessTypeOK
    /\ part = "chat" => ChatTypeOK
    /\ part = "memory" => MemoryTypeOK
    /\ part = "media" => MediaTypeOK
    /\ part = "hub" => HubTypeOK
    /\ part = "console" => WsTypeOK
    /\ part = "config" => ConfigTypeOK
    /\ part = "market" => MarketTypeOK
    /\ part = "clone" => CloneTypeOK
    /\ part = "records" => RecordTypeOK
    /\ part = "roles" => RoleTypeOK
    /\ part = "prints" => PrintTypeOK

-----------------------------------------------------------------------------
\* The parts' properties, each of the part that runs

\* A device that has connected is reached over its latest connection, whichever of its
\* connections come late or end late, and one that has gone is not taken for present.
DevicesAreReached ==
    /\ part = "mqtt" => QuietDeviceIsWhole /\ OnlineHasTransport
    /\ part = "web" => LatestIsHeard /\ GoneIsOffline

\* No turn of a dialogue is left half done when all is quiet, whatever cancelled or overtook it,
\* and what was said is what the session, the agent's memory and the console's history have.
TurnsAreDone ==
    /\ part = "chat" => NoTurnLeftProcessing
    /\ part = "memory" => DialogueIsRemembered

\* A player that was paused or stopped is not heard, whatever is still on its way.
PlayerIsSilent == part = "media" => SilentWhenHeld

\* Who asks a shared MCP server gets the answer to his own question.
AskersGetTheirOwn == part = "hub" => OwnReply

\* The console reaches the server over its latest socket.
ServerIsReached == part = "console" => ReachesLatest

\* The configuration that is served and the MCP services that are offered are the ones selected.
SettingsAreOne ==
    /\ part = "config" => ConfigIsOne
    /\ part = "market" => MarketIsOne

\* A voice clone that waits has a worker, never two, and says what became of it.
ClonesAreWorked == part = "clone" => PendingHasWorker /\ OneWorkerPerClone /\ StatusFollowsTask

\* A device has one role, the one it was given, and a voice print is with its own sample.
RolesAndPrintsAreOne ==
    /\ part = "roles" => RolesAreOne
    /\ part = "prints" => PrintsAreWhole
=============================================================================
