----------------------------- MODULE ConfigSync ------------------------------
(***************************************************************************)
(* One kind of system configuration (mqtt, udp, ota, ...): its rows in the *)
(* console's database, the console's copy in memory, and the copy a server *)
(* pulls over HTTP, is pushed over its socket and pulls again on a timer.  *)
(* A saver writes rows and then announces; nothing holds a lock from the   *)
(* reading of the rows to the use of what was read.                        *)
(*                                                                         *)
(* The content of a row is the number of the write that made it, 0 is no   *)
(* content; at is the number of writes when a bundle was read.  A bundle   *)
(* without this kind leaves a copy as it is.  The service that runs with   *)
(* the configuration is started anew by a push, never by a pull.           *)
(***************************************************************************)
EXTENDS Integers, Sequences, FiniteSets

CONSTANTS Savers,     \* requests to the console that overlap
          MaxWrites,  \* bound: statements that change the rows
          MaxTroubles \* bound: breaks of the server's socket and pulls on its timer

ASSUME ConfigSyncAssumption == MaxWrites \in Nat /\ MaxTroubles \in Nat

Tags == {"default", "other"}  \* config_id, unique within the kind

VARIABLES
    rows,     \* configs: [id, tag, flag, data]
    writes,
    memory,   \* app_config of the console, as a bundle
    saver,    \* a saver: [pc, id, bundle]
    net,      \* the server's end of the socket
    joining,  \* the console's end
    offer,    \* what the console is about to tell a socket that has joined
    onWire,     \* bundles pushed and not received
    pushed,   \* the latest reading pushed on this socket
    got,      \* what the server pulled when it connected
    served,   \* the server's copy, as a bundle
    running,  \* content the MQTT service runs with
    timer,    \* a pull on the timer
    troubles,
    missed    \* what went wrong in the order of readings, or was not announced

configVars == <<rows, writes, memory, saver, net, joining, offer, onWire, pushed, got, served, running,
                timer, troubles, missed>>
pushVars == <<net, joining, offer, onWire, pushed, got>>
serverVars == <<served, running, timer, troubles>>

NoBundle == [at |-> 0, data |-> 0]
Absent == [pc |-> "away", id |-> 0, bundle |-> NoBundle]
NoPull == [on |-> FALSE, bundle |-> NoBundle]

ConfigInit ==
    /\ rows = {} /\ writes = 0
    /\ memory = NoBundle /\ saver = [s \in Savers |-> Absent]
    /\ net = "down" /\ joining = "out" /\ offer = NoBundle /\ onWire = <<>> /\ pushed = 0 /\ got = NoBundle
    /\ served = NoBundle /\ running = 0
    /\ timer = NoPull /\ troubles = 0 /\ missed = {}

-----------------------------------------------------------------------------
(* The rows                                                                *)

First(R) == CHOOSE r \in R : \A q \in R : r.id <= q.id

\* The default, else the first by id.
Selected == IF \E r \in rows : r.flag THEN CHOOSE r \in rows : r.flag ELSE First(rows)

Bundle == [at |-> writes, data |-> IF rows = {} THEN 0 ELSE Selected.data]

\* apply_system_config_bundle
Merged(copy, b) == IF b.data = 0 THEN [copy EXCEPT !.at = b.at] ELSE b

\* A row made the default takes the flag from the others, by a statement of its own.
Cleared(flag) == IF flag THEN {[r EXCEPT !.flag = FALSE] : r \in rows} ELSE rows

WritesRows(R) == rows' = R /\ writes' = writes + 1
SaverGoes(s, pc) == saver' = [saver EXCEPT ![s].pc = pc]
RowsAre == UNCHANGED <<rows, writes>>
Edits(s) == saver[s].pc = "away" /\ writes < MaxWrites

\* The second statement fails on the unique config_id, or finds no row: the request is
\* answered with an error and nothing is announced, but the flags are cleared.
RefusedEdit(s) ==
    /\ Edits(s) /\ \E r \in rows : r.flag
    /\ WritesRows(Cleared(TRUE)) /\ missed' = missed \cup {"refused"}
    /\ UNCHANGED <<memory, saver>>

NewRow(tag, flag) == [id |-> writes + 1, tag |-> tag, flag |-> flag, data |-> writes + 1]

CreateConfig(s, tag, flag) ==
    /\ Edits(s) /\ \A r \in rows : r.tag # tag
    /\ WritesRows(Cleared(flag) \cup {NewRow(tag, flag)}) /\ SaverGoes(s, "read")
    /\ UNCHANGED <<memory, missed>>

UpdateConfig(s, row, flag) ==
    /\ Edits(s)
    /\ WritesRows({IF r.id = row.id THEN [r EXCEPT !.flag = flag, !.data = writes + 1] ELSE r
                   : r \in Cleared(flag)})
    /\ SaverGoes(s, "read") /\ UNCHANGED <<memory, missed>>

DeleteConfig(s, row) ==
    /\ Edits(s) /\ WritesRows(rows \ {row}) /\ SaverGoes(s, "read")
    /\ UNCHANGED <<memory, missed>>

\* upsert_default_system_config, from an import: the row tagged "default", else the default,
\* else the first, is looked up, and written by id afterwards.
LooksForDefault(s) ==
    /\ Edits(s)
    /\ LET row == IF \E r \in rows : r.tag = "default"
                  THEN CHOOSE r \in rows : r.tag = "default" ELSE Selected
       IN  saver' = [saver EXCEPT ![s].pc = "upsert", ![s].id = IF rows = {} THEN 0 ELSE row.id]
    /\ RowsAre /\ UNCHANGED <<memory, missed>>

\* Fails when another request has taken the tag by now; a row that is gone is not missed,
\* and its flag goes with it.
UpsertsDefault(s) ==
    LET id == saver[s].id
        taken == \E r \in rows : r.tag = "default" /\ r.id # id
    IN  /\ saver[s].pc = "upsert" /\ writes < MaxWrites
        /\ UNCHANGED memory
        /\ IF taken
           THEN WritesRows(Cleared(TRUE)) /\ missed' = missed \cup {"refused"}
                /\ saver' = [saver EXCEPT ![s] = Absent]
           ELSE /\ WritesRows(IF id = 0 THEN Cleared(TRUE) \cup {NewRow("default", TRUE)}
                              ELSE {IF r.id = id THEN [r EXCEPT !.tag = "default", !.flag = TRUE,
                                                                !.data = writes + 1] ELSE r
                                    : r \in Cleared(TRUE)})
                /\ saver' = [saver EXCEPT ![s].pc = "read", ![s].id = 0] /\ UNCHANGED missed

-----------------------------------------------------------------------------
(* notify_system_config_changed                                            *)

ReadsBundle(s) ==
    /\ saver[s].pc = "read"
    /\ saver' = [saver EXCEPT ![s].pc = "apply", ![s].bundle = Bundle]
    /\ RowsAre /\ UNCHANGED <<memory, missed>>

Late(b, latest) == IF b.at < latest THEN missed \cup {"order"} ELSE missed

AppliesInConsole(s) ==
    /\ saver[s].pc = "apply" /\ SaverGoes(s, "push")
    /\ memory' = Merged(memory, saver[s].bundle) /\ missed' = Late(saver[s].bundle, memory.at)
    /\ RowsAre

Pushes(b) == onWire' = Append(onWire, b) /\ pushed' = b.at /\ missed' = Late(b, pushed)

\* To the sockets that have joined.
Broadcasts(s) ==
    /\ saver[s].pc = "push" /\ saver' = [saver EXCEPT ![s] = Absent]
    /\ IF joining \in {"in", "telling", "told"} THEN Pushes(saver[s].bundle)
       ELSE UNCHANGED <<onWire, pushed, missed>>
    /\ RowsAre /\ UNCHANGED <<memory, net, joining, offer, got>>

-----------------------------------------------------------------------------
(* The socket                                                              *)

ConsoleIs == RowsAre /\ UNCHANGED <<memory, saver>>

Connects ==
    /\ net = "down" /\ net' = "pull" /\ joining' = "coming"
    /\ ConsoleIs /\ UNCHANGED <<offer, onWire, pushed, got, serverVars, missed>>

JoinsHub ==
    /\ joining = "coming" /\ joining' = "in"
    /\ ConsoleIs /\ UNCHANGED <<net, offer, onWire, pushed, got, serverVars, missed>>

\* A socket that has joined is told what the rows say.
ReadsForJoined ==
    /\ joining = "in" /\ joining' = "telling" /\ offer' = Bundle
    /\ ConsoleIs /\ UNCHANGED <<net, onWire, pushed, got, serverVars, missed>>

\* A variant: the server is left with what it has pulled.
TellsNothing ==
    /\ joining = "telling" /\ joining' = "told" /\ offer' = NoBundle
    /\ ConsoleIs /\ UNCHANGED <<net, onWire, pushed, got, serverVars, missed>>

TellsJoined ==
    /\ joining = "telling" /\ joining' = "told" /\ offer' = NoBundle /\ Pushes(offer)
    /\ ConsoleIs /\ UNCHANGED <<net, got, serverVars>>

\* The server notices in its loop; what was on the wire is lost.
Breaks ==
    /\ net = "loop" /\ troubles < MaxTroubles /\ troubles' = troubles + 1
    /\ net' = "down" /\ joining' = "out" /\ onWire' = <<>> /\ pushed' = 0
    /\ offer' = NoBundle
    /\ ConsoleIs /\ UNCHANGED <<got, served, running, timer, missed>>

-----------------------------------------------------------------------------
(* The server                                                              *)

LinkIs == UNCHANGED <<joining, offer, pushed>>
Serves(b) == served' = Merged(served, b)

\* load_from_manager, before the loop that receives; a pull that fails leaves the copy.
Pulls ==
    /\ net = "pull"
    /\ \/ net' = "pulled" /\ got' = Bundle
       \/ net' = "loop" /\ UNCHANGED got
    /\ ConsoleIs /\ LinkIs /\ UNCHANGED <<onWire, serverVars, missed>>

AppliesPull ==
    /\ net = "pulled" /\ net' = "loop" /\ got' = NoBundle /\ Serves(got)
    /\ ConsoleIs /\ LinkIs /\ UNCHANGED <<onWire, running, timer, troubles, missed>>

\* apply_system_config
ReceivesPush ==
    /\ net = "loop" /\ onWire # <<>> /\ onWire' = Tail(onWire) /\ Serves(Head(onWire))
    /\ net' = IF Head(onWire).data = 0 THEN "loop" ELSE "reload"
    /\ ConsoleIs /\ LinkIs /\ UNCHANGED <<got, running, timer, troubles, missed>>

\* MqttRuntime::apply: the service is started anew with the copy of this moment.
Reloads ==
    /\ net = "reload" /\ net' = "loop" /\ running' = served.data
    /\ ConsoleIs /\ LinkIs /\ UNCHANGED <<onWire, got, served, timer, troubles, missed>>

TimerPulls ==
    /\ ~ timer.on /\ troubles < MaxTroubles /\ troubles' = troubles + 1
    /\ timer' = [on |-> TRUE, bundle |-> Bundle]
    /\ ConsoleIs /\ LinkIs /\ UNCHANGED <<net, onWire, got, served, running, missed>>

\* Meanwhile the loop may have applied what was read later.
TimerApplies ==
    /\ timer.on /\ timer' = NoPull /\ Serves(timer.bundle)
    /\ missed' = Late(timer.bundle, served.at)
    /\ ConsoleIs /\ LinkIs /\ UNCHANGED <<net, onWire, got, running, troubles>>

ConfigNext ==
    \/ /\ UNCHANGED <<pushVars, serverVars>>
       /\ \E s \in Savers :
            \/ RefusedEdit(s) \/ LooksForDefault(s) \/ UpsertsDefault(s)
            \/ \E flag \in BOOLEAN :
                 \/ \E tag \in Tags : CreateConfig(s, tag, flag)
                 \/ \E row \in rows : UpdateConfig(s, row, flag)
            \/ \E row \in rows : DeleteConfig(s, row)
            \/ ReadsBundle(s) \/ AppliesInConsole(s)
    \/ \E s \in Savers : Broadcasts(s) /\ UNCHANGED serverVars
    \/ Connects \/ JoinsHub \/ ReadsForJoined \/ TellsJoined \/ Breaks
    \/ Pulls \/ AppliesPull \/ ReceivesPush \/ Reloads
    \/ TimerPulls \/ TimerApplies

ConfigSpec == ConfigInit /\ [][ConfigNext]_configVars

-----------------------------------------------------------------------------

BundleType == [at : 0 .. MaxWrites, data : 0 .. MaxWrites]
RowType == [id : 1 .. MaxWrites, tag : Tags, flag : BOOLEAN, data : 1 .. MaxWrites]
SaverStates == {"away", "upsert", "read", "apply", "push"}

ConfigTypeOK ==
    /\ rows \subseteq RowType /\ writes \in 0 .. MaxWrites
    /\ memory \in BundleType /\ served \in BundleType /\ got \in BundleType /\ offer \in BundleType
    /\ saver \in [Savers -> [pc : SaverStates, id : 0 .. MaxWrites, bundle : BundleType]]
    /\ net \in {"down", "pull", "pulled", "loop", "reload"}
    /\ joining \in {"out", "coming", "in", "telling", "told"}
    /\ onWire \in Seq(BundleType) /\ pushed \in 0 .. MaxWrites /\ running \in 0 .. MaxWrites
    /\ timer \in [on : BOOLEAN, bundle : BundleType]
    /\ troubles \in 0 .. MaxTroubles
    /\ missed \subseteq {"order", "refused"}

\* However requests overlap, one row of the kind carries the default flag, and no two have
\* the same tag.
AtMostOneDefault ==
    \A r, q \in rows : (r.flag /\ q.flag) \/ r.tag = q.tag => r.id = q.id

\* Once every saver has announced and the server has received everything, the console's
\* memory, the server's copy and the running service have the selected row, across broken
\* sockets, pulls that fail and broadcasts that find no socket: unless a reading was used
\* after a later one, or a refused request had already cleared the flags.
CopiesAgree ==
    missed = {} /\ rows # {} /\ (\A s \in Savers : saver[s].pc = "away")
      => /\ memory.data = Selected.data
         /\ net = "loop" /\ joining = "told" /\ onWire = <<>> /\ ~ timer.on
              => served.data = Selected.data /\ running = Selected.data

ConfigIsOne == AtMostOneDefault /\ CopiesAgree
=============================================================================
