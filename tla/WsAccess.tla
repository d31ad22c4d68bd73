------------------------------ MODULE WsAccess ------------------------------
(***************************************************************************)
(* The WebSocket connections of one device.  A connection takes the next   *)
(* number of the device's counter, finds or makes the chat manager, and    *)
(* enters its hub as endpoint "web-<number>"; it runs a receiving and a    *)
(* sending task and cleans up when both have ended, provided its number is *)
(* still the last.  The counter is dropped with the clean-up, so that a    *)
(* later connection may begin a new one.                                   *)
(*                                                                         *)
(* Connections, counters and managers are numbered as they are made; 0 is  *)
(* none.  Probe and simulator devices, whose managers are kept, are left   *)
(* out, and so is hardware that shares the hub.                            *)
(***************************************************************************)
EXTENDS Integers, FiniteSets

CONSTANT MaxLinks  \* bound: connections of the device

ASSUME WsAccessAssumption == MaxLinks \in Nat \ {0}

Links == 1 .. MaxLinks

VARIABLES
    web,      \* handle_socket: [pc, ctr, mine, mgr, open, recv, send]
    counter,  \* device_conn_gen: the counter object of the device, or 0
    count,    \* what each counter object has come to
    managers, \* the chat manager registered for the device, or 0
    hub,      \* endpoints of each manager: number in the name -> connection
    channel,  \* a frame is waiting in the connection's channel
    reports,  \* presence events under way to the console, of each kind
    shown,    \* presence as the console has it
    odd       \* what disturbed the connections: see GoneIsOffline, LatestIsHeard

accessVars == <<web, counter, count, managers, hub, channel, reports, shown, odd>>

NoLink == [pc |-> "none", ctr |-> 0, mine |-> 0, mgr |-> 0, open |-> FALSE,
           recv |-> FALSE, send |-> FALSE]

AccessInit ==
    /\ web = [s \in Links |-> NoLink]
    /\ counter = 0 /\ count = [c \in Links |-> 0]
    /\ managers = 0 /\ hub = [m \in Links |-> [n \in Links |-> 0]]
    /\ channel = [s \in Links |-> FALSE]
    /\ reports = [online |-> 0, offline |-> 0] /\ shown = "offline"
    /\ odd = {}

IsAt(s, pc) == web[s].pc = pc
WebGoes(s, pc) == web' = [web EXCEPT ![s].pc = pc]
Active == {s \in Links : web[s].pc \notin {"none", "done"}}
IsCurrent(s) == count[web[s].ctr] = web[s].mine
Holds(m, s) == \E n \in Links : hub[m][n] = s
AsIs == UNCHANGED <<counter, count, odd>>
NoReport == UNCHANGED <<reports, shown>>

-----------------------------------------------------------------------------
(* Connecting                                                              *)

\* A variant: each connection counts for itself.
OwnNumber(c) == 1

NextNumber(c) == count[c] + 1

ConnectWeb(s) ==
    /\ IsAt(s, "none") /\ \A t \in 1 .. s - 1 : ~ IsAt(t, "none")
    /\ LET c == IF counter = 0 THEN s ELSE counter
       IN  /\ counter' = c
           /\ count' = [count EXCEPT ![c] = NextNumber(c)]
           /\ web' = [web EXCEPT ![s] = [NoLink EXCEPT !.pc = "find", !.ctr = c,
                                                         !.mine = NextNumber(c), !.open = TRUE]]
    /\ odd' = IF Active = {} THEN odd ELSE odd \cup {"overlap"}
    /\ UNCHANGED <<managers, hub, channel>> /\ NoReport

\* A manager that is not registered is made, then inserted.
FindManagerFor(s) ==
    /\ IsAt(s, "find")
    /\ web' = [web EXCEPT ![s].pc = IF managers = 0 THEN "insert" ELSE "register",
                            ![s].mgr = IF managers = 0 THEN s ELSE managers]
    /\ UNCHANGED <<managers, hub, channel>> /\ AsIs /\ NoReport

InsertManagerOf(s) ==
    /\ IsAt(s, "insert") /\ WebGoes(s, "register")
    /\ managers' = web[s].mgr
    /\ UNCHANGED <<hub, channel>> /\ AsIs /\ NoReport

Report(kind) ==
    /\ reports' = [reports EXCEPT ![kind] = @ + 1]
    /\ odd' = IF reports.online + reports.offline = 0 THEN odd ELSE odd \cup {"untold"}
    /\ UNCHANGED shown

\* An endpoint of the same name is replaced.  The device is reported online.
RegisterEndpoint(s) ==
    /\ IsAt(s, "register")
    /\ hub' = [hub EXCEPT ![web[s].mgr][web[s].mine] = s]
    /\ web' = [web EXCEPT ![s].pc = "serve", ![s].recv = TRUE, ![s].send = TRUE]
    /\ Report("online")
    /\ UNCHANGED <<managers, channel, counter, count>>

-----------------------------------------------------------------------------
(* Serving                                                                 *)

\* The device sends; a connection that is no longer the last one stops receiving.
\* What the chat manager makes of a frame may answer on the connection.
Receives(s) ==
    /\ IsAt(s, "serve") /\ web[s].recv /\ web[s].open
    /\ IF IsCurrent(s)
       THEN /\ web[s].send /\ ~ channel[s]
            /\ channel' = [channel EXCEPT ![s] = TRUE] /\ UNCHANGED web
       ELSE web' = [web EXCEPT ![s].recv = FALSE] /\ UNCHANGED channel
    /\ UNCHANGED <<managers, hub>> /\ AsIs /\ NoReport

HangsUp(s) ==
    /\ web[s].open /\ web' = [web EXCEPT ![s].open = FALSE]
    /\ UNCHANGED <<managers, hub, channel>> /\ AsIs /\ NoReport

ReceiverEnds(s) ==
    /\ web[s].recv /\ ~ web[s].open
    /\ web' = [web EXCEPT ![s].recv = FALSE]
    /\ UNCHANGED <<managers, hub, channel>> /\ AsIs /\ NoReport

\* send_command_all, send_audio_routed: to every endpoint whose task still receives.
Speaks(m) ==
    /\ channel' = [s \in Links |-> channel[s] \/ (Holds(m, s) /\ web[s].send)]
    /\ channel' # channel
    /\ UNCHANGED <<web, managers, hub>> /\ AsIs /\ NoReport

\* What is sent on a closed socket fails.  Until something is, the sending task waits, and
\* a connection whose device is gone stays in the hub.
SendWorks(s) == IsCurrent(s) /\ web[s].open

SenderSends(s) ==
    /\ web[s].send /\ channel[s]
    /\ channel' = [channel EXCEPT ![s] = FALSE]
    /\ web' = [web EXCEPT ![s].send = SendWorks(s)]
    /\ UNCHANGED <<managers, hub>> /\ AsIs /\ NoReport

\* The last sender of the channel is gone: the receiving task holds one, a hub the other.
SenderEnds(s) ==
    /\ web[s].send /\ ~ channel[s]
    /\ ~ web[s].recv /\ \A m \in Links : ~ Holds(m, s)
    /\ web' = [web EXCEPT ![s].send = FALSE]
    /\ UNCHANGED <<managers, hub, channel>> /\ AsIs /\ NoReport

-----------------------------------------------------------------------------
(* Cleaning up                                                             *)

\* Both tasks have ended.  A connection that was superseded cleans nothing up, ...
Joined(s) ==
    /\ IsAt(s, "serve") /\ ~ web[s].recv /\ ~ web[s].send
    /\ WebGoes(s, IF IsCurrent(s) THEN "unregister" ELSE "done")
    /\ UNCHANGED <<managers, hub, channel>> /\ AsIs /\ NoReport

UnregisterEndpoint(s) ==
    /\ IsAt(s, "unregister") /\ WebGoes(s, "empty")
    /\ hub' = [hub EXCEPT ![web[s].mgr][web[s].mine] = 0]
    /\ UNCHANGED <<managers, channel>> /\ AsIs /\ NoReport

\* ... the last one of a hub goes on to remove the manager.
LooksEmpty(s) ==
    /\ IsAt(s, "empty")
    /\ WebGoes(s, IF \A n \in Links : hub[web[s].mgr][n] = 0 THEN "remove" ELSE "forget")
    /\ UNCHANGED <<managers, hub, channel>> /\ AsIs /\ NoReport

\* Whichever manager the device has by now.
RemoveManager(s) ==
    /\ IsAt(s, "remove") /\ WebGoes(s, "report")
    /\ managers' = 0
    /\ UNCHANGED <<hub, channel>> /\ AsIs /\ NoReport

ReportOffline(s) ==
    /\ IsAt(s, "report") /\ WebGoes(s, "forget")
    /\ Report("offline")
    /\ UNCHANGED <<managers, hub, channel, counter, count>>

\* A variant: the counter is left where it is.
KeepCounter(s) == UNCHANGED counter

DropCounter(s) == counter' = 0

ForgetCounter(s) ==
    /\ IsAt(s, "forget") /\ WebGoes(s, "done") /\ DropCounter(s)
    /\ odd' = IF \E t \in Active \ {s} : web[t].ctr = counter THEN odd \cup {"recount"} ELSE odd
    /\ UNCHANGED <<count, managers, hub, channel>> /\ NoReport

\* Each event is sent by a task of its own, once; one the console does not answer is lost.
Reported(kind) ==
    /\ reports[kind] > 0 /\ reports' = [reports EXCEPT ![kind] = @ - 1]
    /\ \/ shown' = kind /\ UNCHANGED odd
       \/ odd' = odd \cup {"untold"} /\ UNCHANGED shown
    /\ UNCHANGED <<web, counter, count, managers, hub, channel>>

-----------------------------------------------------------------------------

LinkStep(s) ==
    \/ FindManagerFor(s) \/ InsertManagerOf(s) \/ RegisterEndpoint(s)
    \/ ReceiverEnds(s) \/ SenderSends(s) \/ SenderEnds(s) \/ Joined(s)
    \/ UnregisterEndpoint(s) \/ LooksEmpty(s) \/ RemoveManager(s)
    \/ ReportOffline(s) \/ ForgetCounter(s)

AccessNext ==
    \/ \E s \in Links : ConnectWeb(s) \/ Receives(s) \/ HangsUp(s) \/ LinkStep(s)
    \/ \E m \in Links : Speaks(m)
    \/ \E kind \in {"online", "offline"} : Reported(kind)

AccessSpec == AccessInit /\ [][AccessNext]_accessVars

-----------------------------------------------------------------------------

AccessTypeOK ==
    /\ web \in [Links -> [pc : {"none", "find", "insert", "register", "serve", "unregister",
                                   "empty", "remove", "report", "forget", "done"},
                             ctr : 0 .. MaxLinks, mine : 0 .. MaxLinks,
                             mgr : 0 .. MaxLinks, open : BOOLEAN, recv : BOOLEAN,
                             send : BOOLEAN]]
    /\ counter \in 0 .. MaxLinks /\ count \in [Links -> 0 .. MaxLinks]
    /\ managers \in 0 .. MaxLinks
    /\ hub \in [Links -> [Links -> 0 .. MaxLinks]]
    /\ channel \in [Links -> BOOLEAN]
    /\ reports \in [online : 0 .. MaxLinks, offline : 0 .. MaxLinks]
    /\ shown \in {"online", "offline"}
    /\ odd \subseteq {"overlap", "untold", "recount"}

\* However connections supersede each other, the last one of a counter is in the hub it
\* serves under its own name, so that it hears what the manager says, unless a clean-up
\* dropped the counter under a connection: numbers, and with them names, then repeat.
LatestIsHeard ==
    "recount" \notin odd
        => \A s \in Links : IsAt(s, "serve") /\ IsCurrent(s) => hub[web[s].mgr][web[s].mine] = s

\* Unless a connection came while another was still there, or two presence events were
\* under way at once, or one was lost, a device whose connections are over has no manager, no endpoint and
\* no counter left, and the console shows it offline.
GoneIsOffline ==
    Active = {} /\ reports.online + reports.offline = 0 /\ odd = {}
        => /\ managers = 0 /\ counter = 0 /\ shown = "offline"
           /\ \A m \in Links : \A n \in Links : hub[m][n] = 0
=============================================================================
