------------------------------ MODULE ManagerWs ------------------------------
(***************************************************************************)
(* The WebSocket between the management console and the server: the hub of *)
(* the console (ws.rs), which broadcasts requests and matches what comes   *)
(* back, and the server's client (manager_client.rs), which connects again *)
(* under the same id whenever its socket ends.                             *)
(*                                                                         *)
(* The hub keeps three tables, each behind a lock that lets waiting        *)
(* writers go before later readers.  Two locks are held while another is   *)
(* awaited: a request holds the clients while it enters itself, and a      *)
(* socket that hands out a streamed answer holds the streams until the     *)
(* answer is dealt with.                                                   *)
(***************************************************************************)
EXTENDS Integers, FiniteSets

CONSTANTS Asked,      \* requests of the console's users
          Streamed,   \* those answered in a stream
          MaxSockets  \* bound: connections of the server, in their order

ASSUME WsAssumption == Streamed \subseteq Asked /\ MaxSockets \in Nat \ {0}

Sockets == 1 .. MaxSockets
NoSocket == 0

VARIABLES
    socket,   \* where the console is with each socket, in handle_socket
    clients,  \* the socket whose sender is registered under the server's id
    link,     \* the socket the server writes to, or NoSocket
    ask,      \* where each request of a user is
    waiting,  \* pending: requests whose sender is registered
    streams,  \* stream_pending
    wire,     \* messages on their way: [kind, of, over]
    overtaken \* a socket was registered, or removed, when a later one was registered

wsVars == <<socket, clients, link, ask, waiting, streams, wire, overtaken>>

WsInit ==
    /\ socket = [k \in Sockets |-> "new"] /\ clients = NoSocket /\ link = NoSocket
    /\ ask = [r \in Asked |-> "idle"] /\ waiting = {} /\ streams = {}
    /\ wire = {} /\ overtaken = FALSE

-----------------------------------------------------------------------------
\* Locks

\* Requests that hold the clients while they await their table.
ClientsHeld == \E r \in Asked : ask[r] = "enter"

\* A writer that waits for them comes before a later reader.
ClientsQueued == ClientsHeld /\ \E k \in Sockets : socket[k] \in {"insert", "leave"}

\* A socket that holds the streams to read, and waits to write them.
StreamsHeld == \E k \in Sockets : socket[k] = "stuck"

-----------------------------------------------------------------------------
\* The connection: connect_ws of the server, handle_socket of the console

SocketAt(k, at) == socket' = [socket EXCEPT ![k] = at]

\* The server has no connection, or lost one of which the console does not know yet.
WsConnects(k) ==
    /\ link = NoSocket
    /\ socket[k] = "new" /\ \A j \in Sockets : j < k => socket[j] # "new"
    /\ SocketAt(k, "insert") /\ link' = k
    /\ UNCHANGED <<clients, ask, waiting, streams, wire, overtaken>>

WsDrops ==
    /\ link # NoSocket /\ link' = NoSocket
    /\ UNCHANGED <<socket, clients, ask, waiting, streams, wire, overtaken>>

\* A variant: the id is taken while the last connection has it.
SocketTakesFree(k) == IF clients = NoSocket THEN k ELSE clients

SocketTakes(k) == k

\* The sender is registered, and the configuration pushed at once.
SocketInserted(k) ==
    /\ socket[k] = "insert" /\ ~ ClientsHeld
    /\ clients' = SocketTakes(k)
    /\ overtaken' = (overtaken \/ clients > k)
    /\ SocketAt(k, "read")
    /\ UNCHANGED <<link, ask, waiting, streams, wire>>

\* A close or an error is read; of a connection the server still has, only that.
SocketEnds(k) ==
    /\ socket[k] = "read"
    /\ SocketAt(k, "leave")
    /\ link' = IF link = k THEN NoSocket ELSE link
    /\ UNCHANGED <<clients, ask, waiting, streams, wire, overtaken>>

\* The id goes, whichever socket has it.
SocketRemoved(k) ==
    /\ socket[k] = "leave" /\ ~ ClientsHeld
    /\ clients' = NoSocket
    /\ overtaken' = (overtaken \/ clients \notin {NoSocket, k})
    /\ SocketAt(k, "gone")
    /\ UNCHANGED <<link, ask, waiting, streams, wire>>

\* What comes back over a socket.  A streamed answer is handed on; the last of it is
\* also to be removed, which awaits the lock that the look-up still holds.
SocketReads(m) ==
    LET k == m.over
        stuck == m.of \in streams /\ m.kind = "final"
    IN  /\ m \in wire /\ m.kind \in {"chunk", "final"}
        /\ socket[k] = "read" /\ ~ StreamsHeld
        /\ wire' = wire \ {m}
        /\ IF stuck THEN SocketAt(k, "stuck") ELSE UNCHANGED socket
        /\ waiting' = IF m.of \in streams THEN waiting ELSE waiting \ {m.of}
        /\ ask' = IF m.kind = "final" /\ ask[m.of] = "wait" /\ m.of \in streams \cup waiting
                  THEN [ask EXCEPT ![m.of] = "done"] ELSE ask
        /\ UNCHANGED <<clients, link, streams, overtaken>>

-----------------------------------------------------------------------------
\* The server's side of a request

\* The dispatcher answers in the loop that reads, and so over the same socket; an
\* answer in a stream is written by a task of its own to the socket there is by then.
ServerAnswers(m) ==
    /\ m \in wire /\ m.kind = "ask"
    /\ \/ /\ link = NoSocket \/ (link # m.over /\ m.of \notin Streamed)
          /\ wire' = wire \ {m}
       \/ /\ link # NoSocket /\ (link = m.over \/ m.of \in Streamed)
          /\ \/ wire' = (wire \ {m}) \cup {[kind |-> "final", of |-> m.of, over |-> link]}
             \/ /\ m.of \in Streamed
                /\ wire' = wire \cup {[kind |-> "chunk", of |-> m.of, over |-> link]}
    /\ UNCHANGED <<socket, clients, link, ask, waiting, streams, overtaken>>

-----------------------------------------------------------------------------
\* The console's side: broadcast_request, broadcast_stream_request

AskAt(r, at) == ask' = [ask EXCEPT ![r] = at]

\* Without a client the request is refused.
AskBegins(r) ==
    /\ ask[r] = "idle" /\ ~ ClientsQueued
    /\ AskAt(r, IF clients = NoSocket THEN "failed" ELSE "enter")
    /\ UNCHANGED <<socket, clients, link, waiting, streams, wire, overtaken>>

\* It enters itself and is handed to the client, if that still has a writer.
AskEnters(r) ==
    /\ ask[r] = "enter" /\ (r \in Streamed => ~ StreamsHeld)
    /\ streams' = streams \cup ({r} \cap Streamed)
    /\ waiting' = waiting \cup ({r} \ Streamed)
    /\ wire' = IF socket[clients] \in {"read", "stuck"} /\ link = clients
               THEN wire \cup {[kind |-> "ask", of |-> r, over |-> clients]} ELSE wire
    /\ AskAt(r, "wait")
    /\ UNCHANGED <<socket, clients, link, overtaken>>

\* The time-out of the request, and the end of its entry.
AskTimeout(r) ==
    /\ ask[r] = "wait"
    /\ AskAt(r, "failed")
    /\ waiting' = waiting \ {r}
    /\ UNCHANGED <<socket, clients, link, streams, wire, overtaken>>

StreamTimer(r) ==
    /\ r \in streams /\ ~ StreamsHeld
    /\ streams' = streams \ {r}
    /\ UNCHANGED <<socket, clients, link, ask, waiting, wire, overtaken>>

-----------------------------------------------------------------------------

HubProgress(k) == SocketInserted(k) \/ SocketRemoved(k)
AskProgress(r) == AskBegins(r) \/ AskEnters(r) \/ AskTimeout(r) \/ StreamTimer(r)

WsNext ==
    \/ \E k \in Sockets : WsConnects(k) \/ SocketEnds(k) \/ HubProgress(k)
    \/ WsDrops
    \/ \E m \in wire : SocketReads(m) \/ ServerAnswers(m)
    \/ \E r \in Asked : AskProgress(r)

WsSpec ==
    /\ WsInit /\ [][WsNext]_wsVars
    /\ \A k \in Sockets : WF_wsVars(HubProgress(k))
    /\ \A r \in Asked : WF_wsVars(AskProgress(r))

-----------------------------------------------------------------------------

WsTypeOK ==
    /\ socket \in [Sockets -> {"new", "insert", "read", "stuck", "leave", "gone"}]
    /\ clients \in Sockets \cup {NoSocket} /\ link \in Sockets \cup {NoSocket}
    /\ ask \in [Asked -> {"idle", "enter", "wait", "done", "failed"}]
    /\ waiting \subseteq Asked \ Streamed /\ streams \subseteq Streamed
    /\ wire \subseteq [kind : {"ask", "chunk", "final"}, of : Asked, over : Sockets]
    /\ overtaken \in BOOLEAN

\* The hub reaches the server over its latest connection, however the ends of the
\* earlier ones are noticed, unless one that began or ended late took the id of a later one;
\* and it never keeps a connection that is gone.
ReachesLatest ==
    /\ clients # NoSocket => socket[clients] \in {"read", "stuck", "leave"}
    /\ \A k \in Sockets : 
           socket[k] = "read" /\ (\A j \in Sockets : j > k => socket[j] \in {"new", "insert"})
               => clients = k \/ overtaken

\* ws.rs:151: the console pushes its configuration as soon as the server has connected.
ConfigPushed == \A k \in Sockets : socket[k] = "insert" ~> socket[k] # "insert"
=============================================================================
