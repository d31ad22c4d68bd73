----------------------------- MODULE SharedProofs -----------------------------
(***************************************************************************)
(* What a server and the console keep together, for any number of sockets, *)
(* servers, calls and savers: the console reaches the server over its      *)
(* latest socket; who asks a shared MCP server gets the answer to his own  *)
(* question; the configuration and the list of MCP services that a server  *)
(* has are, in the end, those of the console's rows.  Each part has an     *)
(* inductive invariant of its own; a behaviour of the platform runs one    *)
(* part.                                                                   *)
(***************************************************************************)
EXTENDS MCPlatform, FiniteSetTheorems, WellFoundedInduction, TLAPS

-----------------------------------------------------------------------------
\* The socket to the console

\* Who enters a request holds the clients, and so keeps the one it found.
EnterInv == \A r \in Asked : ask[r] = "enter" => clients # NoSocket

WsInv == WsTypeOK /\ EnterInv /\ ReachesLatest

LEMMA WsInitInv == WsInit => WsInv
  BY WsAssumption DEF WsInit, WsInv, WsTypeOK, EnterInv, ReachesLatest, NoSocket, Sockets

LEMMA SocketFields ==
    ASSUME WsTypeOK, NEW k \in Sockets, SocketAt(k, "read") \/ SocketAt(k, "insert")
             \/ SocketAt(k, "leave") \/ SocketAt(k, "gone") \/ SocketAt(k, "stuck")
    PROVE  /\ socket' \in [Sockets -> {"new", "insert", "read", "stuck", "leave", "gone"}]
           /\ \A j \in Sockets \ {k} : socket'[j] = socket[j]
           /\ \A at : SocketAt(k, at) => socket'[k] = at
  BY DEF WsTypeOK, SocketAt

LEMMA InsertedInv == ASSUME WsInv, NEW k \in Sockets, SocketInserted(k) PROVE WsInv'
<1> USE WsAssumption DEF Sockets, NoSocket
<1>1. /\ socket[k] = "insert" /\ ~ ClientsHeld /\ clients' = k /\ SocketAt(k, "read")
      /\ overtaken' = (overtaken \/ clients > k)
      /\ UNCHANGED <<link, ask, waiting, streams, wire>>
  BY DEF SocketInserted, SocketTakes
<1>2. /\ socket' \in [Sockets -> {"new", "insert", "read", "stuck", "leave", "gone"}]
      /\ socket'[k] = "read" /\ \A j \in Sockets \ {k} : socket'[j] = socket[j]
  BY <1>1, SocketFields DEF WsInv
<1>3. overtaken' \in BOOLEAN /\ (overtaken => overtaken') /\ (clients > k => overtaken')
  BY <1>1 DEF WsInv, WsTypeOK
<1>4. WsTypeOK'
  BY <1>1, <1>2, <1>3 DEF WsInv, WsTypeOK
<1>5. EnterInv'
  BY <1>1 DEF EnterInv
<1>6. ReachesLatest'
  <2>1. ASSUME NEW j \in Sockets, socket'[j] = "read",
               \A i \in Sockets : i > j => socket'[i] \in {"new", "insert"}
        PROVE  clients' = j \/ overtaken'
    <3>1. CASE j = k
      BY <1>1, <3>1
    <3>2. CASE j # k
      <4>1. k < j
        BY <1>2, <2>1, <3>2
      <4>2. socket[j] = "read" /\ \A i \in Sockets : i > j => socket[i] \in {"new", "insert"}
        BY <1>2, <2>1, <3>2, <4>1
      <4>3. clients = j \/ overtaken
        BY <4>2 DEF WsInv, ReachesLatest
      <4> QED
        BY <1>3, <4>1, <4>3
    <3> QED
      BY <3>1, <3>2
  <2> QED
    BY <1>1, <1>2, <2>1 DEF ReachesLatest
<1> QED
  BY <1>4, <1>5, <1>6 DEF WsInv

LEMMA RemovedInv == ASSUME WsInv, NEW k \in Sockets, SocketRemoved(k) PROVE WsInv'
<1> USE WsAssumption DEF Sockets, NoSocket
<1>1. /\ socket[k] = "leave" /\ ~ ClientsHeld /\ clients' = NoSocket /\ SocketAt(k, "gone")
      /\ overtaken' = (overtaken \/ clients \notin {NoSocket, k})
      /\ UNCHANGED <<link, ask, waiting, streams, wire>>
  BY DEF SocketRemoved
<1>2. /\ socket' \in [Sockets -> {"new", "insert", "read", "stuck", "leave", "gone"}]
      /\ socket'[k] = "gone" /\ \A j \in Sockets \ {k} : socket'[j] = socket[j]
  BY <1>1, SocketFields DEF WsInv
<1>3. /\ overtaken' \in BOOLEAN /\ (overtaken => overtaken')
      /\ (clients \notin {NoSocket, k} => overtaken')
  BY <1>1 DEF WsInv, WsTypeOK
<1>4. WsTypeOK'
  BY <1>1, <1>2, <1>3 DEF WsInv, WsTypeOK
<1>5. EnterInv'
  BY <1>1 DEF EnterInv, ClientsHeld
<1>6. ReachesLatest'
  <2>1. ASSUME NEW j \in Sockets, socket'[j] = "read",
               \A i \in Sockets : i > j => socket'[i] \in {"new", "insert"}
        PROVE  overtaken'
    <3>1. j # k /\ socket[j] = "read" /\ \A i \in Sockets : i > j => socket[i] \in {"new", "insert"}
      BY <1>2, <2>1
    <3>2. clients = j \/ overtaken
      BY <3>1 DEF WsInv, ReachesLatest
    <3> QED
      BY <1>3, <3>1, <3>2
  <2> QED
    BY <1>1, <2>1 DEF ReachesLatest
<1> QED
  BY <1>4, <1>5, <1>6 DEF WsInv

\* A step that leaves the clients, and the sockets but one, alone.
LEMMA SocketGoesOn ==
    ASSUME WsInv, NEW k \in Sockets,
           socket' = socket \/ (socket[k] = "new" /\ SocketAt(k, "insert"))
             \/ (socket[k] = "read" /\ (SocketAt(k, "leave") \/ SocketAt(k, "stuck"))),
           clients' = clients, overtaken' = overtaken,
           \A r \in Asked : ask'[r] = "enter" => ask[r] = "enter" \/ clients # NoSocket,
           ask' \in [Asked -> {"idle", "enter", "wait", "done", "failed"}],
           link' \in Sockets \cup {NoSocket}, waiting' \subseteq Asked \ Streamed,
           streams' \subseteq Streamed,
           wire' \subseteq [kind : {"ask", "chunk", "final"}, of : Asked, over : Sockets]
    PROVE  WsInv'
<1> USE WsAssumption DEF Sockets, NoSocket
<1>1. /\ socket' \in [Sockets -> {"new", "insert", "read", "stuck", "leave", "gone"}]
      /\ \A j \in Sockets :
           \/ socket'[j] = socket[j]
           \/ socket[j] = "new" /\ socket'[j] = "insert"
           \/ socket[j] = "read" /\ socket'[j] \in {"leave", "stuck"}
  BY SocketFields DEF WsInv, WsTypeOK
<1>2. WsTypeOK'
  BY <1>1 DEF WsInv, WsTypeOK
<1>3. EnterInv'
  BY DEF WsInv, EnterInv
<1>4. ReachesLatest'
  <2>1. clients # NoSocket => socket'[clients] \in {"read", "stuck", "leave"}
    BY <1>1 DEF WsInv, ReachesLatest, WsTypeOK
  <2>2. ASSUME NEW j \in Sockets, socket'[j] = "read",
               \A i \in Sockets : i > j => socket'[i] \in {"new", "insert"}
        PROVE  clients = j \/ overtaken
    <3>1. socket[j] = "read" /\ \A i \in Sockets : i > j => socket[i] \in {"new", "insert"}
      BY <1>1, <2>2
    <3> QED
      BY <3>1 DEF WsInv, ReachesLatest
  <2> QED
    BY <2>1, <2>2 DEF ReachesLatest
<1> QED
  BY <1>2, <1>3, <1>4 DEF WsInv

LEMMA WsNextInv == WsInv /\ [WsNext]_wsVars => WsInv'
<1> SUFFICES ASSUME WsInv, [WsNext]_wsVars PROVE WsInv'
  OBVIOUS
<1> USE WsAssumption DEF NoSocket
<1> DEFINE Asks == {"idle", "enter", "wait", "done", "failed"}
           Wires == [kind : {"ask", "chunk", "final"}, of : Asked, over : Sockets]
<1>1. /\ ask \in [Asked -> Asks] /\ link \in Sockets \cup {NoSocket} /\ clients \in Sockets \cup {NoSocket}
      /\ waiting \subseteq Asked \ Streamed /\ streams \subseteq Streamed /\ wire \subseteq Wires
      /\ 1 \in Sockets
  BY DEF WsInv, WsTypeOK, Sockets
<1>2. ASSUME NEW r \in Asked, NEW at \in Asks, AskAt(r, at)
      PROVE  /\ ask' \in [Asked -> Asks] /\ ask'[r] = at
             /\ \A q \in Asked \ {r} : ask'[q] = ask[q]
  BY <1>1, <1>2 DEF AskAt
<1>3. CASE UNCHANGED wsVars
  BY <1>1, <1>3, SocketGoesOn DEF wsVars
<1>4. ASSUME NEW k \in Sockets, WsConnects(k) PROVE WsInv'
  BY <1>1, <1>4, SocketGoesOn DEF WsConnects
<1>5. ASSUME NEW k \in Sockets, SocketEnds(k) PROVE WsInv'
  BY <1>1, <1>5, SocketGoesOn DEF SocketEnds
<1>6. ASSUME NEW k \in Sockets, HubProgress(k) PROVE WsInv'
  BY <1>6, InsertedInv, RemovedInv DEF HubProgress
<1>7. CASE WsDrops
  BY <1>1, <1>7, SocketGoesOn DEF WsDrops
<1>8. ASSUME NEW m \in wire, SocketReads(m) PROVE WsInv'
  <2>1. m \in Wires /\ m.over \in Sockets /\ m.of \in Asked
    BY <1>1
  <2>2. /\ socket[m.over] = "read" /\ UNCHANGED <<clients, link, streams, overtaken>>
        /\ socket' = socket \/ SocketAt(m.over, "stuck")
        /\ wire' \subseteq wire /\ waiting' \subseteq waiting
        /\ ask' = ask \/ ask' = [ask EXCEPT ![m.of] = "done"]
    BY <1>8 DEF SocketReads
  <2>3. ask' \in [Asked -> Asks] /\ \A r \in Asked : ask'[r] = "enter" => ask[r] = "enter"
    BY <1>1, <2>1, <2>2
  <2> QED
    BY <1>1, <2>1, <2>2, <2>3, SocketGoesOn
<1>9. ASSUME NEW m \in wire, ServerAnswers(m) PROVE WsInv'
  <2>1. /\ UNCHANGED <<socket, clients, link, ask, waiting, streams, overtaken>>
        /\ \/ wire' = wire \ {m}
           \/ link # NoSocket /\ wire' = (wire \ {m}) \cup {[kind |-> "final", of |-> m.of, over |-> link]}
           \/ link # NoSocket /\ wire' = wire \cup {[kind |-> "chunk", of |-> m.of, over |-> link]}
    BY <1>9 DEF ServerAnswers
  <2>2. wire' \subseteq Wires
    BY <1>1, <2>1
  <2> QED
    BY <1>1, <2>1, <2>2, SocketGoesOn
<1>10. ASSUME NEW r \in Asked, AskBegins(r) PROVE WsInv'
  <2>1. /\ UNCHANGED <<socket, clients, link, waiting, streams, wire, overtaken>>
        /\ \/ AskAt(r, "failed") \/ (clients # NoSocket /\ AskAt(r, "enter"))
    BY <1>10 DEF AskBegins
  <2>2. ask' \in [Asked -> Asks] /\ \A q \in Asked : ask'[q] = "enter" => ask[q] = "enter" \/ clients # NoSocket
    BY <1>2, <2>1
  <2> QED
    BY <1>1, <2>1, <2>2, SocketGoesOn
<1>11. ASSUME NEW r \in Asked, AskEnters(r) PROVE WsInv'
  <2>1. /\ ask[r] = "enter" /\ AskAt(r, "wait") /\ UNCHANGED <<socket, clients, link, overtaken>>
        /\ streams' = streams \cup ({r} \cap Streamed)
        /\ waiting' = waiting \cup ({r} \ Streamed)
        /\ wire' = wire \/ wire' = wire \cup {[kind |-> "ask", of |-> r, over |-> clients]}
    BY <1>11 DEF AskEnters
  <2>2. clients \in Sockets
    BY <1>1, <2>1 DEF WsInv, EnterInv
  <2>3. ask' \in [Asked -> Asks] /\ \A q \in Asked : ask'[q] = "enter" => ask[q] = "enter"
    BY <1>2, <2>1
  <2>4. wire' \subseteq Wires
    BY <1>1, <2>1, <2>2
  <2> QED
    BY <1>1, <2>1, <2>3, <2>4, SocketGoesOn
<1>12. ASSUME NEW r \in Asked, AskTimeout(r) PROVE WsInv'
  <2>1. ask' \in [Asked -> Asks] /\ \A q \in Asked : ask'[q] = "enter" => ask[q] = "enter"
    BY <1>2, <1>12 DEF AskTimeout
  <2> QED
    BY <1>1, <1>12, <2>1, SocketGoesOn DEF AskTimeout
<1>13. ASSUME NEW r \in Asked, StreamTimer(r) PROVE WsInv'
  BY <1>1, <1>13, SocketGoesOn DEF StreamTimer
<1> QED
  BY <1>3, <1>4, <1>5, <1>6, <1>7, <1>8, <1>9, <1>10, <1>11, <1>12, <1>13 DEF WsNext, AskProgress

-----------------------------------------------------------------------------
\* The shared MCP servers

RpcType == [pc : {"idle", "insert", "post", "wait", "hung", "stored", "bind", "plain",
                  "prefixed", "sleep", "stopped", "over"},
            id : Numbers, to : Askers, from : Servers \cup {NoAsker}]

\* The calls that were given a number.
Numbered == {c \in HubCalls : rpc[c].id >= FirstCall}

CallIdsInv ==
    /\ \A s \in Servers : rpc[s].id = ListId /\ rpc[s].to = s
    /\ \A c \in HubCalls :
         \/ rpc[c].id = ListId /\ rpc[c].pc \in {"idle", "over"} /\ rpc[c].from = NoAsker
         \/ /\ rpc[c].id >= FirstCall /\ rpc[c].id < nextCall /\ rpc[c].pc # "idle"
            /\ rpc[c].to \in Servers
    /\ \A c, d \in HubCalls : c # d /\ rpc[c].id = rpc[d].id => rpc[c].id = ListId
    /\ FirstCall <= nextCall /\ nextCall <= FirstCall + Cardinality(Numbered)

\* A call's number is not the lists'; what is registered or unanswered bears its asker's number.
TableInv ==
    /\ \A n \in Numbers : table[n] # NoAsker =>
         rpc[table[n]].id = n /\ (table[n] \in HubCalls => n >= FirstCall)
    /\ \A r \in unanswered : /\ rpc[r.of].id = r.id /\ rpc[r.of].to = r.to
                             /\ r.of \in HubCalls => r.id >= FirstCall
                             /\ r.to \in Servers

\* Whoever waits is registered.
WaitInv == \A a \in Askers : RpcAt(a, "wait") => table[rpc[a].id] = a

CrossInv ==
    ~ crossed =>
      \A a \in Servers : \A s \in Servers \ {a} :
        rpc[a].pc \in {"post", "wait"} =>
          ~ RpcAt(s, "post") /\ (\A r \in unanswered : r.of # s)

HubInv == HubTypeOK /\ CallIdsInv /\ TableInv /\ WaitInv /\ CrossInv /\ OwnReply

LEMMA HubTypes == HubInv => /\ rpc \in [Askers -> RpcType] /\ table \in [Numbers -> Askers \cup {NoAsker}]
                            /\ unanswered \subseteq [of : Askers, id : Numbers, to : Askers]
                            /\ bindings \in [Keys -> Servers \cup {NoAsker}]
  BY DEF HubInv, HubTypeOK, RpcType

LEMMA CallCount == Cardinality(HubCalls) \in Nat
  BY HubAssumption, FS_CardinalityType

\* The numbers of the requests are numbers.
LEMMA NumbersAreInt == Numbers \subseteq Int
  BY CallCount DEF Numbers, ListId, CallIds

LEMMA HubInitInv == HubInit => HubInv
<1> SUFFICES ASSUME HubInit PROVE HubInv
  OBVIOUS
<1> USE HubAssumption, CallCount DEF HubInit
<1>1. \A a \in Askers : /\ rpc[a].pc = "idle" /\ rpc[a].id = ListId /\ rpc[a].to = a
                        /\ rpc[a].from = NoAsker
  OBVIOUS
<1>2. HubTypeOK
  <2>1. ListId \in Numbers
    BY DEF Numbers
  <2>2. FirstCall \in 1 .. 100 + Cardinality(HubCalls)
    BY DEF FirstCall
  <2>3. [a \in Askers |-> [pc |-> "idle", id |-> ListId, to |-> a, from |-> NoAsker]]
          \in [Askers -> RpcType]
    BY <2>1 DEF RpcType
  <2>4. rpc \in [Askers -> RpcType]
    BY <2>3
  <2>5. table \in [Numbers -> Askers \cup {NoAsker}] /\ bindings \in [Keys -> Servers \cup {NoAsker}]
    OBVIOUS
  <2>6. nextCall \in 1 .. 100 + Cardinality(HubCalls) /\ lists \in 0 .. MaxLists
    BY <2>2
  <2>7. unanswered = {} /\ hubDown \in BOOLEAN /\ crossed \in BOOLEAN
    OBVIOUS
  <2>8. rpc \in [Askers -> RpcType] /\ unanswered \subseteq [of : Askers, id : Numbers, to : Askers]
    BY <2>4, <2>7
  <2> HIDE DEF HubInit
  <2> QED
    BY <2>5, <2>6, <2>7, <2>8 DEF HubTypeOK, RpcType
<1>3. Numbered \subseteq HubCalls /\ Cardinality(Numbered) \in Nat
  BY FS_Subset, FS_CardinalityType DEF Numbered
<1>4. CallIdsInv
  BY <1>1, <1>3 DEF CallIdsInv, Askers, FirstCall
<1>5. TableInv /\ WaitInv /\ CrossInv /\ OwnReply
  BY <1>1 DEF TableInv, WaitInv, CrossInv, OwnReply, RpcAt, Askers
<1> QED
  BY <1>2, <1>4, <1>5 DEF HubInv

\* A step in which nobody takes a number, registers or begins to wait: askers only go on,
\* give up, or get the answer of the server they asked.
SteadyRpc ==
    /\ rpc' \in [Askers -> RpcType]
    /\ \A a \in Askers :
         /\ rpc'[a].id = rpc[a].id /\ rpc'[a].to = rpc[a].to
         /\ rpc'[a].pc = "idle" => rpc[a].pc = "idle"
         /\ rpc'[a].pc = "post" => rpc[a].pc = "post"
         /\ rpc'[a].pc = "wait" => rpc[a].pc = "wait" /\ table'[rpc[a].id] = table[rpc[a].id]
         /\ a \in HubCalls /\ rpc[a].id = ListId => rpc'[a].pc = rpc[a].pc
         /\ rpc'[a].from \in {rpc[a].from, NoAsker, rpc[a].to} \/ (a \in Servers /\ crossed)
         /\ a \in HubCalls /\ rpc[a].id = ListId => rpc'[a].from = rpc[a].from
    /\ table' \in [Numbers -> Askers \cup {NoAsker}]
    /\ \A n \in Numbers : table'[n] \in {table[n], NoAsker}
    /\ unanswered' \subseteq unanswered

LEMMA SteadyInv ==
    ASSUME HubInv, SteadyRpc, bindings' \in [Keys -> Servers \cup {NoAsker}], nextCall' = nextCall,
           hubDown' \in BOOLEAN, lists' \in 0 .. MaxLists, crossed' = crossed
    PROVE  HubInv'
<1> USE HubAssumption
<1>0. rpc \in [Askers -> RpcType] /\ \A a \in Askers : rpc[a].id \in Numbers
  BY HubTypes DEF RpcType
<1>1. HubTypeOK'
  BY DEF HubInv, HubTypeOK, SteadyRpc, RpcType
<1>2. Numbered' = Numbered
  BY DEF SteadyRpc, Numbered, Askers
<1>3. CallIdsInv'
  BY <1>2 DEF HubInv, CallIdsInv, SteadyRpc, Askers
<1>4. TableInv'
  <2>1. ASSUME NEW n \in Numbers, table'[n] # NoAsker
        PROVE  rpc'[table'[n]].id = n /\ (table'[n] \in HubCalls => n >= FirstCall)
    <3>1. table'[n] = table[n] /\ table[n] \in Askers
      BY <2>1, HubTypes DEF SteadyRpc
    <3> QED
      BY <2>1, <3>1 DEF HubInv, TableInv, SteadyRpc
  <2>2. ASSUME NEW r \in unanswered'
        PROVE  /\ rpc'[r.of].id = r.id /\ rpc'[r.of].to = r.to
               /\ r.of \in HubCalls => r.id >= FirstCall
               /\ r.to \in Servers
    <3>1. r \in unanswered /\ r.of \in Askers
      BY <2>2, HubTypes DEF SteadyRpc
    <3> QED
      BY <3>1 DEF HubInv, TableInv, SteadyRpc
  <2> QED
    BY <2>1, <2>2 DEF TableInv
<1>5. WaitInv'
  BY <1>0 DEF HubInv, WaitInv, SteadyRpc, RpcAt
<1>6. CrossInv'
  BY DEF HubInv, CrossInv, SteadyRpc, RpcAt, Askers
<1>7. OwnReply'
  BY DEF HubInv, OwnReply, SteadyRpc
<1> QED
  BY <1>1, <1>3, <1>4, <1>5, <1>6, <1>7 DEF HubInv

\* Whom a dropped sender ends: what it was waiting for is over.
LEMMA HungFields ==
    ASSUME NEW n \in Numbers, table \in [Numbers -> Askers \cup {NoAsker}],
           NEW rpcs \in [Askers -> RpcType]
    PROVE  /\ Hung(n, rpcs) \in [Askers -> RpcType]
           /\ \A a \in Askers :
                /\ Hung(n, rpcs)[a].id = rpcs[a].id /\ Hung(n, rpcs)[a].to = rpcs[a].to
                /\ Hung(n, rpcs)[a].from = rpcs[a].from
                /\ \/ Hung(n, rpcs)[a].pc = rpcs[a].pc
                   \/ rpcs[a].pc = "wait" /\ Hung(n, rpcs)[a].pc \in {"sleep", "over"}
                /\ rpcs[a].pc = "wait" /\ rpcs[a].id = n /\ table[n] = a
                     => Hung(n, rpcs)[a].pc # "wait"
<1> USE HubAssumption
<1>1. CASE table[n] # NoAsker /\ rpcs[table[n]].pc = "wait" /\ rpcs[table[n]].id = n
  <2>1. PICK b \in Askers : b = table[n]
    BY <1>1
  <2>2. PICK pc \in {"sleep", "over"} : pc = IF b \in Servers THEN "sleep" ELSE "over"
    OBVIOUS
  <2>3. PICK r : r = [rpcs[b] EXCEPT !.pc = pc]
    OBVIOUS
  <2>4. r \in RpcType /\ r.pc = pc /\ r.id = rpcs[b].id /\ r.to = rpcs[b].to /\ r.from = rpcs[b].from
    BY <2>2, <2>3 DEF RpcType
  <2>5. PICK h : h = Hung(n, rpcs)
    OBVIOUS
  <2>6. h = [rpcs EXCEPT ![b] = r]
    BY <1>1, <2>1, <2>2, <2>3, <2>5 DEF Hung
  <2>7. h \in [Askers -> RpcType] /\ h[b] = r /\ \A a \in Askers \ {b} : h[a] = rpcs[a]
    BY <2>4, <2>6
  <2>8. \A a \in Askers :
                /\ h[a].id = rpcs[a].id /\ h[a].to = rpcs[a].to
                /\ h[a].from = rpcs[a].from
                /\ \/ h[a].pc = rpcs[a].pc
                   \/ rpcs[a].pc = "wait" /\ h[a].pc \in {"sleep", "over"}
                /\ rpcs[a].pc = "wait" /\ rpcs[a].id = n /\ table[n] = a => h[a].pc # "wait"
    BY <1>1, <2>1, <2>4, <2>7
  <2> QED
    BY <2>5, <2>7, <2>8
<1>2. CASE ~ (table[n] # NoAsker /\ rpcs[table[n]].pc = "wait" /\ rpcs[table[n]].id = n)
  <2>1. Hung(n, rpcs) = rpcs
    BY <1>2 DEF Hung
  <2>2. NoAsker \notin Askers
    BY DEF Askers
  <2> QED
    BY <1>2, <2>1, <2>2
<1> QED
  BY <1>1, <1>2

\* An asker that is not a call yet to begin, or over unbegun, has what is its own.
LEMMA BegunCall ==
    ASSUME HubInv, NEW c \in HubCalls, rpc[c].pc \notin {"idle", "over"}
    PROVE  rpc[c].id >= FirstCall /\ rpc[c].id # ListId
  BY NumbersAreInt, HubTypes DEF HubInv, CallIdsInv, FirstCall, ListId

\* One asker goes on, without a request in the air.
LEMMA RpcGoesOn ==
    ASSUME HubInv, NEW a \in Askers, NEW pc \in {"sleep", "stopped", "over", "hung", "stored",
                   "bind", "plain", "prefixed"}, RpcGoto(a, pc), rpc[a].pc \notin {"idle", "over"} \/ a \in Servers,
           UNCHANGED <<table, unanswered>>
    PROVE  SteadyRpc
<1>1. PICK r : r = [rpc[a] EXCEPT !.pc = pc]
  OBVIOUS
<1>2. r \in RpcType /\ r.pc = pc /\ r.id = rpc[a].id /\ r.to = rpc[a].to /\ r.from = rpc[a].from
  BY <1>1, HubTypes DEF RpcType
<1>3. rpc' = [rpc EXCEPT ![a] = r]
  BY <1>1, HubTypes DEF RpcGoto
<1>4. rpc' \in [Askers -> RpcType] /\ rpc'[a] = r /\ \A b \in Askers \ {a} : rpc'[b] = rpc[b]
  BY <1>2, <1>3, HubTypes
<1>5. a \in HubCalls => rpc[a].id # ListId
  BY BegunCall, HubAssumption
<1> QED
  BY <1>2, <1>4, <1>5, HubTypes DEF SteadyRpc

LEMMA HubSteps ==
    ASSUME HubInv, NEW a \in Askers,
           \/ Connect(a) \/ StopServer(a) \/ LookUp(a) \/ (Bind(a) /\ a \in Servers)
           \/ Fails(a) \/ Unbind(a)
    PROVE  HubInv'
<1> USE HubAssumption
<1>1. \A b \in Askers : rpc[b] \in RpcType
  BY HubTypes
<1>2. /\ bindings \in [Keys -> Servers \cup {NoAsker}] /\ nextCall = nextCall
      /\ hubDown \in BOOLEAN /\ lists \in 0 .. MaxLists
  BY DEF HubInv, HubTypeOK
<1>3. CASE Connect(a)
  <2>1. a \in Servers /\ UNCHANGED <<table, unanswered, bindings, nextCall, hubDown, crossed>>
    BY <1>3 DEF Connect
  <2>2. lists' \in 0 .. MaxLists
    BY <1>2, <1>3 DEF Connect
  <2>3. CASE RpcGoto(a, "sleep")
    <3>1. SteadyRpc
      BY <2>1, <2>3, RpcGoesOn
    <3> QED
      BY <1>2, <2>1, <2>2, <3>1, SteadyInv
  <2>4. CASE rpc' = [rpc EXCEPT ![a] = [@ EXCEPT !.pc = "insert", !.from = NoAsker]]
    <3>0. rpc[a] \in RpcType
      BY <1>1
    <3>1. PICK r : r = [[rpc[a] EXCEPT !.pc = "insert"] EXCEPT !.from = NoAsker]
      OBVIOUS
    <3>2. r \in RpcType /\ r.pc = "insert" /\ r.id = rpc[a].id /\ r.to = rpc[a].to /\ r.from = NoAsker
      BY <3>0, <3>1 DEF RpcType
    <3>3. rpc' = [rpc EXCEPT ![a] = r]
      BY <2>4, <3>1, HubTypes
    <3>4. rpc' \in [Askers -> RpcType] /\ rpc'[a] = r /\ \A b \in Askers \ {a} : rpc'[b] = rpc[b]
      BY <3>2, <3>3, HubTypes
    <3>5. SteadyRpc
      BY <2>1, <3>2, <3>4, HubTypes DEF SteadyRpc
    <3> QED
      BY <1>2, <2>1, <2>2, <3>5, SteadyInv
  <2> QED
    BY <1>3, <2>3, <2>4 DEF Connect
<1>4. CASE StopServer(a)
  <2>1. /\ a \in Servers /\ RpcGoto(a, "stopped")
        /\ UNCHANGED <<table, unanswered, bindings, nextCall, hubDown, lists, crossed>>
    BY <1>4 DEF StopServer
  <2>2. SteadyRpc
    BY <2>1, RpcGoesOn
  <2> QED
    BY <1>2, <2>1, <2>2, SteadyInv
<1>5. CASE LookUp(a)
  <2>1. PICK pc \in {"plain", "prefixed"} : RpcGoto(a, pc)
    BY <1>5 DEF LookUp
  <2>2. /\ rpc[a].pc = "bind"
        /\ UNCHANGED <<table, unanswered, bindings, nextCall, hubDown, lists, crossed>>
    BY <1>5 DEF LookUp, RpcAt
  <2>3. SteadyRpc
    BY <2>1, <2>2, RpcGoesOn
  <2> QED
    BY <1>2, <2>2, <2>3, SteadyInv
<1>6. CASE Fails(a)
  <2>1. PICK pc \in {"sleep", "over"} : RpcGoto(a, pc)
    BY <1>6 DEF Fails, RpcOver, RpcGoto
  <2>2. /\ rpc[a].pc = "hung"
        /\ UNCHANGED <<table, unanswered, bindings, nextCall, hubDown, lists, crossed>>
    BY <1>6 DEF Fails, RpcAt
  <2>3. SteadyRpc
    BY <2>1, <2>2, RpcGoesOn
  <2> QED
    BY <1>2, <2>2, <2>3, SteadyInv
<1>7. CASE Unbind(a)
  <2>1. PICK pc \in {"sleep", "over", "bind"} : RpcGoto(a, pc)
    BY <1>7 DEF Unbind, RpcOver, RpcGoto
  <2>2. /\ rpc[a].pc = "stored"
        /\ UNCHANGED <<table, unanswered, nextCall, hubDown, lists, crossed>>
        /\ bindings' = [k \in Keys |-> IF bindings[k] = a THEN NoAsker ELSE bindings[k]]
    BY <1>7 DEF Unbind, RpcAt
  <2>3. SteadyRpc
    BY <2>1, <2>2, RpcGoesOn
  <2>4. bindings' \in [Keys -> Servers \cup {NoAsker}]
    BY <1>2, <2>2
  <2> QED
    BY <1>2, <2>2, <2>3, <2>4, SteadyInv
<1>8. CASE Bind(a) /\ a \in Servers
  <2>1. /\ rpc[a].pc \in {"plain", "prefixed"} /\ RpcGoto(a, "sleep")
        /\ UNCHANGED <<table, unanswered, nextCall, hubDown, lists, crossed>>
    BY <1>8 DEF Bind
  <2>2. bindings' \in [Keys -> Servers \cup {NoAsker}]
    BY <1>2, <1>8 DEF Bind, Keys
  <2>3. SteadyRpc
    BY <2>1, RpcGoesOn
  <2> QED
    BY <1>2, <2>1, <2>2, <2>3, SteadyInv
<1> QED
  BY <1>3, <1>4, <1>5, <1>6, <1>7, <1>8

\* What else changes when a sender is dropped from the table: nobody waits for it.
LEMMA DropInv ==
    ASSUME HubInv, NEW n \in Numbers, NEW rpcs \in [Askers -> RpcType],
           rpc' = Hung(n, rpcs), table' = [table EXCEPT ![n] = NoAsker],
           \A a \in Askers :
             /\ rpcs[a].id = rpc[a].id /\ rpcs[a].to = rpc[a].to
             /\ rpcs[a].pc = rpc[a].pc \/ (rpc[a].pc = "post" /\ rpcs[a].pc \in {"stored", "hung"})
             /\ rpcs[a].from \in {rpc[a].from, rpc[a].to}
             /\ rpcs[a].pc = rpc[a].pc => rpcs[a].from = rpc[a].from,
           UNCHANGED <<unanswered, bindings, nextCall, hubDown, lists, crossed>>
    PROVE  HubInv'
<1> USE HubAssumption
<1>1. table \in [Numbers -> Askers \cup {NoAsker}] /\ (\A a \in Askers : rpc[a].id \in Numbers)
  BY HubTypes DEF RpcType
<1>2. PICK h \in [Askers -> RpcType] : h = Hung(n, rpcs)
  BY <1>1, HungFields
<1>3. \A a \in Askers :
        /\ h[a].id = rpcs[a].id /\ h[a].to = rpcs[a].to /\ h[a].from = rpcs[a].from
        /\ h[a].pc = rpcs[a].pc \/ (rpcs[a].pc = "wait" /\ h[a].pc \in {"sleep", "over"})
        /\ rpcs[a].pc = "wait" /\ rpcs[a].id = n /\ table[n] = a => h[a].pc # "wait"
  BY <1>1, <1>2, HungFields
<1>4. rpc' = h
  BY <1>2
<1>5. \A a \in Askers : rpc[a].pc = "wait" => table[rpc[a].id] = a
  BY DEF HubInv, WaitInv, RpcAt
<1>6. \A c \in HubCalls : rpc[c].id = ListId => rpc[c].pc \in {"idle", "over"}
  BY NumbersAreInt, HubTypes DEF HubInv, CallIdsInv, ListId, FirstCall
<1>7. \A m \in Numbers \ {n} : table'[m] = table[m]
  BY <1>1
<1>8. /\ table' \in [Numbers -> Askers \cup {NoAsker}]
      /\ \A m \in Numbers : table'[m] \in {table[m], NoAsker}
  BY <1>1
<1>9. ASSUME NEW a \in Askers
      PROVE  /\ rpc'[a].id = rpc[a].id /\ rpc'[a].to = rpc[a].to
             /\ rpc'[a].pc = "idle" => rpc[a].pc = "idle"
             /\ rpc'[a].pc = "post" => rpc[a].pc = "post"
             /\ rpc'[a].pc = "wait" => rpc[a].pc = "wait" /\ table'[rpc[a].id] = table[rpc[a].id]
             /\ a \in HubCalls /\ rpc[a].id = ListId => rpc'[a].pc = rpc[a].pc
             /\ rpc'[a].from \in {rpc[a].from, NoAsker, rpc[a].to}
             /\ a \in HubCalls /\ rpc[a].id = ListId => rpc'[a].from = rpc[a].from
  <2>1. rpc'[a].id = rpc[a].id /\ rpc'[a].to = rpc[a].to
        /\ rpc'[a].from \in {rpc[a].from, NoAsker, rpc[a].to}
    BY <1>3, <1>4
  <2>2. (rpc'[a].pc = "idle" => rpc[a].pc = "idle") /\ (rpc'[a].pc = "post" => rpc[a].pc = "post")
    BY <1>3, <1>4
  <2>3. ASSUME rpc'[a].pc = "wait" PROVE rpc[a].pc = "wait" /\ table'[rpc[a].id] = table[rpc[a].id]
    <3>1. rpcs[a].pc = "wait" /\ rpc[a].pc = "wait"
      BY <1>3, <1>4, <2>3
    <3>2. rpc[a].id # n
      BY <1>3, <1>4, <1>5, <2>3, <3>1
    <3> QED
      BY <1>1, <1>7, <3>1, <3>2
  <2>4. ASSUME a \in HubCalls, rpc[a].id = ListId
        PROVE  rpc'[a].pc = rpc[a].pc /\ rpc'[a].from = rpc[a].from
    <3>1. rpc[a].pc \in {"idle", "over"}
      BY <1>6, <2>4
    <3>2. rpcs[a].pc = rpc[a].pc
      BY <3>1
    <3> QED
      BY <1>3, <1>4, <3>1, <3>2
  <2> QED
    BY <2>1, <2>2, <2>3, <2>4
<1>10. SteadyRpc
  BY <1>4, <1>8, <1>9 DEF SteadyRpc
<1>11. bindings' \in [Keys -> Servers \cup {NoAsker}] /\ hubDown' \in BOOLEAN /\ lists' \in 0 .. MaxLists
  BY DEF HubInv, HubTypeOK
<1> QED
  BY <1>10, <1>11, SteadyInv

LEMMA RpcTimeoutInv == ASSUME HubInv, NEW a \in Askers, RpcTimeout(a) PROVE HubInv'
<1> USE HubAssumption
<1>1. /\ rpc[a].pc = "wait" /\ table' = [table EXCEPT ![rpc[a].id] = NoAsker]
      /\ rpc' = [Hung(rpc[a].id, rpc) EXCEPT ![a].pc = IF a \in Servers THEN "sleep" ELSE "over"]
      /\ UNCHANGED <<unanswered, bindings, nextCall, hubDown, lists, crossed>>
  BY DEF RpcTimeout, RpcAt
<1>2. rpc \in [Askers -> RpcType] /\ rpc[a].id \in Numbers /\ table[rpc[a].id] = a /\ a # NoAsker
  BY <1>1, HubTypes DEF HubInv, WaitInv, RpcAt, RpcType, Askers
<1>3. PICK pc : pc = IF a \in Servers THEN "sleep" ELSE "over"
  OBVIOUS
<1>4. PICK r : r = [rpc[a] EXCEPT !.pc = pc]
  OBVIOUS
<1>5. Hung(rpc[a].id, rpc) = [rpc EXCEPT ![a] = r]
  BY <1>1, <1>2, <1>3, <1>4 DEF Hung
<1>6. rpc[a] \in RpcType /\ pc \in {"sleep", "over"}
  BY <1>2, <1>3
<1>7. r \in RpcType /\ [r EXCEPT !.pc = pc] = r
  BY <1>4, <1>6 DEF RpcType
<1>8. [[rpc EXCEPT ![a] = r] EXCEPT ![a].pc = pc] = [rpc EXCEPT ![a] = r]
  BY <1>2, <1>7
<1>9. rpc' = [Hung(rpc[a].id, rpc) EXCEPT ![a].pc = pc]
  BY <1>1, <1>3
<1>10. rpc' = Hung(rpc[a].id, rpc)
  BY <1>5, <1>8, <1>9
<1> QED
  BY <1>1, <1>2, <1>10, DropInv

\* A call has a number of its own.
LEMMA NumberIsOwn ==
    ASSUME HubInv, NEW a \in Askers, NEW b \in Askers, rpc[a].id = rpc[b].id, a # b,
           a \in HubCalls => rpc[a].id >= FirstCall, b \in HubCalls => rpc[b].id >= FirstCall
    PROVE  a \in Servers /\ b \in Servers
  BY HubAssumption DEF HubInv, CallIdsInv, Askers, ListId, FirstCall

LEMMA ReadsInv == ASSUME HubInv, NEW r \in unanswered, Reads(r) PROVE HubInv'
<1> USE HubAssumption
<1>1. r.of \in Askers /\ r.id \in Numbers /\ r.to \in Askers
  BY HubTypes
<1>2. /\ unanswered' = unanswered \ {r} /\ table' = [table EXCEPT ![r.id] = NoAsker]
      /\ UNCHANGED <<bindings, nextCall, hubDown, lists, crossed>>
      /\ rpc' = IF table[r.id] # NoAsker /\ rpc[table[r.id]].pc \in {"post", "wait"}
                THEN [rpc EXCEPT ![table[r.id]].pc = IF @ = "wait" THEN "stored" ELSE @,
                                 ![table[r.id]].from = r.to]
                ELSE rpc
  BY DEF Reads
<1>3. /\ rpc \in [Askers -> RpcType] /\ table \in [Numbers -> Askers \cup {NoAsker}]
      /\ \A a \in Askers : rpc[a].id \in Numbers /\ rpc[a].to \in Askers
  BY HubTypes DEF RpcType
<1>4. /\ table' \in [Numbers -> Askers \cup {NoAsker}]
      /\ \A m \in Numbers : table'[m] \in {table[m], NoAsker}
      /\ \A m \in Numbers \ {r.id} : table'[m] = table[m]
  BY <1>1, <1>2, <1>3
<1>5. \A a \in Askers : rpc[a].pc = "wait" => table[rpc[a].id] = a
  BY DEF HubInv, WaitInv, RpcAt
<1>6. SteadyRpc
  <2>1. CASE table[r.id] # NoAsker /\ rpc[table[r.id]].pc \in {"post", "wait"}
    <3>1. PICK b \in Askers : b = table[r.id]
      BY <1>1, <1>3, <2>1
    <3>2. rpc[b].id = r.id /\ (b \in HubCalls => r.id >= FirstCall)
      BY <1>1, <2>1, <3>1 DEF HubInv, TableInv
    <3>3. rpc[r.of].id = r.id /\ rpc[r.of].to = r.to /\ (r.of \in HubCalls => r.id >= FirstCall)
      BY DEF HubInv, TableInv
    <3>4. r.to = rpc[b].to \/ (b \in Servers /\ crossed)
      <4>1. CASE b = r.of
        BY <3>3, <4>1
      <4>2. CASE b # r.of
        <5>1. b \in Servers /\ r.of \in Servers
          BY <1>1, <3>2, <3>3, <4>2, NumberIsOwn
        <5>2. rpc[b].pc \in {"post", "wait"}
          BY <2>1, <3>1
        <5> QED
          BY <4>2, <5>1, <5>2 DEF HubInv, CrossInv
      <4> QED
        BY <4>1, <4>2
    <3>5. PICK pc \in {"post", "stored"} : pc = IF rpc[b].pc = "wait" THEN "stored" ELSE rpc[b].pc
      BY <2>1, <3>1
    <3>6. PICK q : q = [[rpc[b] EXCEPT !.pc = pc] EXCEPT !.from = r.to]
      OBVIOUS
    <3>7. rpc[b] \in RpcType /\ r.to \in Servers
      <4>1. rpc[b] \in RpcType
        BY <1>3
      <4>2. r.to \in Servers
        BY DEF HubInv, TableInv
      <4> QED
        BY <4>1, <4>2
    <3>8. q \in RpcType /\ q.pc = pc /\ q.id = rpc[b].id /\ q.to = rpc[b].to /\ q.from = r.to
      BY <3>5, <3>6, <3>7 DEF RpcType
    <3>9. rpc' = [rpc EXCEPT ![b] = q]
      <4>1. rpc' = [rpc EXCEPT ![b].pc = IF @ = "wait" THEN "stored" ELSE @, ![b].from = r.to]
        BY <1>2, <2>1, <3>1
      <4>2. rpc' = [rpc EXCEPT ![b].pc = pc, ![b].from = r.to]
        BY <1>3, <3>5, <4>1
      <4> QED
        BY <1>3, <3>6, <3>7, <4>2 DEF RpcType
    <3>10. rpc' \in [Askers -> RpcType] /\ rpc'[b] = q /\ \A a \in Askers \ {b} : rpc'[a] = rpc[a]
      BY <1>3, <3>8, <3>9
    <3>11. b \in HubCalls => rpc[b].id # ListId
      BY <2>1, <3>1, BegunCall
    <3>12. ASSUME NEW a \in Askers, rpc'[a].pc = "wait"
           PROVE  rpc[a].pc = "wait" /\ table'[rpc[a].id] = table[rpc[a].id]
      <4>1. a # b /\ rpc[a].pc = "wait"
        BY <3>5, <3>8, <3>10, <3>12
      <4>2. rpc[a].id # r.id
        BY <1>5, <3>1, <4>1
      <4> QED
        BY <1>3, <1>4, <4>1, <4>2
    <3>13. ASSUME NEW a \in Askers
           PROVE  /\ rpc'[a].id = rpc[a].id /\ rpc'[a].to = rpc[a].to
                  /\ rpc'[a].pc = "idle" => rpc[a].pc = "idle"
                  /\ rpc'[a].pc = "post" => rpc[a].pc = "post"
                  /\ a \in HubCalls /\ rpc[a].id = ListId => rpc'[a].pc = rpc[a].pc
                  /\ rpc'[a].from \in {rpc[a].from, NoAsker, rpc[a].to} \/ (a \in Servers /\ crossed)
                  /\ a \in HubCalls /\ rpc[a].id = ListId => rpc'[a].from = rpc[a].from
      BY <3>4, <3>5, <3>8, <3>10, <3>11
    <3> QED
      BY <1>2, <1>4, <3>10, <3>12, <3>13 DEF SteadyRpc
  <2>2. CASE ~ (table[r.id] # NoAsker /\ rpc[table[r.id]].pc \in {"post", "wait"})
    <3>1. rpc' = rpc
      BY <1>2, <2>2
    <3>2. ASSUME NEW a \in Askers, rpc[a].pc = "wait" PROVE rpc[a].id # r.id
      BY <1>5, <2>2, <3>2 DEF Askers
    <3>3. \A a \in Askers : rpc[a].pc = "wait" => table'[rpc[a].id] = table[rpc[a].id]
      BY <1>3, <1>4, <3>2
    <3> QED
      BY <1>2, <1>3, <1>4, <3>1, <3>3 DEF SteadyRpc
  <2> QED
    BY <2>1, <2>2
<1>7. bindings' \in [Keys -> Servers \cup {NoAsker}] /\ hubDown' \in BOOLEAN /\ lists' \in 0 .. MaxLists
  BY <1>2 DEF HubInv, HubTypeOK
<1> QED
  BY <1>2, <1>6, <1>7, SteadyInv

\* A call takes the next number, or there is nobody to call.
LEMMA CallToolInv ==
    ASSUME HubInv, NEW c \in HubCalls, NEW k \in Keys, CallTool(c, k)
    PROVE  HubInv'
<1> USE HubAssumption
<1>1. /\ rpc \in [Askers -> RpcType] /\ c \in Askers /\ c \notin Servers /\ rpc[c] \in RpcType
      /\ bindings[k] \in Servers \cup {NoAsker} /\ Cardinality(HubCalls) \in Nat
  BY HubTypes, CallCount DEF Askers
<1>2. /\ rpc[c].pc = "idle" /\ UNCHANGED <<table, unanswered, bindings, hubDown, lists, crossed>>
  BY DEF CallTool, RpcAt
<1>3. rpc[c].id = ListId /\ rpc[c].from = NoAsker
  BY <1>2 DEF HubInv, CallIdsInv
<1>4. PICK n : n = IF bindings[k] = NoAsker THEN ListId ELSE nextCall
  OBVIOUS
<1>5. PICK to \in Askers : to = IF bindings[k] = NoAsker THEN rpc[c].to ELSE bindings[k]
  BY <1>1 DEF RpcType, Askers
<1>6. PICK pc \in {"over", "insert"} : pc = IF bindings[k] = NoAsker THEN "over" ELSE "insert"
  OBVIOUS
<1>7. nextCall \in Nat /\ FirstCall <= nextCall /\ nextCall <= FirstCall + Cardinality(Numbered)
  BY <1>1 DEF HubInv, CallIdsInv, HubTypeOK, FirstCall
<1>8. /\ c \notin Numbered /\ Numbered \subseteq HubCalls \ {c} /\ IsFiniteSet(Numbered)
      /\ Cardinality(Numbered) \in Nat /\ Cardinality(Numbered) <= Cardinality(HubCalls) - 1
  <2>1. c \notin Numbered /\ Numbered \subseteq HubCalls \ {c}
    BY <1>3 DEF Numbered, ListId, FirstCall
  <2>2. IsFiniteSet(HubCalls \ {c}) /\ Cardinality(HubCalls \ {c}) = Cardinality(HubCalls) - 1
    BY FS_RemoveElement
  <2> QED
    BY <2>1, <2>2, FS_Subset, FS_CardinalityType
<1>9. nextCall \in CallIds
  BY <1>1, <1>7, <1>8 DEF CallIds, FirstCall
<1>10. n \in Numbers
  BY <1>4, <1>9 DEF Numbers
<1>11. PICK r : r = [pc |-> pc, id |-> n, to |-> to, from |-> NoAsker]
  OBVIOUS
<1>12. r \in RpcType /\ r.pc = pc /\ r.id = n /\ r.to = to /\ r.from = NoAsker
  BY <1>5, <1>6, <1>10, <1>11 DEF RpcType
<1>13. rpc' = [rpc EXCEPT ![c] = r] /\ nextCall' = IF bindings[k] = NoAsker THEN nextCall ELSE nextCall + 1
  <2>1. CASE bindings[k] = NoAsker
    <3>1. rpc' = [rpc EXCEPT ![c].pc = "over"] /\ nextCall' = nextCall
      BY <2>1 DEF CallTool, RpcGoto
    <3>2. rpc[c] = [pc |-> rpc[c].pc, id |-> rpc[c].id, to |-> rpc[c].to, from |-> rpc[c].from]
      BY <1>1 DEF RpcType
    <3>3. [rpc[c] EXCEPT !.pc = "over"] = [pc |-> "over", id |-> ListId, to |-> rpc[c].to, from |-> NoAsker]
      BY <1>3, <3>2
    <3>4. rpc' = [rpc EXCEPT ![c] = [rpc[c] EXCEPT !.pc = "over"]]
      BY <3>1
    <3> QED
      BY <1>4, <1>5, <1>6, <1>11, <2>1, <3>1, <3>3, <3>4
  <2>2. CASE bindings[k] # NoAsker
    <3>1. nextCall' = nextCall + 1 /\ rpc' = [rpc EXCEPT ![c] = [pc |-> "insert", id |-> nextCall,
                                                       to |-> bindings[k], from |-> NoAsker]]
      BY <2>2 DEF CallTool
    <3> QED
      BY <1>4, <1>5, <1>6, <1>11, <2>2, <3>1
  <2> QED
    BY <2>1, <2>2
<1>14. rpc' \in [Askers -> RpcType] /\ rpc'[c] = r /\ \A a \in Askers \ {c} : rpc'[a] = rpc[a]
  BY <1>1, <1>12, <1>13
<1>15. HubTypeOK'
  <2>1. nextCall' \in 1 .. 100 + Cardinality(HubCalls)
    BY <1>1, <1>7, <1>8, <1>13 DEF FirstCall
  <2> QED
    BY <1>2, <1>14, <2>1 DEF HubInv, HubTypeOK, RpcType
<1>16. nextCall' >= nextCall /\ nextCall' <= FirstCall + Cardinality(Numbered)' /\ nextCall' \in Nat
  <2>1. CASE bindings[k] = NoAsker
    <3>1. Numbered' = Numbered
      BY <1>3, <1>4, <1>12, <1>14, <2>1 DEF Numbered, Askers
    <3> QED
      BY <1>7, <1>13, <2>1, <3>1
  <2>2. CASE bindings[k] # NoAsker
    <3>1. Numbered' = Numbered \cup {c}
      BY <1>1, <1>4, <1>7, <1>12, <1>14, <2>2 DEF Numbered, Askers
    <3>2. Cardinality(Numbered \cup {c}) = Cardinality(Numbered) + 1
      BY <1>8, FS_AddElement
    <3> QED
      BY <1>7, <1>8, <1>13, <2>2, <3>1, <3>2 DEF FirstCall
  <2> QED
    BY <2>1, <2>2
<1>17. CallIdsInv'
  <2>1. \A s \in Servers : rpc'[s].id = ListId /\ rpc'[s].to = s
    BY <1>1, <1>14 DEF HubInv, CallIdsInv, Askers
  <2>2. ASSUME NEW d \in HubCalls
        PROVE  \/ rpc'[d].id = ListId /\ rpc'[d].pc \in {"idle", "over"} /\ rpc'[d].from = NoAsker
               \/ /\ rpc'[d].id >= FirstCall /\ rpc'[d].id < nextCall' /\ rpc'[d].pc # "idle"
                  /\ rpc'[d].to \in Servers
    <3>1. CASE d = c
      BY <1>1, <1>4, <1>5, <1>6, <1>7, <1>12, <1>13, <1>14, <3>1
    <3>2. CASE d # c
      <4>1. rpc'[d] = rpc[d] /\ rpc[d].id \in Int
        BY <1>1, <1>14, <3>2, NumbersAreInt DEF RpcType, Askers
      <4>2. rpc[d].id < nextCall => rpc[d].id < nextCall'
        BY <1>7, <1>16, <4>1
      <4> QED
        BY <4>1, <4>2 DEF HubInv, CallIdsInv
    <3> QED
      BY <3>1, <3>2
  <2>3. ASSUME NEW d \in HubCalls, NEW e \in HubCalls, d # e, rpc'[d].id = rpc'[e].id
        PROVE  rpc'[d].id = ListId
    <3>1. \A f \in HubCalls : rpc[f].id = ListId \/ rpc[f].id # nextCall
      BY <1>7 DEF HubInv, CallIdsInv
    <3>2. \A f \in HubCalls \ {c} : rpc'[f].id = rpc[f].id
      BY <1>14 DEF Askers
    <3> QED
      BY <1>4, <1>12, <1>14, <2>3, <3>1, <3>2 DEF HubInv, CallIdsInv
  <2>4. FirstCall <= nextCall'
    BY <1>7, <1>16 DEF FirstCall
  <2> QED
    BY <1>16, <2>1, <2>2, <2>3, <2>4 DEF CallIdsInv
<1>18. TableInv'
  <2>1. ASSUME NEW m \in Numbers, table[m] # NoAsker PROVE table[m] # c /\ table[m] \in Askers
    <3>1. table[m] \in Askers
      BY <2>1, HubTypes
    <3> QED
      BY <1>3, <2>1, <3>1 DEF HubInv, TableInv, ListId, FirstCall
  <2>2. ASSUME NEW r1 \in unanswered PROVE r1.of # c /\ r1.of \in Askers
    <3>1. r1.of \in Askers
      BY <2>2, HubTypes
    <3> QED
      BY <1>3, <2>2, <3>1 DEF HubInv, TableInv, ListId, FirstCall
  <2> QED
    BY <1>2, <1>14, <2>1, <2>2 DEF HubInv, TableInv
<1>19. WaitInv' /\ CrossInv' /\ OwnReply'
  <2>1. \A a \in Askers : rpc'[a].pc \in {"post", "wait"} => rpc'[a] = rpc[a]
    BY <1>6, <1>12, <1>14
  <2>2. \A a \in Servers : rpc'[a] = rpc[a]
    BY <1>1, <1>14 DEF Askers
  <2>3. WaitInv'
    BY <1>2, <2>1 DEF HubInv, WaitInv, RpcAt
  <2>4. CrossInv'
    BY <1>2, <2>2 DEF HubInv, CrossInv, RpcAt
  <2>5. OwnReply'
    BY <1>2, <1>12, <1>14 DEF HubInv, OwnReply
  <2> QED
    BY <2>3, <2>4, <2>5
<1> QED
  BY <1>15, <1>17, <1>18, <1>19 DEF HubInv

\* A request registers: whoever waited under the number waits no more.
LEMMA InsertRpcInv == ASSUME HubInv, NEW a \in Askers, InsertRpc(a) PROVE HubInv'
<1> USE HubAssumption
<1>1. /\ rpc[a].pc = "insert" /\ table' = [table EXCEPT ![rpc[a].id] = a]
      /\ rpc' = Hung(rpc[a].id, [rpc EXCEPT ![a].pc = "post"])
      /\ crossed' = (crossed \/ (a \in Servers /\ \E s \in Servers \ {a} :
                      RpcAt(s, "post") \/ \E r \in unanswered : r.of = s))
      /\ UNCHANGED <<unanswered, bindings, nextCall, hubDown, lists>>
  BY DEF InsertRpc, RpcAt
<1>2. /\ rpc \in [Askers -> RpcType] /\ table \in [Numbers -> Askers \cup {NoAsker}]
      /\ \A b \in Askers : rpc[b].id \in Numbers
  BY HubTypes DEF RpcType
<1>3. PICK p : p = [rpc[a] EXCEPT !.pc = "post"]
  OBVIOUS
<1>4. p \in RpcType /\ p.pc = "post" /\ p.id = rpc[a].id /\ p.to = rpc[a].to /\ p.from = rpc[a].from
  BY <1>2, <1>3 DEF RpcType
<1>5. PICK rpcs : rpcs = [rpc EXCEPT ![a] = p]
  OBVIOUS
<1>6. rpcs \in [Askers -> RpcType] /\ rpcs[a] = p /\ \A b \in Askers \ {a} : rpcs[b] = rpc[b]
  BY <1>2, <1>4, <1>5
<1>7. rpc' = Hung(rpc[a].id, rpcs)
  BY <1>1, <1>2, <1>3, <1>5
<1>8. PICK h \in [Askers -> RpcType] : h = Hung(rpc[a].id, rpcs)
  BY <1>2, <1>6, HungFields
<1>9. \A b \in Askers :
        /\ h[b].id = rpcs[b].id /\ h[b].to = rpcs[b].to /\ h[b].from = rpcs[b].from
        /\ h[b].pc = rpcs[b].pc \/ (rpcs[b].pc = "wait" /\ h[b].pc \in {"sleep", "over"})
        /\ rpcs[b].pc = "wait" /\ rpcs[b].id = rpc[a].id /\ table[rpc[a].id] = b => h[b].pc # "wait"
  BY <1>2, <1>6, <1>8, HungFields
<1>10. rpc' = h
  BY <1>7, <1>8
<1>11. /\ rpc' \in [Askers -> RpcType]
       /\ \A b \in Askers :
            /\ rpc'[b].id = rpc[b].id /\ rpc'[b].to = rpc[b].to /\ rpc'[b].from = rpc[b].from
            /\ b # a => \/ rpc'[b].pc = rpc[b].pc
                        \/ rpc[b].pc = "wait" /\ rpc'[b].pc \in {"sleep", "over"}
       /\ rpc'[a].pc = "post"
  BY <1>4, <1>6, <1>9, <1>10
<1>12. \A b \in Askers \ {a} : rpc'[b].pc = "wait" => rpc[b].pc = "wait" /\ rpc[b].id # rpc[a].id
  BY <1>6, <1>9, <1>10, <1>11 DEF HubInv, WaitInv, RpcAt
<1>13. a \in HubCalls => rpc[a].id >= FirstCall /\ rpc[a].id # ListId
  BY <1>1, BegunCall
<1>14. /\ table' \in [Numbers -> Askers \cup {NoAsker}] /\ table'[rpc[a].id] = a
       /\ \A n \in Numbers \ {rpc[a].id} : table'[n] = table[n]
  BY <1>1, <1>2
<1>15. crossed \in BOOLEAN /\ crossed' \in BOOLEAN /\ (crossed => crossed')
  BY <1>1 DEF HubInv, HubTypeOK
<1>16. HubTypeOK'
  BY <1>1, <1>11, <1>14, <1>15 DEF HubInv, HubTypeOK, RpcType
<1>17. Numbered' = Numbered
  BY <1>11 DEF Numbered, Askers
<1>18. \A c \in HubCalls : rpc[c].pc = "wait" => rpc[c].id # ListId /\ c \in Askers
  BY BegunCall DEF Askers
<1>19. CallIdsInv'
  <2>1. ASSUME NEW c \in HubCalls
        PROVE  \/ rpc'[c].id = ListId /\ rpc'[c].pc \in {"idle", "over"} /\ rpc'[c].from = NoAsker
               \/ /\ rpc'[c].id >= FirstCall /\ rpc'[c].id < nextCall' /\ rpc'[c].pc # "idle"
                  /\ rpc'[c].to \in Servers
    <3>1. /\ c \in Askers /\ rpc'[c].id = rpc[c].id /\ rpc'[c].to = rpc[c].to
          /\ rpc'[c].from = rpc[c].from /\ nextCall' = nextCall
      BY <1>1, <1>11 DEF Askers
    <3>2. \/ rpc[c].id = ListId /\ rpc[c].pc \in {"idle", "over"} /\ rpc[c].from = NoAsker
          \/ /\ rpc[c].id >= FirstCall /\ rpc[c].id < nextCall /\ rpc[c].pc # "idle"
             /\ rpc[c].to \in Servers
      BY DEF HubInv, CallIdsInv
    <3>3. CASE c = a
      BY <1>1, <1>11, <1>13, <3>1, <3>2, <3>3
    <3>4. CASE c # a
      <4>1. \/ rpc'[c].pc = rpc[c].pc
            \/ rpc[c].pc = "wait" /\ rpc'[c].pc \in {"sleep", "over"}
        BY <1>11, <3>1, <3>4
      <4> QED
        BY <1>18, <3>1, <3>2, <4>1
    <3> QED
      BY <3>3, <3>4
  <2>2. \A s \in Servers : rpc'[s].id = ListId /\ rpc'[s].to = s
    BY <1>11 DEF HubInv, CallIdsInv, Askers
  <2>3. \A c, d \in HubCalls : c # d /\ rpc'[c].id = rpc'[d].id => rpc'[c].id = ListId
    BY <1>11 DEF HubInv, CallIdsInv, Askers
  <2>4. FirstCall <= nextCall' /\ nextCall' <= FirstCall + Cardinality(Numbered)'
    BY <1>1, <1>17 DEF HubInv, CallIdsInv
  <2> QED
    BY <2>1, <2>2, <2>3, <2>4 DEF CallIdsInv
<1>20. TableInv'
  <2>1. ASSUME NEW n \in Numbers, table'[n] # NoAsker
        PROVE  rpc'[table'[n]].id = n /\ (table'[n] \in HubCalls => n >= FirstCall)
    <3>1. CASE n = rpc[a].id
      BY <1>11, <1>13, <1>14, <3>1
    <3>2. CASE n # rpc[a].id
      <4>1. table'[n] = table[n] /\ table[n] \in Askers
        BY <1>2, <1>14, <2>1, <3>2
      <4> QED
        BY <1>11, <2>1, <4>1 DEF HubInv, TableInv
    <3> QED
      BY <3>1, <3>2
  <2>2. ASSUME NEW r \in unanswered
        PROVE  /\ rpc'[r.of].id = r.id /\ rpc'[r.of].to = r.to
               /\ r.of \in HubCalls => r.id >= FirstCall
               /\ r.to \in Servers
    <3>1. r.of \in Askers
      BY HubTypes
    <3> QED
      BY <1>11, <3>1 DEF HubInv, TableInv
  <2> QED
    BY <1>1, <2>1, <2>2 DEF TableInv
<1>21. WaitInv'
  <2>1. ASSUME NEW b \in Askers, rpc'[b].pc = "wait" PROVE table'[rpc'[b].id] = b
    <3>1. b # a
      BY <1>11, <2>1
    <3>2. rpc[b].pc = "wait" /\ rpc[b].id # rpc[a].id /\ rpc'[b].id = rpc[b].id
      BY <1>11, <1>12, <2>1, <3>1
    <3> QED
      BY <1>2, <1>14, <3>2 DEF HubInv, WaitInv, RpcAt
  <2> QED
    BY <2>1 DEF WaitInv, RpcAt
<1>22. CrossInv'
  <2> SUFFICES ASSUME ~ crossed', NEW b \in Servers, NEW s \in Servers \ {b}, rpc'[b].pc \in {"post", "wait"}
               PROVE  rpc'[s].pc # "post" /\ (\A r \in unanswered : r.of # s)
    BY <1>1 DEF CrossInv, RpcAt
  <2>1. b \in Askers /\ s \in Askers /\ ~ crossed /\ rpc[b].id = ListId /\ rpc[s].id = ListId
    BY <1>15 DEF HubInv, CallIdsInv, Askers
  <2>2. CASE a \in Servers
    <3>1. \A q \in Servers \ {a} : rpc[q].pc # "post" /\ (\A r \in unanswered : r.of # q)
      BY <1>1, <2>2 DEF RpcAt
    <3>2. b = a
      <4>1. rpc[a].id = ListId
        BY <2>2 DEF HubInv, CallIdsInv
      <4>2. b # a => rpc'[b].pc # "wait"
        BY <1>12, <2>1, <4>1
      <4>3. b # a => rpc'[b].pc # "post"
        BY <1>11, <2>1, <3>1
      <4> QED
        BY <4>2, <4>3
    <3>3. rpc'[s].pc # "post"
      BY <1>11, <2>1, <3>1, <3>2
    <3> QED
      BY <3>1, <3>2, <3>3
  <2>3. CASE a \notin Servers
    <3>1. rpc[b].pc = rpc'[b].pc
      BY <1>11, <2>1, <2>3
    <3>2. rpc'[s].pc = "post" => rpc[s].pc = "post"
      BY <1>11, <2>1, <2>3
    <3> QED
      BY <2>1, <3>1, <3>2 DEF HubInv, CrossInv, RpcAt
  <2> QED
    BY <2>2, <2>3
<1>23. OwnReply'
  BY <1>11, <1>15 DEF HubInv, OwnReply
<1> QED
  BY <1>16, <1>19, <1>20, <1>21, <1>22, <1>23 DEF HubInv

\* What keeps the rest when one asker's request is in the air.
LEMMA PostInv == ASSUME HubInv, NEW a \in Askers, Post(a) PROVE HubInv'
<1> USE HubAssumption
<1>1. rpc[a].pc = "post" /\ UNCHANGED <<bindings, nextCall, hubDown, lists, crossed>>
  BY DEF Post, RpcAt
<1>2. /\ rpc \in [Askers -> RpcType] /\ table \in [Numbers -> Askers \cup {NoAsker}]
      /\ \A b \in Askers : rpc[b].id \in Numbers
  BY HubTypes DEF RpcType
<1>3. a \in HubCalls => rpc[a].id >= FirstCall /\ rpc[a].id # ListId
  BY <1>1, BegunCall
<1>4. rpc[a].to \in Servers
  BY <1>1 DEF HubInv, CallIdsInv, Askers
<1>5. CASE /\ unanswered' = unanswered \cup {[of |-> a, id |-> rpc[a].id, to |-> rpc[a].to]}
           /\ rpc' = [rpc EXCEPT ![a].pc = IF rpc[a].from # NoAsker THEN "stored"
                                           ELSE IF table[rpc[a].id] = a THEN "wait" ELSE "hung"]
           /\ UNCHANGED table
  <2>1. PICK pc \in {"stored", "wait", "hung"} :
           pc = IF rpc[a].from # NoAsker THEN "stored" ELSE IF table[rpc[a].id] = a THEN "wait" ELSE "hung"
    OBVIOUS
  <2>2. PICK p : p = [rpc[a] EXCEPT !.pc = pc]
    OBVIOUS
  <2>3. p \in RpcType /\ p.pc = pc /\ p.id = rpc[a].id /\ p.to = rpc[a].to /\ p.from = rpc[a].from
    BY <1>2, <2>1, <2>2 DEF RpcType
  <2>4. rpc' = [rpc EXCEPT ![a] = p]
    BY <1>2, <1>5, <2>1, <2>2
  <2>5. rpc' \in [Askers -> RpcType] /\ rpc'[a] = p /\ \A b \in Askers \ {a} : rpc'[b] = rpc[b]
    BY <1>2, <2>3, <2>4
  <2>6. \A b \in Askers : /\ rpc'[b].id = rpc[b].id /\ rpc'[b].to = rpc[b].to
                          /\ rpc'[b].from = rpc[b].from
    BY <2>3, <2>5
  <2>7. PICK q : q = [of |-> a, id |-> rpc[a].id, to |-> rpc[a].to]
    OBVIOUS
  <2>8. q.of = a /\ q.id = rpc[a].id /\ q.to = rpc[a].to /\ q \in [of : Askers, id : Numbers, to : Askers]
    BY <1>2, <1>4, <2>7 DEF Askers
  <2>9. unanswered' = unanswered \cup {q}
    BY <1>5, <2>7
  <2>10. HubTypeOK'
    <3>1. unanswered' \subseteq [of : Askers, id : Numbers, to : Askers]
      BY <2>8, <2>9, HubTypes
    <3> QED
      BY <1>1, <1>5, <2>5, <3>1 DEF HubInv, HubTypeOK, RpcType
  <2>11. Numbered' = Numbered
    BY <2>6 DEF Numbered, Askers
  <2>12. CallIdsInv'
    <3>1. \A c \in HubCalls \ {a} : rpc'[c] = rpc[c]
      BY <2>5 DEF Askers
    <3>2. ASSUME NEW c \in HubCalls
          PROVE  \/ rpc'[c].id = ListId /\ rpc'[c].pc \in {"idle", "over"} /\ rpc'[c].from = NoAsker
                 \/ /\ rpc'[c].id >= FirstCall /\ rpc'[c].id < nextCall' /\ rpc'[c].pc # "idle"
                    /\ rpc'[c].to \in Servers
      BY <1>1, <1>3, <2>1, <2>3, <2>5, <3>1 DEF HubInv, CallIdsInv
    <3> QED
      BY <1>1, <2>6, <2>11, <3>2 DEF HubInv, CallIdsInv, Askers
  <2>13. TableInv'
    <3>1. ASSUME NEW n \in Numbers, table[n] # NoAsker
          PROVE  rpc'[table[n]].id = n /\ (table[n] \in HubCalls => n >= FirstCall)
      <4>1. table[n] \in Askers
        BY <1>2, <3>1
      <4> QED
        BY <2>6, <3>1, <4>1 DEF HubInv, TableInv
    <3>2. ASSUME NEW r \in unanswered'
          PROVE  /\ rpc'[r.of].id = r.id /\ rpc'[r.of].to = r.to
                 /\ r.of \in HubCalls => r.id >= FirstCall
                 /\ r.to \in Servers
      <4>1. CASE r = q
        BY <1>3, <1>4, <2>6, <2>8, <4>1
      <4>2. CASE r # q
        <5>1. r \in unanswered /\ r.of \in Askers
          BY <2>9, <3>2, <4>2, HubTypes
        <5> QED
          BY <2>6, <5>1 DEF HubInv, TableInv
      <4> QED
        BY <4>1, <4>2
    <3> QED
      BY <1>5, <3>1, <3>2 DEF TableInv
  <2>14. WaitInv'
    <3>1. ASSUME NEW b \in Askers, rpc'[b].pc = "wait" PROVE table[rpc'[b].id] = b
      <4>1. CASE b = a
        BY <2>1, <2>3, <2>5, <2>6, <3>1, <4>1
      <4>2. CASE b # a
        BY <2>5, <3>1, <4>2 DEF HubInv, WaitInv, RpcAt
      <4> QED
        BY <4>1, <4>2
    <3> QED
      BY <1>5, <3>1 DEF WaitInv, RpcAt
  <2>15. CrossInv'
    <3> SUFFICES ASSUME ~ crossed, NEW b \in Servers, NEW s \in Servers \ {b}, rpc'[b].pc \in {"post", "wait"}
                 PROVE  rpc'[s].pc # "post" /\ (\A r \in unanswered' : r.of # s)
      BY <1>1 DEF CrossInv, RpcAt
    <3>1. b \in Askers /\ s \in Askers
      BY DEF Askers
    <3>2. rpc[b].pc \in {"post", "wait"}
      BY <1>1, <2>5, <3>1
    <3>3. rpc[s].pc # "post" /\ (\A r \in unanswered : r.of # s)
      BY <3>2 DEF HubInv, CrossInv, RpcAt
    <3>4. s # a
      BY <1>1, <3>3
    <3>5. rpc'[s].pc # "post"
      BY <2>5, <3>1, <3>3, <3>4
    <3> QED
      BY <2>8, <2>9, <3>3, <3>4, <3>5
  <2>16. OwnReply'
    BY <1>1, <2>6 DEF HubInv, OwnReply
  <2> QED
    BY <2>10, <2>12, <2>13, <2>14, <2>15, <2>16 DEF HubInv
<1>6. CASE /\ \/ rpc' = Hung(rpc[a].id, [rpc EXCEPT ![a].pc = "stored", ![a].from = rpc[a].to])
              \/ rpc' = Hung(rpc[a].id, [rpc EXCEPT ![a].pc = "hung"])
           /\ table' = [table EXCEPT ![rpc[a].id] = NoAsker]
           /\ UNCHANGED unanswered
  <2>1. CASE rpc' = Hung(rpc[a].id, [rpc EXCEPT ![a].pc = "stored", ![a].from = rpc[a].to])
    <3>1. PICK p : p = [[rpc[a] EXCEPT !.pc = "stored"] EXCEPT !.from = rpc[a].to]
      OBVIOUS
    <3>2. rpc[a] \in RpcType
      BY <1>2
    <3>3. p \in RpcType /\ p.pc = "stored" /\ p.id = rpc[a].id /\ p.to = rpc[a].to /\ p.from = rpc[a].to
      BY <1>4, <3>1, <3>2 DEF RpcType
    <3>4. PICK rpcs : rpcs = [rpc EXCEPT ![a] = p]
      OBVIOUS
    <3>5. rpcs \in [Askers -> RpcType] /\ rpcs[a] = p /\ \A b \in Askers \ {a} : rpcs[b] = rpc[b]
      BY <1>2, <3>3, <3>4
    <3>6. [rpc EXCEPT ![a].pc = "stored", ![a].from = rpc[a].to] = rpcs
      BY <1>2, <3>1, <3>2, <3>4 DEF RpcType
    <3>7. rpc' = Hung(rpc[a].id, rpcs)
      BY <2>1, <3>6
    <3>8. \A b \in Askers :
             /\ rpcs[b].id = rpc[b].id /\ rpcs[b].to = rpc[b].to
             /\ rpcs[b].pc = rpc[b].pc \/ (rpc[b].pc = "post" /\ rpcs[b].pc \in {"stored", "hung"})
             /\ rpcs[b].from \in {rpc[b].from, rpc[b].to}
             /\ rpcs[b].pc = rpc[b].pc => rpcs[b].from = rpc[b].from
      BY <1>1, <3>3, <3>5
    <3> QED
      BY <1>1, <1>2, <1>6, <3>5, <3>7, <3>8, DropInv
  <2>2. CASE rpc' = Hung(rpc[a].id, [rpc EXCEPT ![a].pc = "hung"])
    <3>1. PICK p : p = [rpc[a] EXCEPT !.pc = "hung"]
      OBVIOUS
    <3>2. p \in RpcType /\ p.pc = "hung" /\ p.id = rpc[a].id /\ p.to = rpc[a].to /\ p.from = rpc[a].from
      BY <1>2, <3>1 DEF RpcType
    <3>3. PICK rpcs : rpcs = [rpc EXCEPT ![a] = p]
      OBVIOUS
    <3>4. rpcs \in [Askers -> RpcType] /\ rpcs[a] = p /\ \A b \in Askers \ {a} : rpcs[b] = rpc[b]
      BY <1>2, <3>2, <3>3
    <3>5. rpc' = Hung(rpc[a].id, rpcs)
      BY <1>2, <2>2, <3>1, <3>3
    <3>6. \A b \in Askers :
             /\ rpcs[b].id = rpc[b].id /\ rpcs[b].to = rpc[b].to
             /\ rpcs[b].pc = rpc[b].pc \/ (rpc[b].pc = "post" /\ rpcs[b].pc \in {"stored", "hung"})
             /\ rpcs[b].from \in {rpc[b].from, rpc[b].to}
             /\ rpcs[b].pc = rpc[b].pc => rpcs[b].from = rpc[b].from
      BY <1>1, <3>2, <3>4
    <3> QED
      BY <1>1, <1>2, <1>6, <3>4, <3>5, <3>6, DropInv
  <2> QED
    BY <1>6, <2>1, <2>2
<1>7. CASE RpcGoto(a, "hung") /\ UNCHANGED <<table, unanswered>>
  <2>1. SteadyRpc
    BY <1>1, <1>7, RpcGoesOn
  <2>2. bindings' \in [Keys -> Servers \cup {NoAsker}] /\ hubDown' \in BOOLEAN /\ lists' \in 0 .. MaxLists
    BY <1>1 DEF HubInv, HubTypeOK
  <2> QED
    BY <1>1, <2>1, <2>2, SteadyInv
<1> QED
  BY <1>5, <1>6, <1>7 DEF Post

\* Nothing else of the hub is of any consequence: it is shut down, or does nothing.
LEMMA QuietInv ==
    ASSUME HubInv, UNCHANGED <<rpc, table, unanswered, bindings, nextCall, lists, crossed>>,
           hubDown' \in BOOLEAN
    PROVE  HubInv'
<1>1. SteadyRpc
  BY HubTypes DEF SteadyRpc
<1>2. bindings' \in [Keys -> Servers \cup {NoAsker}] /\ lists' \in 0 .. MaxLists
  BY DEF HubInv, HubTypeOK
<1> QED
  BY <1>1, <1>2, SteadyInv

LEMMA HubNextInv == HubInv /\ [HubNext]_hubVars => HubInv'
<1> SUFFICES ASSUME HubInv, [HubNext]_hubVars PROVE HubInv'
  OBVIOUS
<1>1. CASE UNCHANGED hubVars
  BY <1>1, QuietInv DEF hubVars, HubInv, HubTypeOK
<1>2. CASE \E s \in Servers : Connect(s) \/ StopServer(s) \/ LookUp(s) \/ Bind(s)
  BY <1>2, HubSteps DEF Askers
<1>3. CASE \E c \in HubCalls, k \in Keys : CallTool(c, k)
  BY <1>3, CallToolInv
<1>4. CASE \E a \in Askers : InsertRpc(a) \/ Post(a) \/ Fails(a) \/ RpcTimeout(a) \/ Unbind(a)
  BY <1>4, InsertRpcInv, PostInv, HubSteps, RpcTimeoutInv
<1>5. CASE \E r \in unanswered : Reads(r)
  BY <1>5, ReadsInv
<1>6. CASE HubShutdown
  BY <1>6, QuietInv DEF HubShutdown
<1> QED
  BY <1>1, <1>2, <1>3, <1>4, <1>5, <1>6 DEF HubNext

-----------------------------------------------------------------------------
\* The system configuration

\* A reading that no write has outdated has the content of the rows.
Fresh(b) == b.at <= writes /\ (b.at = writes => b.data = Bundle.data)

\* A copy may have kept its content when the rows said nothing.
FreshCopy(b) == b.at <= writes /\ (b.at = writes /\ rows # {} => b.data = Bundle.data)

\* Readings that are kept while they are used.
ReadingsInv ==
    /\ \A s \in Savers : Fresh(saver[s].bundle)
    /\ \A i \in DOMAIN onWire : Fresh(onWire[i])
    /\ Fresh(offer) /\ FreshCopy(got) /\ FreshCopy(timer.bundle)
    /\ FreshCopy(memory) /\ FreshCopy(served)
    /\ pushed <= writes

\* The last write is still to be read, or its reading to be used, by a saver that is at one of
\* these places.
WillUse(s, places) ==
    saver[s].pc = "read" \/ (saver[s].pc \in places /\ saver[s].bundle.at = writes)
Announced(places) == \E s \in Savers : WillUse(s, places)

\* The console's memory, and what a socket was told, are of the last write, or will be.
ConsoleInv == missed = {} => memory.at = writes \/ Announced({"apply"})
ToldInv ==
    missed = {} =>
        /\ joining = "told" => pushed = writes \/ Announced({"apply", "push"})
        /\ joining = "telling" => offer.at = writes \/ pushed = writes \/ Announced({"apply", "push"})

\* What the last element of the wire is; a server that has not pulled yet has received nothing of
\* what it was told, and one that has received everything has nothing older.
WireInv ==
    /\ onWire # <<>> => onWire[Len(onWire)].at = pushed
    /\ joining # "out" => net # "down"
    /\ net \in {"pull", "pulled"} /\ joining = "told" => onWire # <<>>
    /\ missed = {} /\ net \in {"loop", "reload"} /\ joining = "told" /\ onWire = <<>> => served.at >= pushed

\* The service was started with the last write once its push was received.
RunningInv ==
    missed = {} /\ net = "loop" /\ joining = "told" /\ onWire = <<>> /\ pushed = writes /\ rows # {}
        => running = Bundle.data

ConfigInv ==
    /\ ConfigTypeOK /\ AtMostOneDefault /\ (rows # {} => writes > 0)
    /\ ReadingsInv /\ ConsoleInv /\ ToldInv /\ WireInv /\ RunningInv

SaverType == [pc : SaverStates, id : 0 .. MaxWrites, bundle : BundleType]

\* Saver s is at pc with this id and reading; the others are where they were.
SaverIs(s, pc, id, b) ==
    /\ saver' \in [Savers -> SaverType]
    /\ saver'[s].pc = pc /\ saver'[s].id = id /\ saver'[s].bundle = b
    /\ \A q \in Savers \ {s} : saver'[q] = saver[q]

LEMMA SaverBecomes ==
    ASSUME saver \in [Savers -> SaverType], NEW s \in Savers, NEW pc \in SaverStates,
           NEW id \in 0 .. MaxWrites, NEW b \in BundleType
    PROVE  saver' = [saver EXCEPT ![s] = [pc |-> pc, id |-> id, bundle |-> b]] => SaverIs(s, pc, id, b)
<1>1. [pc |-> pc, id |-> id, bundle |-> b] \in SaverType
  BY DEF SaverType
<1> QED
  BY <1>1 DEF SaverIs

LEMMA SaverFields ==
    ASSUME saver \in [Savers -> SaverType], NEW s \in Savers, NEW pc \in SaverStates
    PROVE  /\ SaverGoes(s, pc) => SaverIs(s, pc, saver[s].id, saver[s].bundle)
           /\ \A id \in 0 .. MaxWrites :
                saver' = [saver EXCEPT ![s].pc = pc, ![s].id = id] => SaverIs(s, pc, id, saver[s].bundle)
           /\ \A b \in BundleType :
                saver' = [saver EXCEPT ![s].pc = pc, ![s].bundle = b] => SaverIs(s, pc, saver[s].id, b)
<1>1. saver[s] \in SaverType
  OBVIOUS
<1>2. saver[s].id \in 0 .. MaxWrites /\ saver[s].bundle \in BundleType
  BY <1>1 DEF SaverType
<1>3. ASSUME SaverGoes(s, pc) PROVE SaverIs(s, pc, saver[s].id, saver[s].bundle)
  <2>1. PICK a : a = [saver[s] EXCEPT !.pc = pc]
    OBVIOUS
  <2>2. a \in SaverType /\ a.pc = pc /\ a.id = saver[s].id /\ a.bundle = saver[s].bundle
    BY <1>1, <2>1 DEF SaverType
  <2>3. saver' = [saver EXCEPT ![s] = a]
    BY <1>3, <2>1 DEF SaverGoes
  <2> QED
    BY <2>2, <2>3 DEF SaverIs
<1>4. ASSUME NEW id \in 0 .. MaxWrites, saver' = [saver EXCEPT ![s].pc = pc, ![s].id = id]
      PROVE  SaverIs(s, pc, id, saver[s].bundle)
  <2>1. PICK a : a = [saver[s] EXCEPT !.pc = pc, !.id = id]
    OBVIOUS
  <2>2. a \in SaverType /\ a.pc = pc /\ a.id = id /\ a.bundle = saver[s].bundle
    BY <1>1, <2>1 DEF SaverType
  <2>3. saver' = [saver EXCEPT ![s] = a]
    BY <1>4, <2>1
  <2> QED
    BY <2>2, <2>3 DEF SaverIs
<1>5. ASSUME NEW b \in BundleType, saver' = [saver EXCEPT ![s].pc = pc, ![s].bundle = b]
      PROVE  SaverIs(s, pc, saver[s].id, b)
  <2>1. PICK a : a = [saver[s] EXCEPT !.pc = pc, !.bundle = b]
    OBVIOUS
  <2>2. a \in SaverType /\ a.pc = pc /\ a.id = saver[s].id /\ a.bundle = b
    BY <1>1, <2>1 DEF SaverType
  <2>3. saver' = [saver EXCEPT ![s] = a]
    BY <1>5, <2>1
  <2> QED
    BY <2>2, <2>3 DEF SaverIs
<1> QED
  BY <1>3, <1>4, <1>5

\* A set of numbers has a least one.
LEMMA LeastOfNumbers ==
    ASSUME NEW S \in SUBSET Nat, S # {}
    PROVE  /\ Min(S) \in S
           /\ \A n \in S : Min(S) <= n
<1>1. \E m \in S : \A n \in S : ~ (<<n, m>> \in OpToRel(<, Nat))
  BY WFMin, NatLessThanWellFounded
<1>2. PICK m \in S : \A n \in S : ~ (<<n, m>> \in OpToRel(<, Nat))
  BY <1>1
<1>3. ASSUME NEW n \in S, n < m
      PROVE  <<n, m>> \in OpToRel(<, Nat)
  <2> DEFINE p == <<n, m>>
  <2>1. p \in Nat \X Nat /\ p[1] = n /\ p[2] = m
    OBVIOUS
  <2>2. p[1] < p[2]
    BY <1>3, <2>1
  <2> HIDE DEF p
  <2>3. p \in OpToRel(<, Nat)
    BY <2>1, <2>2, Zenon DEF OpToRel
  <2> QED
    BY <2>3 DEF p
<1>4. \A n \in S : ~ (n < m)
  BY <1>2, <1>3, Zenon
<1>5. \A n \in S : m <= n
  BY <1>4
<1> QED
  BY <1>5 DEF Min

\* The selected row is one of the rows, so a reading is of them.
LEMMA SelectedIsRow ==
    ASSUME rows \subseteq RowType, rows # {}
    PROVE  Selected \in rows
<1>1. CASE \E r \in rows : r.flag
  <2>1. (CHOOSE r \in rows : r.flag) \in rows
    BY <1>1
  <2> QED
    BY <1>1, <2>1 DEF Selected
<1>2. CASE ~ \E r \in rows : r.flag
  <2> DEFINE S == {r.id : r \in rows}
  <2>1. S \in SUBSET Nat /\ S # {}
    BY ConfigSyncAssumption DEF RowType
  <2> HIDE DEF S
  <2>2. Min(S) \in S /\ \A n \in S : Min(S) <= n
    BY <2>1, LeastOfNumbers
  <2>3. \E r \in rows : \A q \in rows : r.id <= q.id
    BY <2>2 DEF S
  <2>4. First(rows) \in rows
    BY <2>3 DEF First
  <2> QED
    BY <1>2, <2>4 DEF Selected
<1> QED
  BY <1>1, <1>2

LEMMA BundleOfRows ==
    ASSUME rows \subseteq RowType, writes \in 0 .. MaxWrites
    PROVE  /\ Bundle \in BundleType /\ Bundle.at = writes
           /\ rows = {} => Bundle.data = 0
           /\ rows # {} => Bundle.data = Selected.data /\ Bundle.data > 0
<1>1. CASE rows = {}
  BY <1>1, ConfigSyncAssumption DEF Bundle, BundleType
<1>2. CASE rows # {}
  <2>1. Selected \in RowType
    BY <1>2, SelectedIsRow
  <2>2. Selected.data \in 1 .. MaxWrites
    BY <2>1 DEF RowType
  <2> QED
    BY <1>2, <2>2, ConfigSyncAssumption DEF Bundle, BundleType
<1> QED
  BY <1>1, <1>2

\* A copy that takes a reading is of that reading, and keeps its content if there was none.
LEMMA MergedFields ==
    ASSUME NEW copy \in BundleType, NEW b \in BundleType
    PROVE  /\ Merged(copy, b) \in BundleType /\ Merged(copy, b).at = b.at
           /\ b.data # 0 => Merged(copy, b).data = b.data
  BY DEF Merged, BundleType

LEMMA ConfigBegins == ConfigInit => ConfigInv
<1> SUFFICES ASSUME ConfigInit PROVE ConfigInv
  OBVIOUS
<1> USE ConfigSyncAssumption DEF ConfigInit
<1>1. NoBundle \in BundleType /\ NoBundle.at = 0 /\ NoBundle.data = 0
  BY DEF NoBundle, BundleType
<1>2. Absent \in [pc : SaverStates, id : 0 .. MaxWrites, bundle : BundleType]
  BY <1>1 DEF Absent, SaverStates
<1>3. NoPull \in [on : BOOLEAN, bundle : BundleType] /\ NoPull.bundle = NoBundle
  BY <1>1 DEF NoPull
<1>4. ConfigTypeOK
  BY <1>1, <1>2, <1>3 DEF ConfigTypeOK
<1>5. Bundle.at = 0 /\ Bundle.data = 0
  BY DEF Bundle
<1>6. \A s \in Savers : saver[s].bundle = NoBundle
  BY DEF Absent
<1>7. ReadingsInv
  BY <1>1, <1>3, <1>5, <1>6 DEF ReadingsInv, Fresh, FreshCopy
<1>8. AtMostOneDefault /\ ConsoleInv /\ ToldInv /\ WireInv /\ RunningInv
  BY <1>1 DEF AtMostOneDefault, ConsoleInv, ToldInv, WireInv, RunningInv
<1> QED
  BY <1>4, <1>7, <1>8 DEF ConfigInv

\* A write outdates what was read; a request that wrote will announce it, unless it was refused.
LEMMA WriteKeepsInv ==
    ASSUME ConfigInv, writes' = writes + 1, writes < MaxWrites,
           rows' \subseteq RowType, AtMostOneDefault',
           NEW s \in Savers, NEW pc \in {"read", "away"}, NEW id \in 0 .. MaxWrites, NEW b \in BundleType,
           b = saver[s].bundle \/ b = NoBundle,
           SaverIs(s, pc, id, b) \/ saver' = saver,
           missed \subseteq missed', missed' \subseteq {"order", "refused"},
           missed' = {} => SaverIs(s, "read", id, b),
           UNCHANGED <<memory, pushVars, serverVars>>
    PROVE  ConfigInv'
<1> USE ConfigSyncAssumption DEF pushVars, serverVars
<1>1. ConfigTypeOK
  BY DEF ConfigInv
<1>2. writes \in Nat /\ writes' \in 0 .. MaxWrites /\ NoBundle.at = 0
  BY <1>1 DEF ConfigTypeOK, NoBundle
<1>3. saver' \in [Savers -> SaverType]
  BY <1>1 DEF SaverIs, ConfigTypeOK, SaverType
<1>4. ConfigTypeOK'
  BY <1>1, <1>2, <1>3 DEF ConfigTypeOK, SaverType
<1>5. \A x \in BundleType : x.at <= writes => x.at < writes'
  BY <1>2 DEF BundleType
<1>6. \A q \in Savers : saver'[q].bundle = saver[q].bundle \/ saver'[q].bundle = NoBundle
  BY DEF SaverIs
<1>7. /\ \A q \in Savers : saver[q].bundle.at <= writes
      /\ \A i \in DOMAIN onWire : onWire[i].at <= writes
      /\ offer.at <= writes /\ got.at <= writes /\ timer.bundle.at <= writes
      /\ memory.at <= writes /\ served.at <= writes /\ pushed <= writes
  BY DEF ConfigInv, ReadingsInv, Fresh, FreshCopy
<1>8. /\ \A q \in Savers : saver[q].bundle.at \in Int
      /\ \A i \in DOMAIN onWire : onWire[i].at \in Int
      /\ offer.at \in Int /\ got.at \in Int /\ timer.bundle.at \in Int
      /\ memory.at \in Int /\ served.at \in Int /\ pushed \in Int
  <2>1. \A q \in Savers : saver[q].bundle \in BundleType
    BY <1>1 DEF ConfigTypeOK
  <2>2. \A i \in DOMAIN onWire : onWire[i] \in BundleType
    BY <1>1 DEF ConfigTypeOK
  <2>3. \A x \in BundleType : x.at \in Int
    BY DEF BundleType
  <2> QED
    BY <1>1, <2>1, <2>2, <2>3 DEF ConfigTypeOK
<1>9. ReadingsInv'
  <2>1. \A q \in Savers : saver'[q].bundle.at < writes'
    BY <1>2, <1>6, <1>7, <1>8
  <2>2. /\ \A i \in DOMAIN onWire : onWire[i].at < writes'
        /\ offer.at < writes' /\ got.at < writes' /\ timer.bundle.at < writes'
        /\ memory.at < writes' /\ served.at < writes' /\ pushed < writes'
    BY <1>2, <1>7, <1>8
  <2>3. \A q \in Savers : saver'[q].bundle.at \in Int
    BY <1>2, <1>6, <1>8
  <2>4. writes' \in Int
    BY <1>2
  <2> QED
    BY <1>8, <2>1, <2>2, <2>3, <2>4 DEF ReadingsInv, Fresh, FreshCopy
<1>10. missed' = {} => missed = {} /\ saver'[s].pc = "read"
  BY DEF SaverIs
<1>11. ConsoleInv' /\ ToldInv'
  BY <1>10 DEF ConsoleInv, ToldInv, Announced, WillUse
<1>12. WireInv'
  BY <1>10 DEF ConfigInv, WireInv
<1>13. RunningInv'
  BY <1>2, <1>7, <1>8 DEF RunningInv
<1> QED
  BY <1>2, <1>4, <1>9, <1>11, <1>12, <1>13 DEF ConfigInv

LEMMA ClearedRows ==
    ASSUME rows \subseteq RowType, NEW flag \in BOOLEAN
    PROVE  /\ Cleared(flag) \subseteq RowType
           /\ \A r \in Cleared(flag) : \E q \in rows :
                 q.id = r.id /\ q.tag = r.tag /\ (r.flag => q.flag /\ ~ flag)
<1>1. CASE flag
  <2>1. ASSUME NEW r \in Cleared(flag)
        PROVE  r \in RowType /\ \E q \in rows : q.id = r.id /\ q.tag = r.tag /\ ~ r.flag
    <3>1. PICK q \in rows : r = [q EXCEPT !.flag = FALSE]
      BY <1>1, <2>1 DEF Cleared
    <3> QED
      BY <3>1 DEF RowType
  <2> QED
    BY <2>1
<1>2. CASE ~ flag
  BY <1>2 DEF Cleared
<1> QED
  BY <1>1, <1>2

LEMMA NextWrite ==
    ASSUME ConfigInv, writes < MaxWrites
    PROVE  writes + 1 \in 1 .. MaxWrites
  BY ConfigSyncAssumption DEF ConfigInv, ConfigTypeOK

\* What a statement makes of the rows.
LEMMA OneMoreRow ==
    ASSUME ConfigInv, NEW flag \in BOOLEAN, NEW tag \in Tags, writes < MaxWrites,
           \A r \in rows : r.tag # tag,
           rows' = Cleared(flag) \cup {NewRow(tag, flag)}
    PROVE  rows' \subseteq RowType /\ AtMostOneDefault'
<1>1. rows \subseteq RowType /\ writes \in 0 .. MaxWrites /\ AtMostOneDefault
  BY DEF ConfigInv, ConfigTypeOK
<1>2. NewRow(tag, flag) \in RowType /\ NewRow(tag, flag).tag = tag /\ NewRow(tag, flag).flag = flag
  BY <1>1, ConfigSyncAssumption DEF NewRow, RowType
<1> QED
  BY <1>1, <1>2, ClearedRows DEF AtMostOneDefault

LEMMA RowsChanged ==
    ASSUME ConfigInv, NEW flag \in BOOLEAN, NEW chosen \in rows, writes < MaxWrites,
           rows' = {IF r.id = chosen.id THEN [r EXCEPT !.flag = flag, !.data = writes + 1] ELSE r
                    : r \in Cleared(flag)}
    PROVE  rows' \subseteq RowType /\ AtMostOneDefault'
<1>1. rows \subseteq RowType /\ writes \in 0 .. MaxWrites /\ AtMostOneDefault
  BY DEF ConfigInv, ConfigTypeOK
<1>2. ASSUME NEW r \in rows'
      PROVE  /\ r \in RowType
             /\ \E q \in rows : q.id = r.id /\ q.tag = r.tag
                               /\ (r.flag => (q.flag /\ ~ flag) \/ (flag /\ r.id = chosen.id))
  <2>1. PICK c \in Cleared(flag) : r = IF c.id = chosen.id THEN [c EXCEPT !.flag = flag, !.data = writes + 1] ELSE c
    OBVIOUS
  <2>2. c \in RowType
    BY <1>1, ClearedRows
  <2>3. PICK q \in rows : q.id = c.id /\ q.tag = c.tag /\ (c.flag => q.flag /\ ~ flag)
    BY <1>1, ClearedRows
  <2>4. CASE c.id # chosen.id
    BY <2>1, <2>2, <2>3, <2>4
  <2>5. CASE c.id = chosen.id
    <3>1. r = [c EXCEPT !.flag = flag, !.data = writes + 1]
      BY <2>1, <2>5
    <3>2. writes + 1 \in 1 .. MaxWrites
      BY NextWrite
    <3>3. r \in RowType /\ r.id = c.id /\ r.tag = c.tag /\ r.flag = flag
      BY <2>2, <3>1, <3>2 DEF RowType
    <3> QED
      BY <2>3, <2>5, <3>3
  <2> QED
    BY <2>4, <2>5
<1>3. SUFFICES ASSUME NEW r \in rows', NEW q \in rows', (r.flag /\ q.flag) \/ r.tag = q.tag
               PROVE  r.id = q.id
  BY <1>2 DEF AtMostOneDefault
<1>4. /\ \E o \in rows : o.id = r.id /\ o.tag = r.tag
                          /\ (r.flag => (o.flag /\ ~ flag) \/ (flag /\ r.id = chosen.id))
      /\ \E o \in rows : o.id = q.id /\ o.tag = q.tag
                          /\ (q.flag => (o.flag /\ ~ flag) \/ (flag /\ q.id = chosen.id))
  BY <1>2
<1> QED
  BY <1>1, <1>3, <1>4 DEF AtMostOneDefault

LEMMA RowsUpserted ==
    ASSUME ConfigInv, NEW id, writes < MaxWrites,
           \A r \in rows : r.tag = "default" => r.id = id,
           rows' = {IF r.id = id THEN [r EXCEPT !.tag = "default", !.flag = TRUE, !.data = writes + 1] ELSE r
                    : r \in Cleared(TRUE)}
    PROVE  rows' \subseteq RowType /\ AtMostOneDefault'
<1>1. rows \subseteq RowType /\ writes \in 0 .. MaxWrites /\ AtMostOneDefault
  BY DEF ConfigInv, ConfigTypeOK
<1>2. ASSUME NEW r \in rows'
      PROVE  /\ r \in RowType /\ (r.flag => r.id = id)
             /\ \E q \in rows : q.id = r.id /\ (q.tag = r.tag \/ (r.tag = "default" /\ r.id = id))
  <2>1. PICK c \in Cleared(TRUE) :
           r = IF c.id = id THEN [c EXCEPT !.tag = "default", !.flag = TRUE, !.data = writes + 1] ELSE c
    OBVIOUS
  <2>2. c \in RowType
    BY <1>1, ClearedRows
  <2>3. PICK q \in rows : q.id = c.id /\ q.tag = c.tag /\ ~ c.flag
    BY <1>1, ClearedRows
  <2>4. CASE c.id # id
    BY <2>1, <2>2, <2>3, <2>4
  <2>5. CASE c.id = id
    <3>1. r = [c EXCEPT !.tag = "default", !.flag = TRUE, !.data = writes + 1]
      BY <2>1, <2>5
    <3>2. writes + 1 \in 1 .. MaxWrites /\ "default" \in Tags
      BY NextWrite DEF Tags
    <3>3. r \in RowType /\ r.id = c.id /\ r.tag = "default"
      BY <2>2, <3>1, <3>2 DEF RowType
    <3> QED
      BY <2>3, <2>5, <3>3
  <2> QED
    BY <2>4, <2>5
<1>3. SUFFICES ASSUME NEW r \in rows', NEW q \in rows', (r.flag /\ q.flag) \/ r.tag = q.tag
               PROVE  r.id = q.id
  BY <1>2 DEF AtMostOneDefault
<1>4. /\ r.flag => r.id = id
      /\ q.flag => q.id = id
      /\ \E o \in rows : o.id = r.id /\ (o.tag = r.tag \/ (r.tag = "default" /\ r.id = id))
      /\ \E o \in rows : o.id = q.id /\ (o.tag = q.tag \/ (q.tag = "default" /\ q.id = id))
  BY <1>2
<1> QED
  BY <1>1, <1>3, <1>4 DEF AtMostOneDefault

LEMMA RowsCleared ==
    ASSUME ConfigInv, rows' = Cleared(TRUE)
    PROVE  rows' \subseteq RowType /\ AtMostOneDefault'
<1>1. rows \subseteq RowType /\ AtMostOneDefault
  BY DEF ConfigInv, ConfigTypeOK
<1>2. \A r \in rows' : r \in RowType /\ ~ r.flag /\ \E q \in rows : q.id = r.id /\ q.tag = r.tag
  BY <1>1, ClearedRows
<1>3. SUFFICES ASSUME NEW r \in rows', NEW q \in rows', (r.flag /\ q.flag) \/ r.tag = q.tag
               PROVE  r.id = q.id
  BY <1>2 DEF AtMostOneDefault
<1>4. /\ ~ r.flag /\ \E o \in rows : o.id = r.id /\ o.tag = r.tag
      /\ ~ q.flag /\ \E o \in rows : o.id = q.id /\ o.tag = q.tag
  BY <1>2
<1> QED
  BY <1>1, <1>3, <1>4 DEF AtMostOneDefault

-----------------------------------------------------------------------------
\* The savers' writes

LEMMA SaverTypes ==
    ASSUME ConfigInv
    PROVE  /\ saver \in [Savers -> SaverType]
           /\ \A s \in Savers : saver[s].pc \in SaverStates /\ saver[s].id \in 0 .. MaxWrites
                                /\ saver[s].bundle \in BundleType
           /\ missed \subseteq {"order", "refused"}
           /\ rows \subseteq RowType /\ writes \in 0 .. MaxWrites
  BY DEF ConfigInv, ConfigTypeOK, SaverType

LEMMA RefusedKeepsInv ==
    ASSUME ConfigInv, NEW s \in Savers, RefusedEdit(s), UNCHANGED <<pushVars, serverVars>>
    PROVE  ConfigInv'
<1>1. writes' = writes + 1 /\ writes < MaxWrites /\ rows' = Cleared(TRUE)
  BY DEF RefusedEdit, Edits, WritesRows
<1>3. rows' \subseteq RowType /\ AtMostOneDefault'
  BY <1>1, RowsCleared
<1>4. saver' = saver /\ memory' = memory /\ missed' = missed \cup {"refused"}
  BY DEF RefusedEdit
<1> QED
  BY <1>1, <1>3, <1>4, SaverTypes, WriteKeepsInv

LEMMA CreateKeepsInv ==
    ASSUME ConfigInv, NEW s \in Savers, NEW tag \in Tags, NEW flag \in BOOLEAN,
           CreateConfig(s, tag, flag), UNCHANGED <<pushVars, serverVars>>
    PROVE  ConfigInv'
<1>1. /\ writes' = writes + 1 /\ writes < MaxWrites
      /\ rows' = Cleared(flag) \cup {NewRow(tag, flag)} /\ (\A r \in rows : r.tag # tag)
  BY DEF CreateConfig, Edits, WritesRows
<1>2. rows' \subseteq RowType /\ AtMostOneDefault'
  BY <1>1, OneMoreRow
<1>3. SaverIs(s, "read", saver[s].id, saver[s].bundle)
  BY SaverTypes, SaverFields DEF CreateConfig, SaverStates
<1>4. memory' = memory /\ missed' = missed
  BY DEF CreateConfig
<1> QED
  BY <1>1, <1>2, <1>3, <1>4, SaverTypes, WriteKeepsInv

LEMMA UpdateKeepsInv ==
    ASSUME ConfigInv, NEW s \in Savers, NEW chosen \in rows, NEW flag \in BOOLEAN,
           UpdateConfig(s, chosen, flag), UNCHANGED <<pushVars, serverVars>>
    PROVE  ConfigInv'
<1>1. /\ writes' = writes + 1 /\ writes < MaxWrites
      /\ rows' = {IF r.id = chosen.id THEN [r EXCEPT !.flag = flag, !.data = writes + 1] ELSE r
                  : r \in Cleared(flag)}
  BY DEF UpdateConfig, Edits, WritesRows
<1>2. rows' \subseteq RowType /\ AtMostOneDefault'
  BY <1>1, RowsChanged
<1>3. SaverIs(s, "read", saver[s].id, saver[s].bundle)
  BY SaverTypes, SaverFields DEF UpdateConfig, SaverStates
<1>4. memory' = memory /\ missed' = missed
  BY DEF UpdateConfig
<1> QED
  BY <1>1, <1>2, <1>3, <1>4, SaverTypes, WriteKeepsInv

LEMMA DeleteKeepsInv ==
    ASSUME ConfigInv, NEW s \in Savers, NEW chosen \in rows,
           DeleteConfig(s, chosen), UNCHANGED <<pushVars, serverVars>>
    PROVE  ConfigInv'
<1>1. writes' = writes + 1 /\ writes < MaxWrites /\ rows' = rows \ {chosen}
  BY DEF DeleteConfig, Edits, WritesRows
<1>2. rows' \subseteq RowType /\ AtMostOneDefault'
  BY <1>1 DEF ConfigInv, ConfigTypeOK, AtMostOneDefault
<1>3. SaverIs(s, "read", saver[s].id, saver[s].bundle)
  BY SaverTypes, SaverFields DEF DeleteConfig, SaverStates
<1>4. memory' = memory /\ missed' = missed
  BY DEF DeleteConfig
<1> QED
  BY <1>1, <1>2, <1>3, <1>4, SaverTypes, WriteKeepsInv

LEMMA UpsertKeepsInv ==
    ASSUME ConfigInv, NEW s \in Savers, UpsertsDefault(s), UNCHANGED <<pushVars, serverVars>>
    PROVE  ConfigInv'
<1> USE ConfigSyncAssumption
<1> DEFINE id == saver[s].id
           taken == \E r \in rows : r.tag = "default" /\ r.id # id
<1>1. writes < MaxWrites /\ memory' = memory
  BY DEF UpsertsDefault
<1>2. rows \subseteq RowType /\ AtMostOneDefault /\ id \in 0 .. MaxWrites
  BY SaverTypes DEF ConfigInv
<1>3. CASE taken
  <2>1. /\ rows' = Cleared(TRUE) /\ writes' = writes + 1 /\ missed' = missed \cup {"refused"}
        /\ saver' = [saver EXCEPT ![s] = Absent]
    BY <1>3 DEF UpsertsDefault, WritesRows
  <2>2. rows' \subseteq RowType /\ AtMostOneDefault'
    BY <2>1, RowsCleared
  <2>3. NoBundle \in BundleType /\ "away" \in SaverStates
    BY DEF NoBundle, BundleType, SaverStates
  <2>4. SaverIs(s, "away", 0, NoBundle)
    <3>1. saver \in [Savers -> SaverType] /\ 0 \in 0 .. MaxWrites
      BY SaverTypes
    <3>2. saver' = [saver EXCEPT ![s] = [pc |-> "away", id |-> 0, bundle |-> NoBundle]]
      BY <2>1 DEF Absent
    <3> QED
      BY <2>3, <3>1, <3>2, SaverBecomes
  <2>5. /\ writes' = writes + 1 /\ missed \subseteq missed' /\ missed' # {}
        /\ missed' \subseteq {"order", "refused"}
    BY <2>1, SaverTypes
  <2>6. 0 \in 0 .. MaxWrites
    OBVIOUS
  <2> QED
    BY <1>1, <2>2, <2>3, <2>4, <2>5, <2>6, WriteKeepsInv
<1>4. CASE ~ taken
  <2>1. /\ writes' = writes + 1 /\ missed' = missed
        /\ saver' = [saver EXCEPT ![s].pc = "read", ![s].id = 0]
        /\ rows' = IF id = 0 THEN Cleared(TRUE) \cup {NewRow("default", TRUE)}
                   ELSE {IF r.id = id THEN [r EXCEPT !.tag = "default", !.flag = TRUE, !.data = writes + 1]
                         ELSE r : r \in Cleared(TRUE)}
    BY <1>4 DEF UpsertsDefault, WritesRows
  <2>2. rows' \subseteq RowType /\ AtMostOneDefault'
    <3>1. CASE id = 0
      <4>1. \A r \in rows : r.tag # "default"
        BY <1>2, <1>4, <3>1 DEF RowType
      <4> QED
        BY <1>1, <2>1, <3>1, <4>1, OneMoreRow DEF Tags
    <3>2. CASE id # 0
      <4>1. \A r \in rows : r.tag = "default" => r.id = id
        BY <1>4
      <4> QED
        BY <1>1, <2>1, <3>2, <4>1, RowsUpserted
    <3> QED
      BY <3>1, <3>2
  <2>3. 0 \in 0 .. MaxWrites /\ "read" \in SaverStates
    BY DEF SaverStates
  <2>4. SaverIs(s, "read", 0, saver[s].bundle)
    BY <2>1, <2>3, SaverTypes, SaverFields
  <2>5. writes' = writes + 1 /\ missed' = missed /\ missed \subseteq {"order", "refused"}
    BY <2>1, SaverTypes
  <2>6. saver[s].bundle \in BundleType
    BY SaverTypes
  <2> QED
    BY <1>1, <2>2, <2>3, <2>4, <2>5, <2>6, WriteKeepsInv
<1> QED
  BY <1>3, <1>4

-----------------------------------------------------------------------------
\* The savers' readings

\* The parts of ConfigInv that are about the content of the rows say the same while no row is
\* written.
LEMMA RowsStand ==
    ASSUME rows' = rows, writes' = writes
    PROVE  Bundle' = Bundle
  BY DEF Bundle, Selected, First

\* What the types say of the bundles that are kept.
LEMMA KeptTypes ==
    ASSUME ConfigInv
    PROVE  /\ \A s \in Savers : saver[s].bundle \in BundleType /\ saver[s].bundle.at \in Int
           /\ \A i \in DOMAIN onWire : onWire[i] \in BundleType /\ onWire[i].at \in Int
           /\ offer \in BundleType /\ got \in BundleType /\ memory \in BundleType /\ served \in BundleType
           /\ timer.bundle \in BundleType /\ Bundle \in BundleType /\ Bundle.at = writes
           /\ offer.at \in Int /\ got.at \in Int /\ timer.bundle.at \in Int
           /\ memory.at \in Int /\ served.at \in Int /\ pushed \in Int /\ writes \in Int
<1>1. /\ \A s \in Savers : saver[s].bundle \in BundleType
      /\ \A i \in DOMAIN onWire : onWire[i] \in BundleType
      /\ offer \in BundleType /\ got \in BundleType /\ memory \in BundleType /\ served \in BundleType
      /\ timer.bundle \in BundleType
  BY DEF ConfigInv, ConfigTypeOK
<1>2. \A x \in BundleType : x.at \in Int
  BY DEF BundleType
<1>3. Bundle \in BundleType /\ Bundle.at = writes
  BY BundleOfRows DEF ConfigInv, ConfigTypeOK
<1>4. pushed \in Int /\ writes \in Int
  BY DEF ConfigInv, ConfigTypeOK
<1> QED
  BY <1>1, <1>2, <1>3, <1>4

\* The bundle that stands for no reading is as fresh as any.
LEMMA NothingIsFresh ==
    ASSUME ConfigInv
    PROVE  NoBundle \in BundleType /\ Fresh(NoBundle) /\ NoBundle.at = 0
<1>1. writes \in Nat /\ (writes = 0 => rows = {})
  BY SaverTypes DEF ConfigInv
<1>2. writes = 0 => Bundle.data = 0
  BY <1>1 DEF Bundle
<1> QED
  BY <1>1, <1>2, ConfigSyncAssumption DEF Fresh, NoBundle, BundleType

LEMMA LookKeepsInv ==
    ASSUME ConfigInv, NEW s \in Savers, LooksForDefault(s), UNCHANGED <<pushVars, serverVars>>
    PROVE  ConfigInv'
<1> USE DEF pushVars, serverVars
<1>1. rows' = rows /\ writes' = writes /\ memory' = memory /\ missed' = missed /\ saver[s].pc = "away"
  BY DEF LooksForDefault, RowsAre, Edits
<1> DEFINE chosen == IF \E r \in rows : r.tag = "default" THEN CHOOSE r \in rows : r.tag = "default" ELSE Selected
           id == IF rows = {} THEN 0 ELSE chosen.id
<1>2. id \in 0 .. MaxWrites
  <2>1. CASE rows = {}
    BY <2>1, ConfigSyncAssumption
  <2>2. CASE rows # {}
    <3>1. Selected \in rows
      BY <2>2, SaverTypes, SelectedIsRow
    <3>2. chosen \in rows
      BY <3>1
    <3>3. chosen.id \in 1 .. MaxWrites
      BY <3>2, SaverTypes DEF RowType
    <3> QED
      BY <2>2, <3>3, ConfigSyncAssumption
  <2> QED
    BY <2>1, <2>2
<1>3. saver' = [saver EXCEPT ![s].pc = "upsert", ![s].id = id]
  BY DEF LooksForDefault
<1> HIDE DEF id
<1>4. SaverIs(s, "upsert", id, saver[s].bundle)
  BY <1>2, <1>3, SaverTypes, SaverFields DEF SaverStates
<1>5. ConfigTypeOK'
  BY <1>1, <1>4 DEF ConfigInv, ConfigTypeOK, SaverIs, SaverType
<1>6. \A q \in Savers : saver'[q].bundle = saver[q].bundle
  BY <1>4 DEF SaverIs
<1>7. Bundle' = Bundle
  BY <1>1, RowsStand
<1>8. ReadingsInv'
  BY <1>1, <1>6, <1>7 DEF ConfigInv, ReadingsInv, Fresh, FreshCopy
<1>9. \A q \in Savers : \A places \in SUBSET {"apply", "push"} : WillUse(q, places) => WillUse(q, places)'
  BY <1>1, <1>4 DEF WillUse, SaverIs
<1>10. ConsoleInv' /\ ToldInv'
  BY <1>1, <1>9 DEF ConfigInv, ConsoleInv, ToldInv, Announced
<1> QED
  BY <1>1, <1>5, <1>7, <1>8, <1>10 DEF ConfigInv, AtMostOneDefault, WireInv, RunningInv

LEMMA ReadKeepsInv ==
    ASSUME ConfigInv, NEW s \in Savers, ReadsBundle(s), UNCHANGED <<pushVars, serverVars>>
    PROVE  ConfigInv'
<1> USE DEF pushVars, serverVars
<1>1. /\ rows' = rows /\ writes' = writes /\ memory' = memory /\ missed' = missed
      /\ saver' = [saver EXCEPT ![s].pc = "apply", ![s].bundle = Bundle]
  BY DEF ReadsBundle, RowsAre
<1>2. SaverIs(s, "apply", saver[s].id, Bundle)
  BY <1>1, KeptTypes, SaverTypes, SaverFields DEF SaverStates
<1>3. ConfigTypeOK'
  BY <1>1, <1>2 DEF ConfigInv, ConfigTypeOK, SaverIs, SaverType
<1>4. Bundle' = Bundle /\ Bundle.at = writes /\ writes \in Int
  BY <1>1, RowsStand, KeptTypes
<1>5. \A q \in Savers : saver'[q].bundle = saver[q].bundle \/ saver'[q].bundle = Bundle
  BY <1>2 DEF SaverIs
<1>6. ReadingsInv'
  <2>1. \A q \in Savers : saver[q].bundle.at <= writes /\ (saver[q].bundle.at = writes => saver[q].bundle.data = Bundle.data)
    BY DEF ConfigInv, ReadingsInv, Fresh
  <2>2. \A q \in Savers : saver'[q].bundle.at <= writes /\ (saver'[q].bundle.at = writes => saver'[q].bundle.data = Bundle.data)
    BY <1>4, <1>5, <2>1
  <2> QED
    BY <1>1, <1>4, <2>2 DEF ConfigInv, ReadingsInv, Fresh, FreshCopy
<1>7. saver'[s].pc = "apply" /\ saver'[s].bundle.at = writes
  BY <1>2, <1>4 DEF SaverIs
<1>8. ConsoleInv' /\ ToldInv'
  BY <1>1, <1>7 DEF ConsoleInv, ToldInv, Announced, WillUse
<1> QED
  BY <1>1, <1>3, <1>4, <1>6, <1>8 DEF ConfigInv, AtMostOneDefault, WireInv, RunningInv

\* A reading that is taken after another one was taken is recorded as late if it is older.
LEMMA MergedIsFresh ==
    ASSUME ConfigInv, NEW copy \in BundleType, NEW b \in BundleType, FreshCopy(b)
    PROVE  FreshCopy(Merged(copy, b))
<1>1. Merged(copy, b).at = b.at /\ (b.data # 0 => Merged(copy, b).data = b.data)
  BY MergedFields
<1>2. b.at = writes /\ rows # {} => b.data # 0
  <2>1. rows # {} => Bundle.data > 0 /\ Bundle \in BundleType
    BY SaverTypes, BundleOfRows
  <2> QED
    BY <2>1 DEF FreshCopy, BundleType
<1> QED
  BY <1>1, <1>2 DEF FreshCopy

LEMMA AppliesKeepsInv ==
    ASSUME ConfigInv, NEW s \in Savers, AppliesInConsole(s), UNCHANGED <<pushVars, serverVars>>
    PROVE  ConfigInv'
<1> USE DEF pushVars, serverVars
<1> DEFINE b == saver[s].bundle
<1>1. /\ rows' = rows /\ writes' = writes /\ saver[s].pc = "apply" /\ SaverGoes(s, "push")
      /\ memory' = Merged(memory, b) /\ missed' = Late(b, memory.at)
  BY DEF AppliesInConsole, RowsAre
<1>2. SaverIs(s, "push", saver[s].id, b)
  BY <1>1, SaverTypes, SaverFields DEF SaverStates
<1>3. b \in BundleType /\ memory \in BundleType /\ b.at \in Int /\ memory.at \in Int /\ writes \in Int
  BY KeptTypes
<1>4. memory' \in BundleType /\ memory'.at = b.at
  BY <1>1, <1>3, MergedFields
<1>5. missed \subseteq missed' /\ missed' \subseteq {"order", "refused"} /\ (missed' = {} => b.at >= memory.at)
  BY <1>1, <1>3, SaverTypes DEF Late
<1>6. ConfigTypeOK'
  BY <1>1, <1>2, <1>4, <1>5 DEF ConfigInv, ConfigTypeOK, SaverIs, SaverType
<1>7. Bundle' = Bundle
  BY <1>1, RowsStand
<1>8. \A q \in Savers : saver'[q].bundle = saver[q].bundle
  BY <1>2 DEF SaverIs
<1>9. FreshCopy(memory')
  <2>1. FreshCopy(b)
    BY DEF ConfigInv, ReadingsInv, Fresh, FreshCopy
  <2> HIDE DEF b
  <2> QED
    BY <1>1, <1>3, <2>1, MergedIsFresh
<1>10. ReadingsInv'
  BY <1>1, <1>7, <1>8, <1>9 DEF ConfigInv, ReadingsInv, Fresh, FreshCopy
<1>11. b.at <= writes /\ memory.at <= writes
  BY DEF ConfigInv, ReadingsInv, Fresh, FreshCopy
<1>12. ASSUME missed' = {}
       PROVE  memory'.at = writes \/ \E q \in Savers : WillUse(q, {"apply"})'
  <2>1. CASE memory.at = writes
    BY <1>3, <1>4, <1>5, <1>11, <1>12, <2>1
  <2>2. CASE \E q \in Savers : WillUse(q, {"apply"})
    <3>1. PICK q \in Savers : WillUse(q, {"apply"})
      BY <2>2
    <3>2. CASE q = s
      BY <1>1, <1>4, <3>1, <3>2 DEF WillUse
    <3>3. CASE q # s
      BY <1>1, <1>2, <3>1, <3>3 DEF WillUse, SaverIs
    <3> QED
      BY <3>2, <3>3
  <2> QED
    BY <1>5, <1>12, <2>1, <2>2 DEF ConfigInv, ConsoleInv, Announced
<1>13. \A q \in Savers : WillUse(q, {"apply", "push"}) => WillUse(q, {"apply", "push"})'
  BY <1>1, <1>2 DEF WillUse, SaverIs
<1>14. ConsoleInv' /\ ToldInv'
  BY <1>1, <1>5, <1>12, <1>13 DEF ConfigInv, ConsoleInv, ToldInv, Announced
<1> QED
  BY <1>1, <1>5, <1>6, <1>7, <1>10, <1>14 DEF ConfigInv, AtMostOneDefault, WireInv, RunningInv

-----------------------------------------------------------------------------
\* The socket

\* A reading that is pushed is the latest pushed; one older than another before it is recorded.
LEMMA PushFields ==
    ASSUME ConfigInv, NEW b \in BundleType, Fresh(b), Pushes(b)
    PROVE  /\ onWire' \in Seq(BundleType) /\ onWire' # <<>> /\ onWire'[Len(onWire')] = b
           /\ \A i \in DOMAIN onWire' : Fresh(onWire'[i])
           /\ pushed' = b.at /\ pushed' \in 0 .. MaxWrites /\ pushed' <= writes
           /\ missed \subseteq missed' /\ missed' \subseteq {"order", "refused"}
           /\ missed' = {} /\ pushed = writes => pushed' = writes
<1>1. onWire' = Append(onWire, b) /\ pushed' = b.at /\ missed' = Late(b, pushed)
  BY DEF Pushes
<1>2. onWire \in Seq(BundleType) /\ b.at \in 0 .. MaxWrites /\ pushed \in 0 .. MaxWrites /\ writes \in 0 .. MaxWrites
  BY DEF ConfigInv, ConfigTypeOK, BundleType
<1>3. b.at <= writes
  BY DEF Fresh
<1>4. onWire' \in Seq(BundleType) /\ Len(onWire') = Len(onWire) + 1 /\ Len(onWire) \in Nat
  BY <1>1, <1>2
<1>5. /\ onWire'[Len(onWire) + 1] = b
      /\ \A i \in 1 .. Len(onWire) : onWire'[i] = onWire[i]
  BY <1>1, <1>2
<1>6. DOMAIN onWire = 1 .. Len(onWire) /\ DOMAIN onWire' = 1 .. Len(onWire) + 1
  BY <1>2, <1>4
<1>7. \A i \in 1 .. Len(onWire) : Fresh(onWire[i])
  BY <1>6 DEF ConfigInv, ReadingsInv
<1>8. \A i \in DOMAIN onWire' : i \in 1 .. Len(onWire) \/ i = Len(onWire) + 1
  BY <1>4, <1>6
<1>9. \A i \in DOMAIN onWire' : Fresh(onWire'[i])
  BY <1>5, <1>7, <1>8
<1>10. onWire' # <<>>
  BY <1>4
<1>11. missed \subseteq missed' /\ missed' \subseteq {"order", "refused"}
  BY <1>1, SaverTypes DEF Late
<1>12. missed' = {} => b.at >= pushed
  <2>1. ~ (b.at < pushed) => b.at >= pushed
    BY <1>2 DEF Late
  <2>2. b.at < pushed => "order" \in missed'
    BY <1>1 DEF Late
  <2> QED
    BY <2>1, <2>2
<1>13. missed' = {} /\ pushed = writes => pushed' = writes
  BY <1>1, <1>2, <1>3, <1>12
<1> QED
  BY <1>1, <1>2, <1>3, <1>4, <1>5, <1>9, <1>10, <1>11, <1>13

LEMMA BroadcastKeepsInv ==
    ASSUME ConfigInv, NEW s \in Savers, Broadcasts(s), UNCHANGED serverVars
    PROVE  ConfigInv'
<1> USE DEF serverVars
<1> DEFINE b == saver[s].bundle
<1>1. /\ rows' = rows /\ writes' = writes /\ saver[s].pc = "push" /\ saver' = [saver EXCEPT ![s] = Absent]
      /\ UNCHANGED <<memory, net, joining, offer, got>>
      /\ IF joining \in {"in", "telling", "told"} THEN Pushes(b)
         ELSE UNCHANGED <<onWire, pushed, missed>>
  BY DEF Broadcasts, RowsAre
<1>2. NoBundle \in BundleType /\ "away" \in SaverStates
  BY NothingIsFresh DEF SaverStates
<1>3. SaverIs(s, "away", 0, NoBundle)
  <2>1. saver \in [Savers -> SaverType] /\ 0 \in 0 .. MaxWrites
    BY SaverTypes, ConfigSyncAssumption
  <2>2. saver' = [saver EXCEPT ![s] = [pc |-> "away", id |-> 0, bundle |-> NoBundle]]
    BY <1>1 DEF Absent
  <2> QED
    BY <1>2, <2>1, <2>2, SaverBecomes
<1>4. b \in BundleType /\ Fresh(b) /\ Fresh(NoBundle)
  BY NothingIsFresh, SaverTypes DEF ConfigInv, ReadingsInv
<1>5. Bundle' = Bundle
  BY <1>1, RowsStand
<1>6. \A q \in Savers : Fresh(saver'[q].bundle)
  BY <1>3, <1>4 DEF SaverIs, ConfigInv, ReadingsInv
<1>7. \A q \in Savers \ {s} : \A places \in SUBSET {"apply", "push"} : WillUse(q, places) => WillUse(q, places)'
  BY <1>1, <1>3 DEF WillUse, SaverIs
<1>8. ~ WillUse(s, {"apply"})
  BY <1>1 DEF WillUse
<1>9. CASE joining \in {"in", "telling", "told"}
  <2>1. Pushes(b)
    BY <1>1, <1>9
  <2> HIDE DEF b
  <2>2. /\ onWire' \in Seq(BundleType) /\ onWire' # <<>> /\ onWire'[Len(onWire')] = b
        /\ \A i \in DOMAIN onWire' : Fresh(onWire'[i])
        /\ pushed' = b.at /\ pushed' \in 0 .. MaxWrites /\ pushed' <= writes
        /\ missed \subseteq missed' /\ missed' \subseteq {"order", "refused"}
        /\ missed' = {} /\ pushed = writes => pushed' = writes
    BY <1>4, <2>1, PushFields
  <2>3. ConfigTypeOK'
    BY <1>1, <1>3, <2>2 DEF ConfigInv, ConfigTypeOK, SaverIs, SaverType
  <2>4. ReadingsInv'
    BY <1>1, <1>5, <1>6, <2>2 DEF ConfigInv, ReadingsInv, Fresh, FreshCopy
  <2>5. ConsoleInv'
    BY <1>1, <1>7, <1>8, <2>2 DEF ConfigInv, ConsoleInv, Announced
  <2>6. WillUse(s, {"apply", "push"}) => b.at = writes
    BY <1>1 DEF WillUse, b
  <2>7. ToldInv'
    <3> SUFFICES ASSUME missed' = {}
                 PROVE  /\ joining = "told" => pushed' = writes \/ Announced({"apply", "push"})'
                        /\ joining = "telling" =>
                             offer.at = writes \/ pushed' = writes \/ Announced({"apply", "push"})'
      BY <1>1 DEF ToldInv
    <3>1. Announced({"apply", "push"}) => pushed' = writes \/ Announced({"apply", "push"})'
      BY <1>7, <2>2, <2>6 DEF Announced
    <3> QED
      BY <2>2, <3>1 DEF ConfigInv, ToldInv
  <2>8. WireInv' /\ RunningInv'
    BY <1>1, <2>2 DEF ConfigInv, WireInv, RunningInv
  <2> QED
    BY <1>1, <2>3, <2>4, <2>5, <2>7, <2>8 DEF ConfigInv, AtMostOneDefault
<1>10. CASE joining \notin {"in", "telling", "told"}
  <2>1. UNCHANGED <<onWire, pushed, missed>>
    BY <1>1, <1>10
  <2>2. ConfigTypeOK'
    BY <1>1, <1>3, <2>1 DEF ConfigInv, ConfigTypeOK, SaverIs, SaverType
  <2>3. ReadingsInv'
    BY <1>1, <1>5, <1>6, <2>1 DEF ConfigInv, ReadingsInv, Fresh, FreshCopy
  <2>4. ConsoleInv'
    BY <1>1, <1>7, <1>8, <2>1 DEF ConfigInv, ConsoleInv, Announced
  <2>5. ToldInv'
    BY <1>1, <1>10 DEF ToldInv
  <2>6. WireInv' /\ RunningInv'
    BY <1>1, <1>5, <2>1 DEF ConfigInv, WireInv, RunningInv
  <2> QED
    BY <1>1, <2>2, <2>3, <2>4, <2>5, <2>6 DEF ConfigInv, AtMostOneDefault
<1> QED
  BY <1>9, <1>10

\* What is said of the rows, the console and its savers stands while they do nothing.
LEMMA ConsoleStands ==
    ASSUME ConfigInv, ConsoleIs, missed \subseteq missed'
    PROVE  /\ Bundle' = Bundle /\ rows' = rows /\ writes' = writes /\ saver' = saver /\ memory' = memory
           /\ ConsoleInv' /\ AtMostOneDefault' /\ (rows' # {} => writes' > 0)
           /\ Announced({"apply", "push"}) => Announced({"apply", "push"})'
<1>1. rows' = rows /\ writes' = writes /\ saver' = saver /\ memory' = memory
  BY DEF ConsoleIs, RowsAre
<1>2. Bundle' = Bundle
  BY <1>1, RowsStand
<1>3. \A places \in SUBSET {"apply", "push"} : Announced(places)' <=> Announced(places)
  BY <1>1 DEF Announced, WillUse
<1>4. missed' = {} => missed = {}
  OBVIOUS
<1> QED
  BY <1>1, <1>2, <1>3, <1>4 DEF ConfigInv, ConsoleInv, AtMostOneDefault

LEMMA ConnectKeepsInv ==
    ASSUME ConfigInv, Connects \/ JoinsHub
    PROVE  ConfigInv'
<1> USE DEF Connects, JoinsHub, serverVars
<1>1. ConsoleIs /\ missed' = missed /\ UNCHANGED <<offer, onWire, pushed, got, served, running, timer, troubles>>
  OBVIOUS
<1>2. /\ Bundle' = Bundle /\ rows' = rows /\ writes' = writes /\ saver' = saver /\ memory' = memory
      /\ ConsoleInv' /\ AtMostOneDefault' /\ (rows' # {} => writes' > 0)
  BY <1>1, ConsoleStands
<1>3. net' \in {"down", "pull", "pulled", "loop", "reload"} /\ joining' \in {"coming", "in"}
  BY DEF ConfigInv, ConfigTypeOK
<1>4. ConfigTypeOK'
  BY <1>1, <1>2, <1>3 DEF ConfigInv, ConfigTypeOK
<1>5. ReadingsInv'
  BY <1>1, <1>2 DEF ConfigInv, ReadingsInv, Fresh, FreshCopy
<1>6. ToldInv' /\ WireInv' /\ RunningInv'
  BY <1>1, <1>3 DEF ConfigInv, ToldInv, WireInv, RunningInv
<1> QED
  BY <1>2, <1>4, <1>5, <1>6 DEF ConfigInv

LEMMA ReadForKeepsInv ==
    ASSUME ConfigInv, ReadsForJoined
    PROVE  ConfigInv'
<1> USE DEF ReadsForJoined, serverVars
<1>1. /\ ConsoleIs /\ missed' = missed /\ joining' = "telling" /\ offer' = Bundle
      /\ UNCHANGED <<net, onWire, pushed, got, served, running, timer, troubles>>
  OBVIOUS
<1>2. /\ Bundle' = Bundle /\ rows' = rows /\ writes' = writes /\ saver' = saver /\ memory' = memory
      /\ ConsoleInv' /\ AtMostOneDefault' /\ (rows' # {} => writes' > 0)
  BY <1>1, ConsoleStands
<1>3. Bundle \in BundleType /\ Bundle.at = writes /\ writes \in Int
  BY KeptTypes
<1>4. ConfigTypeOK'
  BY <1>1, <1>2, <1>3 DEF ConfigInv, ConfigTypeOK
<1>5. ReadingsInv'
  BY <1>1, <1>2, <1>3 DEF ConfigInv, ReadingsInv, Fresh, FreshCopy
<1>6. ToldInv' /\ WireInv' /\ RunningInv'
  BY <1>1, <1>2, <1>3 DEF ConfigInv, ToldInv, WireInv, RunningInv
<1> QED
  BY <1>2, <1>4, <1>5, <1>6 DEF ConfigInv

LEMMA TellKeepsInv ==
    ASSUME ConfigInv, TellsJoined
    PROVE  ConfigInv'
<1> USE DEF serverVars
<1>1. /\ ConsoleIs /\ joining = "telling" /\ joining' = "told" /\ offer' = NoBundle /\ Pushes(offer)
      /\ UNCHANGED <<net, got, served, running, timer, troubles>>
  BY DEF TellsJoined
<1>2. offer \in BundleType /\ Fresh(offer) /\ offer.at \in Int /\ writes \in Int
  BY KeptTypes DEF ConfigInv, ReadingsInv
<1>3. /\ onWire' \in Seq(BundleType) /\ onWire' # <<>> /\ onWire'[Len(onWire')] = offer
      /\ \A i \in DOMAIN onWire' : Fresh(onWire'[i])
      /\ pushed' = offer.at /\ pushed' \in 0 .. MaxWrites /\ pushed' <= writes
      /\ missed \subseteq missed' /\ missed' \subseteq {"order", "refused"}
      /\ missed' = {} /\ pushed = writes => pushed' = writes
  BY <1>1, <1>2, PushFields
<1>4. /\ Bundle' = Bundle /\ rows' = rows /\ writes' = writes /\ saver' = saver /\ memory' = memory
      /\ ConsoleInv' /\ AtMostOneDefault' /\ (rows' # {} => writes' > 0)
      /\ Announced({"apply", "push"}) => Announced({"apply", "push"})'
  BY <1>1, <1>3, ConsoleStands
<1>5. NoBundle \in BundleType /\ Fresh(NoBundle)
  BY NothingIsFresh
<1>6. ConfigTypeOK'
  BY <1>1, <1>3, <1>4, <1>5 DEF ConfigInv, ConfigTypeOK
<1>7. ReadingsInv'
  BY <1>1, <1>3, <1>4, <1>5 DEF ConfigInv, ReadingsInv, Fresh, FreshCopy
<1>8. ToldInv'
  BY <1>1, <1>3, <1>4 DEF ConfigInv, ToldInv
<1>9. net # "down"
  BY <1>1 DEF ConfigInv, WireInv
<1>10. WireInv' /\ RunningInv'
  BY <1>1, <1>3, <1>4, <1>9 DEF ConfigInv, WireInv, RunningInv
<1> QED
  BY <1>4, <1>6, <1>7, <1>8, <1>10 DEF ConfigInv

LEMMA BreakKeepsInv ==
    ASSUME ConfigInv, Breaks
    PROVE  ConfigInv'
<1>1. /\ ConsoleIs /\ missed' = missed /\ net' = "down" /\ joining' = "out" /\ onWire' = <<>>
      /\ pushed' = 0 /\ offer' = NoBundle /\ troubles' = troubles + 1 /\ troubles < MaxTroubles
      /\ UNCHANGED <<got, served, running, timer>>
  BY DEF Breaks
<1>2. /\ Bundle' = Bundle /\ rows' = rows /\ writes' = writes /\ saver' = saver /\ memory' = memory
      /\ ConsoleInv' /\ AtMostOneDefault' /\ (rows' # {} => writes' > 0)
  BY <1>1, ConsoleStands
<1>3. NoBundle \in BundleType /\ Fresh(NoBundle) /\ writes \in Nat
  BY NothingIsFresh, SaverTypes
<1>4. troubles' \in 0 .. MaxTroubles /\ pushed' \in 0 .. MaxWrites
  BY <1>1, ConfigSyncAssumption DEF ConfigInv, ConfigTypeOK
<1>5. ConfigTypeOK'
  BY <1>1, <1>2, <1>3, <1>4 DEF ConfigInv, ConfigTypeOK
<1>6. ReadingsInv'
  BY <1>1, <1>2, <1>3 DEF ConfigInv, ReadingsInv, Fresh, FreshCopy
<1>7. ToldInv' /\ WireInv' /\ RunningInv'
  BY <1>1 DEF ToldInv, WireInv, RunningInv
<1> QED
  BY <1>2, <1>5, <1>6, <1>7 DEF ConfigInv

-----------------------------------------------------------------------------
\* The server

\* What a server keeps after it has taken a reading.
LEMMA Serving ==
    ASSUME ConfigInv, NEW b \in BundleType, FreshCopy(b), Serves(b)
    PROVE  served' \in BundleType /\ served'.at = b.at /\ FreshCopy(served')
<1>1. served \in BundleType /\ served' = Merged(served, b)
  BY KeptTypes DEF Serves
<1> QED
  BY <1>1, MergedFields, MergedIsFresh

LEMMA PullKeepsInv ==
    ASSUME ConfigInv, Pulls
    PROVE  ConfigInv'
<1> USE DEF LinkIs, serverVars
<1>1. /\ ConsoleIs /\ missed' = missed /\ net = "pull" /\ (got' = Bundle \/ got' = got)
      /\ (net' = "pulled" \/ net' = "loop")
      /\ UNCHANGED <<joining, offer, pushed, onWire, served, running, timer, troubles>>
  BY DEF Pulls
<1>2. /\ Bundle' = Bundle /\ rows' = rows /\ writes' = writes /\ saver' = saver /\ memory' = memory
      /\ ConsoleInv' /\ AtMostOneDefault' /\ (rows' # {} => writes' > 0)
      /\ Announced({"apply", "push"}) => Announced({"apply", "push"})'
  BY <1>1, ConsoleStands
<1>3. Bundle \in BundleType /\ Bundle.at = writes /\ writes \in Int
  BY KeptTypes
<1>4. ConfigTypeOK'
  BY <1>1, <1>2, <1>3 DEF ConfigInv, ConfigTypeOK
<1>5. ReadingsInv'
  BY <1>1, <1>2, <1>3 DEF ConfigInv, ReadingsInv, Fresh, FreshCopy
<1>6. joining = "told" => onWire # <<>>
  BY <1>1 DEF ConfigInv, WireInv
<1>7. ToldInv' /\ WireInv' /\ RunningInv'
  BY <1>1, <1>2, <1>6 DEF ConfigInv, ToldInv, WireInv, RunningInv
<1> QED
  BY <1>2, <1>4, <1>5, <1>7 DEF ConfigInv

LEMMA AppliesPullKeepsInv ==
    ASSUME ConfigInv, AppliesPull
    PROVE  ConfigInv'
<1> USE DEF LinkIs, serverVars
<1>1. /\ ConsoleIs /\ missed' = missed /\ net = "pulled" /\ net' = "loop" /\ got' = NoBundle /\ Serves(got)
      /\ UNCHANGED <<joining, offer, pushed, onWire, running, timer, troubles>>
  BY DEF AppliesPull
<1>2. /\ Bundle' = Bundle /\ rows' = rows /\ writes' = writes /\ saver' = saver /\ memory' = memory
      /\ ConsoleInv' /\ AtMostOneDefault' /\ (rows' # {} => writes' > 0)
      /\ Announced({"apply", "push"}) => Announced({"apply", "push"})'
  BY <1>1, ConsoleStands
<1>3. served' \in BundleType /\ FreshCopy(served')
  BY <1>1, Serving, KeptTypes DEF ConfigInv, ReadingsInv
<1>4. NoBundle \in BundleType /\ Fresh(NoBundle)
  BY NothingIsFresh
<1>5. ConfigTypeOK'
  BY <1>1, <1>2, <1>3, <1>4 DEF ConfigInv, ConfigTypeOK
<1>6. ReadingsInv'
  BY <1>1, <1>2, <1>3, <1>4 DEF ConfigInv, ReadingsInv, Fresh, FreshCopy
<1>7. joining = "told" => onWire # <<>>
  BY <1>1 DEF ConfigInv, WireInv
<1>8. ToldInv' /\ WireInv' /\ RunningInv'
  BY <1>1, <1>2, <1>7 DEF ConfigInv, ToldInv, WireInv, RunningInv
<1> QED
  BY <1>2, <1>5, <1>6, <1>8 DEF ConfigInv

\* The last element that is received leaves the server with what was pushed.
LEMMA ReceiveKeepsInv ==
    ASSUME ConfigInv, ReceivesPush
    PROVE  ConfigInv'
<1> USE DEF LinkIs, serverVars
<1> DEFINE b == Head(onWire)
<1>1. /\ ConsoleIs /\ missed' = missed /\ net = "loop" /\ onWire # <<>> /\ onWire' = Tail(onWire) /\ Serves(b)
      /\ net' = IF b.data = 0 THEN "loop" ELSE "reload"
      /\ UNCHANGED <<joining, offer, pushed, got, running, timer, troubles>>
  BY DEF ReceivesPush
<1>2. /\ Bundle' = Bundle /\ rows' = rows /\ writes' = writes /\ saver' = saver /\ memory' = memory
      /\ ConsoleInv' /\ AtMostOneDefault' /\ (rows' # {} => writes' > 0)
      /\ Announced({"apply", "push"}) => Announced({"apply", "push"})'
  BY <1>1, ConsoleStands
<1>3. /\ onWire \in Seq(BundleType) /\ Len(onWire) \in Nat /\ Len(onWire) > 0
      /\ onWire' \in Seq(BundleType) /\ Len(onWire') = Len(onWire) - 1
      /\ \A i \in 1 .. Len(onWire') : onWire'[i] = onWire[i + 1]
      /\ DOMAIN onWire = 1 .. Len(onWire) /\ DOMAIN onWire' = 1 .. Len(onWire')
      /\ b = onWire[1] /\ b \in BundleType
  BY <1>1 DEF ConfigInv, ConfigTypeOK
<1>4. \A i \in 1 .. Len(onWire) : Fresh(onWire[i])
  BY <1>3 DEF ConfigInv, ReadingsInv
<1>5. Fresh(b) /\ FreshCopy(b)
  BY <1>3, <1>4 DEF Fresh, FreshCopy
<1>6. served' \in BundleType /\ FreshCopy(served') /\ served'.at = b.at
  <2> HIDE DEF b
  <2> QED
    BY <1>1, <1>3, <1>5, Serving
<1>7. ConfigTypeOK'
  BY <1>1, <1>2, <1>3, <1>6 DEF ConfigInv, ConfigTypeOK
<1>8. \A i \in DOMAIN onWire' : Fresh(onWire'[i])
  <2> SUFFICES ASSUME NEW i \in 1 .. Len(onWire') PROVE Fresh(onWire'[i])
    BY <1>3
  <2>1. onWire'[i] = onWire[i + 1] /\ i + 1 \in 1 .. Len(onWire)
    BY <1>3
  <2> QED
    BY <1>4, <2>1
<1>9. ReadingsInv'
  BY <1>1, <1>2, <1>6, <1>8 DEF ConfigInv, ReadingsInv, Fresh, FreshCopy
<1>10. onWire' # <<>> => onWire'[Len(onWire')] = onWire[Len(onWire)]
  <2> SUFFICES ASSUME onWire' # <<>> PROVE onWire'[Len(onWire')] = onWire[Len(onWire)]
    OBVIOUS
  <2>1. Len(onWire') \in 1 .. Len(onWire') /\ Len(onWire') + 1 = Len(onWire)
    BY <1>3
  <2> QED
    BY <1>3, <2>1
<1>11. onWire' = <<>> => served'.at = pushed
  <2> SUFFICES ASSUME onWire' = <<>> PROVE served'.at = pushed
    OBVIOUS
  <2>1. Len(onWire) = 1
    BY <1>3
  <2> QED
    BY <1>1, <1>3, <1>6, <2>1 DEF ConfigInv, WireInv
<1>12. pushed \in Int /\ net' \in {"loop", "reload"}
  BY <1>1, KeptTypes
<1>13. WireInv'
  BY <1>1, <1>2, <1>10, <1>11, <1>12 DEF ConfigInv, WireInv
<1>14. RunningInv'
  <2> SUFFICES ASSUME net' = "loop", onWire' = <<>>, pushed = writes, rows # {}
               PROVE  FALSE
    BY <1>1, <1>2 DEF RunningInv
  <2>1. b.data = 0 /\ b.at = writes
    BY <1>1, <1>6, <1>11
  <2>2. Bundle.data > 0 /\ Bundle \in BundleType
    BY SaverTypes, BundleOfRows
  <2> QED
    BY <1>5, <2>1, <2>2 DEF Fresh, BundleType
<1>15. ToldInv'
  BY <1>1, <1>2 DEF ConfigInv, ToldInv
<1> QED
  BY <1>2, <1>7, <1>9, <1>13, <1>14, <1>15 DEF ConfigInv

LEMMA ReloadKeepsInv ==
    ASSUME ConfigInv, Reloads
    PROVE  ConfigInv'
<1> USE DEF LinkIs, serverVars
<1>1. /\ ConsoleIs /\ missed' = missed /\ net = "reload" /\ net' = "loop" /\ running' = served.data
      /\ UNCHANGED <<joining, offer, pushed, onWire, got, served, timer, troubles>>
  BY DEF Reloads
<1>2. /\ Bundle' = Bundle /\ rows' = rows /\ writes' = writes /\ saver' = saver /\ memory' = memory
      /\ ConsoleInv' /\ AtMostOneDefault' /\ (rows' # {} => writes' > 0)
      /\ Announced({"apply", "push"}) => Announced({"apply", "push"})'
  BY <1>1, ConsoleStands
<1>3. served.data \in 0 .. MaxWrites
  BY KeptTypes DEF BundleType
<1>4. ConfigTypeOK'
  BY <1>1, <1>2, <1>3 DEF ConfigInv, ConfigTypeOK
<1>5. ReadingsInv'
  BY <1>1, <1>2 DEF ConfigInv, ReadingsInv, Fresh, FreshCopy
<1>6. ToldInv' /\ WireInv'
  BY <1>1, <1>2 DEF ConfigInv, ToldInv, WireInv
<1>7. RunningInv'
  <2> SUFFICES ASSUME missed = {}, joining = "told", onWire = <<>>, pushed = writes, rows # {}
               PROVE  running' = Bundle.data
    BY <1>1, <1>2 DEF RunningInv
  <2>1. served.at >= pushed /\ served.at <= writes /\ FreshCopy(served)
    BY <1>1 DEF ConfigInv, WireInv, ReadingsInv, FreshCopy
  <2>2. served.at \in Int /\ pushed \in Int /\ writes \in Int
    BY KeptTypes
  <2>3. served.at = writes
    BY <2>1, <2>2
  <2> QED
    BY <1>1, <2>1, <2>3 DEF FreshCopy
<1> QED
  BY <1>2, <1>4, <1>5, <1>6, <1>7 DEF ConfigInv

LEMMA TimerPullKeepsInv ==
    ASSUME ConfigInv, TimerPulls
    PROVE  ConfigInv'
<1> USE DEF LinkIs, serverVars
<1>1. /\ ConsoleIs /\ missed' = missed /\ timer' = [on |-> TRUE, bundle |-> Bundle]
      /\ troubles < MaxTroubles /\ troubles' = troubles + 1
      /\ UNCHANGED <<net, joining, offer, pushed, onWire, got, served, running>>
  BY DEF TimerPulls
<1>2. /\ Bundle' = Bundle /\ rows' = rows /\ writes' = writes /\ saver' = saver /\ memory' = memory
      /\ ConsoleInv' /\ AtMostOneDefault' /\ (rows' # {} => writes' > 0)
      /\ Announced({"apply", "push"}) => Announced({"apply", "push"})'
  BY <1>1, ConsoleStands
<1>3. Bundle \in BundleType /\ Bundle.at = writes /\ writes \in Int /\ troubles' \in 0 .. MaxTroubles
  BY <1>1, KeptTypes, ConfigSyncAssumption DEF ConfigInv, ConfigTypeOK
<1>4. ConfigTypeOK'
  BY <1>1, <1>2, <1>3 DEF ConfigInv, ConfigTypeOK
<1>5. ReadingsInv'
  BY <1>1, <1>2, <1>3 DEF ConfigInv, ReadingsInv, Fresh, FreshCopy
<1>6. ToldInv' /\ WireInv' /\ RunningInv'
  BY <1>1, <1>2 DEF ConfigInv, ToldInv, WireInv, RunningInv
<1> QED
  BY <1>2, <1>4, <1>5, <1>6 DEF ConfigInv

\* A reading of the timer that is older than the copy is recorded as late.
LEMMA TimerApplyKeepsInv ==
    ASSUME ConfigInv, TimerApplies
    PROVE  ConfigInv'
<1> USE DEF LinkIs, serverVars
<1> DEFINE b == timer.bundle
<1>1. /\ ConsoleIs /\ missed' = Late(b, served.at) /\ timer' = NoPull /\ Serves(b)
      /\ UNCHANGED <<net, joining, offer, pushed, onWire, got, running, troubles>>
  BY DEF TimerApplies
<1>2. b \in BundleType /\ b.at \in Int /\ served.at \in Int /\ pushed \in Int /\ FreshCopy(b)
  BY KeptTypes DEF ConfigInv, ReadingsInv
<1>3. served' \in BundleType /\ FreshCopy(served') /\ served'.at = b.at
  <2> HIDE DEF b
  <2> QED
    BY <1>1, <1>2, Serving
<1>4. missed \subseteq missed' /\ missed' \subseteq {"order", "refused"}
  BY <1>1, SaverTypes DEF Late
<1>5. missed' = {} => b.at >= served.at
  <2>1. ~ (b.at < served.at) => b.at >= served.at
    BY <1>2
  <2>2. b.at < served.at => "order" \in missed'
    BY <1>1 DEF Late
  <2> QED
    BY <2>1, <2>2
<1>6. /\ Bundle' = Bundle /\ rows' = rows /\ writes' = writes /\ saver' = saver /\ memory' = memory
      /\ ConsoleInv' /\ AtMostOneDefault' /\ (rows' # {} => writes' > 0)
      /\ Announced({"apply", "push"}) => Announced({"apply", "push"})'
  BY <1>1, <1>4, ConsoleStands
<1>7. NoBundle \in BundleType /\ Fresh(NoBundle)
  BY NothingIsFresh
<1>8. timer' \in [on : BOOLEAN, bundle : BundleType] /\ timer'.bundle = NoBundle
  BY <1>1, <1>7 DEF NoPull
<1>9. ConfigTypeOK'
  BY <1>1, <1>3, <1>4, <1>6, <1>8 DEF ConfigInv, ConfigTypeOK
<1>10. ReadingsInv'
  BY <1>1, <1>3, <1>6, <1>7, <1>8 DEF ConfigInv, ReadingsInv, Fresh, FreshCopy
<1>11. missed' = {} => missed = {} /\ (served.at >= pushed => served'.at >= pushed)
  BY <1>2, <1>3, <1>4, <1>5
<1>12. ToldInv' /\ WireInv' /\ RunningInv'
  BY <1>1, <1>4, <1>6, <1>11 DEF ConfigInv, ToldInv, WireInv, RunningInv
<1> QED
  BY <1>6, <1>9, <1>10, <1>12 DEF ConfigInv

-----------------------------------------------------------------------------
\* All of it

LEMMA ConfigStep ==
    ASSUME ConfigInv, [ConfigNext]_configVars
    PROVE  ConfigInv'
<1>1. ASSUME NEW s \in Savers, UNCHANGED <<pushVars, serverVars>>,
             \/ RefusedEdit(s) \/ LooksForDefault(s) \/ UpsertsDefault(s)
             \/ \E flag \in BOOLEAN :
                  \/ \E tag \in Tags : CreateConfig(s, tag, flag)
                  \/ \E chosen \in rows : UpdateConfig(s, chosen, flag)
             \/ \E chosen \in rows : DeleteConfig(s, chosen)
             \/ ReadsBundle(s) \/ AppliesInConsole(s)
      PROVE  ConfigInv'
  <2>1. CASE RefusedEdit(s)
    BY <1>1, <2>1, RefusedKeepsInv
  <2>2. CASE LooksForDefault(s)
    BY <1>1, <2>2, LookKeepsInv
  <2>3. CASE UpsertsDefault(s)
    BY <1>1, <2>3, UpsertKeepsInv
  <2>4. ASSUME NEW flag \in BOOLEAN, NEW tag \in Tags, CreateConfig(s, tag, flag)
        PROVE  ConfigInv'
    BY <1>1, <2>4, CreateKeepsInv
  <2>5. ASSUME NEW flag \in BOOLEAN, NEW chosen \in rows, UpdateConfig(s, chosen, flag)
        PROVE  ConfigInv'
    BY <1>1, <2>5, UpdateKeepsInv
  <2>6. ASSUME NEW chosen \in rows, DeleteConfig(s, chosen)
        PROVE  ConfigInv'
    BY <1>1, <2>6, DeleteKeepsInv
  <2>7. CASE ReadsBundle(s)
    BY <1>1, <2>7, ReadKeepsInv
  <2>8. CASE AppliesInConsole(s)
    BY <1>1, <2>8, AppliesKeepsInv
  <2> QED
    BY <1>1, <2>1, <2>2, <2>3, <2>4, <2>5, <2>6, <2>7, <2>8
<1>2. ASSUME NEW s \in Savers, Broadcasts(s), UNCHANGED serverVars
      PROVE  ConfigInv'
  BY <1>2, BroadcastKeepsInv
<1>3. CASE Connects \/ JoinsHub
  BY <1>3, ConnectKeepsInv
<1>4. CASE ReadsForJoined
  BY <1>4, ReadForKeepsInv
<1>5. CASE TellsJoined
  BY <1>5, TellKeepsInv
<1>6. CASE Breaks
  BY <1>6, BreakKeepsInv
<1>7. CASE Pulls
  BY <1>7, PullKeepsInv
<1>8. CASE AppliesPull
  BY <1>8, AppliesPullKeepsInv
<1>9. CASE ReceivesPush
  BY <1>9, ReceiveKeepsInv
<1>10. CASE Reloads
  BY <1>10, ReloadKeepsInv
<1>11. CASE TimerPulls
  BY <1>11, TimerPullKeepsInv
<1>12. CASE TimerApplies
  BY <1>12, TimerApplyKeepsInv
<1>13. CASE UNCHANGED configVars
  <2>1. /\ ConsoleIs /\ missed' = missed
        /\ UNCHANGED <<net, joining, offer, pushed, onWire, got, served, running, timer, troubles>>
    BY <1>13 DEF configVars, ConsoleIs, RowsAre
  <2>2. /\ Bundle' = Bundle /\ rows' = rows /\ writes' = writes /\ saver' = saver /\ memory' = memory
        /\ ConsoleInv' /\ AtMostOneDefault' /\ (rows' # {} => writes' > 0)
        /\ Announced({"apply", "push"}) => Announced({"apply", "push"})'
    BY <2>1, ConsoleStands
  <2>3. ConfigTypeOK'
    BY <2>1, <2>2 DEF ConfigInv, ConfigTypeOK
  <2>4. ReadingsInv'
    BY <2>1, <2>2 DEF ConfigInv, ReadingsInv, Fresh, FreshCopy
  <2>5. ToldInv' /\ WireInv' /\ RunningInv'
    BY <2>1, <2>2 DEF ConfigInv, ToldInv, WireInv, RunningInv
  <2> QED
    BY <2>2, <2>3, <2>4, <2>5 DEF ConfigInv
<1> QED
  BY <1>1, <1>2, <1>3, <1>4, <1>5, <1>6, <1>7, <1>8, <1>9, <1>10, <1>11, <1>12, <1>13 DEF ConfigNext

\* When no saver is left to announce anything, the copies are of the last write.
LEMMA CopiesOfTheLastWrite ==
    ASSUME ConfigInv
    PROVE  ConfigIsOne
<1> SUFFICES ASSUME missed = {}, rows # {}, \A s \in Savers : saver[s].pc = "away"
             PROVE  /\ memory.data = Selected.data
                    /\ net = "loop" /\ joining = "told" /\ onWire = <<>> /\ ~ timer.on
                         => served.data = Selected.data /\ running = Selected.data
  BY DEF ConfigInv, ConfigIsOne, CopiesAgree
<1>1. \A places \in SUBSET {"apply", "push"} : ~ Announced(places)
  BY DEF Announced, WillUse
<1>2. Bundle.data = Selected.data
  BY DEF Bundle
<1>3. memory.at = writes /\ FreshCopy(memory) /\ FreshCopy(served)
  BY <1>1 DEF ConfigInv, ConsoleInv, ReadingsInv
<1>4. memory.data = Selected.data
  BY <1>2, <1>3 DEF FreshCopy
<1>5. ASSUME net = "loop", joining = "told", onWire = <<>>
      PROVE  served.data = Selected.data /\ running = Selected.data
  <2>1. pushed = writes
    BY <1>1, <1>5 DEF ConfigInv, ToldInv
  <2>2. served.at >= pushed /\ served.at <= writes
    BY <1>3, <1>5 DEF ConfigInv, WireInv, FreshCopy
  <2>3. served.at \in Int /\ writes \in Int
    BY KeptTypes
  <2>4. served.at = writes
    BY <2>1, <2>2, <2>3
  <2> QED
    BY <1>2, <1>3, <1>5, <2>1, <2>4 DEF FreshCopy, ConfigInv, RunningInv
<1> QED
  BY <1>4, <1>5

-----------------------------------------------------------------------------
\* The imported MCP services

\* Ids are numbers that were given out, each to one row.
ImportedType == [id : Nat, url : Urls, tag : {0, MarketId} \X Urls, on : BOOLEAN]
ImportedInv ==
    /\ imported \subseteq ImportedType /\ ids \in Nat /\ \A r \in imported : r.id \in 1 .. ids
    /\ \A r, q \in imported : r.id = q.id => r = q

\* A request, and the URLs it is to write.
RequestType ==
    [pc : {"away", "detail", "insert", "create", "update"}, todo : Seq(Urls), done : BOOLEAN,
     tag : {0, MarketId}, row : Nat, url : Urls \cup {"none"}]
AdminInv ==
    /\ manual \in [row : BOOLEAN, urls : SUBSET Urls]
    /\ admin \in [Admins -> RequestType]
    /\ \A k \in Admins : admin[k].pc \in {"create", "update"} => admin[k].url \in Urls

\* What a request has read still holds: no other row has the URL that is to be written, except
\* one this request wrote itself, under the tag it will try again.
AsRead(k) ==
    /\ admin[k].pc = "insert" =>
         \A i \in DOMAIN admin[k].todo : \A r \in imported :
             r.url = admin[k].todo[i] => admin[k].done /\ r.tag = <<admin[k].tag, r.url>>
    /\ admin[k].pc = "create" => \A r \in imported : r.url # admin[k].url
    /\ admin[k].pc = "update" => \A r \in imported : r.url = admin[k].url => r.id = admin[k].row
ReadInv == "overlap" \notin upset => \A k \in Admins : AsRead(k)

\* The servers were told of what is there, or an import that wrote a row will tell them.
WillTell(k) == admin[k].pc = "insert" /\ admin[k].done
ListInv == upset = {} /\ manual.row => Offered = hubList \/ \E k \in Admins : WillTell(k)

MarketInv ==
    /\ ImportedInv /\ AdminInv /\ ReadInv /\ ListInv
    /\ ToldOnce /\ UrlOnce /\ RefusedForATag

\* What an import may select is a sequence of URLs.
LEMMA SelectionsAreUrls == Selections \subseteq Seq(Urls)
<1> SUFFICES ASSUME NEW found \in Details, NEW want \in Urls \cup {"none"}
             PROVE  SelectedUrls(found, want) \in Seq(Urls)
  BY DEF Selections
<1>1. CASE want # "none"
  <2> DEFINE of == {e \in found : e[1] = want}
  <2>1. want \in Urls
    BY <1>1
  <2>2. IsFiniteSet({<<want, "sse">>, <<want, "streamablehttp">>})
    <3>1. IsFiniteSet({} \cup {<<want, "sse">>})
      BY FS_EmptySet, FS_AddElement
    <3>2. IsFiniteSet(({} \cup {<<want, "sse">>}) \cup {<<want, "streamablehttp">>})
      BY <3>1, FS_AddElement
    <3>3. {<<want, "sse">>, <<want, "streamablehttp">>}
            = ({} \cup {<<want, "sse">>}) \cup {<<want, "streamablehttp">>}
      OBVIOUS
    <3> QED
      BY <3>2, <3>3
  <2>3. of \subseteq {<<want, "sse">>, <<want, "streamablehttp">>}
    BY DEF Details, EndpointKinds
  <2>4. Cardinality(of) \in Nat
    BY <2>2, <2>3, FS_Subset, FS_CardinalityType
  <2>5. SelectedUrls(found, want) = [n \in 1 .. Cardinality(of) |-> want]
    BY <1>1 DEF SelectedUrls
  <2> HIDE DEF of
  <2> QED
    BY <2>1, <2>4, <2>5
<1>2. CASE want = "none" /\ Cardinality(found) = 1
  <2>1. found # {}
    BY <1>2, FS_EmptySet
  <2>2. (CHOOSE e \in found : TRUE) \in found
    BY <2>1
  <2>3. (CHOOSE e \in found : TRUE)[1] \in Urls
    BY <2>2 DEF Details
  <2> QED
    BY <1>2, <2>3 DEF SelectedUrls
<1>3. CASE want = "none" /\ Cardinality(found) # 1
  BY <1>3 DEF SelectedUrls
<1> QED
  BY <1>1, <1>2, <1>3

\* One entry for a URL: that of the manual configuration, or of the first enabled row.
LEMMA MergedOnce ==
    ASSUME NEW R \in SUBSET ImportedType, NEW urls \in SUBSET Urls,
           NEW s \in MergedServers(R, urls), NEW t \in MergedServers(R, urls), s.url = t.url
    PROVE  s = t
<1>1. \A e \in MergedServers(R, urls) :
          \/ e.url \in urls /\ e = [url |-> e.url, by |-> 0]
          \/ \E r \in MergedRows(R, urls) : r.url = e.url /\ e = [url |-> e.url, by |-> r.id]
  BY DEF MergedServers
<1>2. \A r \in MergedRows(R, urls) : r \in R /\ r.on /\ r.url \notin urls /\ r.id \in Nat
  BY DEF MergedRows, ImportedType
<1>3. \A r, q \in MergedRows(R, urls) : r.url = q.url => r.id <= q.id
  BY <1>2 DEF MergedRows
<1>4. \A r, q \in MergedRows(R, urls) : r.url = q.url => r.id = q.id
  BY <1>2, <1>3
<1>5. CASE s.url \in urls
  BY <1>1, <1>2, <1>5
<1>6. CASE s.url \notin urls
  <2>1. PICK r \in MergedRows(R, urls) : r.url = s.url /\ s = [url |-> s.url, by |-> r.id]
    BY <1>1, <1>6
  <2>2. PICK q \in MergedRows(R, urls) : q.url = t.url /\ t = [url |-> t.url, by |-> q.id]
    BY <1>1, <1>6
  <2> QED
    BY <1>4, <2>1, <2>2
<1> QED
  BY <1>5, <1>6

\* After an announcement the list has one entry for a URL, and is what is offered.
LEMMA AfterNotice ==
    ASSUME MarketInv, Notifies(imported', manual'), imported' \subseteq ImportedType,
           manual' \in [row : BOOLEAN, urls : SUBSET Urls]
    PROVE  ToldOnce' /\ (manual'.row => Offered' = hubList')
<1>1. CASE manual'.row
  <2>1. hubList' = MergedServers(imported', manual'.urls)
    BY <1>1 DEF Notifies
  <2>2. Offered' = MergedServers(imported', manual'.urls)
    BY DEF Offered, MergedServers, MergedRows
  <2>3. manual'.urls \in SUBSET Urls
    OBVIOUS
  <2>4. ToldOnce'
    BY <2>1, <2>3, MergedOnce DEF ToldOnce
  <2> QED
    BY <2>1, <2>2, <2>4
<1>2. CASE ~ manual'.row
  BY <1>2 DEF Notifies, ToldOnce, MarketInv
<1> QED
  BY <1>1, <1>2

LEMMA RequestBecomes ==
    ASSUME AdminInv, NEW k \in Admins, NEW a \in RequestType, Becomes(k, a)
    PROVE  /\ admin' \in [Admins -> RequestType] /\ admin'[k] = a
           /\ \A j \in Admins \ {k} : admin'[j] = admin[j]
BY DEF AdminInv, Becomes

\* What is known when requests did not overlap.
LEMMA Disturbing ==
    ASSUME NEW k \in Admins, Disturbs(k)
    PROVE  /\ upset \subseteq upset' /\ ("refused" \in upset' => "refused" \in upset)
           /\ "overlap" \notin upset' =>
                \A j \in Admins \ {k} : admin[j].pc \notin {"insert", "create", "update"}
BY DEF Disturbs

\* What was read stands when no row gets another URL.
LEMMA ReadStands ==
    ASSUME MarketInv, NEW k \in Admins, imported' \subseteq imported, upset \subseteq upset',
           \A j \in Admins \ {k} : admin'[j] = admin[j],
           "overlap" \notin upset' => AsRead(k)'
    PROVE  ReadInv'
<1> SUFFICES ASSUME "overlap" \notin upset', NEW j \in Admins PROVE AsRead(j)'
  BY DEF ReadInv
<1>1. CASE j = k
  BY <1>1
<1>2. CASE j # k
  <2>1. AsRead(j) /\ admin'[j] = admin[j]
    BY <1>2 DEF MarketInv, ReadInv
  <2> QED
    BY <2>1 DEF AsRead
<1> QED
  BY <1>1, <1>2

\* Nobody else has read anything when a request writes and nothing is recorded.
LEMMA ReadAlone ==
    ASSUME NEW k \in Admins, Disturbs(k),
           \A j \in Admins \ {k} : admin'[j] = admin[j],
           "overlap" \notin upset' => AsRead(k)'
    PROVE  ReadInv'
<1> SUFFICES ASSUME "overlap" \notin upset', NEW j \in Admins PROVE AsRead(j)'
  BY DEF ReadInv
<1>1. CASE j = k
  BY <1>1
<1>2. CASE j # k
  BY <1>2, Disturbing DEF AsRead
<1> QED
  BY <1>1, <1>2

\* A row that is new.
LEMMA RowIsNew ==
    ASSUME ImportedInv, NEW tag \in {0, MarketId} \X Urls, imported' = NewRows(tag), ids' = ids + 1
    PROVE  /\ ImportedInv'
           /\ \E new \in imported' : imported' = imported \cup {new} /\ new.url = tag[2] /\ new.tag = tag
<1> DEFINE new == [id |-> ids + 1, url |-> tag[2], tag |-> tag, on |-> TRUE]
<1>1. imported' = imported \cup {new}
  BY DEF NewRows
<1>2. new \in ImportedType /\ new.id = ids + 1 /\ new.url = tag[2] /\ new.tag = tag
  BY DEF ImportedInv, ImportedType
<1>3. ids \in Nat /\ ids' \in Nat /\ ids' = ids + 1 /\ \A r \in imported : r.id \in 1 .. ids
  BY DEF ImportedInv
<1> HIDE DEF new
<1>4. \A r \in imported' : r.id \in 1 .. ids'
  BY <1>1, <1>2, <1>3
<1>5. \A r \in imported : r.id # new.id
  BY <1>2, <1>3
<1>6. \A r, q \in imported' : r.id = q.id => r = q
  BY <1>1, <1>5 DEF ImportedInv
<1> QED
  BY <1>1, <1>2, <1>3, <1>4, <1>6 DEF ImportedInv

LEMMA MarketBegins == MarketInit => MarketInv
<1> SUFFICES ASSUME MarketInit PROVE MarketInv
  OBVIOUS
<1> USE DEF MarketInit
<1>1. NoRequest \in RequestType /\ NoRequest.pc = "away"
  BY DEF NoRequest, RequestType
<1>2. ImportedInv
  BY DEF ImportedInv
<1>3. manual \in [row : BOOLEAN, urls : SUBSET Urls] /\ manual.urls = {}
  OBVIOUS
<1>4. AdminInv
  BY <1>1, <1>3 DEF AdminInv
<1>5. ReadInv
  BY <1>1 DEF ReadInv, AsRead
<1>6. Offered = {}
  BY <1>3 DEF Offered, MergedServers, MergedRows
<1>7. ListInv
  BY <1>6 DEF ListInv
<1> QED
  BY <1>2, <1>4, <1>5, <1>7 DEF MarketInv, ToldOnce, UrlOnce, RefusedForATag

LEMMA EditKeepsInv ==
    ASSUME MarketInv, NEW k \in Admins, NEW urls \in SUBSET Urls, EditManual(k, urls)
    PROVE  MarketInv'
<1>1. /\ manual.row /\ manual' = [manual EXCEPT !.urls = urls] /\ Notifies(imported, manual')
      /\ imported' = imported /\ ids' = ids /\ admin' = admin /\ Disturbs(k)
  BY DEF EditManual
<1>2. manual' \in [row : BOOLEAN, urls : SUBSET Urls] /\ manual'.row
  BY <1>1 DEF MarketInv, AdminInv
<1>3. upset \subseteq upset' /\ ("refused" \in upset' => "refused" \in upset)
  BY <1>1, Disturbing
<1>4. ToldOnce' /\ Offered' = hubList'
  BY <1>1, <1>2, AfterNotice DEF MarketInv, ImportedInv
<1>5. ImportedInv' /\ AdminInv' /\ ReadInv'
  BY <1>1, <1>2, <1>3 DEF MarketInv, ImportedInv, AdminInv, ReadInv, AsRead
<1> QED
  BY <1>1, <1>3, <1>4, <1>5 DEF MarketInv, ListInv, UrlOnce, RefusedForATag

\* Steps that write no row: what the servers were told stays as true as it was.
LEMMA NothingWritten ==
    ASSUME MarketInv, NEW k \in Admins, NEW a \in RequestType, Becomes(k, a),
           ~ WillTell(k), imported' = imported, UNCHANGED <<manual, ids, hubList>>,
           upset \subseteq upset', "refused" \in upset' => "refused" \in upset,
           a.pc \in {"create", "update"} => a.url \in Urls,
           "overlap" \notin upset' => AsRead(k)'
    PROVE  MarketInv'
<1>1. /\ admin' \in [Admins -> RequestType] /\ admin'[k] = a
      /\ \A j \in Admins \ {k} : admin'[j] = admin[j]
  BY RequestBecomes DEF MarketInv
<1>2. ReadInv'
  BY <1>1, ReadStands
<1>3. AdminInv' /\ ImportedInv'
  BY <1>1 DEF MarketInv, AdminInv, ImportedInv
<1>4. Offered' = Offered
  BY DEF Offered, MergedServers, MergedRows
<1>5. \A j \in Admins : WillTell(j) => WillTell(j)'
  BY <1>1 DEF WillTell
<1>6. ListInv'
  BY <1>4, <1>5 DEF MarketInv, ListInv
<1> QED
  BY <1>2, <1>3, <1>6 DEF MarketInv, ToldOnce, UrlOnce, RefusedForATag

LEMMA BeginKeepsInv ==
    ASSUME MarketInv, NEW k \in Admins, BeginImport(k)
    PROVE  MarketInv'
<1> DEFINE a == [NoRequest EXCEPT !.pc = "detail", !.tag = MarketId]
<1>1. a \in RequestType /\ a.pc = "detail"
  <2>1. NoRequest \in RequestType
    BY DEF NoRequest, RequestType
  <2> QED
    BY <2>1 DEF RequestType
<1>2. /\ admin[k].pc = "away" /\ Becomes(k, a)
      /\ imported' = imported /\ upset' = upset /\ UNCHANGED <<manual, ids, hubList>>
  BY DEF BeginImport
<1> HIDE DEF a
<1>3. admin'[k] = a
  BY <1>1, <1>2, RequestBecomes DEF MarketInv
<1>4. ~ WillTell(k) /\ AsRead(k)'
  BY <1>1, <1>2, <1>3 DEF WillTell, AsRead
<1> QED
  BY <1>1, <1>2, <1>4, NothingWritten

LEMMA DetailKeepsInv ==
    ASSUME MarketInv, NEW k \in Admins, NEW selected \in Selections, DetailComes(k, selected)
    PROVE  MarketInv'
<1> DEFINE known == manual.urls \cup {r.url : r \in imported}
           new == IF \E n \in DOMAIN selected : selected[n] \in known THEN <<>> ELSE selected
           a == IF new = <<>> THEN NoRequest ELSE [admin[k] EXCEPT !.pc = "insert", !.todo = new]
<1>1. /\ admin[k].pc = "detail" /\ Becomes(k, a)
      /\ imported' = imported /\ upset' = upset /\ UNCHANGED <<manual, ids, hubList>>
  BY DEF DetailComes
<1>2. new \in Seq(Urls) /\ \A n \in DOMAIN new : new[n] \notin known
  <2>1. selected \in Seq(Urls)
    BY SelectionsAreUrls
  <2> HIDE DEF known
  <2>2. CASE \E n \in DOMAIN selected : selected[n] \in known
    BY <2>2
  <2>3. CASE ~ \E n \in DOMAIN selected : selected[n] \in known
    BY <2>1, <2>3
  <2> QED
    BY <2>2, <2>3
<1> HIDE DEF new
<1>3. /\ a \in RequestType
      /\ a.pc = "away" \/ (a.pc = "insert" /\ a.todo = new)
  <2>1. NoRequest \in RequestType /\ NoRequest.pc = "away"
    BY DEF NoRequest, RequestType
  <2>2. admin[k] \in RequestType
    BY DEF MarketInv, AdminInv
  <2>3. [admin[k] EXCEPT !.pc = "insert", !.todo = new] \in RequestType
    BY <1>2, <2>2 DEF RequestType
  <2>4. /\ [admin[k] EXCEPT !.pc = "insert", !.todo = new].pc = "insert"
        /\ [admin[k] EXCEPT !.pc = "insert", !.todo = new].todo = new
    BY <2>2 DEF RequestType
  <2> QED
    BY <2>1, <2>3, <2>4
<1> HIDE DEF a
<1>4. admin'[k] = a
  BY <1>1, <1>3, RequestBecomes DEF MarketInv
<1>5. ~ WillTell(k) /\ AsRead(k)'
  BY <1>1, <1>2, <1>3, <1>4 DEF WillTell, AsRead
<1> QED
  BY <1>1, <1>3, <1>5, NothingWritten

\* A statement that the constraint refuses: while requests do not overlap, a row that has the
\* tag and the URL of this one was written by this request.
LEMMA RefusedKeepsTheList ==
    ASSUME MarketInv, NEW k \in Admins, NEW tag, Refused(k, tag),
           \/ admin[k].pc = "insert" /\ admin[k].todo # <<>> /\ tag = <<admin[k].tag, Head(admin[k].todo)>>
           \/ admin[k].pc = "create" /\ tag = <<admin[k].tag, admin[k].url>>
    PROVE  MarketInv'
<1>1. /\ TagTaken(tag) /\ Becomes(k, NoRequest) /\ imported' = imported /\ UNCHANGED <<manual, ids, hubList>>
      /\ upset' = upset \cup
                  IF admin[k].done THEN {"half"}
                  ELSE IF "overlap" \in upset \/ \E r \in imported : r.tag = tag /\ r.url # tag[2] THEN {}
                  ELSE {"refused"}
  BY DEF Refused
<1>2. NoRequest \in RequestType /\ NoRequest.pc = "away" /\ NoRequest.done = FALSE
  BY DEF NoRequest, RequestType
<1>3. /\ admin' \in [Admins -> RequestType] /\ admin'[k] = NoRequest
      /\ \A j \in Admins \ {k} : admin'[j] = admin[j]
  BY <1>1, <1>2, RequestBecomes DEF MarketInv
<1>4. ASSUME ~ admin[k].done, "overlap" \notin upset, NEW r \in imported, r.tag = tag
      PROVE  r.url # tag[2]
  <2>1. AsRead(k)
    BY <1>4 DEF MarketInv, ReadInv
  <2>2. CASE admin[k].pc = "create"
    BY <2>1, <2>2 DEF AsRead
  <2>3. CASE admin[k].pc = "insert"
    <3>1. admin[k].todo \in Seq(Urls) /\ admin[k].todo # <<>>
      BY <2>3 DEF MarketInv, AdminInv, RequestType
    <3>2. 1 \in DOMAIN admin[k].todo /\ Head(admin[k].todo) = admin[k].todo[1]
      BY <3>1
    <3> QED
      BY <1>4, <2>1, <2>3, <3>2 DEF AsRead
  <2> QED
    BY <2>2, <2>3
<1>5. "refused" \in upset' => "refused" \in upset
  <2>1. CASE admin[k].done
    BY <1>1, <2>1
  <2>2. CASE ~ admin[k].done /\ "overlap" \notin upset
    <3>1. PICK r \in imported : r.tag = tag
      BY <1>1 DEF TagTaken
    <3>2. r.url # tag[2]
      BY <1>4, <2>2, <3>1
    <3> QED
      BY <1>1, <2>2, <3>1, <3>2
  <2>3. CASE ~ admin[k].done /\ "overlap" \in upset
    BY <1>1, <2>3
  <2> QED
    BY <2>1, <2>2, <2>3
<1>6. upset \subseteq upset'
  BY <1>1
<1>7. AsRead(k)'
  BY <1>2, <1>3 DEF AsRead
<1>8. CASE WillTell(k)
  <2>1. upset' # {}
    BY <1>1, <1>8 DEF WillTell
  <2>2. ReadInv'
    BY <1>1, <1>3, <1>6, <1>7, ReadStands
  <2>3. AdminInv' /\ ImportedInv'
    BY <1>1, <1>2, <1>3 DEF MarketInv, AdminInv, ImportedInv
  <2> QED
    BY <1>1, <1>5, <1>6, <2>1, <2>2, <2>3 DEF MarketInv, ListInv, ToldOnce, UrlOnce, RefusedForATag
<1>9. CASE ~ WillTell(k)
  BY <1>1, <1>2, <1>5, <1>6, <1>7, <1>9, NothingWritten
<1> QED
  BY <1>8, <1>9

LEMMA InsertKeepsInv ==
    ASSUME MarketInv, NEW k \in Admins, InsertNext(k)
    PROVE  MarketInv'
<1> DEFINE todo == admin[k].todo
           tag == <<admin[k].tag, Head(todo)>>
           a == [admin[k] EXCEPT !.todo = Tail(@), !.done = TRUE]
<1>1. /\ admin[k].pc = "insert" /\ todo # <<>>
      /\ \/ Refused(k, tag)
         \/ /\ ~ TagTaken(tag) /\ ids' = ids + 1 /\ imported' = NewRows(tag) /\ Becomes(k, a)
            /\ Disturbs(k) /\ UNCHANGED <<manual, edits, hubList>>
  BY DEF InsertNext
<1>2. CASE Refused(k, tag)
  BY <1>1, <1>2, RefusedKeepsTheList
<1>3. CASE /\ ~ TagTaken(tag) /\ ids' = ids + 1 /\ imported' = NewRows(tag) /\ Becomes(k, a)
           /\ Disturbs(k) /\ UNCHANGED <<manual, edits, hubList>>
  <2>1. /\ admin[k] \in RequestType /\ todo \in Seq(Urls) /\ Len(todo) \in Nat /\ Len(todo) > 0
        /\ Head(todo) \in Urls /\ Head(todo) = todo[1] /\ Tail(todo) \in Seq(Urls)
        /\ 1 \in DOMAIN todo
        /\ \A i \in DOMAIN Tail(todo) : i + 1 \in DOMAIN todo /\ Tail(todo)[i] = todo[i + 1]
    <3>1. admin[k] \in RequestType /\ todo \in Seq(Urls)
      BY DEF MarketInv, AdminInv, RequestType
    <3> HIDE DEF todo
    <3> QED
      BY <1>1, <3>1
  <2>2. a \in RequestType /\ a.pc = "insert" /\ a.done = TRUE /\ a.todo = Tail(todo) /\ a.tag = admin[k].tag
    BY <1>1, <2>1 DEF RequestType
  <2>3. tag \in {0, MarketId} \X Urls /\ tag[2] = todo[1] /\ tag = <<admin[k].tag, todo[1]>>
    BY <2>1 DEF RequestType
  <2> HIDE DEF a, tag
  <2>4. /\ admin' \in [Admins -> RequestType] /\ admin'[k] = a
        /\ \A j \in Admins \ {k} : admin'[j] = admin[j]
    BY <1>3, <2>2, RequestBecomes DEF MarketInv
  <2>5. ImportedInv'
    BY <1>3, <2>3, RowIsNew DEF MarketInv
  <2>6. PICK new \in imported' : imported' = imported \cup {new} /\ new.url = tag[2] /\ new.tag = tag
    BY <1>3, <2>3, RowIsNew DEF MarketInv
  <2>7. /\ upset \subseteq upset' /\ ("refused" \in upset' => "refused" \in upset)
        /\ "overlap" \notin upset' => "overlap" \notin upset
    BY <1>3, Disturbing
  <2>8. AdminInv'
    BY <1>3, <2>2, <2>4 DEF MarketInv, AdminInv
  <2>9. ASSUME "overlap" \notin upset'
        PROVE  /\ AsRead(k)' /\ \A r \in imported : r.url # new.url
    <3>1. AsRead(k)
      BY <2>7, <2>9 DEF MarketInv, ReadInv
    <3>2. \A i \in DOMAIN todo : \A r \in imported : r.url = todo[i] => r.tag = <<admin[k].tag, r.url>>
      BY <1>1, <3>1 DEF AsRead
    <3> HIDE DEF todo
    <3>3. \A r \in imported : r.url # new.url
      <4> SUFFICES ASSUME NEW r \in imported, r.url = todo[1] PROVE FALSE
        BY <2>3, <2>6
      <4>1. r.tag = tag
        BY <2>1, <2>3, <3>2
      <4> QED
        BY <1>3, <4>1 DEF TagTaken
    <3>4. \A i \in DOMAIN Tail(todo) : \A r \in imported' :
             r.url = Tail(todo)[i] => r.tag = <<admin[k].tag, r.url>>
      <4> SUFFICES ASSUME NEW i \in DOMAIN Tail(todo), NEW r \in imported', r.url = Tail(todo)[i]
                   PROVE  r.tag = <<admin[k].tag, r.url>>
        OBVIOUS
      <4>1. CASE r \in imported
        BY <2>1, <3>2, <4>1
      <4>2. CASE r = new
        BY <2>3, <2>6, <4>2
      <4> QED
        BY <2>6, <4>1, <4>2
    <3> QED
      BY <2>2, <2>4, <3>3, <3>4 DEF AsRead
  <2>10. ReadInv'
    BY <1>3, <2>4, <2>9, ReadAlone
  <2>11. UrlOnce'
    <3> SUFFICES ASSUME "overlap" \notin upset', NEW r \in imported', NEW q \in imported', r.url = q.url
                 PROVE  r = q
      BY DEF UrlOnce
    <3> QED
      BY <2>6, <2>7, <2>9 DEF MarketInv, UrlOnce
  <2>12. ListInv'
    BY <2>2, <2>4 DEF ListInv, WillTell
  <2> QED
    BY <1>3, <2>5, <2>7, <2>8, <2>10, <2>11, <2>12 DEF MarketInv, ToldOnce, RefusedForATag
<1> QED
  BY <1>1, <1>2, <1>3

LEMMA EndKeepsInv ==
    ASSUME MarketInv, NEW k \in Admins, EndImport(k)
    PROVE  MarketInv'
<1>1. /\ Becomes(k, NoRequest) /\ Notifies(imported, manual)
      /\ imported' = imported /\ manual' = manual /\ ids' = ids /\ upset' = upset
  BY DEF EndImport
<1>2. NoRequest \in RequestType /\ NoRequest.pc = "away"
  BY DEF NoRequest, RequestType
<1>3. /\ admin' \in [Admins -> RequestType] /\ admin'[k] = NoRequest
      /\ \A j \in Admins \ {k} : admin'[j] = admin[j]
  BY <1>1, <1>2, RequestBecomes DEF MarketInv
<1>4. AsRead(k)'
  BY <1>2, <1>3 DEF AsRead
<1>5. ReadInv'
  BY <1>1, <1>3, <1>4, ReadStands
<1>6. ImportedInv' /\ AdminInv'
  BY <1>1, <1>2, <1>3 DEF MarketInv, ImportedInv, AdminInv
<1>7. Notifies(imported', manual')
  BY <1>1 DEF Notifies
<1>8. ToldOnce' /\ (manual'.row => Offered' = hubList')
  BY <1>1, <1>6, <1>7, AfterNotice DEF ImportedInv, AdminInv
<1> QED
  BY <1>1, <1>5, <1>6, <1>8 DEF MarketInv, ListInv, UrlOnce, RefusedForATag

LEMMA CheckCreateKeepsInv ==
    ASSUME MarketInv, NEW k \in Admins, NEW id \in {0, MarketId}, NEW url \in Urls, ChecksCreate(k, id, url)
    PROVE  MarketInv'
<1> DEFINE a == [NoRequest EXCEPT !.pc = "create", !.tag = id, !.url = url]
<1>1. a \in RequestType /\ a.pc = "create" /\ a.url = url
  <2>1. NoRequest \in RequestType
    BY DEF NoRequest, RequestType
  <2> QED
    BY <2>1 DEF RequestType
<1>2. /\ admin[k].pc = "away" /\ UrlIsFree(url, 0) /\ Becomes(k, a)
      /\ imported' = imported /\ upset' = upset /\ UNCHANGED <<manual, ids, hubList>>
  BY DEF ChecksCreate
<1> HIDE DEF a
<1>3. admin'[k] = a
  BY <1>1, <1>2, RequestBecomes DEF MarketInv
<1>4. \A r \in imported : r.url # url
  <2>1. \A r \in imported : r.id \in 1 .. ids
    BY DEF MarketInv, ImportedInv
  <2> QED
    BY <1>2, <2>1 DEF UrlIsFree
<1>5. ~ WillTell(k) /\ AsRead(k)'
  BY <1>1, <1>2, <1>3, <1>4 DEF WillTell, AsRead
<1> QED
  BY <1>1, <1>2, <1>5, NothingWritten

LEMMA CreateImportedKeepsInv ==
    ASSUME MarketInv, NEW k \in Admins, CreateImported(k)
    PROVE  MarketInv'
<1> DEFINE tag == <<admin[k].tag, admin[k].url>>
<1>1. /\ admin[k].pc = "create"
      /\ \/ Refused(k, tag)
         \/ /\ ~ TagTaken(tag) /\ ids' = ids + 1 /\ imported' = NewRows(tag) /\ Notifies(NewRows(tag), manual)
            /\ Becomes(k, NoRequest) /\ Disturbs(k) /\ manual' = manual
  BY DEF CreateImported
<1>2. CASE Refused(k, tag)
  BY <1>1, <1>2, RefusedKeepsTheList
<1>3. CASE /\ ~ TagTaken(tag) /\ ids' = ids + 1 /\ imported' = NewRows(tag) /\ Notifies(NewRows(tag), manual)
           /\ Becomes(k, NoRequest) /\ Disturbs(k) /\ manual' = manual
  <2>1. tag \in {0, MarketId} \X Urls /\ tag[2] = admin[k].url
    BY <1>1 DEF MarketInv, AdminInv, RequestType
  <2> HIDE DEF tag
  <2>2. NoRequest \in RequestType /\ NoRequest.pc = "away"
    BY DEF NoRequest, RequestType
  <2>3. /\ admin' \in [Admins -> RequestType] /\ admin'[k] = NoRequest
        /\ \A j \in Admins \ {k} : admin'[j] = admin[j]
    BY <1>3, <2>2, RequestBecomes DEF MarketInv
  <2>4. ImportedInv'
    BY <1>3, <2>1, RowIsNew DEF MarketInv
  <2>5. PICK new \in imported' : imported' = imported \cup {new} /\ new.url = tag[2] /\ new.tag = tag
    BY <1>3, <2>1, RowIsNew DEF MarketInv
  <2>6. /\ upset \subseteq upset' /\ ("refused" \in upset' => "refused" \in upset)
        /\ "overlap" \notin upset' => "overlap" \notin upset
    BY <1>3, Disturbing
  <2>7. AdminInv'
    BY <1>3, <2>2, <2>3 DEF MarketInv, AdminInv
  <2>8. AsRead(k)'
    BY <2>2, <2>3 DEF AsRead
  <2>9. ReadInv'
    BY <1>3, <2>3, <2>8, ReadAlone
  <2>10. "overlap" \notin upset' => \A r \in imported : r.url # new.url
    BY <1>1, <2>1, <2>5, <2>6 DEF MarketInv, ReadInv, AsRead
  <2>11. UrlOnce'
    <3> SUFFICES ASSUME "overlap" \notin upset', NEW r \in imported', NEW q \in imported', r.url = q.url
                 PROVE  r = q
      BY DEF UrlOnce
    <3> QED
      BY <2>5, <2>6, <2>10 DEF MarketInv, UrlOnce
  <2>12. Notifies(imported', manual')
    BY <1>3 DEF Notifies
  <2>13. ToldOnce' /\ (manual'.row => Offered' = hubList')
    BY <2>4, <2>7, <2>12, AfterNotice DEF ImportedInv, AdminInv
  <2> QED
    BY <2>4, <2>6, <2>7, <2>9, <2>11, <2>13 DEF MarketInv, ListInv, RefusedForATag
<1> QED
  BY <1>1, <1>2, <1>3

LEMMA CheckUpdateKeepsInv ==
    ASSUME MarketInv, NEW k \in Admins, NEW r \in imported, NEW url \in Urls, ChecksUpdate(k, r, url)
    PROVE  MarketInv'
<1> DEFINE a == [NoRequest EXCEPT !.pc = "update", !.row = r.id, !.url = url]
<1>1. a \in RequestType /\ a.pc = "update" /\ a.url = url /\ a.row = r.id
  <2>1. NoRequest \in RequestType
    BY DEF NoRequest, RequestType
  <2>2. r.id \in Nat
    BY DEF MarketInv, ImportedInv, ImportedType
  <2> QED
    BY <2>1, <2>2 DEF RequestType
<1>2. /\ admin[k].pc = "away" /\ UrlIsFree(url, r.id) /\ Becomes(k, a)
      /\ imported' = imported /\ upset' = upset /\ UNCHANGED <<manual, ids, hubList>>
  BY DEF ChecksUpdate
<1> HIDE DEF a
<1>3. admin'[k] = a
  BY <1>1, <1>2, RequestBecomes DEF MarketInv
<1>4. ~ WillTell(k) /\ AsRead(k)'
  BY <1>1, <1>2, <1>3 DEF WillTell, AsRead, UrlIsFree
<1> QED
  BY <1>1, <1>2, <1>4, NothingWritten

LEMMA UpdateImportedKeepsInv ==
    ASSUME MarketInv, NEW k \in Admins, NEW on \in BOOLEAN, UpdateImported(k, on)
    PROVE  MarketInv'
<1> DEFINE chosen == admin[k].row
           url == admin[k].url
           New(r) == IF r.id = chosen THEN [r EXCEPT !.url = url, !.on = on] ELSE r
           R == {New(r) : r \in imported}
<1>1. /\ admin[k].pc = "update" /\ imported' = R /\ Becomes(k, NoRequest) /\ manual' = manual /\ ids' = ids
      /\ IF \E r \in imported : r.id = chosen THEN Notifies(R, manual) /\ Disturbs(k)
         ELSE UNCHANGED <<hubList, upset>>
  BY DEF UpdateImported
<1>2. url \in Urls
  BY <1>1 DEF MarketInv, AdminInv
<1>3. \A r \in imported : /\ New(r) \in ImportedType /\ New(r).id = r.id
                          /\ New(r).url = IF r.id = chosen THEN url ELSE r.url
  BY <1>2 DEF MarketInv, ImportedInv, ImportedType
<1>4. NoRequest \in RequestType /\ NoRequest.pc = "away"
  BY DEF NoRequest, RequestType
<1>5. /\ admin' \in [Admins -> RequestType] /\ admin'[k] = NoRequest
      /\ \A j \in Admins \ {k} : admin'[j] = admin[j]
  BY <1>1, <1>4, RequestBecomes DEF MarketInv
<1>6. AsRead(k)'
  BY <1>4, <1>5 DEF AsRead
<1>7. CASE ~ \E r \in imported : r.id = chosen
  <2>1. \A r \in imported : New(r) = r
    BY <1>7
  <2>2. R = imported
    BY <2>1
  <2>3. imported' = imported /\ upset' = upset /\ UNCHANGED <<manual, ids, hubList>> /\ ~ WillTell(k)
    BY <1>1, <1>7, <2>2 DEF WillTell
  <2> QED
    BY <1>1, <1>4, <1>6, <2>3, NothingWritten
<1>8. CASE \E r \in imported : r.id = chosen
  <2>1. Notifies(R, manual) /\ Disturbs(k)
    BY <1>1, <1>8
  <2>2. /\ upset \subseteq upset' /\ ("refused" \in upset' => "refused" \in upset)
        /\ "overlap" \notin upset' => "overlap" \notin upset
    BY <2>1, Disturbing
  <2> HIDE DEF New
  <2>3. \A n \in imported' : \E r \in imported : n = New(r)
    BY <1>1
  <2>4. ImportedInv'
    <3>1. imported' \subseteq ImportedType /\ \A n \in imported' : n.id \in 1 .. ids
      BY <1>3, <2>3 DEF MarketInv, ImportedInv
    <3>2. \A n, m \in imported' : n.id = m.id => n = m
      <4> SUFFICES ASSUME NEW n \in imported', NEW m \in imported', n.id = m.id PROVE n = m
        OBVIOUS
      <4>1. PICK r \in imported : n = New(r)
        BY <2>3
      <4>2. PICK q \in imported : m = New(q)
        BY <2>3
      <4>3. r = q
        BY <1>3, <4>1, <4>2 DEF MarketInv, ImportedInv
      <4> QED
        BY <4>1, <4>2, <4>3
    <3> QED
      BY <1>1, <3>1, <3>2 DEF MarketInv, ImportedInv
  <2>5. AdminInv'
    BY <1>1, <1>4, <1>5 DEF MarketInv, AdminInv
  <2>6. ReadInv'
    BY <1>5, <1>6, <2>1, ReadAlone
  <2>7. UrlOnce'
    <3> SUFFICES ASSUME "overlap" \notin upset', NEW n \in imported', NEW m \in imported', n.url = m.url
                 PROVE  n = m
      BY DEF UrlOnce
    <3>1. PICK r \in imported : n = New(r)
      BY <2>3
    <3>2. PICK q \in imported : m = New(q)
      BY <2>3
    <3>3. \A s \in imported : s.url = url => s.id = chosen
      BY <1>1, <2>2 DEF MarketInv, ReadInv, AsRead
    <3>4. n.url = IF r.id = chosen THEN url ELSE r.url
      BY <1>3, <3>1
    <3>5. m.url = IF q.id = chosen THEN url ELSE q.url
      BY <1>3, <3>2
    <3>6. r = q
      <4>1. \A s, t \in imported : (s.id = t.id => s = t) /\ (s.url = t.url => s = t)
        BY <2>2 DEF MarketInv, ImportedInv, UrlOnce
      <4> HIDE DEF chosen, url
      <4> QED
        BY <3>3, <3>4, <3>5, <4>1
    <3> QED
      BY <3>1, <3>2, <3>6
  <2>8. Notifies(imported', manual')
    BY <1>1, <2>1 DEF Notifies
  <2>9. ToldOnce' /\ (manual'.row => Offered' = hubList')
    BY <2>4, <2>5, <2>8, AfterNotice DEF ImportedInv, AdminInv
  <2> QED
    BY <2>2, <2>4, <2>5, <2>6, <2>7, <2>9 DEF MarketInv, ListInv, RefusedForATag
<1> QED
  BY <1>7, <1>8

LEMMA DeleteImportedKeepsInv ==
    ASSUME MarketInv, NEW r \in imported, DeleteImported(r)
    PROVE  MarketInv'
<1>1. /\ imported' = imported \ {r} /\ Notifies(imported \ {r}, manual) /\ manual' = manual
      /\ ids' = ids /\ admin' = admin /\ upset' = upset
  BY DEF DeleteImported
<1>2. ImportedInv' /\ AdminInv'
  BY <1>1 DEF MarketInv, ImportedInv, AdminInv
<1>3. ReadInv'
  <2> SUFFICES ASSUME "overlap" \notin upset, NEW j \in Admins PROVE AsRead(j)'
    BY <1>1 DEF ReadInv
  <2>1. AsRead(j) /\ imported' \subseteq imported
    BY <1>1 DEF MarketInv, ReadInv
  <2> QED
    BY <1>1, <2>1 DEF AsRead
<1>4. UrlOnce'
  BY <1>1 DEF MarketInv, UrlOnce
<1>5. Notifies(imported', manual')
  BY <1>1 DEF Notifies
<1>6. ToldOnce' /\ (manual'.row => Offered' = hubList')
  BY <1>2, <1>5, AfterNotice DEF ImportedInv, AdminInv
<1> QED
  BY <1>1, <1>2, <1>3, <1>4, <1>6 DEF MarketInv, ListInv, RefusedForATag

LEMMA MarketStep ==
    ASSUME MarketInv, [MarketNext]_marketVars
    PROVE  MarketInv'
<1>1. ASSUME NEW k \in Admins,
             \/ \E urls \in SUBSET Urls : EditManual(k, urls)
             \/ BeginImport(k)
             \/ \E selected \in Selections : DetailComes(k, selected)
             \/ InsertNext(k) \/ EndImport(k)
             \/ \E id \in {0, MarketId}, url \in Urls : ChecksCreate(k, id, url)
             \/ CreateImported(k)
             \/ \E r \in imported, url \in Urls : ChecksUpdate(k, r, url)
             \/ \E on \in BOOLEAN : UpdateImported(k, on)
      PROVE  MarketInv'
  BY <1>1, EditKeepsInv, BeginKeepsInv, DetailKeepsInv, InsertKeepsInv, EndKeepsInv, CheckCreateKeepsInv,
     CreateImportedKeepsInv, CheckUpdateKeepsInv, UpdateImportedKeepsInv
<1>2. ASSUME NEW r \in imported, DeleteImported(r)
      PROVE  MarketInv'
  BY <1>2, DeleteImportedKeepsInv
<1>3. CASE UNCHANGED marketVars
  <2>1. UNCHANGED <<imported, manual, ids, admin, hubList, upset>>
    BY <1>3 DEF marketVars
  <2>2. Offered' = Offered
    BY <2>1 DEF Offered, MergedServers, MergedRows
  <2>3. ListInv'
    BY <2>1, <2>2 DEF MarketInv, ListInv, WillTell
  <2> QED
    BY <2>1, <2>3 DEF MarketInv, ImportedInv, AdminInv, ReadInv, AsRead, ToldOnce, UrlOnce, RefusedForATag
<1> QED
  BY <1>1, <1>2, <1>3 DEF MarketNext

\* With no request under way, none is left to tell the servers of a row.
LEMMA ToldOfWhatIsOffered == MarketInv => MarketIsOne
BY DEF MarketInv, ListInv, WillTell, MarketIsOne, OfferedIsTold

-----------------------------------------------------------------------------
\* One part runs, and its invariant is kept

\* Whatever else the platform does, the part that runs moves by its own steps.
LEMMA PlatformSteps ==
    ASSUME [PlatformNext]_platformVars
    PROVE  /\ part' = part
           /\ part = "console" => [WsNext]_wsVars
           /\ part = "hub" => [HubNext]_hubVars
           /\ part = "config" => [ConfigNext]_configVars
           /\ part = "market" => [MarketNext]_marketVars
<1>1. CASE UNCHANGED platformVars
  BY <1>1 DEF platformVars, deviceVars, sharedVars, consoleVars
<1>2. CASE PlatformNext
  BY <1>2 DEF PlatformNext, deviceVars, sharedVars, consoleVars
<1> QED
  BY <1>1, <1>2

\* The socket of the console's server: types, who enters holds the clients, and the
\* latest socket is the one that is reached.
THEOREM WsInvariant == WsSpec => []WsInv
<1>1. WsInit => WsInv
  BY WsInitInv
<1>2. WsInv /\ [WsNext]_wsVars => WsInv'
  BY WsNextInv
<1> QED
  BY <1>1, <1>2, PTL DEF WsSpec

\* The shared MCP servers: types, whose the numbers are, who is registered under them, and
\* one list unanswered at a time unless lists crossed.
THEOREM HubInvariant == HubSpec => []HubInv
<1>1. HubInit => HubInv
  BY HubInitInv
<1>2. HubInv /\ [HubNext]_hubVars => HubInv'
  BY HubNextInv
<1> QED
  BY <1>1, <1>2, PTL DEF HubSpec

\* One kind of configuration: types, one default, whose readings are still good, that the last
\* write is told or will be, and what the wire and the running service have of it.
THEOREM ConfigInvariant == ConfigSpec => []ConfigInv
<1>1. ConfigInit => ConfigInv
  BY ConfigBegins
<1>2. ConfigInv /\ [ConfigNext]_configVars => ConfigInv'
  BY ConfigStep
<1> QED
  BY <1>1, <1>2, PTL DEF ConfigSpec

\* The imported MCP services: types, one row to an id, what a request that looked at the rows may
\* rely on, and that the servers were told of them or will be.
THEOREM MarketInvariant == MarketSpec => []MarketInv
<1>1. MarketInit => MarketInv
  BY MarketBegins
<1>2. MarketInv /\ [MarketNext]_marketVars => MarketInv'
  BY MarketStep
<1> QED
  BY <1>1, <1>2, PTL DEF MarketSpec

\* The console reaches the server over its latest socket, however many sockets come and go.
THEOREM ServerReached == PlatformSpec => []ServerIsReached
<1> DEFINE Inv == part = "console" => WsInv
<1>1. PlatformInit => Inv
  BY WsInitInv DEF PlatformInit
<1>2. Inv /\ [PlatformNext]_platformVars => Inv'
  BY PlatformSteps, WsNextInv
<1>3. Inv => ServerIsReached
  BY DEF WsInv, ServerIsReached
<1> QED
  BY <1>1, <1>2, <1>3, PTL DEF PlatformSpec

\* Who asks a shared MCP server gets the answer to his own question, for any number of
\* servers and calls, unless the lists of two servers were unanswered together.
THEOREM AskersServed == PlatformSpec => []AskersGetTheirOwn
<1> DEFINE Inv == part = "hub" => HubInv
<1>1. PlatformInit => Inv
  BY HubInitInv DEF PlatformInit
<1>2. Inv /\ [PlatformNext]_platformVars => Inv'
  BY PlatformSteps, HubNextInv
<1>3. Inv => AskersGetTheirOwn
  BY DEF HubInv, AskersGetTheirOwn
<1> QED
  BY <1>1, <1>2, <1>3, PTL DEF PlatformSpec

\* For any number of savers, writes and broken sockets, the configuration that is served is the one
\* selected once it was announced; and for any number of administrators, a server is told of one
\* entry for a URL, and what a user is offered is what the servers were told of.
THEOREM SettingsOne == PlatformSpec => []SettingsAreOne
<1> DEFINE Inv == (part = "config" => ConfigInv) /\ (part = "market" => MarketInv)
<1>1. PlatformInit => Inv
  BY ConfigBegins, MarketBegins DEF PlatformInit
<1>2. Inv /\ [PlatformNext]_platformVars => Inv'
  BY PlatformSteps, ConfigStep, MarketStep
<1>3. Inv => SettingsAreOne
  BY CopiesOfTheLastWrite, ToldOfWhatIsOffered DEF SettingsAreOne
<1> QED
  BY <1>1, <1>2, <1>3, PTL DEF PlatformSpec
=============================================================================
