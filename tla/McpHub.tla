------------------------------- MODULE McpHub -------------------------------
(***************************************************************************)
(* GlobalMcpHub: the MCP servers every conversation shares.  One task per  *)
(* server keeps its connection: it opens the event stream, asks for the    *)
(* tools with the fixed number 1, stores them, and reads until the stream  *)
(* ends, to begin again a minute later.  Conversations call tools with     *)
(* numbers from a counter.  Every answer that comes over a stream, whoever *)
(* asked and whichever server it is from, is handed out by one table.      *)
(*                                                                         *)
(* Each server has one tool, and all of them give it the same name.  A     *)
(* server over plain HTTP answers each request directly: that is the       *)
(* answer with the response to the POST.                                   *)
(***************************************************************************)
EXTENDS Integers, FiniteSets

CONSTANTS Servers,   \* the configured servers
          HubCalls,  \* call_tool_raw and read_resource, each asked once
          NoAsker,   \* nobody
          MaxLists   \* bound: tool lists asked for

ASSUME HubAssumption ==
    /\ IsFiniteSet(HubCalls) /\ MaxLists \in Nat
    /\ Servers \cap HubCalls = {} /\ NoAsker \notin Servers \cup HubCalls

VARIABLES
    rpc,        \* each asker: [pc, id, to, from]: its request and whose answer it got
    table,      \* pending: number |-> the asker whose sender is registered
    unanswered, \* requests at the servers: [of, id, to]
    bindings,   \* key |-> the server whose tool it binds, or NoAsker
    nextCall,   \* next_id
    hubDown,    \* shutdown
    lists,      \* tool lists asked for
    crossed     \* a server was asked for its list while another's was unanswered

hubVars == <<rpc, table, unanswered, bindings, nextCall, hubDown, lists, crossed>>

ListId == 1
Askers == Servers \cup HubCalls
CallIds == 100 .. 99 + Cardinality(HubCalls)
Numbers == {ListId} \cup CallIds \cup 1 .. Cardinality(HubCalls)

\* The plain name of the tool, and the name with each server's prefix.
Keys == {NoAsker} \cup Servers

\* A variant: the counter starts where the lists' number is.
FirstCallAtOne == 1

FirstCall == 100

HubInit ==
    /\ rpc = [a \in Askers |-> [pc |-> "idle", id |-> ListId, to |-> a, from |-> NoAsker]]
    /\ table = [n \in Numbers |-> NoAsker] /\ unanswered = {}
    /\ bindings = [k \in Keys |-> NoAsker]
    /\ nextCall = FirstCall /\ hubDown = FALSE /\ lists = 0 /\ crossed = FALSE

-----------------------------------------------------------------------------

RpcAt(a, pc) == rpc[a].pc = pc
RpcGoto(a, pc) == rpc' = [rpc EXCEPT ![a].pc = pc]
RpcOver(a) == rpc' = [rpc EXCEPT ![a].pc = IF a \in Servers THEN "sleep" ELSE "over"]

\* What a sender that is dropped does to the asker that waits for it: the channel is
\* closed, which ends the request.
Hung(n, rpcs) ==
    IF table[n] # NoAsker /\ rpcs[table[n]].pc = "wait" /\ rpcs[table[n]].id = n
    THEN [rpcs EXCEPT ![table[n]].pc = IF table[n] \in Servers THEN "sleep" ELSE "over"]
    ELSE rpcs

\* maintain_server: the next connection; run_sse_server up to the endpoint, which may
\* fail, and refresh_http_server up to its request.
Connect(s) ==
    /\ s \in Servers /\ rpc[s].pc \in {"idle", "sleep"} /\ ~ hubDown
    /\ \/ /\ lists < MaxLists /\ lists' = lists + 1
          /\ rpc' = [rpc EXCEPT ![s] = [@ EXCEPT !.pc = "insert", !.from = NoAsker]]
       \/ UNCHANGED lists /\ RpcGoto(s, "sleep")
    /\ UNCHANGED <<table, unanswered, bindings, nextCall, hubDown, crossed>>

\* A server that says its address has expired is not asked again; a shut down hub's
\* tasks stop when they are back in the loop.
StopServer(s) ==
    /\ s \in Servers /\ RpcAt(s, "sleep")
    /\ RpcGoto(s, "stopped")
    /\ UNCHANGED <<table, unanswered, bindings, nextCall, hubDown, lists, crossed>>

\* call_tool_raw: the server is the one the key binds.
CallTool(c, k) ==
    /\ c \in HubCalls /\ RpcAt(c, "idle")
    /\ IF bindings[k] = NoAsker THEN RpcGoto(c, "over") /\ UNCHANGED nextCall
       ELSE /\ nextCall' = nextCall + 1
            /\ rpc' = [rpc EXCEPT ![c] = [pc |-> "insert", id |-> nextCall, to |-> bindings[k],
                                          from |-> NoAsker]]
    /\ UNCHANGED <<table, unanswered, bindings, hubDown, lists, crossed>>

\* post_sse_rpc: registered first, which drops the sender of another with the number.
InsertRpc(a) ==
    /\ RpcAt(a, "insert")
    /\ table' = [table EXCEPT ![rpc[a].id] = a]
    /\ rpc' = Hung(rpc[a].id, [rpc EXCEPT ![a].pc = "post"])
    /\ crossed' = (crossed \/ (a \in Servers /\ \E s \in Servers \ {a} :
                      RpcAt(s, "post") \/ \E r \in unanswered : r.of = s))
    /\ UNCHANGED <<unanswered, bindings, nextCall, hubDown, lists>>

\* The request is posted: taken, answered at once, refused, or not sent at all, which
\* leaves the entry behind.
Post(a) ==
    /\ RpcAt(a, "post")
    /\ \/ /\ unanswered' = unanswered \cup {[of |-> a, id |-> rpc[a].id, to |-> rpc[a].to]}
          /\ rpc' = [rpc EXCEPT ![a].pc = IF rpc[a].from # NoAsker THEN "stored"
                                          ELSE IF table[rpc[a].id] = a THEN "wait" ELSE "hung"]
          /\ UNCHANGED table
       \/ /\ \/ rpc' = Hung(rpc[a].id, [rpc EXCEPT ![a].pc = "stored", ![a].from = rpc[a].to])
             \/ rpc' = Hung(rpc[a].id, [rpc EXCEPT ![a].pc = "hung"])
          /\ table' = [table EXCEPT ![rpc[a].id] = NoAsker]
          /\ UNCHANGED unanswered
       \/ RpcGoto(a, "hung") /\ UNCHANGED <<table, unanswered>>
    /\ UNCHANGED <<bindings, nextCall, hubDown, lists, crossed>>

\* The request has failed: its sender went while it was posted, or it was not taken.
Fails(a) ==
    /\ RpcAt(a, "hung")
    /\ RpcOver(a)
    /\ UNCHANGED <<table, unanswered, bindings, nextCall, hubDown, lists, crossed>>

\* The reader of the server's stream hands out an answer by its number, to one that
\* may still be posting its request.  Readers of earlier streams still do.
Reads(r) ==
    /\ r \in unanswered /\ unanswered' = unanswered \ {r}
    /\ table' = [table EXCEPT ![r.id] = NoAsker]
    /\ rpc' = IF table[r.id] # NoAsker /\ rpc[table[r.id]].pc \in {"post", "wait"}
              THEN [rpc EXCEPT ![table[r.id]].pc = IF @ = "wait" THEN "stored" ELSE @,
                               ![table[r.id]].from = r.to]
              ELSE rpc
    /\ UNCHANGED <<bindings, nextCall, hubDown, lists, crossed>>

\* 15 seconds are over.
RpcTimeout(a) ==
    /\ RpcAt(a, "wait")
    /\ table' = [table EXCEPT ![rpc[a].id] = NoAsker]
    /\ rpc' = [Hung(rpc[a].id, rpc) EXCEPT ![a].pc = IF a \in Servers THEN "sleep" ELSE "over"]
    /\ UNCHANGED <<unanswered, bindings, nextCall, hubDown, lists, crossed>>

\* A call returns what it was given; a list is stored: the server's old bindings go, and
\* there is nothing else to do if it was empty or an error, ...
Unbind(a) ==
    /\ RpcAt(a, "stored")
    /\ RpcOver(a) \/ (a \in Servers /\ RpcGoto(a, "bind"))
    /\ bindings' = [k \in Keys |-> IF bindings[k] = a THEN NoAsker ELSE bindings[k]]
    /\ UNCHANGED <<table, unanswered, nextCall, hubDown, lists, crossed>>

\* ... the name is looked up, ...
LookUp(s) ==
    /\ RpcAt(s, "bind")
    /\ RpcGoto(s, IF bindings[NoAsker] = NoAsker THEN "plain" ELSE "prefixed")
    /\ UNCHANGED <<table, unanswered, bindings, nextCall, hubDown, lists, crossed>>

\* ... and the tool bound, to the server as it is configured, whoever sent the list;
\* then the stream is read until it ends.
Bind(s) ==
    /\ rpc[s].pc \in {"plain", "prefixed"}
    /\ bindings' = [bindings EXCEPT ![IF RpcAt(s, "plain") THEN NoAsker ELSE s] = s]
    /\ RpcGoto(s, "sleep")
    /\ UNCHANGED <<table, unanswered, nextCall, hubDown, lists, crossed>>

\* reload_global replaces the hub; its tasks see the flag between two connections.
HubShutdown ==
    /\ ~ hubDown /\ hubDown' = TRUE
    /\ UNCHANGED <<rpc, table, unanswered, bindings, nextCall, lists, crossed>>

HubNext ==
    \/ \E s \in Servers : Connect(s) \/ StopServer(s) \/ LookUp(s) \/ Bind(s)
    \/ \E c \in HubCalls, k \in Keys : CallTool(c, k)
    \/ \E a \in Askers : InsertRpc(a) \/ Post(a) \/ Fails(a) \/ RpcTimeout(a) \/ Unbind(a)
    \/ \E r \in unanswered : Reads(r)
    \/ HubShutdown

HubSpec == HubInit /\ [][HubNext]_hubVars

-----------------------------------------------------------------------------

HubTypeOK ==
    /\ rpc \in [Askers -> [pc : {"idle", "insert", "post", "wait", "hung", "stored", "bind", "plain",
                                 "prefixed", "sleep", "stopped", "over"},
                           id : Numbers, to : Askers, from : Servers \cup {NoAsker}]]
    /\ table \in [Numbers -> Askers \cup {NoAsker}]
    /\ unanswered \subseteq [of : Askers, id : Numbers, to : Askers]
    /\ bindings \in [Keys -> Servers \cup {NoAsker}]
    /\ nextCall \in 1 .. 100 + Cardinality(HubCalls) /\ hubDown \in BOOLEAN
    /\ lists \in 0 .. MaxLists /\ crossed \in BOOLEAN

\* Whatever is late, overtaken or left behind in the table all servers share, an asker
\* gets the answer of the server it asked.  The one exception is the list of tools: every
\* server is asked for it with the number 1, and once the lists of two servers were
\* unanswered together, the tools of one are bound to the other.
OwnReply == \A a \in Askers : rpc[a].from \in {NoAsker, rpc[a].to} \/ (a \in Servers /\ crossed)
=============================================================================
