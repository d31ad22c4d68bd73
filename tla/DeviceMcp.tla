----------------------------- MODULE DeviceMcp ------------------------------
(***************************************************************************)
(* DeviceMcpRuntime and the tasks that talk JSON-RPC to the device through *)
(* it: initialisations (two requests with the fixed ids 1 and 2), tool     *)
(* calls and refreshes of the tool list (one request with an id from the   *)
(* counter).  A request is registered under its id in the table pending,   *)
(* sent, and answered, overtaken by a request with the same id, or given   *)
(* up after 15 seconds.  The device answers late, or never, and its        *)
(* transport may be re-established, which resets the runtime but neither   *)
(* the table nor the tasks.                                                *)
(*                                                                         *)
(* Inline tasks are those that the loop of an MCP socket (mcp_ws.rs) runs  *)
(* itself: while one runs, the socket is not read.                         *)
(***************************************************************************)
EXTENDS Integers, FiniteSets

CONSTANTS Inits,      \* tasks that initialise the device's MCP
          Calls,      \* tasks that call a tool
          Refreshes,  \* tasks that fetch the tool list anew
          Inline,     \* the inits and refreshes that an MCP socket runs in its loop
          NoTask,     \* no task
          MaxResets   \* bound: transports re-established

Tasks == Inits \cup Calls \cup Refreshes
Ids == 1 .. 2 + Cardinality(Tasks)
NoReply == [kind |-> "none"]

ASSUME McpAssumption ==
    /\ IsFiniteSet(Tasks) /\ NoTask \notin Tasks /\ MaxResets \in Nat
    /\ Inits \cap Calls = {} /\ Inits \cap Refreshes = {} /\ Calls \cap Refreshes = {}
    /\ Inline \subseteq Inits \cup Refreshes

VARIABLES
    initState,  \* init_state
    pending,    \* id |-> the task whose sender is registered, or NoTask
    nextId,     \* next_request_id
    task,       \* where each task is, its request and the reply in its channel
    asked,      \* requests the device has not answered
    resets,     \* transports re-established so far
    mixed       \* a reset, or a refresh, fell into an initialisation

mcpVars == <<initState, pending, nextId, task, asked, resets, mixed>>

\* The request a task is about: its first or, in an initialisation, its second.
Request(t) == [of |-> t, step |-> task[t].step, id |-> task[t].id, era |-> task[t].era]

Running(t) == task[t].pc \notin {"idle", "done"}
SocketBusy == \E t \in Inline : Running(t)

McpInit ==
    /\ initState = "Idle" /\ nextId = 3
    /\ pending = [i \in Ids |-> NoTask]
    /\ task = [t \in Tasks |-> [pc |-> "idle", step |-> 1, id |-> 1, era |-> 0,
                                 got |-> NoReply]]
    /\ asked = {} /\ resets = 0 /\ mixed = FALSE

-----------------------------------------------------------------------------

\* An initialisation that failed has mark_failed ahead of it.
Failed(t) == IF t \in Inits THEN "failed" ELSE "done"

At(t, pc) == task[t].pc = pc
Goto(t, pc) == task' = [task EXCEPT ![t].pc = pc]

\* A sender that leaves the table unused closes the channel of its task.
Closing(tasks, u) ==
    [tasks EXCEPT ![u].got = IF tasks[u].got = NoReply THEN [kind |-> "closed"] ELSE @]
Drop(i, tasks) == IF pending[i] = NoTask THEN tasks ELSE Closing(tasks, pending[i])

\* A variant: a duplicate hello initialises again while the first one does.
BeginAnyInit(t) ==
    /\ t \in Inits /\ At(t, "idle") /\ (t \in Inline => ~ SocketBusy)
    /\ initState' = "InFlight"
    /\ task' = [task EXCEPT ![t].pc = "register", ![t].era = resets]
    /\ UNCHANGED <<pending, nextId, asked, resets, mixed>>

\* try_begin_init.  A socket asks first whether an initialisation is due.
BeginInit(t) ==
    /\ t \in Inits /\ At(t, "idle")
    /\ t \in Inline => ~ SocketBusy /\ initState = "Idle"
    /\ initState # "InFlight"
    /\ initState' = "InFlight"
    /\ task' = [task EXCEPT ![t].pc = "register", ![t].era = resets]
    /\ UNCHANGED <<pending, nextId, asked, resets, mixed>>

\* A hello while another initialisation is in flight starts none.
SkipInit(t) ==
    /\ t \in Inits /\ At(t, "idle")
    /\ t \in Inline => ~ SocketBusy
    /\ initState = "InFlight" \/ (t \in Inline /\ initState = "Ready")
    /\ Goto(t, "done")
    /\ UNCHANGED <<initState, pending, nextId, asked, resets, mixed>>

\* A variant: a refresh takes the number the next one will take again.
NumberedAgain(t, pc) ==
    /\ task' = [task EXCEPT ![t].pc = pc, ![t].id = nextId, ![t].era = resets]
    /\ UNCHANGED <<initState, pending, nextId, asked, resets, mixed>>

Numbered(t, pc) ==
    /\ nextId' = nextId + 1
    /\ task' = [task EXCEPT ![t].pc = pc, ![t].id = nextId, ![t].era = resets]
    /\ UNCHANGED <<initState, pending, asked, resets, mixed>>

\* execute_tool, invoke_tool_raw: the number is taken whether or not the runtime is
\* ready, which it may also be without the tool.
BeginCall(t) ==
    /\ t \in Calls /\ At(t, "idle")
    /\ \/ initState = "Ready" /\ Numbered(t, "register")
       \/ Numbered(t, "done")

\* schedule_tools_refresh after notifications/tools/list_changed.
BeginRefresh(t) ==
    /\ t \in Refreshes /\ At(t, "idle") /\ (t \in Inline => ~ SocketBusy)
    /\ Numbered(t, "register")

\* A request is registered, which cuts off one with the same id that still waits,
\* and sent; that no endpoint took it shows at once.
Register(t) ==
    /\ At(t, "register")
    /\ pending' = [pending EXCEPT ![task[t].id] = t]
    /\ \/ /\ asked' = asked \cup {Request(t)}
          /\ task' = Drop(task[t].id, [task EXCEPT ![t].pc = "wait", ![t].got = NoReply])
       \/ /\ task' = Drop(task[t].id, [task EXCEPT ![t].pc = "remove", ![t].got = NoReply])
          /\ UNCHANGED asked
    /\ UNCHANGED <<initState, nextId, resets, mixed>>

\* A variant: only tool calls are timed.
ExpiresInCalls(t) ==
    /\ t \in Calls /\ At(t, "wait") /\ task[t].got = NoReply
    /\ Goto(t, "remove")
    /\ UNCHANGED <<initState, pending, nextId, asked, resets, mixed>>

\* The timer of 15 seconds rings before there is an answer: the entry of that id
\* is removed, after the lock was awaited.
Expires(t) ==
    /\ At(t, "wait") /\ task[t].got = NoReply
    /\ Goto(t, "remove")
    /\ UNCHANGED <<initState, pending, nextId, asked, resets, mixed>>

\* A variant: the entry is left behind.
RemoveNothing(t) ==
    /\ At(t, "remove")
    /\ task' = [task EXCEPT ![t].pc = Failed(t), ![t].got = [kind |-> "gone"]]
    /\ UNCHANGED <<initState, pending, nextId, asked, resets, mixed>>

Remove(t) ==
    /\ At(t, "remove")
    /\ pending' = [pending EXCEPT ![task[t].id] = NoTask]
    /\ task' = Drop(task[t].id, [task EXCEPT ![t].pc = Failed(t), ![t].got = [kind |-> "gone"]])
    /\ UNCHANGED <<initState, nextId, asked, resets, mixed>>

\* A variant: the entry stays in the table.
DeliverKept(r, kind) ==
    /\ IF pending[r.id] = NoTask THEN UNCHANGED task
       ELSE task' = [task EXCEPT ![pending[r.id]].got =
                        IF task[pending[r.id]].pc = "failed" THEN @ ELSE [kind |-> kind, req |-> r]]
    /\ UNCHANGED pending

\* The answer goes to whoever is registered under its id, and the entry with it;
\* nobody hears it in a task that no longer listens.
Deliver(r, kind) ==
    /\ pending' = [pending EXCEPT ![r.id] = NoTask]
    /\ IF pending[r.id] = NoTask THEN UNCHANGED task
       ELSE task' = [task EXCEPT ![pending[r.id]].got =
                        IF @ = NoReply THEN [kind |-> kind, req |-> r] ELSE @]

\* handle_inbound of an answer, with a result or an error.
Answered(r) ==
    /\ r \in asked /\ asked' = asked \ {r}
    /\ r.of \in Inline => ~ SocketBusy
    /\ \E kind \in {"result", "error"} : Deliver(r, kind)
    /\ UNCHANGED <<initState, nextId, resets, mixed>>

Heard(t, kinds) == At(t, "wait") /\ task[t].got.kind \in kinds

\* The initialised notification could not be sent, or it was: the tools are next.
FirstDone(t) ==
    /\ t \in Inits /\ task[t].step = 1 /\ Heard(t, {"result"})
    /\ \/ task' = [task EXCEPT ![t].pc = "register", ![t].step = 2, ![t].id = 2,
                               ![t].got = NoReply]
       \/ Goto(t, "failed")
    /\ UNCHANGED <<initState, pending, nextId, asked, resets, mixed>>

\* mark_ready.
SecondDone(t) ==
    /\ t \in Inits /\ task[t].step = 2 /\ Heard(t, {"result"})
    /\ initState' = "Ready"
    /\ Goto(t, "done")
    /\ UNCHANGED <<pending, nextId, asked, resets, mixed>>

\* update_tools: the runtime is ready, whatever it was.
RefreshDone(t) ==
    /\ t \in Refreshes /\ Heard(t, {"result"})
    /\ initState' = "Ready"
    /\ mixed' = (mixed \/ initState = "InFlight")
    /\ Goto(t, "done")
    /\ UNCHANGED <<pending, nextId, asked, resets>>

CallDone(t) ==
    /\ t \in Calls /\ Heard(t, {"result"})
    /\ Goto(t, "done")
    /\ UNCHANGED <<initState, pending, nextId, asked, resets, mixed>>

Refused(t) ==
    /\ Heard(t, {"error", "closed"})
    /\ Goto(t, Failed(t))
    /\ UNCHANGED <<initState, pending, nextId, asked, resets, mixed>>

\* mark_failed.
GiveUp(t) ==
    /\ At(t, "failed")
    /\ initState' = "Idle"
    /\ Goto(t, "done")
    /\ UNCHANGED <<pending, nextId, asked, resets, mixed>>

\* reset_on_transport_ready: the numbers start over, the table stays.
TransportReady ==
    /\ resets < MaxResets /\ resets' = resets + 1
    /\ mixed' = (mixed \/ initState = "InFlight")
    /\ initState' = "Idle" /\ nextId' = 3
    /\ UNCHANGED <<pending, task, asked>>

SendAndWait(t) == Register(t) \/ Expires(t) \/ Remove(t)
Outcome(t) == FirstDone(t) \/ SecondDone(t) \/ RefreshDone(t) \/ CallDone(t) \/ Refused(t) \/ GiveUp(t)

McpNext ==
    \/ \E t \in Tasks : BeginInit(t) \/ SkipInit(t) \/ BeginCall(t) \/ BeginRefresh(t)
    \/ \E t \in Tasks : SendAndWait(t) \/ Outcome(t)
    \/ \E r \in asked : Answered(r)
    \/ TransportReady

\* Tokio polls a task that can go on, and its timer rings.
McpProgress(t) == SendAndWait(t) \/ Outcome(t)

McpSpec == McpInit /\ [][McpNext]_mcpVars /\ \A t \in Tasks : WF_mcpVars(McpProgress(t))

-----------------------------------------------------------------------------

McpTypeOK ==
    /\ initState \in {"Idle", "InFlight", "Ready"}
    /\ pending \in [Ids -> Tasks \cup {NoTask}]
    /\ nextId \in Ids \cup {3 + Cardinality(Tasks)}
    /\ \A t \in Tasks :
        /\ task[t].pc \in {"idle", "register", "wait", "remove", "failed", "done"}
        /\ task[t].step \in {1, 2} /\ task[t].id \in Ids /\ task[t].era \in 0 .. MaxResets
        /\ task[t].got.kind \in {"none", "closed", "gone", "result", "error"}
    /\ \A r \in asked : r.of \in Tasks /\ r.id \in Ids
    /\ resets \in 0 .. MaxResets /\ mixed \in BOOLEAN

\* The table leaks nothing: an entry belongs to a task that waits under that
\* number, or is about to remove it.  Time-outs, failed sends and requests that
\* took the number over leave no entry of a task that is gone, which a later
\* answer, or a later request with the number, would meet.
EntryIsLive ==
    \A i \in Ids : pending[i] # NoTask =>
        task[pending[i]].id = i /\ task[pending[i]].pc \in {"wait", "remove"}

\* A task takes the answer to another request for its own only where a number
\* is used twice: the two fixed numbers of an initialisation, whose answer may
\* come after it gave up, and the numbers that start over with a transport.
\* The tools' results never cross on one transport.
OwnAnswer ==
    \A t \in Tasks : task[t].got.kind \in {"result", "error"} =>
        LET r == task[t].got.req
        IN  r = Request(t) \/ task[t].id < 3 \/ r.era # task[t].era

\* The comment of try_begin_init (device_mcp.rs:60) says that duplicate hellos do
\* not initialise twice at once.  It holds unless the transport was re-established,
\* or a refresh made the runtime ready, while an initialisation was in flight.
OneInitUnlessMixed == mixed \/ Cardinality({t \in Inits : Running(t)}) <= 1

\* Whoever waits for the device ends: an answer, the loss of its entry, a failed
\* send or the timer lets it go on.  In a socket that runs the task in its own
\* loop, and so never reads the answer, only the timer does.  (Each task begins
\* once, so all of them end when from some moment on none runs.)
McpTasksEnd == <>[](\A t \in Tasks : ~ Running(t))

-----------------------------------------------------------------------------
\* What the runtime promises: the table of RequestTable, whose requests are the
\* requests of each task.

Requests == Tasks \X {1, 2}

Unasked(t) == task[t].pc \in {"idle", "register"} \/ (At(t, "done") /\ task[t].got = NoReply)

McpOutcome(t, step) ==
    CASE step < task[t].step -> "answered"
      [] step > task[t].step -> "new"
      [] step = task[t].step ->
            IF Unasked(t) THEN "new"
            ELSE IF At(t, "remove") \/ task[t].got.kind \in {"gone", "closed"} THEN "failed"
            ELSE IF task[t].got = NoReply THEN "open" ELSE "answered"

Table == INSTANCE RequestTable WITH
             Numbers <- Ids,
             Nobody <- <<NoTask, 1>>,
             outcome <- [r \in Requests |-> McpOutcome(r[1], r[2])],
             holder <- [i \in Ids |-> IF pending[i] = NoTask THEN <<NoTask, 1>>
                                      ELSE <<pending[i], task[pending[i]].step>>]

\* The table of device_mcp.rs is one: no answer is given to two requests, and no
\* decided request is decided again.
McpIsTable == Table!TableSpec
=============================================================================
