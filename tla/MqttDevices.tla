---------------------------- MODULE MqttDevices ----------------------------
(***************************************************************************)
(* The MQTT+UDP transport of one device.  Each message from the broker is  *)
(* handled by a task of its own, so that handlers overlap; a transport is  *)
(* an entry of the devices map, the hardware endpoint of a chat manager    *)
(* and an outbound loop, which hang together by the channel whose sender   *)
(* the first two hold.  Transports are destroyed by device id, from four   *)
(* places: an outbound loop that ends, the grace period after an offline   *)
(* event, the idle checker, and each after the others.                     *)
(*                                                                         *)
(* Transports, chat managers and UDP connections are numbered as they are  *)
(* made; 0 is none.  No web endpoint shares the hub.                       *)
(***************************************************************************)
EXTENDS Integers, FiniteSets

CONSTANTS Handlers,      \* tasks that handle messages
          MaxMessages,   \* bound: messages of the device and the broker
          MaxTransports  \* bound: transports, chat managers and UDP connections made

ASSUME MqttAssumption == MaxMessages \in Nat /\ MaxTransports \in Nat \ {0}

Transports == 1 .. MaxTransports
Events == 1 .. MaxMessages
Checker == 0

VARIABLES
    handler,   \* [pc, kind, mgr, tr]
    entry,     \* devices: [tr, mgr, udp, online]
    endpoint,  \* hardware endpoint of each manager's hub: a transport or 0
    registry,  \* the chat manager of the device, or 0
    made,      \* what was made: [tr, mgr, conn]
    outLoop,   \* outbound loop of each transport
    conns,     \* connections of the device that are not stale
    destroy,   \* destroy_device_transport, per caller: [pc, mgr]
    sweep,     \* the clean-up scheduled by an offline event: [pc, version]; over: aborted, or let go
    life,      \* LifecycleState: [online, last, version, handle]
    messages,  \* messages handled
    overlapped \* a handler overlapped another or a destruction, or the loop of an
               \* earlier transport destroyed a later one

mqttVars == <<handler, entry, endpoint, registry, made, outLoop, conns, destroy, sweep, life,
              messages, overlapped>>

\* Who destroys: a loop is named by its transport, a sweep by its event, negated.
Destroyers == Transports \cup {Checker} \cup {0 - e : e \in Events}

NoEntry == [tr |-> 0, mgr |-> 0, udp |-> 0, online |-> FALSE]
Idle == [pc |-> "idle", kind |-> "message", mgr |-> 0, tr |-> 0]

MqttInit ==
    /\ handler = [h \in Handlers |-> Idle]
    /\ entry = NoEntry /\ endpoint = [m \in Transports |-> 0] /\ registry = 0
    /\ made = [tr |-> 0, mgr |-> 0, conn |-> 0]
    /\ outLoop = [k \in Transports |-> "none"] /\ conns = {}
    /\ destroy = [d \in Destroyers |-> [pc |-> "no", mgr |-> 0]]
    /\ sweep = [e \in Events |-> [pc |-> "none", version |-> 0]]
    /\ life = [online |-> FALSE, last |-> 0, version |-> 0, handle |-> 0]
    /\ messages = 0 /\ overlapped = FALSE

Handling == \E h \in Handlers : handler[h].pc # "idle"
Destroying == \E d \in Destroyers : destroy[d].pc # "no"

-----------------------------------------------------------------------------
(* Lifecycle: mark_device_online, mark_device_offline                      *)

\* An event is older than the last one.
Older(ts) == life.last > 0 /\ ts < life.last

\* cancel_lifecycle_cleanup aborts the task whose handle is held.
Aborted(e) == IF e = 0 THEN sweep ELSE [sweep EXCEPT ![e] = [pc |-> "over", version |-> 0]]

\* A message or an online event.  Its time is its number; a message of the device is
\* dated when it is handled.
Receive(h) ==
    /\ handler[h].pc = "idle" /\ messages < MaxMessages
    /\ messages' = messages + 1
    /\ overlapped' = (overlapped \/ Handling \/ Destroying)
    /\ \E kind \in {"message", "hello", "online", "wake"}, ts \in 1 .. messages + 1 :
         /\ kind # "online" => ts = messages + 1
         /\ handler' = [handler EXCEPT ![h] = [Idle EXCEPT !.pc = "manager", !.kind = kind]]
         /\ IF kind = "wake" \/ Older(ts) THEN UNCHANGED <<life, sweep>>
            ELSE /\ life' = [online |-> TRUE, last |-> ts, version |-> life.version + 1,
                             handle |-> IF kind = "online" /\ ~ life.online THEN 0
                                        ELSE life.handle]
                 /\ sweep' = IF kind = "online" /\ ~ life.online
                             THEN Aborted(life.handle) ELSE sweep
    /\ UNCHANGED <<destroy, entry, endpoint, registry, made, outLoop, conns>>

\* An offline event schedules the destruction after the grace period.
Offline(e) ==
    /\ e = messages + 1 /\ messages' = e
    /\ \E ts \in 1 .. e :
         IF Older(ts) THEN UNCHANGED <<life, sweep, entry>>
         ELSE /\ life' = [online |-> FALSE, last |-> ts, version |-> life.version + 1,
                          handle |-> e]
              /\ sweep' = [Aborted(life.handle) EXCEPT
                               ![e] = [pc |-> "sleep", version |-> life.version + 1]]
              /\ entry' = IF entry.tr = 0 THEN entry ELSE [entry EXCEPT !.online = FALSE]
    /\ UNCHANGED <<handler, endpoint, registry, made, outLoop, conns, destroy, overlapped>>

\* A variant: the sweep trusts its handle to be aborted.
SweepsAnyway(e) == TRUE

\* The grace period is over; the sweep is the last word on the device.
SweepHolds(e) == ~ life.online /\ life.version = sweep[e].version

Sweep(e) ==
    /\ sweep[e].pc = "sleep"
    /\ sweep' = [sweep EXCEPT ![e] = [pc |-> IF SweepHolds(e) THEN "destroys" ELSE "over",
                                      version |-> 0]]
    /\ destroy' = [destroy EXCEPT ![0 - e].pc = IF SweepHolds(e) THEN "remove" ELSE @]
    /\ overlapped' = (overlapped \/ (SweepHolds(e) /\ Handling))
    /\ UNCHANGED <<handler, entry, endpoint, registry, made, outLoop, conns, life, messages>>

-----------------------------------------------------------------------------
(* handle_device_message, prepare_hardware_wake                            *)

HandlerAt(h, at) == handler' = [handler EXCEPT ![h].pc = at]
HandlerMarks(h) == handler' = [handler EXCEPT ![h] = [@ EXCEPT !.pc = "mark", !.mgr = 0, !.tr = 0]]
HandlerOnly == UNCHANGED <<destroy, sweep, life, messages, overlapped>>

\* ensure_chat_manager: a manager that is not registered is made, then inserted.
FindManager(h) ==
    /\ handler[h].pc = "manager"
    /\ IF registry # 0
       THEN /\ handler' = [handler EXCEPT ![h].pc = "ensure", ![h].mgr = registry]
            /\ UNCHANGED made
       ELSE /\ made.mgr < MaxTransports
            /\ made' = [made EXCEPT !.mgr = @ + 1]
            /\ handler' = [handler EXCEPT ![h].pc = "insert_manager", ![h].mgr = made.mgr + 1]
    /\ UNCHANGED <<entry, endpoint, registry, outLoop, conns>> /\ HandlerOnly

InsertManager(h) ==
    /\ handler[h].pc = "insert_manager" /\ HandlerAt(h, "ensure")
    /\ registry' = handler[h].mgr
    /\ UNCHANGED <<entry, endpoint, made, outLoop, conns>> /\ HandlerOnly

\* ensure_device_session: an entry is enough; else the endpoint is registered, the loop
\* spawned, and the entry inserted last.
EnsureSession(h) ==
    /\ handler[h].pc = "ensure"
    /\ IF entry.tr # 0
       THEN HandlerMarks(h) /\ UNCHANGED <<made, endpoint, outLoop>>
       ELSE /\ made.tr < MaxTransports
            /\ made' = [made EXCEPT !.tr = @ + 1]
            /\ handler' = [handler EXCEPT ![h].pc = "insert", ![h].tr = made.tr + 1]
            /\ endpoint' = [endpoint EXCEPT ![handler[h].mgr] = made.tr + 1]
            /\ outLoop' = [outLoop EXCEPT ![made.tr + 1] = "run"]
    /\ UNCHANGED <<entry, registry, conns>> /\ HandlerOnly

InsertSession(h) ==
    /\ handler[h].pc = "insert" /\ HandlerMarks(h)
    /\ entry' = [tr |-> handler[h].tr, mgr |-> handler[h].mgr, udp |-> 0, online |-> TRUE]
    /\ UNCHANGED <<endpoint, registry, made, outLoop, conns>> /\ HandlerOnly

\* A message marks the entry online; a hello goes on to rotate the UDP session.
MarkOnline(h) ==
    /\ handler[h].pc = "mark"
    /\ entry' = IF entry.tr = 0 \/ handler[h].kind = "wake" THEN entry
                ELSE [entry EXCEPT !.online = TRUE]
    /\ handler' = [handler EXCEPT ![h] = IF handler[h].kind = "hello"
                                         THEN [@ EXCEPT !.pc = "rotate"] ELSE Idle]
    /\ UNCHANGED <<endpoint, registry, made, outLoop, conns>> /\ HandlerOnly

\* A variant: the connections of the last hello are kept.
KeepConns(h) ==
    /\ handler[h].pc = "rotate" /\ HandlerAt(h, "renew")
    /\ UNCHANGED <<entry, endpoint, registry, made, outLoop, conns>> /\ HandlerOnly

\* rotate_udp_session: the old connections are marked stale, ...
MarkStale(h) ==
    /\ handler[h].pc = "rotate" /\ HandlerAt(h, "renew")
    /\ conns' = {}
    /\ UNCHANGED <<entry, endpoint, registry, made, outLoop>> /\ HandlerOnly

\* ... a new one is inserted and noted in the entry.
NewConn(h) ==
    /\ handler[h].pc = "renew" /\ made.conn < MaxTransports
    /\ made' = [made EXCEPT !.conn = @ + 1]
    /\ conns' = conns \cup {made.conn + 1}
    /\ entry' = IF entry.tr = 0 THEN entry ELSE [entry EXCEPT !.udp = made.conn + 1]
    /\ handler' = [handler EXCEPT ![h] = Idle]
    /\ UNCHANGED <<endpoint, registry, outLoop>> /\ HandlerOnly

-----------------------------------------------------------------------------
(* destroy_device_transport                                                *)

StartDestroy(d) ==
    /\ destroy[d].pc = "no"
    /\ destroy' = [destroy EXCEPT ![d] = [pc |-> "remove", mgr |-> 0]]
    /\ overlapped' = (overlapped \/ Handling \/ (d # Checker /\ entry.tr \notin {0, d}))

\* The last sender is gone, or the MQTT client was away when a command came.
LoopEnds(k) ==
    /\ outLoop[k] = "run"
    /\ outLoop' = [outLoop EXCEPT ![k] = IF entry.tr = k THEN "failed" ELSE "ended"]
    /\ StartDestroy(k)
    /\ UNCHANGED <<handler, entry, endpoint, registry, made, conns, sweep, life, messages>>

\* spawn_transport_active_checker: an entry that is offline and idle.
CheckIdle ==
    /\ entry.tr # 0 /\ ~ entry.online
    /\ StartDestroy(Checker)
    /\ UNCHANGED <<handler, entry, endpoint, registry, made, outLoop, conns, sweep, life, messages>>

DestroyOnly == UNCHANGED <<handler, made, outLoop, sweep, life, messages, overlapped>>

RemoveEntry(d) ==
    /\ destroy[d].pc = "remove"
    /\ destroy' = [destroy EXCEPT ![d] = IF entry.tr = 0 THEN [pc |-> "clean", mgr |-> 0]
                                         ELSE [pc |-> "unregister", mgr |-> entry.mgr]]
    /\ entry' = NoEntry
    /\ UNCHANGED <<endpoint, registry, conns>> /\ DestroyOnly

\* The endpoint goes by its name, whichever transport it belongs to.
Unregister(d) ==
    /\ destroy[d].pc = "unregister"
    /\ endpoint' = [endpoint EXCEPT ![destroy[d].mgr] = 0]
    /\ destroy' = [destroy EXCEPT ![d].pc = "shutdown"]
    /\ UNCHANGED <<entry, registry, conns>> /\ DestroyOnly

\* The hub is empty: the device's manager is removed and shut down.
Shutdown(d) ==
    /\ destroy[d].pc = "shutdown"
    /\ registry' = 0
    /\ destroy' = [destroy EXCEPT ![d].pc = "clean"]
    /\ UNCHANGED <<entry, endpoint, conns>> /\ DestroyOnly

\* cleanup_device_session; a sweep that was aborted does not come back from the shutdown.
CleanUp(d) ==
    /\ destroy[d].pc = "clean"
    /\ \/ entry' = NoEntry /\ conns' = {}
       \/ /\ d < 0 /\ sweep[0 - d].pc = "over" /\ destroy[d].mgr # 0
          /\ UNCHANGED <<entry, conns>>
    /\ destroy' = [destroy EXCEPT ![d] = [pc |-> "no", mgr |-> 0]]
    /\ UNCHANGED <<endpoint, registry>> /\ DestroyOnly

-----------------------------------------------------------------------------

HandlerStep(h) ==
    \/ Receive(h) \/ FindManager(h) \/ InsertManager(h) \/ EnsureSession(h)
    \/ InsertSession(h) \/ MarkOnline(h) \/ MarkStale(h) \/ NewConn(h)

DestroyStep(d) == RemoveEntry(d) \/ Unregister(d) \/ Shutdown(d) \/ CleanUp(d)

MqttNext ==
    \/ \E h \in Handlers : HandlerStep(h)
    \/ \E e \in Events : Offline(e) \/ Sweep(e)
    \/ \E k \in Transports : LoopEnds(k)
    \/ CheckIdle
    \/ \E d \in Destroyers : DestroyStep(d)

MqttSpec == MqttInit /\ [][MqttNext]_mqttVars

-----------------------------------------------------------------------------

MqttTypeOK ==
    /\ handler \in [Handlers -> [pc : {"idle", "manager", "insert_manager", "ensure", "insert",
                                       "mark", "rotate", "renew"},
                                 kind : {"message", "hello", "online", "wake"},
                                 mgr : 0 .. MaxTransports, tr : 0 .. MaxTransports]]
    /\ entry \in [tr : 0 .. MaxTransports, mgr : 0 .. MaxTransports, udp : 0 .. MaxTransports,
                  online : BOOLEAN]
    /\ endpoint \in [Transports -> 0 .. MaxTransports] /\ registry \in 0 .. MaxTransports
    /\ made \in [tr : 0 .. MaxTransports, mgr : 0 .. MaxTransports, conn : 0 .. MaxTransports]
    /\ outLoop \in [Transports -> {"none", "run", "ended", "failed"}] /\ conns \subseteq Transports
    /\ destroy \in [Destroyers -> [pc : {"no", "remove", "unregister", "shutdown", "clean"},
                                   mgr : 0 .. MaxTransports]]
    /\ sweep \in [Events -> [pc : {"none", "sleep", "destroys", "over"},
                             version : 0 .. MaxMessages]]
    /\ life \in [online : BOOLEAN, last : 0 .. MaxMessages, version : 0 .. MaxMessages,
                 handle : 0 .. MaxMessages]
    /\ messages \in 0 .. MaxMessages /\ overlapped \in BOOLEAN

Quiet == ~ Handling /\ ~ Destroying

Whole == IF entry.tr = 0 THEN \A m \in Transports : endpoint[m] = 0
         ELSE /\ registry = entry.mgr /\ endpoint[registry] = entry.tr
              /\ outLoop[entry.tr] = "run"
              /\ entry.udp # 0 => conns = {entry.udp}

\* Unless handlers overlapped one another or a destruction, and unless a loop outlived its
\* transport, the device is whole whenever nothing is under way: its entry, the endpoint of
\* its registered manager and the running loop are the same transport, and its UDP session
\* is the one active connection.
QuietDeviceIsWhole == Quiet /\ ~ overlapped => Whole

\* Under the same condition a device last heard of as online keeps its transport: the
\* sweep of an earlier offline event spares it, unless its own outbound loop failed.
OnlineHasTransport ==
    Quiet /\ ~ overlapped /\ life.online
        => entry.tr # 0 \/ \E k \in Transports : outLoop[k] = "failed"
=============================================================================
