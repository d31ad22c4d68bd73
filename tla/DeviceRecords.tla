---------------------------- MODULE DeviceRecords ----------------------------
(***************************************************************************)
(* The console's record of one device, by its MAC: how it comes to be,     *)
(* whom it belongs to, which agent answers on it.  Every method of the     *)
(* database locks the connection once, so that a request of several        *)
(* methods looks at the row in one step and writes it in a later one, by   *)
(* its id.  Rows are numbered, as AUTOINCREMENT does; the activation code  *)
(* of a row goes by its id, and 0 is no row.  Foreign keys are enforced.   *)
(* A MAC is spelt one way, and no update renames a device.                 *)
(*                                                                         *)
(* Authentication of devices is on (auth.enable).  A request that is       *)
(* refused when it looks changes nothing and is left out.                  *)
(***************************************************************************)
EXTENDS Integers, FiniteSets

CONSTANTS Owners,    \* accounts
          Agents,    \* agents that accounts may own
          Requests,  \* requests to the console that overlap
          Nobody,    \* no owner, no agent
          MaxRows    \* bound: rows made for the device

ASSUME DeviceRecordsAssumption == MaxRows \in Nat \ {0} /\ Nobody \notin Owners \cup Agents

VARIABLES
    accounts, \* users
    agentOf,  \* agents: the owner of each, or Nobody
    dev,      \* devices: [id, user, active, agent, client]
    issued,   \* rows made
    desk      \* what a request is about to write: [pc, id, user, agent, saw]

recordVars == <<accounts, agentOf, dev, issued, desk>>

NoDevice == [id |-> 0, user |-> Nobody, active |-> FALSE, agent |-> Nobody, client |-> "own"]
Away == [pc |-> "away", id |-> 0, user |-> Nobody, agent |-> Nobody, saw |-> Nobody]

RecordInit ==
    /\ accounts = Owners /\ agentOf = [a \in Agents |-> Nobody]
    /\ dev = NoDevice /\ issued = 0
    /\ desk = [q \in Requests |-> Away]

Living(a) == a # Nobody => agentOf[a] # Nobody
Answered(q) == desk' = [desk EXCEPT ![q] = Away]
Writes(q, pc, u, a) ==
    /\ desk[q] = Away
    /\ desk' = [desk EXCEPT ![q] = [pc |-> pc, id |-> dev.id, user |-> u, agent |-> a,
                                    saw |-> dev.user]]
    /\ UNCHANGED <<accounts, agentOf, dev, issued>>
TableIs == UNCHANGED <<accounts, agentOf, issued>>

-----------------------------------------------------------------------------
(* Looking                                                                 *)

\* A variant: whoever knows the code.
ForAnyone(u) == TRUE

\* A device of somebody else is refused; one's own is returned as it is, or bound again.
MayTake(u) == dev.user \in {Nobody, u}

\* claim, create, admin_create: the row is found by its code or MAC.
Claims(q, u) ==
    /\ dev.id # 0 /\ MayTake(u) /\ dev.user # u /\ u \in accounts
    /\ \E a \in Agents \cup {Nobody} : Living(a) /\ Writes(q, "assign", u, a)

\* add_device_to_agent, for an agent of the account.
BindsToAgent(q, u) ==
    /\ dev.id # 0 /\ MayTake(u)
    /\ \E a \in Agents : agentOf[a] = u /\ Writes(q, "assign", u, a)

\* The MAC is not known yet.
CreatesBound(q, u) ==
    /\ dev.id = 0 /\ u \in accounts
    /\ \E a \in Agents \cup {Nobody} : Living(a) /\ Writes(q, "insert", u, a)

\* device_activation: the device asks for its code for the first time.
AsksForCode(q) == dev.id = 0 /\ Writes(q, "insert", Nobody, Nobody)

\* admin_update of a device nobody owns yet, with an owner.
AdminAssigns(q, u) ==
    /\ dev.id # 0 /\ dev.user = Nobody
    /\ \E a \in Agents \cup {Nobody} : Writes(q, "assign", u, a)

AdminErases(q) == dev.id # 0 /\ Writes(q, "erase", Nobody, Nobody)

-----------------------------------------------------------------------------
(* Writing                                                                 *)

\* A variant: the device is left to activate itself.
TakenLater(u, a) == [dev EXCEPT !.user = u, !.agent = a]

Taken(u, a) == [dev EXCEPT !.user = u, !.agent = a, !.active = TRUE]

\* assign_device_to_user: UPDATE ... WHERE id, whoever owns the row by now.
Assign(q) ==
    LET r == desk[q]
    IN  /\ r.pc = "assign" /\ Answered(q) /\ TableIs
        /\ dev' = IF dev.id = r.id /\ r.user \in accounts /\ Living(r.agent)
                  THEN Taken(r.user, r.agent) ELSE dev

\* The MAC is unique; a row without an owner is inserted pending.
Insert(q) ==
    LET r == desk[q]
        u == r.user
        fits == dev.id = 0 /\ u \in accounts \cup {Nobody} /\ Living(r.agent)
    IN  /\ r.pc = "insert" /\ Answered(q) /\ UNCHANGED <<accounts, agentOf>>
        /\ fits => issued < MaxRows
        /\ issued' = IF fits THEN issued + 1 ELSE issued
        /\ dev' = IF fits THEN [id |-> issued + 1, user |-> u, active |-> u # Nobody,
                               agent |-> r.agent, client |-> "own"]
                  ELSE dev

\* delete_device_by_id: of the owner that was seen; without one, by id alone.
Erase(q) ==
    LET r == desk[q]
    IN  /\ r.pc = "erase" /\ Answered(q) /\ TableIs
        /\ dev' = IF dev.id = r.id /\ r.saw \in {Nobody, dev.user} THEN NoDevice ELSE dev

-----------------------------------------------------------------------------
(* Single steps                                                            *)

DeskIs == UNCHANGED desk

\* update, bind_device_to_agent, unbind_device_from_agent: WHERE user_id; admin_update of a
\* pending device: WHERE user_id IS NULL.
SetAgent(a) ==
    /\ dev.id # 0 /\ Living(a)
    /\ dev' = [dev EXCEPT !.agent = a]
    /\ TableIs /\ DeskIs

Deletes == dev.user # Nobody /\ dev' = NoDevice /\ TableIs /\ DeskIs

\* is_device_activated, asked by the OTA request with the client's id, by the chat manager
\* with the word "client_id"; the row of an activated device takes either.
SyncClient(client) ==
    /\ dev.active /\ dev' = [dev EXCEPT !.client = client]
    /\ TableIs /\ DeskIs

CreateAgent(a, u) ==
    /\ agentOf[a] = Nobody /\ u \in accounts
    /\ agentOf' = [agentOf EXCEPT ![a] = u]
    /\ UNCHANGED <<accounts, dev, issued>> /\ DeskIs

\* ON DELETE SET NULL
DeleteAgent(a) ==
    /\ agentOf[a] # Nobody
    /\ agentOf' = [agentOf EXCEPT ![a] = Nobody]
    /\ dev' = IF dev.agent = a THEN [dev EXCEPT !.agent = Nobody] ELSE dev
    /\ UNCHANGED <<accounts, issued>> /\ DeskIs

\* ON DELETE CASCADE: the account takes its agents and its devices with it.
DeleteUser(u) ==
    /\ u \in accounts /\ accounts' = accounts \ {u}
    /\ agentOf' = [a \in Agents |-> IF agentOf[a] = u THEN Nobody ELSE agentOf[a]]
    /\ dev' = IF dev.user = u THEN NoDevice
              ELSE IF dev.agent # Nobody /\ agentOf[dev.agent] = u
                   THEN [dev EXCEPT !.agent = Nobody] ELSE dev
    /\ UNCHANGED issued /\ DeskIs

RecordNext ==
    \/ \E q \in Requests :
         \/ \E u \in Owners : Claims(q, u) \/ BindsToAgent(q, u) \/ CreatesBound(q, u)
                              \/ AdminAssigns(q, u)
         \/ AsksForCode(q) \/ AdminErases(q)
         \/ Assign(q) \/ Insert(q) \/ Erase(q)
    \/ \E a \in Agents \cup {Nobody} : SetAgent(a)
    \/ Deletes
    \/ \E client \in {"own", "word"} : SyncClient(client)
    \/ \E a \in Agents, u \in Owners : CreateAgent(a, u)
    \/ \E a \in Agents : DeleteAgent(a)
    \/ \E u \in Owners : DeleteUser(u)

RecordSpec == RecordInit /\ [][RecordNext]_recordVars

-----------------------------------------------------------------------------

RecordTypeOK ==
    /\ accounts \subseteq Owners /\ agentOf \in [Agents -> Owners \cup {Nobody}]
    /\ dev \in [id : 0 .. MaxRows, user : Owners \cup {Nobody}, active : BOOLEAN,
                agent : Agents \cup {Nobody}, client : {"own", "word"}]
    /\ issued \in 0 .. MaxRows
    /\ desk \in [Requests -> [pc : {"away", "assign", "insert", "erase"}, id : 0 .. MaxRows,
                              user : Owners \cup {Nobody}, agent : Agents \cup {Nobody},
                              saw : Owners \cup {Nobody}]]

\* However requests overlap and accounts and agents go, a device is activated exactly when
\* somebody who still exists owns it, and its agent exists.  So the branches of
\* device_activate that compare a code or a challenge are reached by no row made here, and
\* every device it finds not activated is answered "not bound yet".
ActiveMeansOwned ==
    /\ dev.active <=> dev.user # Nobody
    /\ dev.user \in accounts \cup {Nobody}
    /\ Living(dev.agent)

\* The request that writes in this step.
Writer(q) == desk[q].pc \in {"assign", "erase"} /\ desk'[q] = Away

\* A device that has an owner changes hands, or goes, only with its owner's account, by its
\* owner's deletion, or by a request that looked at it before: one that saw it pending or
\* its own, as an assignment does not look again, or an administrator's that saw this owner.
\* Nobody takes a device he has seen somebody else own.
OwnerIsKept ==
    [][ dev.user # Nobody /\ dev'.user # dev.user
          => \/ dev.user \notin accounts'
             \/ desk' = desk /\ dev' = NoDevice
             \/ \E q \in Requests :
                   /\ Writer(q) /\ desk[q].id = dev.id
                   /\ \/ dev' = NoDevice /\ desk[q].saw \in {Nobody, dev.user}
                      \/ dev'.user = desk[q].user /\ desk[q].saw \in {Nobody, dev'.user} ]_recordVars
=============================================================================
