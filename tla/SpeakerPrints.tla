---------------------------- MODULE SpeakerPrints ----------------------------
(***************************************************************************)
(* The voice prints of the console (handlers/speakers.rs,                  *)
(* speaker_client.rs): a speaker group belongs to an agent, its samples    *)
(* are rows of the database, files of the disk and prints of the voice     *)
(* server.  A request writes the three one after another, waits at each,   *)
(* and goes by the group it read first.                                    *)
(*                                                                         *)
(* One user is modelled, and deleting the user deletes the rows.  A sample *)
(* is named by the request that adds it; a file's content is the sample    *)
(* that wrote it last.  Names of groups and the audio are left out.        *)
(***************************************************************************)
EXTENDS Integers, FiniteSets

CONSTANTS Groups,     \* rows of speaker_groups, each created once
          Samples,    \* requests that add a sample
          FileNames,  \* what an uploaded file is called
          Spokesmen,  \* agents a group can belong to
          Erasers,    \* requests that delete
          MaxLost     \* bound: calls of the voice server that fail

\* The database numbers its rows from 1.
ASSUME PrintAssumption == MaxLost \in Nat /\ 0 \notin Groups \cup Samples \cup Spokesmen

NoSample == 0
NoGroup == [agent |-> 0, count |-> 0]

VARIABLES
    group,    \* each group: [agent, count]
    sampled,  \* rows of speaker_samples: [id, of, file]
    stored,   \* the disk: content of each <<group, file name>>
    prints,   \* the voice server: [of, id, agent]
    adding,   \* a request: [pc, of, file, agent]
    erasing,  \* a request: [pc, of, id, agent, files]
    lost,     \* failed calls
    blurred   \* groups that moved to another agent, were deleted while a request was on its way,
              \* or whose prints a failed call left behind

printVars == <<group, sampled, stored, prints, adding, erasing, lost, blurred>>

Unasked == [pc |-> "new", of |-> 0, file |-> 0, agent |-> 0]
Rested == [pc |-> "away", of |-> 0, id |-> 0, agent |-> 0, files |-> {}]

PrintInit ==
    /\ group = [g \in Groups |-> NoGroup] /\ sampled = {}
    /\ stored = [f \in Groups \X FileNames |-> NoSample] /\ prints = {}
    /\ adding = [s \in Samples |-> Unasked] /\ erasing = [e \in Erasers |-> Rested]
    /\ lost = 0 /\ blurred = {}

There(g) == group[g] # NoGroup
RowsOf(g) == {r \in sampled : r.of = g}

\* A call of the voice server; nobody is told when it fails.
Calls(P, g) ==
    \/ prints' = P /\ UNCHANGED <<lost, blurred>>
    \/ lost < MaxLost /\ lost' = lost + 1 /\ blurred' = blurred \cup {g} /\ UNCHANGED prints

OnItsWay(g) == \/ \E s \in Samples : adding[s].of = g /\ adding[s].pc \in {"write", "insert", "register"}
               \/ \E e \in Erasers : erasing[e].of = g

-----------------------------------------------------------------------------
\* Groups

CreateGroup(g, a) ==
    /\ ~ There(g) /\ g \notin blurred /\ \A s \in Samples : adding[s].of # g
    /\ group' = [group EXCEPT ![g] = [agent |-> a, count |-> 0]]
    /\ UNCHANGED <<sampled, stored, prints, adding, erasing, lost, blurred>>

\* The voice server is not told.
MoveGroup(g, a) ==
    /\ There(g) /\ group[g].agent # a
    /\ group' = [group EXCEPT ![g].agent = a]
    /\ blurred' = blurred \cup IF OnItsWay(g) \/ \E p \in prints : p.of = g THEN {g} ELSE {}
    /\ UNCHANGED <<sampled, stored, prints, adding, erasing, lost>>

\* The rows go with the user; files and prints stay.
DeletePrintUser ==
    /\ \E g \in Groups : There(g)
    /\ group' = [g \in Groups |-> NoGroup] /\ sampled' = {}
    /\ blurred' = blurred \cup {g \in Groups : There(g)}
    /\ UNCHANGED <<stored, prints, adding, erasing, lost>>

-----------------------------------------------------------------------------
\* add_sample

BeginAdd(s, g, f) ==
    /\ adding[s].pc = "new" /\ There(g)
    /\ adding' = [adding EXCEPT ![s] = [pc |-> "write", of |-> g, file |-> f, agent |-> group[g].agent]]
    /\ UNCHANGED <<group, sampled, stored, prints, erasing, lost, blurred>>

AddTo(s, pc) == adding' = [adding EXCEPT ![s].pc = pc]

\* The file is called as it was uploaded.
WriteFile(s) ==
    /\ adding[s].pc = "write" /\ AddTo(s, "insert")
    /\ stored' = [stored EXCEPT ![<<adding[s].of, adding[s].file>>] = s]
    /\ UNCHANGED <<group, sampled, prints, erasing, lost, blurred>>

\* The row and the count are one critical section; without its group the row is refused, and
\* the file stays.
InsertRow(s) ==
    LET g == adding[s].of IN
    /\ adding[s].pc = "insert"
    /\ IF There(g)
       THEN /\ AddTo(s, "register")
            /\ sampled' = sampled \cup {[id |-> s, of |-> g, file |-> adding[s].file]}
            /\ group' = [group EXCEPT ![g].count = @ + 1]
       ELSE AddTo(s, "done") /\ UNCHANGED <<group, sampled>>
    /\ UNCHANGED <<stored, prints, erasing, lost, blurred>>

Register(s) ==
    /\ adding[s].pc = "register" /\ AddTo(s, "done")
    /\ Calls(prints \cup {[of |-> adding[s].of, id |-> s, agent |-> adding[s].agent]}, adding[s].of)
    /\ UNCHANGED <<group, sampled, stored, erasing>>

-----------------------------------------------------------------------------
\* delete_sample: the print, the row, the file

EraseTo(e, pc) == erasing' = [erasing EXCEPT ![e] = IF pc = "away" THEN Rested ELSE [@ EXCEPT !.pc = pc]]

BeginErase(e, r) ==
    /\ erasing[e].pc = "away" /\ r \in sampled
    /\ erasing' = [erasing EXCEPT ![e] = [pc |-> "unregister", of |-> r.of, id |-> r.id,
                                          agent |-> group[r.of].agent, files |-> {r.file}]]
    /\ blurred' = blurred \cup IF adding[r.id].pc = "register" THEN {r.of} ELSE {}
    /\ UNCHANGED <<group, sampled, stored, prints, adding, lost>>

UnregisterPrint(e) ==
    /\ erasing[e].pc = "unregister" /\ EraseTo(e, "row")
    /\ Calls(prints \ {[of |-> erasing[e].of, id |-> erasing[e].id, agent |-> erasing[e].agent]}, erasing[e].of)
    /\ UNCHANGED <<group, sampled, stored, adding>>

\* A variant: the count is left.
DeleteRowOnly(e) ==
    LET gone == {r \in sampled : r.id = erasing[e].id /\ r.of = erasing[e].of} IN
    /\ erasing[e].pc = "row"
    /\ sampled' = sampled \ gone
    /\ EraseTo(e, IF gone # {} THEN "file" ELSE "away")
    /\ UNCHANGED <<group, stored, prints, adding, lost, blurred>>

\* The count never goes below nothing; a row that is gone is not found, and its file stays.
DeleteRow(e) ==
    LET g == erasing[e].of
        gone == {r \in sampled : r.id = erasing[e].id /\ r.of = g} IN
    /\ erasing[e].pc = "row"
    /\ sampled' = sampled \ gone
    /\ group' = IF gone # {} /\ group[g].count > 0 THEN [group EXCEPT ![g].count = @ - 1] ELSE group
    /\ EraseTo(e, IF gone # {} THEN "file" ELSE "away")
    /\ UNCHANGED <<stored, prints, adding, lost, blurred>>

RemoveFiles(e) ==
    stored' = [f \in DOMAIN stored |->
                 IF f[1] = erasing[e].of /\ f[2] \in erasing[e].files THEN NoSample ELSE stored[f]]

DeleteFile(e) ==
    /\ erasing[e].pc = "file" /\ EraseTo(e, "away") /\ RemoveFiles(e)
    /\ UNCHANGED <<group, sampled, prints, adding, lost, blurred>>

-----------------------------------------------------------------------------
\* delete of a group: its prints, the files of the samples it had, the row and with it theirs

BeginDeleteGroup(e, g) ==
    /\ erasing[e].pc = "away" /\ There(g)
    /\ erasing' = [erasing EXCEPT ![e] = [pc |-> "prints", of |-> g, id |-> NoSample, agent |-> group[g].agent,
                                          files |-> {r.file : r \in RowsOf(g)}]]
    /\ blurred' = blurred \cup IF OnItsWay(g) THEN {g} ELSE {}
    /\ UNCHANGED <<group, sampled, stored, prints, adding, lost>>

DeletePrints(e) ==
    /\ erasing[e].pc = "prints" /\ EraseTo(e, "files")
    /\ Calls({p \in prints : p.of # erasing[e].of \/ p.agent # erasing[e].agent}, erasing[e].of)
    /\ UNCHANGED <<group, sampled, stored, adding>>

DeleteFiles(e) ==
    /\ erasing[e].pc = "files" /\ EraseTo(e, "group") /\ RemoveFiles(e)
    /\ UNCHANGED <<group, sampled, prints, adding, lost, blurred>>

\* A request that came while the group was being deleted finds it gone under its hands.
DeleteGroup(e) ==
    LET g == erasing[e].of
        late == OnItsWay(g) /\ \E s \in Samples : adding[s].of = g /\ adding[s].pc \notin {"new", "done"} IN
    /\ erasing[e].pc = "group" /\ EraseTo(e, "away")
    /\ group' = [group EXCEPT ![g] = NoGroup] /\ sampled' = sampled \ RowsOf(g)
    /\ blurred' = blurred \cup IF late \/ \E p \in prints : p.of = g THEN {g} ELSE {}
    /\ UNCHANGED <<stored, prints, adding, lost>>

PrintNext ==
    \/ \E g \in Groups, a \in Spokesmen : CreateGroup(g, a) \/ MoveGroup(g, a)
    \/ DeletePrintUser
    \/ \E s \in Samples :
          \/ \E g \in Groups, f \in FileNames : BeginAdd(s, g, f)
          \/ WriteFile(s) \/ InsertRow(s) \/ Register(s)
    \/ \E e \in Erasers :
          \/ \E r \in sampled : BeginErase(e, r)
          \/ UnregisterPrint(e) \/ DeleteRow(e) \/ DeleteFile(e)
          \/ \E g \in Groups : BeginDeleteGroup(e, g)
          \/ DeletePrints(e) \/ DeleteFiles(e) \/ DeleteGroup(e)

PrintSpec == PrintInit /\ [][PrintNext]_printVars

-----------------------------------------------------------------------------
\* Properties

PrintTypeOK ==
    /\ \A g \in Groups : There(g) => group[g].agent \in Spokesmen /\ group[g].count \in 0 .. Cardinality(Samples)
    /\ \A r \in sampled : r.id \in Samples /\ There(r.of) /\ r.file \in FileNames
    /\ \A p \in prints : p.of \in Groups /\ p.id \in Samples /\ p.agent \in Spokesmen
    /\ lost \in 0 .. MaxLost /\ blurred \subseteq Groups

\* The count that the console shows of a group is that of its samples.
CountIsRows == \A g \in Groups : group[g].count = Cardinality(RowsOf(g))

Leaves(r) == \E e \in Erasers : erasing[e].of = r.of /\ r.file \in erasing[e].files

\* A sample can be listened to until something is deleted, unless another sample of the group
\* has, or had, a file of the same name.
FileIsOwn ==
    \A r \in sampled :
        \/ stored[<<r.of, r.file>>] = r.id \/ Leaves(r)
        \/ \E s \in Samples \ {r.id} : adding[s].of = r.of /\ adding[s].file = r.file

\* Once nothing is on its way, the voice server knows the samples of a group and no others.
PrintsAreRows ==
    \A g \in Groups \ blurred :
        ~ OnItsWay(g) =>
            {p \in prints : p.of = g} = {[of |-> g, id |-> r.id, agent |-> group[g].agent] : r \in RowsOf(g)}

PrintsAreWhole == CountIsRows /\ FileIsOwn /\ PrintsAreRows

=============================================================================
