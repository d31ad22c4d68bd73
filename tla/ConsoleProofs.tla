---------------------------- MODULE ConsoleProofs ----------------------------
(***************************************************************************)
(* What the console keeps, for any number of accounts, clones, roles,      *)
(* groups and samples, and any overlap of the requests: a clone that waits *)
(* has one worker and says what became of it; there is one default role,   *)
(* and a device is served the role it was given; rows, files and voice     *)
(* prints agree; and a device that is activated has an owner.  Each part   *)
(* has an inductive invariant of its own; a behaviour of the platform runs *)
(* one part.                                                               *)
(***************************************************************************)
EXTENDS MCPlatform, FiniteSetTheorems, WellFoundedInduction, TLAPS

-----------------------------------------------------------------------------
\* Voice clones

CloneRow == [here : BOOLEAN, status : Statuses, audio : BOOLEAN, task : TaskStatuses \cup {"none"}]
WorkerType == [clone : Clones \cup {NoClone}, at : {"ended", "spawned", "claimed", "voice", "error"}]

\* A row is made once, by its request; it has a task when that request is over, its sample
\* before, and it holds nothing once it is deleted.
RowInv ==
    \A c \in Clones :
        /\ ~ Here(c) => row[c] = NoRow
        /\ creating[c] # "over" => row[c].task = "none"
        /\ creating[c] = "stored" /\ Here(c) => row[c].audio

\* Whom a worker works for has been created, and waits for it unless it was deleted.
WorkInv ==
    \A w \in Workers, c \in Clones : WorksFor(w, c) =>
        creating[c] = "over" /\ (Here(c) => Pending(c))

CloneInv == /\ CloneTypeOK /\ RowInv /\ WorkInv
            /\ PendingHasWorker /\ OneWorkerPerClone /\ StatusFollowsTask

LEMMA CloneInitInv == CloneInit => CloneInv
<1> SUFFICES ASSUME CloneInit PROVE CloneInv
  OBVIOUS
<1> USE CloneAssumption DEF CloneInit, NoRow, NoWork, Here, Pending, WorksFor
<1>1. CloneTypeOK
  BY DEF CloneTypeOK, Statuses, TaskStatuses, NoQuota
<1>2. RowInv /\ WorkInv
  BY DEF RowInv, WorkInv
<1>3. PendingHasWorker /\ OneWorkerPerClone /\ StatusFollowsTask
  BY DEF PendingHasWorker, OneWorkerPerClone, StatusFollowsTask
<1> QED
  BY <1>1, <1>2, <1>3 DEF CloneInv

\* A step of a request that is not over: it changes its own row, which has no task.
LEMMA CloneRequestInv ==
    ASSUME CloneInv, NEW c \in Clones, creating[c] # "over",
           NEW r \in CloneRow, row' = [row EXCEPT ![c] = r],
           r.task = "none", r.status = row[c].status, ~ r.here => r = NoRow,
           creating' \in [Clones -> {"new", "charged", "inserted", "stored", "over"}],
           \A d \in Clones \ {c} : creating'[d] = creating[d],
           creating'[c] = "stored" /\ r.here => r.audio,
           r.here => row[c].here \/ row[c] = NoRow,
           UNCHANGED <<worker, up, crashes>>,
           quota' \in [max : Nat, used : Nat, given : BOOLEAN],
           grant' \in [at : {"idle", "counted"}, max : Nat, used : Nat]
    PROVE  CloneInv'
<1>1. row \in [Clones -> CloneRow]
  BY DEF CloneInv, CloneTypeOK, CloneRow
<1>2. row' \in [Clones -> CloneRow] /\ row'[c] = r /\ \A d \in Clones \ {c} : row'[d] = row[d]
  BY <1>1
<1>3. row[c].task = "none" /\ \A w \in Workers : ~ WorksFor(w, c)
  BY DEF CloneInv, RowInv, WorkInv
<1>4. CloneTypeOK'
  BY <1>2 DEF CloneInv, CloneTypeOK, CloneRow
<1>5. RowInv'
  BY <1>2 DEF CloneInv, RowInv, Here
<1>6. WorkInv'
  BY <1>2, <1>3 DEF CloneInv, WorkInv, WorksFor, Here, Pending
<1>7. PendingHasWorker'
  BY <1>2 DEF CloneInv, PendingHasWorker, WorksFor, Here, Pending
<1>8. OneWorkerPerClone'
  BY DEF CloneInv, OneWorkerPerClone, WorksFor
<1>9. StatusFollowsTask'
  <2>1. r.here => r.status \notin {"active", "failed"}
    <3>1. CASE row[c].here
      BY <1>3, <3>1 DEF CloneInv, StatusFollowsTask, Here
    <3>2. CASE row[c] = NoRow
      BY <3>2 DEF NoRow
    <3> QED
      BY <3>1, <3>2
  <2>2. \A d \in Clones \ {c} : row'[d].here =>
          /\ row'[d].status = "active" <=> row'[d].task = "succeeded"
          /\ row'[d].status = "failed" <=> row'[d].task = "failed"
          /\ row'[d].task # "none" => row'[d].audio
    BY <1>2 DEF CloneInv, StatusFollowsTask, Here
  <2>3. r.here => /\ row'[c].status = "active" <=> row'[c].task = "succeeded"
                  /\ row'[c].status = "failed" <=> row'[c].task = "failed"
                  /\ row'[c].task # "none" => row'[c].audio
    BY <1>2, <2>1
  <2> QED
    BY <1>2, <2>2, <2>3 DEF StatusFollowsTask, Here
<1> QED
  BY <1>4, <1>5, <1>6, <1>7, <1>8, <1>9 DEF CloneInv

\* A step that leaves the rows alone, and the workers but for one whose clone needs none.
LEMMA CloneAloneInv ==
    ASSUME CloneInv, row' = row, up' = up, crashes' = crashes,
           creating' \in [Clones -> {"new", "charged", "inserted", "stored", "over"}],
           \A c \in Clones : creating'[c] # "over" => creating[c] # "over",
           \A c \in Clones : creating'[c] = "stored" => creating[c] = "stored",
           worker' \in [Workers -> WorkerType],
           \A w \in Workers : \/ worker'[w].clone = worker[w].clone
                              \/ worker'[w] = NoWork /\ \A c \in Clones : WorksFor(w, c) => ~ Pending(c),
           quota' \in [max : Nat, used : Nat, given : BOOLEAN],
           grant' \in [at : {"idle", "counted"}, max : Nat, used : Nat]
    PROVE  CloneInv'
<1> USE CloneAssumption
<1>1. CloneTypeOK'
  BY DEF CloneInv, CloneTypeOK, WorkerType
<1>2. RowInv'
  BY DEF CloneInv, RowInv, Here
<1>3. \A w \in Workers, c \in Clones : worker'[w].clone = c => WorksFor(w, c)
  BY DEF WorksFor, NoWork
<1>4. WorkInv'
  BY <1>3 DEF CloneInv, WorkInv, Here, Pending, WorksFor
<1>5. PendingHasWorker'
  <2>1. \A c \in Clones, w \in Workers : Pending(c) /\ WorksFor(w, c) => worker'[w].clone = c
    BY DEF WorksFor
  <2> QED
    BY <2>1 DEF CloneInv, PendingHasWorker, Pending, Here, WorksFor
<1>6. OneWorkerPerClone'
  BY <1>3 DEF CloneInv, OneWorkerPerClone, WorksFor
<1>7. StatusFollowsTask'
  BY DEF CloneInv, StatusFollowsTask, Here
<1> QED
  BY <1>1, <1>2, <1>4, <1>5, <1>6, <1>7 DEF CloneInv

\* A step that writes a row which is there, and has a worker for it or none, as its task says.
LEMMA TaskWritten ==
    ASSUME CloneInv, NEW c \in Clones, Here(c), NEW r \in CloneRow, NEW w \in Workers, NEW x \in WorkerType,
           row' = [row EXCEPT ![c] = r], worker' = [worker EXCEPT ![w] = x],
           r.here, r.audio, r.task # "none", up, up' = up, crashes' = crashes,
           r.status = "active" <=> r.task = "succeeded", r.status = "failed" <=> r.task = "failed",
           creating' \in [Clones -> {"new", "charged", "inserted", "stored", "over"}],
           \A d \in Clones \ {c} : creating'[d] = creating[d], creating'[c] = "over",
           x.clone = IF r.task \in {"queued", "processing"} THEN c ELSE NoClone,
           WorksFor(w, c) \/ (Unused(w) /\ \A v \in Workers : ~ WorksFor(v, c)),
           UNCHANGED <<quota, grant>>
    PROVE  CloneInv'
<1> USE CloneAssumption
<1>1. row \in [Clones -> CloneRow] /\ worker \in [Workers -> WorkerType]
  BY DEF CloneInv, CloneTypeOK, CloneRow, WorkerType
<1>2. row' \in [Clones -> CloneRow] /\ row'[c] = r /\ \A d \in Clones \ {c} : row'[d] = row[d]
  BY <1>1
<1>3. worker' \in [Workers -> WorkerType] /\ worker'[w] = x /\ \A v \in Workers \ {w} : worker'[v] = worker[v]
  BY <1>1
<1>4. \A v \in Workers \ {w} : ~ WorksFor(v, c)
  BY DEF CloneInv, OneWorkerPerClone
<1>5. \A d \in Clones \ {c} : ~ WorksFor(w, d)
  BY DEF WorksFor, Unused
<1>6. CloneTypeOK'
  BY <1>2, <1>3 DEF CloneInv, CloneTypeOK, CloneRow, WorkerType
<1>7. RowInv'
  BY <1>2 DEF CloneInv, RowInv, Here
<1>8. WorkInv'
  BY <1>2, <1>3, <1>4 DEF CloneInv, WorkInv, WorksFor, Here, Pending
<1>9. PendingHasWorker'
  <2>1. ASSUME NEW d \in Clones, Pending(d)' PROVE \E v \in Workers : WorksFor(v, d)'
    <3>1. CASE d = c
      BY <1>2, <1>3, <2>1, <3>1 DEF Pending, WorksFor
    <3>2. CASE d # c
      <4>1. Pending(d)
        BY <1>2, <2>1, <3>2 DEF Pending, Here
      <4>2. PICK v \in Workers : WorksFor(v, d)
        BY <4>1 DEF CloneInv, PendingHasWorker
      <4>3. v # w
        BY <1>5, <3>2, <4>2
      <4> QED
        BY <1>3, <4>2, <4>3 DEF WorksFor
    <3> QED
      BY <3>1, <3>2
  <2> QED
    BY <2>1 DEF PendingHasWorker
<1>10. OneWorkerPerClone'
  BY <1>3, <1>4 DEF CloneInv, OneWorkerPerClone, WorksFor
<1>11. StatusFollowsTask'
  BY <1>2 DEF CloneInv, StatusFollowsTask, Here
<1> QED
  BY <1>6, <1>7, <1>8, <1>9, <1>10, <1>11 DEF CloneInv

LEMMA CreateInv ==
    ASSUME CloneInv, NEW c \in Clones,
           Charge(c) \/ InsertClone(c) \/ CreateFails(c) \/ StoreAudio(c)
    PROVE  CloneInv'
<1> DEFINE Phases == {"new", "charged", "inserted", "stored", "over"}
<1>1. /\ row \in [Clones -> CloneRow] /\ worker \in [Workers -> WorkerType] /\ creating \in [Clones -> Phases]
      /\ quota \in [max : Nat, used : Nat, given : BOOLEAN]
      /\ grant \in [at : {"idle", "counted"}, max : Nat, used : Nat]
  BY DEF CloneInv, CloneTypeOK, CloneRow, WorkerType
<1>2. ASSUME NEW p \in Phases, creating' = [creating EXCEPT ![c] = p]
      PROVE  /\ creating' \in [Clones -> Phases] /\ creating'[c] = p
             /\ \A d \in Clones \ {c} : creating'[d] = creating[d]
  BY <1>1, <1>2
<1>3. CASE Charge(c)
  <2>1. quota' \in [max : Nat, used : Nat, given : BOOLEAN]
    BY <1>1, <1>3 DEF Charge
  <2>2. /\ creating[c] = "new" /\ creating' = [creating EXCEPT ![c] = "charged"]
        /\ UNCHANGED <<row, grant, worker, up, crashes>>
    BY <1>3 DEF Charge
  <2>3. creating' \in [Clones -> Phases] /\ creating'[c] = "charged" /\ \A d \in Clones \ {c} : creating'[d] = creating[d]
    BY <1>2, <2>2
  <2> QED
    BY <1>1, <2>1, <2>2, <2>3, CloneAloneInv
<1>4. CASE InsertClone(c)
  <2>1. /\ creating[c] = "charged" /\ row' = [row EXCEPT ![c].here = TRUE]
        /\ creating' = [creating EXCEPT ![c] = "inserted"]
        /\ UNCHANGED <<quota, grant, worker, up, crashes>>
    BY <1>4 DEF InsertClone
  <2>2. PICK r : r = [row[c] EXCEPT !.here = TRUE]
    OBVIOUS
  <2>3. row' = [row EXCEPT ![c] = r]
    BY <1>1, <2>1, <2>2
  <2>4. r \in CloneRow /\ r.here = TRUE /\ r.task = row[c].task /\ r.status = row[c].status
    <3>1. row[c] \in CloneRow
      BY <1>1
    <3> QED
      BY <2>2, <3>1 DEF CloneRow
  <2>5. row[c].task = "none" /\ (row[c].here \/ row[c] = NoRow)
    BY <2>1 DEF CloneInv, RowInv, Here
  <2>6. /\ creating' \in [Clones -> Phases] /\ creating'[c] = "inserted"
        /\ \A d \in Clones \ {c} : creating'[d] = creating[d]
    BY <1>2, <2>1
  <2>7. /\ r.task = "none" /\ (~ r.here => r = NoRow)
        /\ (creating'[c] = "stored" /\ r.here => r.audio)
        /\ (r.here => row[c].here \/ row[c] = NoRow)
    BY <2>1, <2>4, <2>5, <2>6
  <2> QED
    BY <1>1, <2>1, <2>3, <2>4, <2>6, <2>7, CloneRequestInv
<1>5. CASE CreateFails(c)
  <2>1. creating' = [creating EXCEPT ![c] = "over"] /\ UNCHANGED <<row, quota, grant, worker, up, crashes>>
    BY <1>5 DEF CreateFails
  <2>2. creating' \in [Clones -> Phases] /\ creating'[c] = "over" /\ \A d \in Clones \ {c} : creating'[d] = creating[d]
    BY <1>2, <2>1
  <2> QED
    BY <1>1, <2>1, <2>2, CloneAloneInv
<1>6. CASE StoreAudio(c)
  <2>1. /\ creating[c] = "inserted" /\ row[c].here /\ row' = [row EXCEPT ![c].audio = TRUE]
        /\ creating' = [creating EXCEPT ![c] = "stored"]
        /\ UNCHANGED <<quota, grant, worker, up, crashes>>
    BY <1>6 DEF StoreAudio, Here
  <2>2. PICK r : r = [row[c] EXCEPT !.audio = TRUE]
    OBVIOUS
  <2>3. row' = [row EXCEPT ![c] = r]
    BY <1>1, <2>1, <2>2
  <2>4. r \in CloneRow /\ r.here /\ r.audio /\ r.task = row[c].task /\ r.status = row[c].status
    BY <1>1, <2>1, <2>2 DEF CloneRow
  <2>5. row[c].task = "none"
    BY <2>1 DEF CloneInv, RowInv
  <2>6. /\ creating' \in [Clones -> Phases] /\ creating'[c] = "stored"
        /\ \A d \in Clones \ {c} : creating'[d] = creating[d]
    BY <1>2, <2>1
  <2>7. /\ r.task = "none" /\ (~ r.here => r = NoRow)
        /\ (creating'[c] = "stored" /\ r.here => r.audio)
        /\ (r.here => row[c].here \/ row[c] = NoRow)
    BY <2>1, <2>4, <2>5, <2>6
  <2> QED
    BY <1>1, <2>1, <2>3, <2>4, <2>6, <2>7, CloneRequestInv
<1> QED
  BY <1>3, <1>4, <1>5, <1>6

LEMMA CloneTaskInv ==
    ASSUME CloneInv, NEW c \in Clones, NEW w \in Workers,
           CreateTask(c, w) \/ Retry(c, w) \/ Claim(w, c) \/ CallProvider(w, c) \/ WriteOutcome(w, c)
    PROVE  CloneInv'
<1> USE CloneAssumption
<1> DEFINE Phases == {"new", "charged", "inserted", "stored", "over"}
<1>1. /\ row \in [Clones -> CloneRow] /\ worker \in [Workers -> WorkerType] /\ creating \in [Clones -> Phases]
      /\ quota \in [max : Nat, used : Nat, given : BOOLEAN]
      /\ grant \in [at : {"idle", "counted"}, max : Nat, used : Nat]
  BY DEF CloneInv, CloneTypeOK, CloneRow, WorkerType
<1>2. NoWork \in WorkerType /\ [clone |-> c, at |-> "spawned"] \in WorkerType
  BY DEF NoWork, WorkerType
<1>3. CASE CreateTask(c, w)
  <2>1. /\ up /\ creating[c] = "stored" /\ Here(c) /\ Unused(w)
        /\ row' = [row EXCEPT ![c].task = "queued"]
        /\ creating' = [creating EXCEPT ![c] = "over"]
        /\ worker' = [worker EXCEPT ![w] = [clone |-> c, at |-> "spawned"]]
        /\ UNCHANGED <<quota, grant, up, crashes>>
    BY <1>3 DEF CreateTask, Spawned
  <2>2. PICK r : r = [row[c] EXCEPT !.task = "queued"]
    OBVIOUS
  <2>3. row' = [row EXCEPT ![c] = r]
    BY <1>1, <2>1, <2>2
  <2>4. row[c].here /\ row[c].audio /\ row[c].task = "none"
    BY <2>1 DEF CloneInv, RowInv, Here
  <2>5. row[c].status \notin {"active", "failed"}
    BY <2>1, <2>4 DEF CloneInv, StatusFollowsTask
  <2>6. r \in CloneRow /\ r.here /\ r.audio /\ r.task = "queued" /\ r.status = row[c].status
    BY <1>1, <2>2, <2>4 DEF CloneRow, TaskStatuses
  <2>7. \A v \in Workers : ~ WorksFor(v, c)
    BY <2>1 DEF CloneInv, WorkInv
  <2>8. creating' \in [Clones -> Phases] /\ creating'[c] = "over" /\ \A d \in Clones \ {c} : creating'[d] = creating[d]
    BY <1>1, <2>1
  <2> QED
    BY <1>1, <1>2, <2>1, <2>3, <2>5, <2>6, <2>7, <2>8, TaskWritten
<1>4. CASE Retry(c, w)
  <2>1. /\ up /\ Here(c) /\ Unused(w) /\ row[c].status = "failed" /\ row[c].task = "failed"
        /\ row' = [row EXCEPT ![c].task = "queued", ![c].status = "processing"]
        /\ worker' = [worker EXCEPT ![w] = [clone |-> c, at |-> "spawned"]]
        /\ UNCHANGED <<creating, quota, grant, up, crashes>>
    BY <1>4 DEF Retry, Spawned, Requeues
  <2>2. PICK r : r = [[row[c] EXCEPT !.task = "queued"] EXCEPT !.status = "processing"]
    OBVIOUS
  <2>3. row' = [row EXCEPT ![c] = r]
    BY <1>1, <2>1, <2>2
  <2>4. row[c].here /\ row[c].audio
    BY <2>1 DEF CloneInv, StatusFollowsTask, Here
  <2>5. r \in CloneRow /\ r.here /\ r.audio /\ r.task = "queued" /\ r.status = "processing"
    BY <1>1, <2>2, <2>4 DEF CloneRow, TaskStatuses, Statuses
  <2>6. \A v \in Workers : ~ WorksFor(v, c)
    BY <2>1 DEF CloneInv, WorkInv, Pending
  <2>7. creating[c] = "over"
    BY <2>1 DEF CloneInv, RowInv
  <2> QED
    BY <1>1, <1>2, <2>1, <2>3, <2>5, <2>6, <2>7, TaskWritten
<1>5. CASE Claim(w, c)
  <2>1. /\ up /\ worker[w] = [clone |-> c, at |-> "spawned"]
        /\ UNCHANGED <<creating, quota, grant, up, crashes>>
    BY <1>5 DEF Claim
  <2>2. WorksFor(w, c)
    BY <2>1 DEF WorksFor
  <2>3. CASE Pending(c)
    <3>1. /\ row' = [row EXCEPT ![c].task = "processing", ![c].status = "processing"]
          /\ worker' = [worker EXCEPT ![w].at = "claimed"]
      BY <1>5, <2>3 DEF Claim
    <3>2. PICK r : r = [[row[c] EXCEPT !.task = "processing"] EXCEPT !.status = "processing"]
      OBVIOUS
    <3>3. PICK x : x = [worker[w] EXCEPT !.at = "claimed"]
      OBVIOUS
    <3>4. row' = [row EXCEPT ![c] = r] /\ worker' = [worker EXCEPT ![w] = x]
      BY <1>1, <3>1, <3>2, <3>3
    <3>5. Here(c) /\ row[c].here /\ row[c].audio /\ creating[c] = "over"
      BY <2>2, <2>3 DEF CloneInv, StatusFollowsTask, WorkInv, Pending, Here
    <3>6. r \in CloneRow /\ r.here /\ r.audio /\ r.task = "processing" /\ r.status = "processing"
      BY <1>1, <3>2, <3>5 DEF CloneRow, TaskStatuses, Statuses
    <3>7. x \in WorkerType /\ x.clone = c
      BY <1>1, <2>1, <3>3 DEF WorkerType
    <3> QED
      BY <1>1, <2>1, <2>2, <3>4, <3>5, <3>6, <3>7, TaskWritten
  <2>4. CASE ~ Pending(c)
    <3>1. worker' = [worker EXCEPT ![w] = NoWork] /\ row' = row
      BY <1>5, <2>4 DEF Claim
    <3>2. worker' \in [Workers -> WorkerType] /\ worker'[w] = NoWork /\ \A v \in Workers \ {w} : worker'[v] = worker[v]
      BY <1>1, <1>2, <3>1
    <3>3. \A d \in Clones : WorksFor(w, d) => ~ Pending(d)
      BY <2>2, <2>4 DEF WorksFor
    <3> QED
      BY <1>1, <2>1, <3>1, <3>2, <3>3, CloneAloneInv
  <2> QED
    BY <2>3, <2>4
<1>6. CASE CallProvider(w, c)
  <2>1. PICK o \in {"voice", "error"} : worker' = [worker EXCEPT ![w].at = o]
    BY <1>6 DEF CallProvider, Answers
  <2>2. UNCHANGED <<row, creating, quota, grant, up, crashes>>
    BY <1>6 DEF CallProvider
  <2>3. PICK x : x = [worker[w] EXCEPT !.at = o]
    OBVIOUS
  <2>4. x \in WorkerType /\ x.clone = worker[w].clone /\ worker' = [worker EXCEPT ![w] = x]
    BY <1>1, <2>1, <2>3 DEF WorkerType
  <2>5. worker' \in [Workers -> WorkerType] /\ \A v \in Workers : worker'[v].clone = worker[v].clone
    BY <1>1, <2>4
  <2> QED
    BY <1>1, <2>2, <2>5, CloneAloneInv
<1>7. CASE WriteOutcome(w, c)
  <2>1. /\ up /\ WorksFor(w, c) /\ worker[w].at \in {"voice", "error"}
        /\ worker' = [worker EXCEPT ![w] = NoWork]
        /\ UNCHANGED <<creating, quota, grant, up, crashes>>
    BY <1>7 DEF WriteOutcome, Answers
  <2>2. CASE ~ Here(c)
    <3>1. row' = row
      BY <1>7, <2>2 DEF WriteOutcome
    <3>2. worker' \in [Workers -> WorkerType] /\ worker'[w] = NoWork /\ \A v \in Workers \ {w} : worker'[v] = worker[v]
      BY <1>1, <1>2, <2>1
    <3>3. \A d \in Clones : WorksFor(w, d) => ~ Pending(d)
      BY <2>1, <2>2 DEF WorksFor, Pending
    <3> QED
      BY <1>1, <2>1, <3>1, <3>2, <3>3, CloneAloneInv
  <2>3. CASE Here(c)
    <3>1. PICK task \in {"succeeded", "failed"}, status \in {"active", "failed"} :
             /\ row' = [row EXCEPT ![c].task = task, ![c].status = status]
             /\ status = "active" <=> task = "succeeded"
      BY <1>7, <2>3 DEF WriteOutcome
    <3>2. PICK r : r = [[row[c] EXCEPT !.task = task] EXCEPT !.status = status]
      OBVIOUS
    <3>3. row' = [row EXCEPT ![c] = r]
      BY <1>1, <3>1, <3>2
    <3>4. row[c].here /\ row[c].audio /\ creating[c] = "over"
      BY <2>1, <2>3 DEF CloneInv, StatusFollowsTask, WorkInv, Pending, Here
    <3>5. r \in CloneRow /\ r.here /\ r.audio /\ r.task = task /\ r.status = status
      BY <1>1, <3>2, <3>4 DEF CloneRow, TaskStatuses, Statuses
    <3>6. NoWork.clone = NoClone
      BY DEF NoWork
    <3> QED
      BY <1>1, <1>2, <2>1, <2>3, <3>1, <3>3, <3>4, <3>5, <3>6, TaskWritten
  <2> QED
    BY <2>2, <2>3
<1> QED
  BY <1>3, <1>4, <1>5, <1>6, <1>7

LEMMA DeleteInv == ASSUME CloneInv, NEW c \in Clones, Delete(c) PROVE CloneInv'
<1>1. row \in [Clones -> CloneRow] /\ NoRow \in CloneRow /\ NoRow.here = FALSE /\ NoRow.task = "none"
  BY DEF CloneInv, CloneTypeOK, CloneRow, NoRow, Statuses
<1>2. /\ row' \in [Clones -> CloneRow] /\ row'[c] = NoRow /\ \A d \in Clones \ {c} : row'[d] = row[d]
      /\ UNCHANGED <<creating, quota, grant, worker, up, crashes>>
  BY <1>1 DEF Delete
<1>3. CloneTypeOK'
  BY <1>2 DEF CloneInv, CloneTypeOK, CloneRow
<1>4. RowInv'
  BY <1>1, <1>2 DEF CloneInv, RowInv, Here
<1>5. WorkInv'
  BY <1>1, <1>2 DEF CloneInv, WorkInv, Here, Pending, WorksFor
<1>6. PendingHasWorker'
  BY <1>1, <1>2 DEF CloneInv, PendingHasWorker, Here, Pending, WorksFor
<1>7. OneWorkerPerClone'
  BY <1>2 DEF CloneInv, OneWorkerPerClone, WorksFor
<1>8. StatusFollowsTask'
  BY <1>1, <1>2 DEF CloneInv, StatusFollowsTask, Here
<1> QED
  BY <1>3, <1>4, <1>5, <1>6, <1>7, <1>8 DEF CloneInv

LEMMA CrashInv == ASSUME CloneInv, Crash PROVE CloneInv'
<1> USE CloneAssumption
<1>1. /\ up' = FALSE /\ crashes' = crashes + 1 /\ crashes < MaxCrashes
      /\ creating' = [c \in Clones |-> IF creating[c] = "new" THEN "new" ELSE "over"]
      /\ grant' = [grant EXCEPT !.at = "idle", !.max = 0, !.used = 0]
      /\ worker' = [w \in Workers |-> NoWork] /\ UNCHANGED <<row, quota>>
  BY DEF Crash
<1>2. CloneTypeOK'
  <2>1. grant' \in [at : {"idle", "counted"}, max : Nat, used : Nat]
    BY <1>1 DEF CloneInv, CloneTypeOK
  <2>2. creating' \in [Clones -> {"new", "charged", "inserted", "stored", "over"}]
    BY <1>1
  <2>3. worker' \in [Workers -> WorkerType]
    BY <1>1 DEF NoWork, WorkerType
  <2>4. crashes' \in 0 .. MaxCrashes
    BY <1>1 DEF CloneInv, CloneTypeOK
  <2> QED
    BY <1>1, <2>1, <2>2, <2>3, <2>4 DEF CloneInv, CloneTypeOK, WorkerType
<1>3. RowInv'
  BY <1>1 DEF CloneInv, RowInv, Here
<1>4. \A w \in Workers, c \in Clones : worker'[w].clone # c
  BY <1>1 DEF NoWork
<1>5. WorkInv' /\ PendingHasWorker' /\ OneWorkerPerClone'
  BY <1>1, <1>4 DEF WorkInv, PendingHasWorker, OneWorkerPerClone, WorksFor
<1>6. StatusFollowsTask'
  BY <1>1 DEF CloneInv, StatusFollowsTask, Here
<1> QED
  BY <1>2, <1>3, <1>5, <1>6 DEF CloneInv

LEMMA RestartInv == ASSUME CloneInv, Restart PROVE CloneInv'
<1> USE CloneAssumption
<1>1. PICK owner \in [Workers -> Reloaded \cup {NoClone}] :
                /\ \A c \in Reloaded : \E w \in Workers : owner[w] = c
                /\ \A v, w \in Workers : owner[v] = owner[w] => v = w \/ owner[v] = NoClone
                /\ worker' = [w \in Workers |->
                     IF owner[w] = NoClone THEN NoWork
                     ELSE [clone |-> owner[w], at |-> "spawned"]]
  BY DEF Restart
<1>2. UNCHANGED <<row, creating, quota, grant, crashes>> /\ up' = TRUE
  BY DEF Restart
<1>3. \A w \in Workers : worker'[w].clone = owner[w]
  BY <1>1 DEF NoWork
<1>4. worker' \in [Workers -> WorkerType]
  BY <1>1 DEF NoWork, WorkerType, Reloaded
<1>5. CloneTypeOK'
  BY <1>2, <1>4 DEF CloneInv, CloneTypeOK, WorkerType
<1>6. RowInv' /\ StatusFollowsTask'
  BY <1>2 DEF CloneInv, RowInv, StatusFollowsTask, Here
<1>7. WorkInv'
  <2>1. \A c \in Clones : Pending(c) => creating[c] = "over"
    BY DEF CloneInv, RowInv, Pending
  <2>2. \A w \in Workers, c \in Clones : owner[w] = c => Pending(c)
    BY <1>1 DEF Reloaded
  <2> QED
    BY <1>2, <1>3, <2>1, <2>2 DEF WorkInv, WorksFor, Here, Pending
<1>8. PendingHasWorker'
  BY <1>1, <1>2, <1>3 DEF PendingHasWorker, WorksFor, Pending, Here, Reloaded
<1>9. OneWorkerPerClone'
  BY <1>1, <1>3 DEF OneWorkerPerClone, WorksFor
<1> QED
  BY <1>5, <1>6, <1>7, <1>8, <1>9 DEF CloneInv

LEMMA CloneNextInv == CloneInv /\ [CloneNext]_cloneVars => CloneInv'
<1> SUFFICES ASSUME CloneInv, [CloneNext]_cloneVars PROVE CloneInv'
  OBVIOUS
<1>1. /\ worker \in [Workers -> WorkerType]
      /\ creating \in [Clones -> {"new", "charged", "inserted", "stored", "over"}]
      /\ quota \in [max : Nat, used : Nat, given : BOOLEAN]
      /\ grant \in [at : {"idle", "counted"}, max : Nat, used : Nat]
  BY DEF CloneInv, CloneTypeOK, WorkerType
<1>2. CASE UNCHANGED cloneVars
  BY <1>1, <1>2, CloneAloneInv DEF cloneVars
<1>3. CASE \E c \in Clones : Charge(c) \/ InsertClone(c) \/ CreateFails(c) \/ StoreAudio(c) \/ Delete(c)
  BY <1>3, CreateInv, DeleteInv
<1>4. CASE \E c \in Clones, w \in Workers :
             \/ CreateTask(c, w) \/ Retry(c, w)
             \/ Claim(w, c) \/ CallProvider(w, c) \/ WriteOutcome(w, c)
  BY <1>4, CloneTaskInv
<1>5. CASE \E m \in 0..MaxQuota : CountClones(m)
  <2>1. PICK m \in 0 .. MaxQuota : CountClones(m)
    BY <1>5
  <2>2. Cardinality(Owned) \in Nat /\ m \in Nat
    BY CloneAssumption, FS_Subset, FS_CardinalityType DEF Owned
  <2>3. grant' \in [at : {"idle", "counted"}, max : Nat, used : Nat]
    BY <2>1, <2>2 DEF CountClones
  <2> QED
    BY <1>1, <2>1, <2>3, CloneAloneInv DEF CountClones
<1>6. CASE SaveQuota
  <2>1. /\ quota' \in [max : Nat, used : Nat, given : BOOLEAN]
        /\ grant' \in [at : {"idle", "counted"}, max : Nat, used : Nat]
    BY <1>1, <1>6 DEF SaveQuota
  <2> QED
    BY <1>1, <1>6, <2>1, CloneAloneInv DEF SaveQuota
<1>7. CASE RemoveQuota
  <2>1. NoQuota \in [max : Nat, used : Nat, given : BOOLEAN]
    BY DEF NoQuota
  <2> QED
    BY <1>1, <1>7, <2>1, CloneAloneInv DEF RemoveQuota
<1>8. CASE Crash
  BY <1>8, CrashInv
<1>9. CASE Restart
  BY <1>9, RestartInv
<1> QED
  BY <1>2, <1>3, <1>4, <1>5, <1>6, <1>7, <1>8, <1>9 DEF CloneNext

-----------------------------------------------------------------------------
\* The roles

RoleRow == [id : Nat, owner : Members \cup {All}, name : RoleNames, default : BOOLEAN]

RoleRowsInv ==
    /\ created \in Nat /\ roles \subseteq RoleRow
    /\ \A r \in roles : r.id \in 1 .. created
    /\ \A r, q \in roles : r.id = q.id => r = q

\* Who looked at a role of everybody's will write one, as an id is given once; and who gives the
\* device a role knows its name, or it was renamed since.
EditingInv ==
    \A e \in Editors :
        /\ editing[e].pc # "away" => editing[e].id \in 1 .. created
        /\ editing[e].pc = "updateGlobal" => \A r \in roles : r.id = editing[e].id => r.owner = All
        /\ editing[e].pc = "apply" =>
              \A r \in roles : r.id = editing[e].id /\ r.id \notin renamed => r.name = editing[e].saw

GivenInv ==
    /\ given.id \in 0 .. created
    /\ \A r \in roles : r.id = given.id /\ r.id \notin renamed => r.name = given.name

EditType == [pc : {"away", "update", "updateGlobal", "delete", "apply"}, id : Nat,
             saw : RoleNames \cup {DefaultName}]
EditTypes == editing \in [Editors -> EditType] /\ given \in [id : Nat, name : RoleNames \cup {DefaultName}]

RoleInv == EditTypes /\ RoleRowsInv /\ EditingInv /\ GivenInv /\ OneDefaultRole

\* A set of numbers has a least one.
LEMMA LeastOfNumbers ==
    ASSUME NEW S \in SUBSET Nat, S # {}
    PROVE  /\ Min(S) \in S
           /\ \A n \in S : Min(S) <= n
<1>1. \E m \in S : \A n \in S : ~ (<<n, m>> \in OpToRel(<, Nat))
  BY WFMin, NatLessThanWellFounded
<1>2. PICK m \in S : \A n \in S : ~ (<<n, m>> \in OpToRel(<, Nat))
  BY <1>1
<1>3. ASSUME NEW n \in S, n < m
      PROVE  <<n, m>> \in OpToRel(<, Nat)
  <2> DEFINE p == <<n, m>>
  <2>1. p \in Nat \X Nat /\ p[1] = n /\ p[2] = m
    OBVIOUS
  <2>2. p[1] < p[2]
    BY <1>3, <2>1
  <2> HIDE DEF p
  <2>3. p \in OpToRel(<, Nat)
    BY <2>1, <2>2, Zenon DEF OpToRel
  <2> QED
    BY <2>3 DEF p
<1>4. \A n \in S : ~ (n < m)
  BY <1>2, <1>3, Zenon
<1>5. \A n \in S : m <= n
  BY <1>4
<1> QED
  BY <1>5 DEF Min

\* What a statement that writes rows leaves of them: the ids are still one row's, a row that was
\* there keeps its id and owner and, unless its id is recorded, its name; a new one has a new id.
RowsGo ==
    /\ created' \in Nat /\ created <= created' /\ renamed \subseteq renamed'
    /\ roles' \subseteq RoleRow
    /\ \A x, y \in roles' : x.id = y.id => x = y
    /\ \A x \in roles' :
          \/ x.id = created + 1 /\ created' = created + 1
          \/ \E r \in roles : x.id = r.id /\ x.owner = r.owner /\ (x.name = r.name \/ x.id \in renamed')

EditsAnswered == \A e \in Editors : editing'[e] = editing[e] \/ editing'[e] = Unedited

LEMMA RowsThatGo ==
    ASSUME RoleRowsInv, EditTypes, EditingInv, GivenInv, RowsGo, EditsAnswered, UNCHANGED given
    PROVE  RoleRowsInv' /\ EditingInv' /\ GivenInv'
<1>1. RoleRowsInv'
  BY DEF RoleRowsInv, RowsGo, RoleRow
<1>2. ASSUME NEW e \in Editors
      PROVE  /\ (editing[e].pc # "away" => editing[e].id \in 1 .. created)'
             /\ (editing[e].pc = "updateGlobal" => \A r \in roles : r.id = editing[e].id => r.owner = All)'
             /\ (editing[e].pc = "apply" =>
                    \A r \in roles : r.id = editing[e].id /\ r.id \notin renamed => r.name = editing[e].saw)'
  <2>1. CASE editing'[e] = Unedited
    BY <2>1 DEF Unedited
  <2>2. CASE editing'[e] = editing[e]
    <3>1. CASE editing[e].pc = "away"
      BY <2>2, <3>1
    <3>2. CASE editing[e].pc # "away"
      <4>1. PICK i \in Nat : i = editing[e].id /\ i \in 1 .. created
        BY <3>2 DEF EditingInv, RoleRowsInv
      <4>2. i \in 1 .. created' /\ i # created + 1
        BY <4>1 DEF RowsGo, RoleRowsInv
      <4>3. ASSUME NEW x \in roles', x.id = i
            PROVE  \E r \in roles : x.id = r.id /\ x.owner = r.owner /\ (x.name = r.name \/ x.id \in renamed')
        BY <4>2, <4>3 DEF RowsGo
      <4>4. ASSUME editing[e].pc = "updateGlobal", NEW x \in roles', x.id = i
            PROVE  x.owner = All
        BY <4>1, <4>3, <4>4 DEF EditingInv
      <4>5. ASSUME editing[e].pc = "apply", NEW x \in roles', x.id = i, x.id \notin renamed'
            PROVE  x.name = editing[e].saw
        BY <4>1, <4>3, <4>5 DEF EditingInv, RowsGo
      <4> QED
        BY <2>2, <4>1, <4>2, <4>4, <4>5
    <3> QED
      BY <3>1, <3>2
  <2> QED
    BY <2>1, <2>2 DEF EditsAnswered
<1>3. EditingInv'
  BY <1>2 DEF EditingInv
<1>4. GivenInv'
  <2>1. PICK i \in Nat : i = given.id /\ i \in 0 .. created
    BY DEF GivenInv, RoleRowsInv
  <2>2. i \in 0 .. created' /\ i # created + 1
    BY <2>1 DEF RowsGo, RoleRowsInv
  <2>3. ASSUME NEW x \in roles', x.id = i
        PROVE  \E r \in roles : x.id = r.id /\ x.owner = r.owner /\ (x.name = r.name \/ x.id \in renamed')
    BY <2>2, <2>3 DEF RowsGo
  <2>4. ASSUME NEW x \in roles', x.id = i, x.id \notin renamed'
        PROVE  x.name = given.name
    BY <2>1, <2>3, <2>4 DEF GivenInv, RowsGo
  <2> QED
    BY <2>1, <2>2, <2>4 DEF GivenInv
<1> QED
  BY <1>1, <1>3, <1>4

\* A new default leaves no other, and changes nothing else of a row.
LEMMA RowsAreCleared ==
    ASSUME RoleRowsInv, OneDefaultRole, NEW d \in BOOLEAN
    PROVE  /\ RoleCleared(d) \subseteq RoleRow
           /\ \A x, y \in RoleCleared(d) : x.id = y.id => x = y
           /\ \A x \in RoleCleared(d) : /\ x.default => x \in roles /\ ~ d
                                        /\ \E r \in roles : x.id = r.id /\ x.owner = r.owner /\ x.name = r.name
<1>1. CASE ~ d
  BY <1>1 DEF RoleCleared, RoleRowsInv
<1>2. CASE d
  <2> DEFINE F(r) == [r EXCEPT !.default = IF r.owner = All THEN FALSE ELSE @]
  <2>1. RoleCleared(d) = {F(r) : r \in roles}
    BY <1>2 DEF RoleCleared
  <2>2. ASSUME NEW r \in roles
        PROVE  /\ F(r) \in RoleRow /\ F(r).id = r.id /\ F(r).owner = r.owner /\ F(r).name = r.name
               /\ F(r).default = FALSE
    <3>1. r \in RoleRow /\ (r.default => r.owner = All)
      BY DEF RoleRowsInv, OneDefaultRole
    <3> QED
      BY <3>1 DEF RoleRow
  <2> HIDE DEF F
  <2>3. ASSUME NEW x \in RoleCleared(d)
        PROVE  \E r \in roles : x = F(r)
    BY <2>1
  <2>4. RoleCleared(d) \subseteq RoleRow
    BY <2>2, <2>3
  <2>5. ASSUME NEW x \in RoleCleared(d), NEW y \in RoleCleared(d), x.id = y.id
        PROVE  x = y
    <3>1. PICK r \in roles, q \in roles : x = F(r) /\ y = F(q)
      BY <2>3
    <3>2. r.id = q.id
      BY <2>2, <2>5, <3>1
    <3> QED
      BY <3>1, <3>2 DEF RoleRowsInv
  <2>6. \A x \in RoleCleared(d) : ~ x.default
    BY <2>2, <2>3
  <2>7. \A x \in RoleCleared(d) : \E r \in roles : x.id = r.id /\ x.owner = r.owner /\ x.name = r.name
    BY <2>2, <2>3
  <2> QED
    BY <2>4, <2>5, <2>6, <2>7
<1> QED
  BY <1>1, <1>2

\* What an action writes of the rows is one of these.
LEMMA RowsAreCreated ==
    ASSUME RoleInv, NEW d \in BOOLEAN, NEW u \in Members \cup {All}, NEW name \in RoleNames, d => u = All,
           NEW C, C = RoleCleared(d), renamed \subseteq renamed', created' = created + 1,
           roles' = C \cup {[id |-> created + 1, owner |-> u, name |-> name, default |-> d]}
    PROVE  RowsGo /\ OneDefaultRole'
<1> DEFINE new == [id |-> created + 1, owner |-> u, name |-> name, default |-> d]
<1>1. RoleRowsInv /\ OneDefaultRole
  BY DEF RoleInv
<1>2. /\ C \subseteq RoleRow
      /\ \A x, y \in C : x.id = y.id => x = y
      /\ \A x \in C : /\ x.default => x \in roles /\ ~ d
                      /\ \E r \in roles : x.id = r.id /\ x.owner = r.owner /\ x.name = r.name
  BY <1>1, RowsAreCleared
<1>3. created \in Nat /\ \A r \in roles : r.id \in 1 .. created
  BY <1>1 DEF RoleRowsInv
<1>4. \A x \in C : x.id \in 1 .. created
  BY <1>2, <1>3
<1>5. new \in RoleRow /\ new.id = created + 1 /\ new.default = d /\ new.owner = u
  BY <1>3 DEF RoleRow
<1>6. roles' = C \cup {new}
  OBVIOUS
<1> HIDE DEF new
<1>7. \A x, y \in roles' : x.id = y.id => x = y
  BY <1>2, <1>3, <1>4, <1>5, <1>6
<1>8. \A x \in roles' : \/ x.id = created + 1 /\ created' = created + 1
                        \/ \E r \in roles : x.id = r.id /\ x.owner = r.owner /\ (x.name = r.name \/ x.id \in renamed')
  BY <1>2, <1>5, <1>6
<1>9. RowsGo
  BY <1>2, <1>3, <1>5, <1>6, <1>7, <1>8 DEF RowsGo
<1>10. OneDefaultRole'
  <2>1. ASSUME NEW x \in roles', NEW y \in roles', x.default, y.default
        PROVE  x = y /\ x.owner = All
    BY <1>1, <1>2, <1>5, <1>6, <2>1 DEF OneDefaultRole
  <2> QED
    BY <2>1 DEF OneDefaultRole
<1> QED
  BY <1>9, <1>10

\* f writes the row with id i of the rows C, and no other, and what it writes as the default is
\* everybody's and the only one.
Written(C, f, i) ==
    /\ C \subseteq RoleRow /\ f \in [C -> RoleRow]
    /\ renamed \subseteq renamed' /\ created' = created
    /\ roles' = {f[r] : r \in C}
    /\ \A x, y \in C : x.id = y.id => x = y
    /\ \A x \in C : x.default => x \in roles
    /\ \A x \in C : \E r \in roles : x.id = r.id /\ x.owner = r.owner /\ x.name = r.name
    /\ \A r \in C : r.id # i => f[r] = r
    /\ \A r \in C : r.id = i => f[r].id = i /\ f[r].owner = r.owner /\ (f[r].name = r.name \/ i \in renamed')
    /\ \A r \in C : r.id = i /\ f[r].default => f[r].owner = All /\ (r.default \/ \A q \in C : ~ q.default)

LEMMA RowIsWritten ==
    ASSUME RoleInv, NEW C, NEW f, NEW i, Written(C, f, i)
    PROVE  RowsGo /\ OneDefaultRole'
<1>1. RoleRowsInv /\ OneDefaultRole
  BY DEF RoleInv
<1>2. /\ C \subseteq RoleRow /\ f \in [C -> RoleRow]
      /\ renamed \subseteq renamed' /\ created' = created
      /\ roles' = {f[r] : r \in C}
      /\ \A x, y \in C : x.id = y.id => x = y
      /\ \A x \in C : x.default => x \in roles
      /\ \A x \in C : \E r \in roles : x.id = r.id /\ x.owner = r.owner /\ x.name = r.name
      /\ \A r \in C : r.id # i => f[r] = r
      /\ \A r \in C : r.id = i => f[r].id = i /\ f[r].owner = r.owner /\ (f[r].name = r.name \/ i \in renamed')
      /\ \A r \in C : r.id = i /\ f[r].default => f[r].owner = All /\ (r.default \/ \A q \in C : ~ q.default)
  BY DEF Written
<1>3. \A x \in roles' : \E r \in C : x = f[r]
  BY <1>2
<1>4. \A r \in C : f[r] \in RoleRow /\ f[r].id = r.id /\ f[r].owner = r.owner /\ (f[r].name = r.name \/ r.id \in renamed')
  BY <1>2
<1>5. roles' \subseteq RoleRow
  BY <1>3, <1>4
<1>6. ASSUME NEW x \in roles', NEW y \in roles', x.id = y.id
      PROVE  x = y
  <2>1. PICK r \in C, q \in C : x = f[r] /\ y = f[q]
    BY <1>3
  <2>2. r.id = q.id
    BY <1>2, <1>4, <1>6, <2>1
  <2>3. r = q
    BY <1>2, <2>2
  <2> QED
    BY <2>1, <2>3
<1>7. ASSUME NEW x \in roles'
      PROVE  \E r \in roles : x.id = r.id /\ x.owner = r.owner /\ (x.name = r.name \/ x.id \in renamed')
  <2>1. PICK r \in C : x = f[r]
    BY <1>3
  <2>2. PICK q \in roles : r.id = q.id /\ r.owner = q.owner /\ r.name = q.name
    BY <1>2
  <2> QED
    BY <1>4, <2>1, <2>2
<1>8. RowsGo
  <2>1. created \in Nat /\ created <= created'
    BY <1>1, <1>2 DEF RoleRowsInv
  <2> QED
    BY <1>2, <1>5, <1>6, <1>7, <2>1 DEF RowsGo
<1>9. ASSUME NEW x \in roles', NEW y \in roles', x.default, y.default
      PROVE  x = y /\ x.owner = All
  <2>1. PICK r \in C, q \in C : x = f[r] /\ y = f[q]
    BY <1>3
  <2>2. CASE \A z \in C : ~ z.default
    <3>1. f[r].default /\ f[q].default
      BY <1>9, <2>1
    <3>2. r.id = i /\ q.id = i
      BY <1>2, <2>1, <2>2, <3>1
    <3> QED
      BY <1>2, <2>1, <3>1, <3>2
  <2>3. CASE ~ \A z \in C : ~ z.default
    <3>1. r.default /\ q.default
      BY <1>2, <1>9, <2>1, <2>3
    <3>2. r \in roles /\ q \in roles
      BY <1>2, <3>1
    <3>3. r = q /\ r.owner = All
      BY <1>1, <3>1, <3>2 DEF OneDefaultRole
    <3>4. f[r].owner = All
      BY <1>4, <3>3
    <3> QED
      BY <2>1, <3>3, <3>4
  <2> QED
    BY <2>2, <2>3
<1>10. OneDefaultRole'
  BY <1>9 DEF OneDefaultRole
<1> QED
  BY <1>8, <1>10

\* Rows that go leave the rest as they are.
LEMMA RowsAreDropped ==
    ASSUME RoleInv, roles' \subseteq roles, renamed \subseteq renamed', created' = created
    PROVE  RowsGo /\ OneDefaultRole'
<1>1. RowsGo
  BY DEF RoleInv, RoleRowsInv, RowsGo
<1>2. OneDefaultRole'
  BY DEF RoleInv, OneDefaultRole
<1> QED
  BY <1>1, <1>2

-----------------------------------------------------------------------------
\* The requests

LEMMA RowsMove ==
    ASSUME RoleInv, RowsGo, OneDefaultRole', EditsAnswered, UNCHANGED given, editing' \in [Editors -> EditType]
    PROVE  RoleInv'
<1>1. EditTypes'
  BY DEF RoleInv, EditTypes
<1> QED
  BY <1>1, RowsThatGo DEF RoleInv

LEMMA RolesAreCreated ==
    ASSUME RoleInv, NEW name \in RoleNames,
           (\E u \in Members : CreateRole(u, name)) \/ (\E d \in BOOLEAN : CreateGlobal(name, d))
    PROVE  RoleInv'
<1>1. EditsAnswered /\ UNCHANGED given /\ editing' \in [Editors -> EditType] /\ renamed \subseteq renamed'
  BY DEF CreateRole, CreateGlobal, EditsAnswered, RoleInv, EditTypes
<1>2. RowsGo /\ OneDefaultRole'
  <2>1. ASSUME NEW u \in Members, CreateRole(u, name)
        PROVE  RowsGo /\ OneDefaultRole'
    <3>1. RoleCleared(FALSE) = roles
      BY DEF RoleCleared
    <3>2. PICK C : C = RoleCleared(FALSE)
      OBVIOUS
    <3>3. /\ created' = created + 1
          /\ roles' = C \cup {[id |-> created + 1, owner |-> u, name |-> name, default |-> FALSE]}
      BY <2>1, <3>1, <3>2 DEF CreateRole
    <3> QED
      BY <1>1, <3>2, <3>3, RowsAreCreated
  <2>2. ASSUME NEW d \in BOOLEAN, CreateGlobal(name, d)
        PROVE  RowsGo /\ OneDefaultRole'
    <3>1. PICK C : C = RoleCleared(d)
      OBVIOUS
    <3>2. /\ created' = created + 1
          /\ roles' = C \cup {[id |-> created + 1, owner |-> All, name |-> name, default |-> d]}
      BY <2>2, <3>1 DEF CreateGlobal
    <3> QED
      BY <1>1, <3>1, <3>2, RowsAreCreated
  <2> QED
    BY <2>1, <2>2
<1> QED
  BY <1>1, <1>2, RowsMove

LEMMA EditAnswered ==
    ASSUME RoleInv, NEW e \in Editors, RoleAnswers(e)
    PROVE  EditsAnswered /\ editing' \in [Editors -> EditType]
<1>1. Unedited \in EditType
  BY DEF Unedited, EditType, NoRole
<1> QED
  BY <1>1 DEF RoleAnswers, EditsAnswered, RoleInv, EditTypes

LEMMA RoleIsUpdated ==
    ASSUME RoleInv, NEW e \in Editors, NEW name \in RoleNames, NEW d \in BOOLEAN, UpdateRole(e, name, d)
    PROVE  RoleInv'
<1>1. PICK i : i = editing[e].id
  OBVIOUS
<1>2. PICK C : C = RoleCleared(d)
  OBVIOUS
<1> DEFINE f == [r \in C |-> IF r.id = i THEN [r EXCEPT !.name = name, !.default = d] ELSE r]
<1>3. /\ C \subseteq RoleRow
      /\ \A x, y \in C : x.id = y.id => x = y
      /\ \A x \in C : /\ x.default => x \in roles /\ ~ d
                      /\ \E r \in roles : x.id = r.id /\ x.owner = r.owner /\ x.name = r.name
  BY <1>2, RowsAreCleared DEF RoleInv
<1>4. i \in renamed' /\ renamed \subseteq renamed' /\ created' = created /\ UNCHANGED given
  BY <1>1 DEF UpdateRole
<1>5. roles' = {f[r] : r \in C}
  BY <1>1, <1>2 DEF UpdateRole
<1>6. ASSUME NEW r \in C
      PROVE  /\ f[r] \in RoleRow
             /\ r.id # i => f[r] = r
             /\ r.id = i => f[r].id = i /\ f[r].owner = r.owner /\ f[r].default = d
  BY <1>3 DEF RoleRow
<1>7. f \in [C -> RoleRow]
  BY <1>6
<1>8. ASSUME NEW r \in C, r.id = i, d
      PROVE  r.owner = All
  <2>1. editing[e].pc = "updateGlobal"
    BY <1>8 DEF UpdateRole
  <2> QED
    BY <1>1, <1>3, <1>8, <2>1 DEF RoleInv, EditingInv
<1> HIDE DEF f
<1>9. RowsGo /\ OneDefaultRole'
  <2>1. \A r \in C : r.id # i => f[r] = r
    BY <1>6
  <2>2. \A r \in C : r.id = i => f[r].id = i /\ f[r].owner = r.owner /\ (f[r].name = r.name \/ i \in renamed')
    BY <1>4, <1>6
  <2>3. \A r \in C : r.id = i /\ f[r].default => f[r].owner = All /\ (r.default \/ \A q \in C : ~ q.default)
    BY <1>3, <1>6, <1>8
  <2>4. Written(C, f, i)
    BY <1>3, <1>4, <1>5, <1>7, <2>1, <2>2, <2>3 DEF Written
  <2> QED
    BY <2>4, RowIsWritten
<1>10. EditsAnswered /\ editing' \in [Editors -> EditType]
  BY EditAnswered DEF UpdateRole
<1> QED
  BY <1>4, <1>9, <1>10, RowsMove

LEMMA DefaultIsSet ==
    ASSUME RoleInv, NEW i \in 1 .. MaxRoles, SetDefault(i)
    PROVE  RoleInv'
<1>1. PICK C : C = RoleCleared(TRUE)
  OBVIOUS
<1> DEFINE f == [r \in C |-> IF r.id = i /\ r.owner = All THEN [r EXCEPT !.default = TRUE] ELSE r]
<1>2. /\ C \subseteq RoleRow
      /\ \A x, y \in C : x.id = y.id => x = y
      /\ \A x \in C : /\ ~ x.default
                      /\ \E r \in roles : x.id = r.id /\ x.owner = r.owner /\ x.name = r.name
  <2>1. \A x \in C : x.default => x \in roles /\ ~ TRUE
    BY <1>1, RowsAreCleared DEF RoleInv
  <2>2. /\ C \subseteq RoleRow
        /\ \A x, y \in C : x.id = y.id => x = y
        /\ \A x \in C : \E r \in roles : x.id = r.id /\ x.owner = r.owner /\ x.name = r.name
    BY <1>1, RowsAreCleared DEF RoleInv
  <2> QED
    BY <2>1, <2>2
<1>3. renamed \subseteq renamed' /\ created' = created /\ UNCHANGED given
  BY DEF SetDefault
<1>4. roles' = {f[r] : r \in C}
  BY <1>1 DEF SetDefault
<1>5. ASSUME NEW r \in C
      PROVE  /\ f[r] \in RoleRow
             /\ r.id # i => f[r] = r
             /\ r.id = i => f[r].id = i /\ f[r].owner = r.owner /\ f[r].name = r.name
             /\ f[r].default => r.owner = All
  <2>1. r \in RoleRow /\ ~ r.default
    BY <1>1, <1>2
  <2> QED
    BY <2>1 DEF RoleRow
<1>6. f \in [C -> RoleRow]
  BY <1>5
<1> HIDE DEF f
<1>7. RowsGo /\ OneDefaultRole'
  <2>1. \A r \in C : r.id # i => f[r] = r
    BY <1>5
  <2>2. \A r \in C : r.id = i => f[r].id = i /\ f[r].owner = r.owner /\ (f[r].name = r.name \/ i \in renamed')
    BY <1>5
  <2>3. \A r \in C : r.id = i /\ f[r].default => f[r].owner = All /\ (r.default \/ \A q \in C : ~ q.default)
    BY <1>1, <1>2, <1>5
  <2>5. renamed \subseteq renamed' /\ created' = created
    BY <1>3
  <2>6. /\ \A x, y \in C : x.id = y.id => x = y
        /\ \A x \in C : /\ x.default => x \in roles
                        /\ \E r \in roles : x.id = r.id /\ x.owner = r.owner /\ x.name = r.name
    BY <1>2
  <2>7. C \subseteq RoleRow /\ f \in [C -> RoleRow] /\ roles' = {f[r] : r \in C}
    BY <1>2, <1>4, <1>6
  <2>8. Written(C, f, i)
    BY <2>1, <2>2, <2>3, <2>5, <2>6, <2>7 DEF Written
  <2> QED
    BY <2>8, RowIsWritten
<1>8. EditsAnswered /\ editing' \in [Editors -> EditType]
  BY DEF SetDefault, EditsAnswered, RoleInv, EditTypes
<1> QED
  BY <1>3, <1>7, <1>8, RowsMove

LEMMA RolesGo ==
    ASSUME RoleInv, (\E e \in Editors : DeleteRole(e)) \/ (\E u \in Members : DeleteMember(u))
    PROVE  RoleInv'
<1>1. /\ roles' \subseteq roles /\ renamed \subseteq renamed' /\ created' = created /\ UNCHANGED given
  BY DEF DeleteRole, DeleteMember
<1>2. RowsGo /\ OneDefaultRole'
  BY <1>1, RowsAreDropped
<1>3. EditsAnswered /\ editing' \in [Editors -> EditType]
  BY EditAnswered DEF DeleteRole, DeleteMember, EditsAnswered, RoleInv, EditTypes
<1> QED
  BY <1>1, <1>2, <1>3, RowsMove

\* A request that has looked at a role, to write it or to give it.
LEMMA RoleIsLookedAt ==
    ASSUME RoleInv, NEW e \in Editors, NEW r \in roles, NEW pc \in {"update", "updateGlobal", "delete", "apply"},
           Looks(e, pc, r), pc = "updateGlobal" => r.owner = All,
           UNCHANGED <<roles, created, given, renamed>>
    PROVE  RoleInv'
<1>1. r \in RoleRow /\ r.id \in 1 .. created /\ created \in Nat
  BY DEF RoleInv, RoleRowsInv
<1>2. [pc |-> pc, id |-> r.id, saw |-> r.name] \in EditType
  BY <1>1 DEF RoleRow, EditType
<1>3. EditTypes'
  BY <1>2 DEF RoleInv, EditTypes, Looks
<1>4. RoleRowsInv' /\ GivenInv' /\ OneDefaultRole'
  BY DEF RoleInv, RoleRowsInv, GivenInv, OneDefaultRole
<1>5. ASSUME NEW q \in roles, q.id = r.id
      PROVE  q = r
  BY <1>5 DEF RoleInv, RoleRowsInv
<1>6. editing'[e] = [pc |-> pc, id |-> r.id, saw |-> r.name] /\ \A o \in Editors : o # e => editing'[o] = editing[o]
  BY DEF Looks, RoleInv, EditTypes
<1>7. EditingInv'
  BY <1>1, <1>5, <1>6 DEF RoleInv, EditingInv
<1> QED
  BY <1>3, <1>4, <1>7 DEF RoleInv

LEMMA RoleIsGiven ==
    ASSUME RoleInv, (\E e \in Editors : SetDeviceRole(e)) \/ ClearDeviceRole
    PROVE  RoleInv'
<1>1. RoleRowsInv' /\ OneDefaultRole' /\ created \in Nat
  BY DEF SetDeviceRole, ClearDeviceRole, RoleInv, RoleRowsInv, OneDefaultRole
<1>2. CASE ClearDeviceRole
  BY <1>1, <1>2 DEF ClearDeviceRole, RoleInv, EditTypes, EditingInv, GivenInv, RoleRowsInv, NoRole
<1>3. ASSUME NEW e \in Editors, SetDeviceRole(e)
      PROVE  RoleInv'
  <2>1. editing[e] \in EditType /\ editing[e].pc = "apply" /\ editing[e].id \in 1 .. created
    BY <1>3 DEF SetDeviceRole, RoleInv, EditTypes, EditingInv
  <2>2. EditsAnswered /\ editing' \in [Editors -> EditType]
    BY <1>3, EditAnswered DEF SetDeviceRole
  <2>3. given' = [id |-> editing[e].id, name |-> editing[e].saw] /\ UNCHANGED <<roles, created, renamed>>
    BY <1>3 DEF SetDeviceRole
  <2>4. EditTypes'
    BY <2>1, <2>2, <2>3 DEF EditTypes, EditType
  <2>5. GivenInv'
    BY <1>1, <2>1, <2>3 DEF GivenInv, RoleInv, EditingInv
  <2>6. EditingInv'
    BY <2>2, <2>3 DEF EditingInv, RoleInv, EditsAnswered, Unedited
  <2> QED
    BY <1>1, <2>4, <2>5, <2>6 DEF RoleInv
<1> QED
  BY <1>2, <1>3

-----------------------------------------------------------------------------
LEMMA RoleBegins ==
    ASSUME RoleInit
    PROVE  RoleInv
<1>1. Unedited \in EditType
  BY DEF Unedited, EditType, NoRole
<1> QED
  BY <1>1 DEF RoleInit, RoleInv, EditTypes, RoleRowsInv, EditingInv, GivenInv, OneDefaultRole, Unedited, NoRole

LEMMA RoleStep ==
    ASSUME RoleInv, [RoleNext]_roleVars
    PROVE  RoleInv'
<1>1. CASE UNCHANGED roleVars
  BY <1>1 DEF roleVars, RoleInv, EditTypes, RoleRowsInv, EditingInv, GivenInv, OneDefaultRole
<1>2. ASSUME NEW e \in Editors, NEW r \in roles, LooksToUpdate(e, r) \/ LooksToDelete(e, r) \/ LooksToApply(e, r)
      PROVE  RoleInv'
  BY <1>2, RoleIsLookedAt DEF LooksToUpdate, LooksToDelete, LooksToApply
<1>3. ASSUME NEW e \in Editors, NEW name \in RoleNames, LooksToSwitch(e, name)
      PROVE  RoleInv'
  BY <1>3, RoleIsLookedAt DEF LooksToSwitch
<1> QED
  BY <1>1, <1>2, <1>3, RolesAreCreated, RoleIsUpdated, DefaultIsSet, RolesGo, RoleIsGiven DEF RoleNext

-----------------------------------------------------------------------------
\* What is served is the first of the roles with such a name.
LEMMA RoleIsFound ==
    ASSUME RoleInv, NEW u, NEW name, NEW M,
           M = {r.id : r \in {q \in roles : RoleIs(q, u) /\ Parts(q.name, name)}}
    PROVE  /\ M \subseteq Nat \ {NoRole}
           /\ M = {} => FoundRole(u, name) = NoRole
           /\ M # {} => FoundRole(u, name) \in M /\ \A n \in M : FoundRole(u, name) <= n
<1>1. M \in SUBSET Nat /\ NoRole \notin M
  BY DEF RoleInv, RoleRowsInv, NoRole
<1>2. M = {} => FoundRole(u, name) = NoRole
  BY DEF FoundRole
<1>3. M # {} => FoundRole(u, name) = Min(M)
  BY DEF FoundRole
<1> QED
  BY <1>1, <1>2, <1>3, LeastOfNumbers

LEMMA RolesFollow ==
    ASSUME RoleInv
    PROVE  RolesAreOne
<1>1. PICK M : M = {r.id : r \in {q \in roles : RoleIs(q, Bearer) /\ Parts(q.name, given.name)}}
  OBVIOUS
<1>2. \A r, q \in roles : r.id = q.id => r = q
  BY DEF RoleInv, RoleRowsInv
<1>3. \A r \in roles : r.id # NoRole
  BY DEF RoleInv, RoleRowsInv, NoRole
<1>4. /\ M \subseteq Nat \ {NoRole}
      /\ M = {} => FoundRole(Bearer, given.name) = NoRole
      /\ M # {} => FoundRole(Bearer, given.name) \in M /\ \A n \in M : FoundRole(Bearer, given.name) <= n
  <2>1. \E n : n = given.name
    OBVIOUS
  <2>2. PICK n : n = given.name
    BY <2>1
  <2>3. M = {r.id : r \in {q \in roles : RoleIs(q, Bearer) /\ Parts(q.name, n)}}
    BY <1>1, <2>2
  <2>4. /\ M \subseteq Nat \ {NoRole}
        /\ M = {} => FoundRole(Bearer, n) = NoRole
        /\ M # {} => FoundRole(Bearer, n) \in M /\ \A k \in M : FoundRole(Bearer, n) <= k
    BY <2>3, RoleIsFound
  <2> QED
    BY <2>2, <2>4
<1>5. ServedIsOwn
  <2>1. ASSUME NEW r \in roles, r.id = Served
        PROVE  RoleIs(r, Bearer)
    <3>1. r.id = FoundRole(Bearer, given.name) /\ r.id \in M
      BY <1>3, <1>4, <2>1 DEF Served
    <3>2. PICK q \in roles : r.id = q.id /\ RoleIs(q, Bearer)
      BY <1>1, <3>1
    <3> QED
      BY <1>2, <3>2
  <2> QED
    BY <2>1 DEF ServedIsOwn
<1>6. ServedAsGiven
  <2>1. ASSUME NEW r \in roles, r.id = given.id, r.id \notin renamed, RoleIs(r, Bearer), r.name # DefaultName,
               ~ \E q \in roles : q.id < r.id /\ RoleIs(q, Bearer) /\ Parts(q.name, r.name)
        PROVE  Served = r.id
    <3>1. r.name = given.name
      BY <2>1 DEF RoleInv, GivenInv
    <3>2. Parts(r.name, given.name) /\ Served = FoundRole(Bearer, given.name)
      BY <2>1, <3>1 DEF Parts, Served
    <3>3. r.id \in M
      BY <1>1, <2>1, <3>2
    <3>4. PICK n \in Nat : n = Served /\ n \in M /\ n <= r.id
      BY <1>4, <3>2, <3>3
    <3>5. PICK q \in roles : n = q.id /\ RoleIs(q, Bearer) /\ Parts(q.name, given.name)
      BY <1>1, <3>4
    <3>6. ~ (n < r.id)
      BY <2>1, <3>1, <3>5
    <3>7. r.id \in Nat
      BY DEF RoleInv, RoleRowsInv, RoleRow
    <3> QED
      BY <3>4, <3>6, <3>7
  <2> QED
    BY <2>1 DEF ServedAsGiven
<1> QED
  BY <1>5, <1>6 DEF RolesAreOne, RoleInv

-----------------------------------------------------------------------------
\* The voice prints

\* A request of adding, and of deleting; what they are called by is not 0.
AddType == [pc : {"new", "write", "insert", "register", "done"}, of : Groups \cup {0},
            file : FileNames \cup {0}, agent : Spokesmen \cup {0}]
EraseType == [pc : {"away", "unregister", "row", "file", "prints", "files", "group"}, of : Groups \cup {0},
              id : Samples \cup {0}, agent : Spokesmen \cup {0}, files : SUBSET FileNames]
SampleRow == [id : Samples, of : Groups, file : FileNames]
PrintType == [of : Groups, id : Samples, agent : Spokesmen]

AddsRow(s) == adding[s].pc \in {"register", "done"}
Adds(s) == adding[s].pc \in {"write", "insert", "register"}
ErasesRow(e) == erasing[e].pc \in {"unregister", "row", "file"}
ErasesGroup(e) == erasing[e].pc \in {"prints", "files", "group"}

PrintTypes ==
    /\ group \in [Groups -> [agent : Spokesmen \cup {0}, count : Nat]]
    /\ \A g \in Groups : There(g) => group[g].agent # 0
    /\ sampled \subseteq SampleRow /\ IsFiniteSet(sampled)
    /\ stored \in [Groups \X FileNames -> Samples \cup {NoSample}]
    /\ prints \subseteq PrintType
    /\ adding \in [Samples -> AddType] /\ erasing \in [Erasers -> EraseType]
    /\ \A s \in Samples : IF adding[s].pc = "new"
                          THEN adding[s].of = 0
                          ELSE adding[s].of \in Groups /\ adding[s].file \in FileNames /\ adding[s].agent \in Spokesmen
    /\ \A e \in Erasers : /\ IF erasing[e].pc = "away"
                             THEN erasing[e].of = 0 /\ erasing[e].files = {}
                             ELSE erasing[e].of \in Groups /\ erasing[e].agent \in Spokesmen
                          /\ ErasesRow(e) => erasing[e].id \in Samples
    /\ blurred \subseteq Groups

\* A row is its own sample's, and no group that is gone has one.
RowsInv ==
    \A r \in sampled : There(r.of) /\ AddsRow(r.id) /\ adding[r.id].of = r.of /\ adding[r.id].file = r.file

\* Another sample of the group has a file with that name.
Shared(s, g, f) == \E t \in Samples \ {s} : adding[t].of = g /\ adding[t].file = f

\* What is deleted was a sample's.
ErasesOwn(e) ==
    /\ \A f \in erasing[e].files :
          \E t \in Samples : AddsRow(t) /\ adding[t].of = erasing[e].of /\ adding[t].file = f
    /\ ErasesRow(e) => /\ AddsRow(erasing[e].id) /\ adding[erasing[e].id].of = erasing[e].of
                       /\ erasing[e].files = {adding[erasing[e].id].file}
    /\ erasing[e].pc = "file" => \A r \in sampled : r.id # erasing[e].id

\* Files that go were those of samples with a row; and the file of a sample that has none yet is
\* its own, or shared.
FilesInv ==
    /\ FileIsOwn
    /\ \A s \in Samples : adding[s].pc = "insert" =>
          stored[<<adding[s].of, adding[s].file>>] = s \/ Shared(s, adding[s].of, adding[s].file)
    /\ \A e \in Erasers : ErasesOwn(e)

\* What is on its way to or from a group that is not blurred knows the agent of the group, and
\* finds what it was sent for.
Knows(g, a) == There(g) => a = group[g].agent
HasPrint(r) == [of |-> r.of, id |-> r.id, agent |-> group[r.of].agent] \in prints
WayInv(g) ==
    /\ \A p \in prints : p.of = g => /\ There(g) /\ p.agent = group[g].agent /\ adding[p.id].pc = "done"
                                     /\ \E r \in sampled : r.of = g /\ r.id = p.id
    /\ \A r \in sampled : r.of = g =>
          \/ HasPrint(r) \/ adding[r.id].pc = "register"
          \/ \E e \in Erasers : erasing[e].of = g /\ erasing[e].pc = "row" /\ erasing[e].id = r.id
          \/ \E e \in Erasers : erasing[e].of = g /\ erasing[e].pc \in {"files", "group"}
    /\ \A s \in Samples : Adds(s) /\ adding[s].of = g =>
          /\ There(g) /\ adding[s].agent = group[g].agent
          /\ adding[s].pc = "register" => \E r \in sampled : r.of = g /\ r.id = s
    /\ \A e \in Erasers : erasing[e].of = g =>
          /\ Knows(g, erasing[e].agent)
          /\ ErasesRow(e) => adding[erasing[e].id].pc = "done"
          /\ erasing[e].pc = "row" => \A p \in prints : p.of = g => p.id # erasing[e].id
          /\ ErasesGroup(e) => There(g) /\ \A o \in Erasers \ {e} : erasing[o].of = g => ~ ErasesGroup(o)

WaysInv == \A g \in Groups \ blurred : WayInv(g)

PrintInv == PrintTypes /\ RowsInv /\ CountIsRows /\ FilesInv /\ WaysInv

LEMMA PrintBegins ==
    ASSUME PrintInit
    PROVE  PrintInv
<1> USE PrintAssumption DEF PrintInit, NoGroup, Unasked, Rested, NoSample, There, ErasesRow, ErasesGroup, AddsRow, Adds
<1>1. PrintTypes
  <2>1. IsFiniteSet(sampled)
    BY FS_EmptySet
  <2> QED
    BY <2>1 DEF PrintTypes, AddType, EraseType, SampleRow, PrintType
<1>2. RowsInv
  BY DEF RowsInv
<1>3. CountIsRows
  <2>1. \A g \in Groups : RowsOf(g) = {}
    BY DEF RowsOf
  <2>2. \A g \in Groups : group[g].count = 0
    OBVIOUS
  <2> QED
    BY <2>1, <2>2, FS_EmptySet DEF CountIsRows
<1>4. FilesInv
  BY DEF FilesInv, FileIsOwn, ErasesOwn
<1>5. WaysInv
  BY DEF WaysInv, WayInv
<1> QED
  BY <1>1, <1>2, <1>3, <1>4, <1>5 DEF PrintInv

\* What the invariant says when nothing is on its way.
LEMMA PrintsFollow ==
    ASSUME PrintInv
    PROVE  PrintsAreWhole
<1>1. PrintsAreRows
  <2>1. ASSUME NEW g \in Groups \ blurred, ~ OnItsWay(g)
        PROVE  {p \in prints : p.of = g} = {[of |-> g, id |-> r.id, agent |-> group[g].agent] : r \in RowsOf(g)}
    <3>1. WayInv(g)
      BY DEF PrintInv, WaysInv
    <3>2. ASSUME NEW p \in prints, p.of = g
          PROVE  \E r \in RowsOf(g) : p = [of |-> g, id |-> r.id, agent |-> group[g].agent]
      <4>1. PICK r \in sampled : r.of = g /\ r.id = p.id
        BY <3>1, <3>2 DEF WayInv
      <4>2. p = [of |-> g, id |-> r.id, agent |-> group[g].agent]
        BY <3>1, <3>2, <4>1 DEF WayInv, PrintInv, PrintTypes, PrintType
      <4> QED
        BY <4>1, <4>2 DEF RowsOf
    <3>3. ASSUME NEW r \in RowsOf(g)
          PROVE  [of |-> g, id |-> r.id, agent |-> group[g].agent] \in prints
      <4>1. r \in sampled /\ r.of = g
        BY DEF RowsOf
      <4>2. adding[r.id].of = g /\ r.id \in Samples
        BY <4>1 DEF PrintInv, RowsInv, PrintTypes, SampleRow
      <4>3. adding[r.id].pc # "register" /\ \A e \in Erasers : erasing[e].of # g
        BY <2>1, <4>2 DEF OnItsWay
      <4>4. HasPrint(r)
        BY <3>1, <4>1, <4>3 DEF WayInv
      <4> QED
        BY <4>1, <4>4 DEF HasPrint
    <3> QED
      BY <3>2, <3>3
  <2> QED
    BY <2>1 DEF PrintsAreRows
<1> QED
  BY <1>1 DEF PrintInv, FilesInv, PrintsAreWhole

-----------------------------------------------------------------------------
\* Requests that make, move and drop groups

LEMMA GroupIsCreated ==
    ASSUME PrintInv, NEW g \in Groups, NEW a \in Spokesmen, CreateGroup(g, a)
    PROVE  PrintInv'
<1>1. /\ ~ There(g) /\ g \notin blurred /\ \A s \in Samples : adding[s].of # g
      /\ group' = [group EXCEPT ![g] = [agent |-> a, count |-> 0]]
      /\ UNCHANGED <<sampled, stored, prints, adding, erasing, lost, blurred>>
  BY DEF CreateGroup
<1>2. PrintTypes /\ RowsInv /\ CountIsRows /\ FilesInv /\ WaysInv
  BY DEF PrintInv
<1>3. a # 0 /\ group'[g] = [agent |-> a, count |-> 0] /\ \A h \in Groups : h # g => group'[h] = group[h]
  BY <1>1, <1>2, PrintAssumption DEF PrintTypes
<1>4. There(g)' /\ \A h \in Groups : h # g => (There(h)' <=> There(h))
  BY <1>3 DEF There, NoGroup
<1>5. PrintTypes'
  BY <1>1, <1>2, <1>3, <1>4 DEF PrintTypes, ErasesRow
<1>6. RowsInv'
  BY <1>1, <1>2, <1>4 DEF RowsInv, AddsRow, PrintTypes, SampleRow
<1>7. CountIsRows'
  <2>1. \A h \in Groups : RowsOf(h)' = RowsOf(h)
    BY <1>1 DEF RowsOf
  <2>2. RowsOf(g) = {}
    BY <1>1, <1>2 DEF RowsOf, RowsInv
  <2>3. group'[g].count = Cardinality(RowsOf(g)')
    BY <1>3, <2>1, <2>2, FS_EmptySet
  <2>4. ASSUME NEW h \in Groups, h # g
        PROVE  group'[h].count = Cardinality(RowsOf(h)')
    BY <1>2, <1>3, <2>1, <2>4 DEF CountIsRows
  <2> QED
    BY <2>3, <2>4 DEF CountIsRows
<1>8. FilesInv'
  BY <1>1, <1>2 DEF FilesInv, FileIsOwn, Leaves, ErasesOwn, AddsRow, ErasesRow, Shared
<1>9. WaysInv'
  <2>1. ASSUME NEW h \in Groups \ blurred', h # g
        PROVE  WayInv(h)'
    <3>1. WayInv(h)
      BY <1>1, <1>2, <2>1 DEF WaysInv
    <3> QED
      BY <1>1, <1>3, <1>4, <2>1, <3>1 DEF WayInv, HasPrint, Knows, Adds, ErasesRow, ErasesGroup
  <2>2. WayInv(g)'
    <3>1. WayInv(g)
      BY <1>1, <1>2 DEF WaysInv
    <3>2. \A e \in Erasers : erasing[e].of # g
      <4>1. ASSUME NEW e \in Erasers, erasing[e].of = g
            PROVE  FALSE
        <5>1. ~ ErasesGroup(e)
          BY <1>1, <3>1, <4>1 DEF WayInv
        <5>2. erasing[e].pc # "away"
          BY <1>2, <4>1, PrintAssumption DEF PrintTypes
        <5>3. ErasesRow(e)
          BY <1>2, <5>1, <5>2 DEF PrintTypes, EraseType, ErasesRow, ErasesGroup
        <5> QED
          BY <1>1, <1>2, <4>1, <5>3 DEF FilesInv, ErasesOwn, PrintTypes
      <4> QED
        BY <4>1
    <3>3. (\A r \in sampled : r.of # g) /\ \A p \in prints : p.of # g
      BY <1>1, <1>2, <3>1 DEF WayInv, RowsInv
    <3> QED
      BY <1>1, <3>2, <3>3 DEF WayInv, Adds
  <2> QED
    BY <2>1, <2>2 DEF WaysInv
<1> QED
  BY <1>5, <1>6, <1>7, <1>8, <1>9 DEF PrintInv

LEMMA GroupIsMoved ==
    ASSUME PrintInv, NEW g \in Groups, NEW a \in Spokesmen, MoveGroup(g, a)
    PROVE  PrintInv'
<1>1. /\ There(g)
      /\ group' = [group EXCEPT ![g].agent = a]
      /\ blurred' = blurred \cup IF OnItsWay(g) \/ \E p \in prints : p.of = g THEN {g} ELSE {}
      /\ UNCHANGED <<sampled, stored, prints, adding, erasing, lost>>
  BY DEF MoveGroup
<1>2. PrintTypes /\ RowsInv /\ CountIsRows /\ FilesInv /\ WaysInv
  BY DEF PrintInv
<1>3. /\ a # 0 /\ group'[g].agent = a /\ group'[g].count = group[g].count
      /\ \A h \in Groups : h # g => group'[h] = group[h]
      /\ group' \in [Groups -> [agent : Spokesmen \cup {0}, count : Nat]]
  BY <1>1, <1>2, PrintAssumption DEF PrintTypes
<1>4. There(g)' /\ \A h \in Groups : h # g => (There(h)' <=> There(h))
  BY <1>3 DEF There, NoGroup
<1>5. PrintTypes'
  BY <1>1, <1>2, <1>3, <1>4 DEF PrintTypes, ErasesRow
<1>6. RowsInv'
  BY <1>1, <1>2, <1>4 DEF RowsInv, AddsRow, PrintTypes, SampleRow
<1>7. CountIsRows'
  <2>1. \A h \in Groups : RowsOf(h)' = RowsOf(h)
    BY <1>1 DEF RowsOf
  <2> QED
    BY <1>2, <1>3, <2>1 DEF CountIsRows
<1>8. FilesInv'
  BY <1>1, <1>2 DEF FilesInv, FileIsOwn, Leaves, ErasesOwn, AddsRow, ErasesRow, Shared
<1>9. WaysInv'
  <2>1. ASSUME NEW h \in Groups \ blurred', h # g
        PROVE  WayInv(h)'
    <3>1. WayInv(h)
      BY <1>1, <1>2, <2>1 DEF WaysInv
    <3> QED
      BY <1>1, <1>3, <1>4, <2>1, <3>1 DEF WayInv, HasPrint, Knows, Adds, ErasesRow, ErasesGroup
  <2>2. ASSUME g \notin blurred'
        PROVE  WayInv(g)'
    <3>1. WayInv(g)
      BY <1>1, <1>2, <2>2 DEF WaysInv
    <3>2. ~ OnItsWay(g) /\ \A p \in prints : p.of # g
      BY <1>1, <2>2
    <3>3. (\A e \in Erasers : erasing[e].of # g) /\ \A s \in Samples : Adds(s) => adding[s].of # g
      BY <3>2 DEF OnItsWay, Adds
    <3>4. \A r \in sampled : r.of # g
      <4>1. ASSUME NEW r \in sampled, r.of = g
            PROVE  FALSE
        <5>1. ~ HasPrint(r)
          BY <3>2, <4>1 DEF HasPrint
        <5>2. r.id \in Samples /\ adding[r.id].of = g
          BY <1>2, <4>1 DEF RowsInv, PrintTypes, SampleRow
        <5>3. adding[r.id].pc # "register"
          BY <3>3, <5>2 DEF Adds
        <5> QED
          BY <3>1, <3>3, <4>1, <5>1, <5>3 DEF WayInv
      <4> QED
        BY <4>1
    <3> QED
      BY <1>1, <3>2, <3>3, <3>4 DEF WayInv, Adds
  <2> QED
    BY <2>1, <2>2 DEF WaysInv
<1> QED
  BY <1>5, <1>6, <1>7, <1>8, <1>9 DEF PrintInv

LEMMA UserIsDeleted ==
    ASSUME PrintInv, DeletePrintUser
    PROVE  PrintInv'
<1>1. /\ group' = [g \in Groups |-> NoGroup] /\ sampled' = {}
      /\ blurred' = blurred \cup {g \in Groups : There(g)}
      /\ UNCHANGED <<stored, prints, adding, erasing, lost>>
  BY DEF DeletePrintUser
<1>2. PrintTypes /\ RowsInv /\ CountIsRows /\ FilesInv /\ WaysInv
  BY DEF PrintInv
<1>3. \A g \in Groups : ~ There(g)' /\ group'[g] = NoGroup
  BY <1>1 DEF There
<1>4. PrintTypes'
  <2>1. group' \in [Groups -> [agent : Spokesmen \cup {0}, count : Nat]]
    BY <1>1 DEF NoGroup
  <2> QED
    BY <1>1, <1>2, <1>3, <2>1, FS_EmptySet DEF PrintTypes, ErasesRow
<1>5. RowsInv'
  BY <1>1 DEF RowsInv
<1>6. CountIsRows'
  <2>1. \A g \in Groups : RowsOf(g)' = {}
    BY <1>1 DEF RowsOf
  <2> QED
    BY <1>3, <2>1, FS_EmptySet DEF CountIsRows, NoGroup
<1>7. FilesInv'
  BY <1>1, <1>2 DEF FilesInv, FileIsOwn, ErasesOwn, AddsRow, ErasesRow, Shared
<1>8. WaysInv'
  <2>1. ASSUME NEW g \in Groups \ blurred'
        PROVE  WayInv(g)'
    <3>1. WayInv(g) /\ ~ There(g)
      BY <1>1, <1>2 DEF WaysInv
    <3>2. (\A p \in prints : p.of # g) /\ (\A s \in Samples : ~ (Adds(s) /\ adding[s].of = g))
      BY <3>1 DEF WayInv
    <3> QED
      BY <1>1, <1>3, <3>1, <3>2 DEF WayInv, Knows, Adds, ErasesRow, ErasesGroup
  <2> QED
    BY <2>1 DEF WaysInv
<1> QED
  BY <1>4, <1>5, <1>6, <1>7, <1>8 DEF PrintInv

-----------------------------------------------------------------------------
\* A sample is added

\* Samples that are added take nothing from what is deleted.
LEMMA ErasersStay ==
    ASSUME PrintTypes, \A e \in Erasers : ErasesOwn(e), UNCHANGED erasing,
           \A t \in Samples : AddsRow(t) => AddsRow(t)' /\ adding'[t].of = adding[t].of /\ adding'[t].file = adding[t].file,
           \A r \in sampled' : r \in sampled \/ ~ AddsRow(r.id)
    PROVE  \A e \in Erasers : ErasesOwn(e)'
<1>1. ASSUME NEW e \in Erasers
      PROVE  ErasesOwn(e)'
  <2>1. (\A f \in erasing[e].files :
            \E t \in Samples : AddsRow(t) /\ adding[t].of = erasing[e].of /\ adding[t].file = f)'
    BY DEF ErasesOwn
  <2>2. CASE ErasesRow(e)
    <3>1. PICK i \in Samples : i = erasing[e].id
      BY <2>2 DEF PrintTypes
    <3>2. AddsRow(i) /\ adding[i].of = erasing[e].of /\ erasing[e].files = {adding[i].file}
      BY <2>2, <3>1 DEF ErasesOwn
    <3>3. AddsRow(i)' /\ adding'[i].of = erasing[e].of /\ erasing[e].files = {adding'[i].file}
      BY <3>2
    <3>4. erasing[e].pc = "file" => \A r \in sampled' : r.id # i
      BY <3>1, <3>2 DEF ErasesOwn
    <3> QED
      BY <2>1, <3>1, <3>3, <3>4 DEF ErasesOwn, AddsRow
  <2>3. CASE ~ ErasesRow(e)
    BY <2>1, <2>3 DEF ErasesOwn, ErasesRow
  <2> QED
    BY <2>2, <2>3
<1> QED
  BY <1>1

LEMMA AddBegins ==
    ASSUME PrintInv, NEW s \in Samples, NEW g \in Groups, NEW f \in FileNames, BeginAdd(s, g, f)
    PROVE  PrintInv'
<1>1. /\ adding[s].pc = "new" /\ There(g)
      /\ adding' = [adding EXCEPT ![s] = [pc |-> "write", of |-> g, file |-> f, agent |-> group[g].agent]]
      /\ UNCHANGED <<group, sampled, stored, prints, erasing, lost, blurred>>
  BY DEF BeginAdd
<1>2. PrintTypes /\ RowsInv /\ CountIsRows /\ FilesInv /\ WaysInv
  BY DEF PrintInv
<1>3. PICK a \in Spokesmen : a = group[g].agent
  BY <1>1, <1>2 DEF PrintTypes
<1>4. /\ adding'[s] = [pc |-> "write", of |-> g, file |-> f, agent |-> a]
      /\ \A t \in Samples : t # s => adding'[t] = adding[t]
      /\ adding' \in [Samples -> AddType]
  BY <1>1, <1>2, <1>3 DEF PrintTypes, AddType
<1>5. \A t \in Samples : AddsRow(t) => t # s /\ adding'[t] = adding[t]
  BY <1>1, <1>4 DEF AddsRow
<1>6. PrintTypes'
  BY <1>1, <1>2, <1>4 DEF PrintTypes, There, ErasesRow
<1>7. RowsInv'
  BY <1>1, <1>2, <1>5 DEF RowsInv, There, AddsRow, PrintTypes, SampleRow
<1>8. CountIsRows'
  BY <1>1, <1>2 DEF CountIsRows, RowsOf
<1>9. FilesInv'
  <2>1. \A t, u \in Samples, h \in Groups, k \in FileNames :
           adding[u].of = h /\ adding[u].file = k => adding'[u].of = h /\ adding'[u].file = k
    BY <1>1, <1>2, <1>4, PrintAssumption DEF PrintTypes
  <2>2. FileIsOwn'
    <3>1. ASSUME NEW r \in sampled
          PROVE  (\/ stored[<<r.of, r.file>>] = r.id \/ Leaves(r)
                  \/ \E t \in Samples \ {r.id} : adding[t].of = r.of /\ adding[t].file = r.file)'
      <4>1. r.of \in Groups /\ r.file \in FileNames
        BY <1>2 DEF PrintTypes, SampleRow
      <4>2. Leaves(r)' <=> Leaves(r)
        BY <1>1 DEF Leaves
      <4>3. \/ stored[<<r.of, r.file>>] = r.id \/ Leaves(r)
            \/ \E t \in Samples \ {r.id} : adding[t].of = r.of /\ adding[t].file = r.file
        BY <1>2 DEF FilesInv, FileIsOwn
      <4> QED
        BY <1>1, <2>1, <4>1, <4>2, <4>3
    <3> QED
      BY <1>1, <3>1 DEF FileIsOwn
  <2>3. ASSUME NEW t \in Samples, adding'[t].pc = "insert"
        PROVE  (stored[<<adding[t].of, adding[t].file>>] = t \/ Shared(t, adding[t].of, adding[t].file))'
    <3>1. t # s /\ adding'[t] = adding[t] /\ adding[t].of \in Groups /\ adding[t].file \in FileNames
      BY <1>2, <1>4, <2>3 DEF PrintTypes
    <3>2. stored[<<adding[t].of, adding[t].file>>] = t \/ Shared(t, adding[t].of, adding[t].file)
      BY <1>2, <2>3, <3>1 DEF FilesInv
    <3> QED
      BY <1>1, <2>1, <3>1, <3>2 DEF Shared
  <2>4. \A e \in Erasers : ErasesOwn(e)'
    BY <1>1, <1>2, <1>5, ErasersStay DEF FilesInv, AddsRow
  <2> QED
    BY <2>2, <2>3, <2>4 DEF FilesInv
<1>10. WaysInv'
  <2>1. ASSUME NEW h \in Groups \ blurred'
        PROVE  WayInv(h)'
    <3>1. WayInv(h)
      BY <1>1, <1>2 DEF WaysInv
    <3>2. \A r \in sampled : r.id # s /\ r.id \in Samples
      BY <1>1, <1>2 DEF RowsInv, AddsRow, PrintTypes, SampleRow
    <3>3. \A p \in prints : p.id \in Samples
      BY <1>2 DEF PrintTypes, PrintType
    <3>4. \A e \in Erasers : ErasesRow(e) => erasing[e].id \in Samples
      BY <1>2 DEF PrintTypes
    <3>5. (\A p \in prints : p.of = h => /\ There(h) /\ p.agent = group[h].agent /\ adding[p.id].pc = "done"
                                         /\ \E r \in sampled : r.of = h /\ r.id = p.id)'
      BY <1>1, <1>4, <3>1, <3>3 DEF WayInv, There
    <3>6. (\A r \in sampled : r.of = h =>
          \/ HasPrint(r) \/ adding[r.id].pc = "register"
          \/ \E e \in Erasers : erasing[e].of = h /\ erasing[e].pc = "row" /\ erasing[e].id = r.id
          \/ \E e \in Erasers : erasing[e].of = h /\ erasing[e].pc \in {"files", "group"})'
      BY <1>1, <1>4, <3>1, <3>2 DEF WayInv, HasPrint
    <3>7. (\A t \in Samples : Adds(t) /\ adding[t].of = h =>
          /\ There(h) /\ adding[t].agent = group[h].agent
          /\ adding[t].pc = "register" => \E r \in sampled : r.of = h /\ r.id = t)'
      BY <1>1, <1>3, <1>4, <3>1 DEF WayInv, There, Adds
    <3>8. (\A e \in Erasers : erasing[e].of = h =>
          /\ Knows(h, erasing[e].agent)
          /\ ErasesRow(e) => adding[erasing[e].id].pc = "done"
          /\ erasing[e].pc = "row" => \A p \in prints : p.of = h => p.id # erasing[e].id
          /\ ErasesGroup(e) => There(h) /\ \A o \in Erasers \ {e} : erasing[o].of = h => ~ ErasesGroup(o))'
      BY <1>1, <1>4, <3>1, <3>4 DEF WayInv, There, Knows, ErasesRow, ErasesGroup
    <3> QED
      BY <3>5, <3>6, <3>7, <3>8 DEF WayInv
  <2> QED
    BY <2>1 DEF WaysInv
<1> QED
  BY <1>6, <1>7, <1>8, <1>9, <1>10 DEF PrintInv

\* A request of adding goes on.
LEMMA AddGoesOn ==
    ASSUME PrintTypes, NEW s \in Samples, NEW pc \in {"insert", "register", "done"}, AddTo(s, pc), adding[s].pc # "new"
    PROVE  /\ adding' \in [Samples -> AddType] /\ adding'[s].pc = pc
           /\ \A t \in Samples : /\ t # s => adding'[t] = adding[t]
                                 /\ adding'[t].of = adding[t].of /\ adding'[t].file = adding[t].file
                                 /\ adding'[t].agent = adding[t].agent
                                 /\ (adding'[t].pc = "new" <=> adding[t].pc = "new")
<1>1. PICK a \in AddType : a = adding[s]
  BY DEF PrintTypes
<1>2. PICK b : b = [a EXCEPT !.pc = pc]
  OBVIOUS
<1>3. b \in AddType /\ b.pc = pc /\ b.of = a.of /\ b.file = a.file /\ b.agent = a.agent
  BY <1>2 DEF AddType
<1>4. adding' = [adding EXCEPT ![s] = b]
  BY <1>1, <1>2 DEF AddTo
<1> QED
  BY <1>1, <1>3, <1>4 DEF PrintTypes

LEMMA FileIsWritten ==
    ASSUME PrintInv, NEW s \in Samples, WriteFile(s)
    PROVE  PrintInv'
<1>1. /\ adding[s].pc = "write" /\ AddTo(s, "insert")
      /\ stored' = [stored EXCEPT ![<<adding[s].of, adding[s].file>>] = s]
      /\ UNCHANGED <<group, sampled, prints, erasing, lost, blurred>>
  BY DEF WriteFile
<1>2. PrintTypes /\ RowsInv /\ CountIsRows /\ FilesInv /\ WaysInv
  BY DEF PrintInv
<1>3. /\ adding' \in [Samples -> AddType] /\ adding'[s].pc = "insert"
      /\ \A t \in Samples : /\ t # s => adding'[t] = adding[t]
                            /\ adding'[t].of = adding[t].of /\ adding'[t].file = adding[t].file
                            /\ adding'[t].agent = adding[t].agent
                            /\ (adding'[t].pc = "new" <=> adding[t].pc = "new")
  BY <1>1, <1>2, AddGoesOn
<1>4. PICK g \in Groups, f \in FileNames : g = adding[s].of /\ f = adding[s].file
  BY <1>1, <1>2 DEF PrintTypes
<1>5. \A t \in Samples : AddsRow(t) => t # s /\ adding'[t] = adding[t]
  BY <1>1, <1>3 DEF AddsRow
<1>6. /\ stored' \in [Groups \X FileNames -> Samples \cup {NoSample}] /\ stored'[<<g, f>>] = s
      /\ \A h \in Groups, k \in FileNames : <<h, k>> # <<g, f>> => stored'[<<h, k>>] = stored[<<h, k>>]
  BY <1>1, <1>2, <1>4 DEF PrintTypes
<1>7. PrintTypes'
  BY <1>1, <1>2, <1>3, <1>6 DEF PrintTypes, There, ErasesRow
<1>8. RowsInv'
  BY <1>1, <1>2, <1>5 DEF RowsInv, There, AddsRow, PrintTypes, SampleRow
<1>9. CountIsRows'
  BY <1>1, <1>2 DEF CountIsRows, RowsOf
<1>10. FilesInv'
  <2>1. FileIsOwn'
    <3>1. ASSUME NEW r \in sampled
          PROVE  (\/ stored[<<r.of, r.file>>] = r.id \/ Leaves(r)
                  \/ \E t \in Samples \ {r.id} : adding[t].of = r.of /\ adding[t].file = r.file)'
      <4>1. r.of \in Groups /\ r.file \in FileNames /\ r.id # s
        BY <1>2, <1>5 DEF PrintTypes, SampleRow, RowsInv
      <4>2. Leaves(r)' <=> Leaves(r)
        BY <1>1 DEF Leaves
      <4>3. \/ stored[<<r.of, r.file>>] = r.id \/ Leaves(r)
            \/ \E t \in Samples \ {r.id} : adding[t].of = r.of /\ adding[t].file = r.file
        BY <1>2 DEF FilesInv, FileIsOwn
      <4>4. CASE r.of = g /\ r.file = f
        BY <1>3, <1>4, <4>1, <4>4
      <4>5. CASE ~ (r.of = g /\ r.file = f)
        <5>1. stored'[<<r.of, r.file>>] = stored[<<r.of, r.file>>]
          BY <1>6, <4>1, <4>5
        <5> QED
          BY <1>1, <1>3, <4>2, <4>3, <5>1
      <4> QED
        BY <4>4, <4>5
    <3> QED
      BY <1>1, <3>1 DEF FileIsOwn
  <2>2. ASSUME NEW t \in Samples, adding'[t].pc = "insert"
        PROVE  (stored[<<adding[t].of, adding[t].file>>] = t \/ Shared(t, adding[t].of, adding[t].file))'
    <3>1. CASE t = s
      BY <1>3, <1>4, <1>6, <3>1
    <3>2. CASE t # s
      <4>1. PICK h \in Groups, k \in FileNames : h = adding[t].of /\ k = adding[t].file
        BY <1>2, <1>3, <2>2, <3>2 DEF PrintTypes
      <4>2. stored[<<h, k>>] = t \/ Shared(t, h, k)
        BY <1>2, <1>3, <2>2, <3>2, <4>1 DEF FilesInv
      <4>3. Shared(t, h, k) => Shared(t, h, k)'
        BY <1>3 DEF Shared
      <4>4. CASE <<h, k>> = <<g, f>>
        <5>1. Shared(t, h, k)'
          BY <1>3, <1>4, <3>2, <4>4 DEF Shared
        <5> QED
          BY <1>3, <4>1, <5>1 DEF Shared
      <4>5. CASE <<h, k>> # <<g, f>>
        <5>1. stored'[<<h, k>>] = stored[<<h, k>>]
          BY <1>6, <4>5
        <5> QED
          BY <1>3, <4>1, <4>2, <4>3, <5>1 DEF Shared
      <4> QED
        BY <4>4, <4>5
    <3> QED
      BY <3>1, <3>2
  <2>3. \A e \in Erasers : ErasesOwn(e)'
    BY <1>1, <1>2, <1>5, ErasersStay DEF FilesInv, AddsRow
  <2> QED
    BY <2>1, <2>2, <2>3 DEF FilesInv
<1>11. WaysInv'
  <2>1. ASSUME NEW h \in Groups \ blurred'
        PROVE  WayInv(h)'
    <3>1. WayInv(h)
      BY <1>1, <1>2 DEF WaysInv
    <3>2. \A r \in sampled : r.id # s /\ r.id \in Samples
      BY <1>2, <1>5 DEF RowsInv, AddsRow, PrintTypes, SampleRow
    <3>3. \A p \in prints : p.id \in Samples
      BY <1>2 DEF PrintTypes, PrintType
    <3>4. \A e \in Erasers : ErasesRow(e) => erasing[e].id \in Samples
      BY <1>2 DEF PrintTypes
    <3>5. (\A p \in prints : p.of = h => /\ There(h) /\ p.agent = group[h].agent /\ adding[p.id].pc = "done"
                                         /\ \E r \in sampled : r.of = h /\ r.id = p.id)'
      BY <1>1, <1>3, <3>1, <3>3 DEF WayInv, There
    <3>6. (\A r \in sampled : r.of = h =>
          \/ HasPrint(r) \/ adding[r.id].pc = "register"
          \/ \E e \in Erasers : erasing[e].of = h /\ erasing[e].pc = "row" /\ erasing[e].id = r.id
          \/ \E e \in Erasers : erasing[e].of = h /\ erasing[e].pc \in {"files", "group"})'
      BY <1>1, <1>3, <3>1, <3>2 DEF WayInv, HasPrint
    <3>7. (\A t \in Samples : Adds(t) /\ adding[t].of = h =>
          /\ There(h) /\ adding[t].agent = group[h].agent
          /\ adding[t].pc = "register" => \E r \in sampled : r.of = h /\ r.id = t)'
      BY <1>1, <1>3, <3>1 DEF WayInv, There, Adds
    <3>8. (\A e \in Erasers : erasing[e].of = h =>
          /\ Knows(h, erasing[e].agent)
          /\ ErasesRow(e) => adding[erasing[e].id].pc = "done"
          /\ erasing[e].pc = "row" => \A p \in prints : p.of = h => p.id # erasing[e].id
          /\ ErasesGroup(e) => There(h) /\ \A o \in Erasers \ {e} : erasing[o].of = h => ~ ErasesGroup(o))'
      BY <1>1, <1>3, <3>1, <3>4 DEF WayInv, There, Knows, ErasesRow, ErasesGroup
    <3> QED
      BY <3>5, <3>6, <3>7, <3>8 DEF WayInv
  <2> QED
    BY <2>1 DEF WaysInv
<1> QED
  BY <1>7, <1>8, <1>9, <1>10, <1>11 DEF PrintInv

\* The row comes with its count, and finds the group of the request or, when that is gone, ends it.
LEMMA RowIsInserted ==
    ASSUME PrintInv, NEW s \in Samples, InsertRow(s)
    PROVE  PrintInv'
<1> DEFINE inserts == There(adding[s].of)
           new == [id |-> s, of |-> adding[s].of, file |-> adding[s].file]
<1>1. /\ adding[s].pc = "insert" /\ AddTo(s, IF inserts THEN "register" ELSE "done")
      /\ inserts => /\ sampled' = sampled \cup {new}
                    /\ group' = [group EXCEPT ![adding[s].of].count = @ + 1]
      /\ ~ inserts => UNCHANGED <<group, sampled>>
      /\ UNCHANGED <<stored, prints, erasing, lost, blurred>>
  BY DEF InsertRow
<1>2. PrintTypes /\ RowsInv /\ CountIsRows /\ FilesInv /\ WaysInv
  BY DEF PrintInv
<1>3. PICK pc \in {"insert", "register", "done"} : pc = IF inserts THEN "register" ELSE "done"
  OBVIOUS
<1>4. /\ adding' \in [Samples -> AddType] /\ adding'[s].pc = pc
      /\ \A t \in Samples : /\ t # s => adding'[t] = adding[t]
                            /\ adding'[t].of = adding[t].of /\ adding'[t].file = adding[t].file
                            /\ adding'[t].agent = adding[t].agent
                            /\ (adding'[t].pc = "new" <=> adding[t].pc = "new")
  BY <1>1, <1>2, <1>3, AddGoesOn
<1>5. PICK g \in Groups, f \in FileNames : g = adding[s].of /\ f = adding[s].file
  BY <1>1, <1>2 DEF PrintTypes
<1>6. \A t \in Samples : AddsRow(t) => t # s /\ adding'[t] = adding[t]
  BY <1>1, <1>4 DEF AddsRow
<1>7. /\ new \in SampleRow /\ new.id = s /\ new.of = g /\ new.file = f
      /\ \A r \in sampled : r.id # s /\ r # new
  BY <1>2, <1>5, <1>6 DEF SampleRow, RowsInv, PrintTypes
<1>8. inserts <=> There(g)
  BY <1>5
<1> HIDE DEF inserts, new
<1>9. /\ group' \in [Groups -> [agent : Spokesmen \cup {0}, count : Nat]]
      /\ \A h \in Groups : /\ group'[h].agent = group[h].agent
                           /\ group'[h].count = IF inserts /\ h = g THEN group[h].count + 1 ELSE group[h].count
                           /\ (There(h)' <=> There(h))
  <2>1. CASE ~ inserts
    BY <1>1, <1>2, <2>1 DEF PrintTypes, There
  <2>2. CASE inserts
    <3>1. PICK a \in Spokesmen \cup {0}, n \in Nat : group[g] = [agent |-> a, count |-> n] /\ a # 0
      BY <1>2, <1>8, <2>2 DEF PrintTypes
    <3>2. group' = [group EXCEPT ![g] = [agent |-> a, count |-> n + 1]]
      BY <1>1, <1>2, <1>5, <2>2, <3>1 DEF PrintTypes
    <3> QED
      BY <1>2, <2>2, <3>1, <3>2 DEF PrintTypes, There, NoGroup
  <2> QED
    BY <2>1, <2>2
<1>10. sampled \subseteq sampled' /\ \A r \in sampled' : r \in sampled \/ (r = new /\ inserts)
  BY <1>1
<1>11. PrintTypes'
  <2>1. IsFiniteSet(sampled')
    <3>1. IsFiniteSet(sampled) /\ IsFiniteSet(sampled \cup {new})
      BY <1>2, FS_AddElement DEF PrintTypes
    <3>2. sampled' = sampled \/ sampled' = sampled \cup {new}
      BY <1>1
    <3> QED
      BY <3>1, <3>2
  <2>2. sampled' \subseteq SampleRow
    BY <1>2, <1>7, <1>10 DEF PrintTypes
  <2> QED
    BY <1>1, <1>2, <1>4, <1>9, <2>1, <2>2 DEF PrintTypes, ErasesRow
<1>12. RowsInv'
  <2>1. ASSUME NEW r \in sampled'
        PROVE  (There(r.of) /\ AddsRow(r.id) /\ adding[r.id].of = r.of /\ adding[r.id].file = r.file)'
    <3>1. CASE r \in sampled
      <4>1. r.id \in Samples /\ r.of \in Groups /\ AddsRow(r.id) /\ There(r.of) /\ adding[r.id].of = r.of /\ adding[r.id].file = r.file
        BY <1>2, <3>1 DEF RowsInv, PrintTypes, SampleRow
      <4> QED
        BY <1>6, <1>9, <4>1 DEF AddsRow
    <3>2. CASE r = new /\ inserts
      BY <1>3, <1>4, <1>5, <1>7, <1>8, <1>9, <3>2 DEF AddsRow
    <3> QED
      BY <1>10, <3>1, <3>2
  <2> QED
    BY <2>1 DEF RowsInv
<1>13. CountIsRows'
  <2>1. ASSUME NEW h \in Groups
        PROVE  group'[h].count = Cardinality(RowsOf(h)')
    <3>1. group[h].count = Cardinality(RowsOf(h))
      BY <1>2 DEF CountIsRows
    <3>2. CASE inserts /\ h = g
      <4>1. RowsOf(h)' = RowsOf(h) \cup {new} /\ new \notin RowsOf(h)
        BY <1>1, <1>7, <3>2 DEF RowsOf
      <4>2. IsFiniteSet(RowsOf(h))
        BY <1>2, FS_Subset DEF RowsOf, PrintTypes
      <4>3. Cardinality(RowsOf(h)') = Cardinality(RowsOf(h)) + 1
        BY <4>1, <4>2, FS_AddElement
      <4> QED
        BY <1>9, <3>1, <3>2, <4>3
    <3>3. CASE ~ (inserts /\ h = g)
      <4>1. RowsOf(h)' = RowsOf(h)
        BY <1>1, <1>7, <3>3 DEF RowsOf
      <4> QED
        BY <1>9, <3>1, <3>3, <4>1
    <3> QED
      BY <3>2, <3>3
  <2> QED
    BY <2>1 DEF CountIsRows
<1>14. FilesInv'
  <2>1. ASSUME NEW r \in sampled'
        PROVE  (\/ stored[<<r.of, r.file>>] = r.id \/ Leaves(r)
                \/ \E t \in Samples \ {r.id} : adding[t].of = r.of /\ adding[t].file = r.file)'
    <3>1. CASE r \in sampled
      <4>1. Leaves(r)' <=> Leaves(r)
        BY <1>1 DEF Leaves
      <4>2. \/ stored[<<r.of, r.file>>] = r.id \/ Leaves(r)
            \/ \E t \in Samples \ {r.id} : adding[t].of = r.of /\ adding[t].file = r.file
        BY <1>2, <3>1 DEF FilesInv, FileIsOwn
      <4> QED
        BY <1>1, <1>4, <4>1, <4>2
    <3>2. CASE r = new
      <4>1. stored[<<g, f>>] = s \/ Shared(s, g, f)
        BY <1>1, <1>2, <1>5 DEF FilesInv
      <4> QED
        BY <1>1, <1>4, <1>7, <3>2, <4>1 DEF Shared
    <3> QED
      BY <1>10, <3>1, <3>2
  <2>2. ASSUME NEW t \in Samples, adding'[t].pc = "insert"
        PROVE  (stored[<<adding[t].of, adding[t].file>>] = t \/ Shared(t, adding[t].of, adding[t].file))'
    <3>1. t # s
      BY <1>3, <1>4, <2>2
    <3>2. stored[<<adding[t].of, adding[t].file>>] = t \/ Shared(t, adding[t].of, adding[t].file)
      BY <1>2, <1>4, <2>2, <3>1 DEF FilesInv
    <3> QED
      BY <1>1, <1>4, <3>1, <3>2 DEF Shared
  <2>3. \A e \in Erasers : ErasesOwn(e)'
    <3>1. \A r \in sampled' : r \in sampled \/ ~ AddsRow(r.id)
      BY <1>6, <1>7, <1>10
    <3> QED
      BY <1>1, <1>2, <1>6, <3>1, ErasersStay DEF FilesInv, AddsRow
  <2> QED
    BY <2>1, <2>2, <2>3 DEF FilesInv, FileIsOwn
<1>15. WaysInv'
  <2>1. ASSUME NEW h \in Groups \ blurred'
        PROVE  WayInv(h)'
    <3>1. WayInv(h)
      BY <1>1, <1>2 DEF WaysInv
    <3>2. \A r \in sampled : r.id # s /\ r.id \in Samples /\ r.of \in Groups
      BY <1>2, <1>7 DEF PrintTypes, SampleRow
    <3>3. \A p \in prints : p.id \in Samples
      BY <1>2 DEF PrintTypes, PrintType
    <3>4. \A e \in Erasers : ErasesRow(e) => erasing[e].id \in Samples
      BY <1>2 DEF PrintTypes
    <3>5. (\A p \in prints : p.of = h => /\ There(h) /\ p.agent = group[h].agent /\ adding[p.id].pc = "done"
                                         /\ \E r \in sampled : r.of = h /\ r.id = p.id)'
      BY <1>1, <1>4, <1>9, <1>10, <3>1, <3>3 DEF WayInv
    <3>6. (\A r \in sampled : r.of = h =>
          \/ HasPrint(r) \/ adding[r.id].pc = "register"
          \/ \E e \in Erasers : erasing[e].of = h /\ erasing[e].pc = "row" /\ erasing[e].id = r.id
          \/ \E e \in Erasers : erasing[e].of = h /\ erasing[e].pc \in {"files", "group"})'
      <4>1. ASSUME NEW r \in sampled, r.of = h
            PROVE  (\/ HasPrint(r) \/ adding[r.id].pc = "register"
                    \/ \E e \in Erasers : erasing[e].of = h /\ erasing[e].pc = "row" /\ erasing[e].id = r.id
                    \/ \E e \in Erasers : erasing[e].of = h /\ erasing[e].pc \in {"files", "group"})'
        BY <1>1, <1>4, <1>9, <3>1, <3>2, <4>1 DEF WayInv, HasPrint
      <4>2. inserts => adding'[new.id].pc = "register"
        BY <1>3, <1>4, <1>7
      <4> QED
        BY <1>10, <4>1, <4>2
    <3>7. (\A t \in Samples : Adds(t) /\ adding[t].of = h =>
          /\ There(h) /\ adding[t].agent = group[h].agent
          /\ adding[t].pc = "register" => \E r \in sampled : r.of = h /\ r.id = t)'
      <4>1. ASSUME NEW t \in Samples, Adds(t)', adding'[t].of = h, t # s
            PROVE  /\ There(h)' /\ adding'[t].agent = group'[h].agent
                   /\ adding'[t].pc = "register" => \E r \in sampled' : r.of = h /\ r.id = t
        BY <1>4, <1>9, <1>10, <3>1, <4>1 DEF WayInv, Adds
      <4>2. ASSUME adding'[s].of = h, Adds(s)'
            PROVE  /\ There(h)' /\ adding'[s].agent = group'[h].agent
                   /\ adding'[s].pc = "register" => \E r \in sampled' : r.of = h /\ r.id = s
        <5>1. h = g /\ inserts
          BY <1>3, <1>4, <1>5, <4>2 DEF Adds
        <5>2. new \in sampled' /\ new.of = h /\ new.id = s
          BY <1>1, <1>7, <5>1
        <5>3. There(h) /\ adding[s].agent = group[h].agent
          BY <1>1, <1>4, <3>1, <4>2 DEF WayInv, Adds
        <5> QED
          BY <1>4, <1>9, <5>2, <5>3
      <4> QED
        BY <4>1, <4>2
    <3>8. (\A e \in Erasers : erasing[e].of = h =>
          /\ Knows(h, erasing[e].agent)
          /\ ErasesRow(e) => adding[erasing[e].id].pc = "done"
          /\ erasing[e].pc = "row" => \A p \in prints : p.of = h => p.id # erasing[e].id
          /\ ErasesGroup(e) => There(h) /\ \A o \in Erasers \ {e} : erasing[o].of = h => ~ ErasesGroup(o))'
      BY <1>1, <1>4, <1>9, <3>1, <3>4 DEF WayInv, Knows, ErasesRow, ErasesGroup
    <3> QED
      BY <3>5, <3>6, <3>7, <3>8 DEF WayInv
  <2> QED
    BY <2>1 DEF WaysInv
<1> QED
  BY <1>11, <1>12, <1>13, <1>14, <1>15 DEF PrintInv

LEMMA PrintIsRegistered ==
    ASSUME PrintInv, NEW s \in Samples, Register(s)
    PROVE  PrintInv'
<1> DEFINE new == [of |-> adding[s].of, id |-> s, agent |-> adding[s].agent]
<1>1. /\ adding[s].pc = "register" /\ AddTo(s, "done")
      /\ \/ prints' = prints \cup {new} /\ UNCHANGED blurred
         \/ prints' = prints /\ blurred' = blurred \cup {adding[s].of}
      /\ UNCHANGED <<group, sampled, stored, erasing>>
  BY DEF Register, Calls
<1>2. PrintTypes /\ RowsInv /\ CountIsRows /\ FilesInv /\ WaysInv
  BY DEF PrintInv
<1>3. /\ adding' \in [Samples -> AddType] /\ adding'[s].pc = "done"
      /\ \A t \in Samples : /\ t # s => adding'[t] = adding[t]
                            /\ adding'[t].of = adding[t].of /\ adding'[t].file = adding[t].file
                            /\ adding'[t].agent = adding[t].agent
                            /\ (adding'[t].pc = "new" <=> adding[t].pc = "new")
  BY <1>1, <1>2, AddGoesOn
<1>4. PICK g \in Groups, a \in Spokesmen : g = adding[s].of /\ a = adding[s].agent
  BY <1>1, <1>2 DEF PrintTypes
<1>5. new \in PrintType /\ new.of = g /\ new.id = s /\ new.agent = a /\ new = [of |-> g, id |-> s, agent |-> a]
  BY <1>4 DEF PrintType
<1> HIDE DEF new
<1>6. \A t \in Samples : AddsRow(t) => AddsRow(t)'
  BY <1>1, <1>3 DEF AddsRow
<1>7. PrintTypes'
  BY <1>1, <1>2, <1>3, <1>4, <1>5 DEF PrintTypes, There, ErasesRow
<1>8. RowsInv'
  BY <1>1, <1>2, <1>3, <1>6 DEF RowsInv, There, PrintTypes, SampleRow
<1>9. CountIsRows'
  BY <1>1, <1>2 DEF CountIsRows, RowsOf
<1>10. FilesInv'
  <2>1. FileIsOwn'
    <3>1. ASSUME NEW r \in sampled
          PROVE  (\/ stored[<<r.of, r.file>>] = r.id \/ Leaves(r)
                  \/ \E t \in Samples \ {r.id} : adding[t].of = r.of /\ adding[t].file = r.file)'
      <4>1. Leaves(r)' <=> Leaves(r)
        BY <1>1 DEF Leaves
      <4>2. \/ stored[<<r.of, r.file>>] = r.id \/ Leaves(r)
            \/ \E t \in Samples \ {r.id} : adding[t].of = r.of /\ adding[t].file = r.file
        BY <1>2 DEF FilesInv, FileIsOwn
      <4> QED
        BY <1>1, <1>3, <4>1, <4>2
    <3> QED
      BY <1>1, <3>1 DEF FileIsOwn
  <2>2. ASSUME NEW t \in Samples, adding'[t].pc = "insert"
        PROVE  (stored[<<adding[t].of, adding[t].file>>] = t \/ Shared(t, adding[t].of, adding[t].file))'
    <3>1. stored[<<adding[t].of, adding[t].file>>] = t \/ Shared(t, adding[t].of, adding[t].file)
      BY <1>2, <1>3, <2>2 DEF FilesInv
    <3> QED
      BY <1>1, <1>3, <3>1 DEF Shared
  <2>3. \A e \in Erasers : ErasesOwn(e)'
    BY <1>1, <1>2, <1>3, <1>6, ErasersStay DEF FilesInv
  <2> QED
    BY <2>1, <2>2, <2>3 DEF FilesInv
<1>11. WaysInv'
  <2>1. ASSUME NEW h \in Groups \ blurred'
        PROVE  WayInv(h)'
    <3>1. WayInv(h)
      BY <1>1, <1>2, <2>1 DEF WaysInv
    <3>2. h = g => prints' = prints \cup {new}
      BY <1>1, <1>4, <2>1
    <3>3. prints \subseteq prints' /\ \A p \in prints' : p \in prints \/ p = new
      BY <1>1
    <3>4. h = g => There(h) /\ a = group[h].agent /\ \E r \in sampled : r.of = h /\ r.id = s
      BY <1>1, <1>4, <3>1 DEF WayInv, Adds
    <3>5. \A e \in Erasers : ErasesRow(e) /\ erasing[e].of = h => erasing[e].id \in Samples /\ erasing[e].id # s
      BY <1>1, <1>2, <3>1 DEF PrintTypes, WayInv
    <3>6. (\A p \in prints : p.of = h => /\ There(h) /\ p.agent = group[h].agent /\ adding[p.id].pc = "done"
                                         /\ \E r \in sampled : r.of = h /\ r.id = p.id)'
      <4>1. ASSUME NEW p \in prints, p.of = h
            PROVE  (/\ There(h) /\ p.agent = group[h].agent /\ adding[p.id].pc = "done"
                    /\ \E r \in sampled : r.of = h /\ r.id = p.id)'
        <5>1. p.id \in Samples
          BY <1>2 DEF PrintTypes, PrintType
        <5> QED
          BY <1>1, <1>3, <3>1, <4>1, <5>1 DEF WayInv, There
      <4>2. ASSUME h = g
            PROVE  (There(h) /\ \E r \in sampled : r.of = h /\ r.id = s)' /\ a = group'[h].agent /\ adding'[s].pc = "done"
        BY <1>1, <1>3, <3>4, <4>2 DEF There
      <4>3. ASSUME NEW p \in prints', p.of = h, p \notin prints
            PROVE  h = g /\ p.agent = a /\ p.id = s
        BY <1>5, <3>3, <4>3
      <4> QED
        BY <4>1, <4>2, <4>3
    <3>7. ASSUME NEW r \in sampled, r.of = h
          PROVE  (\/ HasPrint(r) \/ adding[r.id].pc = "register"
                  \/ \E e \in Erasers : erasing[e].of = h /\ erasing[e].pc = "row" /\ erasing[e].id = r.id
                  \/ \E e \in Erasers : erasing[e].of = h /\ erasing[e].pc \in {"files", "group"})'
      <4>1. r.id \in Samples /\ adding[r.id].of = h
        BY <1>2, <3>7 DEF RowsInv, PrintTypes, SampleRow
      <4>2. CASE r.id = s
        <5>1. h = g
          BY <1>4, <4>1, <4>2
        <5>2. HasPrint(r)'
          BY <1>1, <1>5, <3>2, <3>4, <3>7, <4>2, <5>1 DEF HasPrint
        <5> QED
          BY <5>2
      <4>3. CASE r.id # s
        BY <1>1, <1>3, <3>1, <3>3, <3>7, <4>1, <4>3 DEF WayInv, HasPrint
      <4> QED
        BY <4>2, <4>3
    <3>8. (\A t \in Samples : Adds(t) /\ adding[t].of = h =>
          /\ There(h) /\ adding[t].agent = group[h].agent
          /\ adding[t].pc = "register" => \E r \in sampled : r.of = h /\ r.id = t)'
      BY <1>1, <1>3, <3>1 DEF WayInv, There, Adds
    <3>9. (\A e \in Erasers : erasing[e].of = h =>
          /\ Knows(h, erasing[e].agent)
          /\ ErasesRow(e) => adding[erasing[e].id].pc = "done"
          /\ erasing[e].pc = "row" => \A p \in prints : p.of = h => p.id # erasing[e].id
          /\ ErasesGroup(e) => There(h) /\ \A o \in Erasers \ {e} : erasing[o].of = h => ~ ErasesGroup(o))'
      <4>1. ASSUME NEW e \in Erasers, erasing[e].of = h
            PROVE  /\ ErasesRow(e) => adding'[erasing[e].id].pc = "done"
                   /\ erasing[e].pc = "row" => \A p \in prints' : p.of = h => p.id # erasing[e].id
        BY <1>3, <1>5, <3>1, <3>3, <3>5, <4>1 DEF WayInv, ErasesRow
      <4>2. ASSUME NEW e \in Erasers, erasing[e].of = h
            PROVE  (/\ Knows(h, erasing[e].agent)
                    /\ ErasesGroup(e) => There(h) /\ \A o \in Erasers \ {e} : erasing[o].of = h => ~ ErasesGroup(o))'
        BY <1>1, <3>1, <4>2 DEF WayInv, Knows, There, ErasesGroup
      <4> QED
        BY <1>1, <4>1, <4>2 DEF ErasesRow
    <3> QED
      BY <1>1, <3>6, <3>7, <3>8, <3>9 DEF WayInv
  <2> QED
    BY <2>1 DEF WaysInv
<1> QED
  BY <1>7, <1>8, <1>9, <1>10, <1>11 DEF PrintInv

-----------------------------------------------------------------------------
\* A sample is deleted

\* A request of deleting goes on, or ends.
LEMMA EraseGoesOn ==
    ASSUME PrintTypes, NEW e \in Erasers, NEW pc \in {"away", "row", "file", "files", "group"}, EraseTo(e, pc),
           erasing[e].pc # "away"
    PROVE  /\ erasing' \in [Erasers -> EraseType] /\ erasing'[e].pc = pc
           /\ \A o \in Erasers : o # e => erasing'[o] = erasing[o]
           /\ pc = "away" => erasing'[e] = Rested
           /\ pc # "away" => /\ erasing'[e].of = erasing[e].of /\ erasing'[e].id = erasing[e].id
                             /\ erasing'[e].agent = erasing[e].agent /\ erasing'[e].files = erasing[e].files
<1>1. PICK a \in EraseType : a = erasing[e]
  BY DEF PrintTypes
<1>2. PICK b : b = IF pc = "away" THEN Rested ELSE [a EXCEPT !.pc = pc]
  OBVIOUS
<1>3. /\ b \in EraseType /\ b.pc = pc
      /\ pc # "away" => b.of = a.of /\ b.id = a.id /\ b.agent = a.agent /\ b.files = a.files
  <2>1. CASE pc = "away"
    BY <1>2, <2>1 DEF EraseType, Rested
  <2>2. CASE pc # "away"
    <3>1. b = [a EXCEPT !.pc = pc]
      BY <1>2, <2>2
    <3> QED
      BY <2>2, <3>1 DEF EraseType
  <2> QED
    BY <2>1, <2>2
<1>4. erasing' = [erasing EXCEPT ![e] = b]
  BY <1>1, <1>2 DEF EraseTo
<1> QED
  BY <1>1, <1>2, <1>3, <1>4 DEF PrintTypes

\* What is said of the requests of deleting, and of one that is away, holds once it is.
LEMMA RestIsFine ==
    ASSUME NEW e \in Erasers, erasing'[e] = Rested
    PROVE  ErasesOwn(e)' /\ ~ ErasesRow(e)' /\ ~ ErasesGroup(e)' /\ \A g \in Groups : erasing'[e].of # g
  BY PrintAssumption DEF ErasesOwn, ErasesRow, ErasesGroup, Rested

LEMMA EraseBegins ==
    ASSUME PrintInv, NEW e \in Erasers, NEW r \in sampled, BeginErase(e, r)
    PROVE  PrintInv'
<1>1. /\ erasing[e].pc = "away"
      /\ erasing' = [erasing EXCEPT ![e] = [pc |-> "unregister", of |-> r.of, id |-> r.id,
                                            agent |-> group[r.of].agent, files |-> {r.file}]]
      /\ blurred' = blurred \cup IF adding[r.id].pc = "register" THEN {r.of} ELSE {}
      /\ UNCHANGED <<group, sampled, stored, prints, adding, lost>>
  BY DEF BeginErase
<1>2. PrintTypes /\ RowsInv /\ CountIsRows /\ FilesInv /\ WaysInv
  BY DEF PrintInv
<1>3. PICK s \in Samples, g \in Groups, f \in FileNames : s = r.id /\ g = r.of /\ f = r.file
  BY <1>2 DEF PrintTypes, SampleRow
<1>4. There(g) /\ AddsRow(s) /\ adding[s].of = g /\ adding[s].file = f
  BY <1>2, <1>3 DEF RowsInv
<1>5. PICK a \in Spokesmen : a = group[g].agent
  BY <1>2, <1>4 DEF PrintTypes
<1>6. /\ erasing' \in [Erasers -> EraseType]
      /\ erasing'[e] = [pc |-> "unregister", of |-> g, id |-> s, agent |-> a, files |-> {f}]
      /\ \A o \in Erasers : o # e => erasing'[o] = erasing[o]
  BY <1>1, <1>2, <1>3, <1>5 DEF PrintTypes, EraseType
<1>7. PrintTypes'
  <2>1. \A o \in Erasers : (/\ IF erasing[o].pc = "away"
                               THEN erasing[o].of = 0 /\ erasing[o].files = {}
                               ELSE erasing[o].of \in Groups /\ erasing[o].agent \in Spokesmen
                            /\ ErasesRow(o) => erasing[o].id \in Samples)'
    BY <1>2, <1>6 DEF PrintTypes, ErasesRow
  <2>2. blurred' \subseteq Groups
    BY <1>1, <1>2, <1>3 DEF PrintTypes
  <2> QED
    BY <1>1, <1>2, <1>6, <2>1, <2>2 DEF PrintTypes, There
<1>8. RowsInv'
  BY <1>1, <1>2 DEF RowsInv, There, AddsRow
<1>9. CountIsRows'
  BY <1>1, <1>2 DEF CountIsRows, RowsOf
<1>10. FilesInv'
  <2>1. FileIsOwn'
    <3>1. ASSUME NEW q \in sampled
          PROVE  (\/ stored[<<q.of, q.file>>] = q.id \/ Leaves(q)
                  \/ \E t \in Samples \ {q.id} : adding[t].of = q.of /\ adding[t].file = q.file)'
      <4>1. Leaves(q) => Leaves(q)'
        BY <1>1, <1>2, <1>6 DEF Leaves, PrintTypes
      <4>2. \/ stored[<<q.of, q.file>>] = q.id \/ Leaves(q)
            \/ \E t \in Samples \ {q.id} : adding[t].of = q.of /\ adding[t].file = q.file
        BY <1>2 DEF FilesInv, FileIsOwn
      <4> QED
        BY <1>1, <4>1, <4>2
    <3> QED
      BY <1>1, <3>1 DEF FileIsOwn
  <2>2. \A t \in Samples : adding'[t].pc = "insert" =>
          (stored[<<adding[t].of, adding[t].file>>] = t \/ Shared(t, adding[t].of, adding[t].file))'
    BY <1>1, <1>2 DEF FilesInv, Shared
  <2>3. ErasesOwn(e)'
    BY <1>1, <1>4, <1>6 DEF ErasesOwn, ErasesRow, AddsRow
  <2>4. ASSUME NEW o \in Erasers, o # e
        PROVE  ErasesOwn(o)'
    <3>1. ErasesOwn(o) /\ erasing'[o] = erasing[o]
      BY <1>2, <1>6, <2>4 DEF FilesInv
    <3> QED
      BY <1>1, <3>1 DEF ErasesOwn, ErasesRow, AddsRow
  <2> QED
    BY <2>1, <2>2, <2>3, <2>4 DEF FilesInv
<1>11. WaysInv'
  <2>1. ASSUME NEW h \in Groups \ blurred'
        PROVE  WayInv(h)'
    <3>1. WayInv(h)
      BY <1>1, <1>2 DEF WaysInv
    <3>2. h = g => adding[s].pc = "done"
      BY <1>1, <1>3, <1>4, <2>1 DEF AddsRow
    <3>3. (\A p \in prints : p.of = h => /\ There(h) /\ p.agent = group[h].agent /\ adding[p.id].pc = "done"
                                         /\ \E q \in sampled : q.of = h /\ q.id = p.id)'
      BY <1>1, <3>1 DEF WayInv, There
    <3>4. ASSUME NEW q \in sampled, q.of = h
          PROVE  (\/ HasPrint(q) \/ adding[q.id].pc = "register"
                  \/ \E o \in Erasers : erasing[o].of = h /\ erasing[o].pc = "row" /\ erasing[o].id = q.id
                  \/ \E o \in Erasers : erasing[o].of = h /\ erasing[o].pc \in {"files", "group"})'
      <4>1. \A o \in Erasers : erasing[o].pc \in {"row", "files", "group"} => erasing'[o] = erasing[o]
        BY <1>1, <1>6
      <4> QED
        BY <1>1, <3>1, <3>4, <4>1 DEF WayInv, HasPrint
    <3>5. (\A t \in Samples : Adds(t) /\ adding[t].of = h =>
          /\ There(h) /\ adding[t].agent = group[h].agent
          /\ adding[t].pc = "register" => \E q \in sampled : q.of = h /\ q.id = t)'
      BY <1>1, <3>1 DEF WayInv, There, Adds
    <3>6. \A o \in Erasers : ErasesGroup(o)' => ErasesGroup(o) /\ o # e
      BY <1>6 DEF ErasesGroup
    <3>7. ASSUME NEW o \in Erasers, erasing'[o].of = h
          PROVE  (/\ Knows(h, erasing[o].agent)
                  /\ ErasesRow(o) => adding[erasing[o].id].pc = "done"
                  /\ erasing[o].pc = "row" => \A p \in prints : p.of = h => p.id # erasing[o].id
                  /\ ErasesGroup(o) => There(h) /\ \A i \in Erasers \ {o} : erasing[i].of = h => ~ ErasesGroup(i))'
      <4>1. CASE o = e
        <5>1. h = g /\ erasing'[o].agent = a /\ erasing'[o].id = s /\ erasing'[o].pc = "unregister"
          BY <1>6, <3>7, <4>1
        <5>2. Knows(h, erasing[o].agent)'
          BY <1>1, <1>5, <5>1 DEF Knows
        <5>3. adding'[erasing'[o].id].pc = "done"
          BY <1>1, <3>2, <5>1
        <5> QED
          BY <5>1, <5>2, <5>3 DEF ErasesGroup
      <4>2. CASE o # e
        <5>1. erasing'[o] = erasing[o]
          BY <1>6, <4>2
        <5>2. (/\ Knows(h, erasing[o].agent)
               /\ ErasesRow(o) => adding[erasing[o].id].pc = "done"
               /\ erasing[o].pc = "row" => \A p \in prints : p.of = h => p.id # erasing[o].id)'
          BY <1>1, <3>1, <3>7, <5>1 DEF WayInv, Knows, There, ErasesRow
        <5>3. ErasesGroup(o)' => There(h)' /\ \A i \in Erasers \ {o} : erasing'[i].of = h => ~ ErasesGroup(i)'
          BY <1>1, <1>6, <3>1, <3>6, <3>7, <5>1 DEF WayInv, There
        <5> QED
          BY <5>2, <5>3
      <4> QED
        BY <4>1, <4>2
    <3> QED
      BY <1>1, <3>3, <3>4, <3>5, <3>7 DEF WayInv
  <2> QED
    BY <2>1 DEF WaysInv
<1> QED
  BY <1>7, <1>8, <1>9, <1>10, <1>11 DEF PrintInv

\* What a step of deleting leaves of the files and of the other requests: one that ends leaves no
\* row whose file it took, unless that is shared.
LEMMA FilesGo ==
    ASSUME PrintTypes, RowsInv, FilesInv, NEW e \in Erasers, UNCHANGED adding, sampled' \subseteq sampled,
           \A o \in Erasers : o # e => erasing'[o] = erasing[o],
           \A h \in Groups, f \in FileNames :
              stored'[<<h, f>>] = stored[<<h, f>>] \/ (h = erasing[e].of /\ f \in erasing[e].files),
           \/ /\ erasing'[e] = Rested
              /\ \A r \in sampled' : r.of = erasing[e].of /\ r.file \in erasing[e].files => Shared(r.id, r.of, r.file)
           \/ /\ erasing'[e].of = erasing[e].of /\ erasing'[e].id = erasing[e].id /\ erasing'[e].files = erasing[e].files
              /\ ErasesRow(e)' => ErasesRow(e)
              /\ erasing'[e].pc = "file" => \A r \in sampled' : r.id # erasing[e].id
    PROVE  FilesInv'
<1>1. ASSUME NEW r \in sampled'
      PROVE  (\/ stored[<<r.of, r.file>>] = r.id \/ Leaves(r)
              \/ \E t \in Samples \ {r.id} : adding[t].of = r.of /\ adding[t].file = r.file)'
  <2>1. PICK h \in Groups, f \in FileNames : h = r.of /\ f = r.file
    BY DEF PrintTypes, SampleRow
  <2>2. stored[<<h, f>>] = r.id \/ Leaves(r) \/ Shared(r.id, h, f)
    BY <2>1 DEF FilesInv, FileIsOwn, Shared
  <2>3. Shared(r.id, h, f) => \E t \in Samples \ {r.id} : adding'[t].of = h /\ adding'[t].file = f
    BY DEF Shared
  <2>4. CASE h = erasing[e].of /\ f \in erasing[e].files
    <3>1. Shared(r.id, h, f) \/ (erasing'[e].of = h /\ f \in erasing'[e].files)
      BY <2>1, <2>4
    <3>2. erasing'[e].of = h /\ f \in erasing'[e].files => Leaves(r)'
      BY <2>1 DEF Leaves
    <3> QED
      BY <2>1, <2>3, <3>1, <3>2
  <2>5. CASE ~ (h = erasing[e].of /\ f \in erasing[e].files)
    <3>1. stored'[<<h, f>>] = stored[<<h, f>>]
      BY <2>5
    <3>2. Leaves(r) => Leaves(r)'
      BY <2>1, <2>5 DEF Leaves
    <3> QED
      BY <2>1, <2>2, <2>3, <3>1, <3>2
  <2> QED
    BY <2>4, <2>5
<1>2. ASSUME NEW t \in Samples, adding'[t].pc = "insert"
      PROVE  (stored[<<adding[t].of, adding[t].file>>] = t \/ Shared(t, adding[t].of, adding[t].file))'
  <2>1. PICK h \in Groups, f \in FileNames : h = adding[t].of /\ f = adding[t].file
    BY <1>2 DEF PrintTypes
  <2>2. stored[<<h, f>>] = t \/ Shared(t, h, f)
    BY <1>2, <2>1 DEF FilesInv
  <2>3. h = erasing[e].of /\ f \in erasing[e].files => Shared(t, h, f)
    <3>1. ErasesOwn(e) /\ ~ AddsRow(t)
      BY <1>2 DEF FilesInv, AddsRow
    <3> QED
      BY <3>1 DEF ErasesOwn, Shared
  <2>4. Shared(t, h, f) => Shared(t, h, f)'
    BY DEF Shared
  <2> QED
    BY <2>1, <2>2, <2>3, <2>4 DEF Shared
<1>3. ErasesOwn(e)'
  <2>1. CASE erasing'[e] = Rested
    BY <2>1, RestIsFine
  <2>2. CASE erasing'[e] # Rested
    <3>1. ErasesOwn(e)
      BY DEF FilesInv
    <3>2. /\ erasing'[e].of = erasing[e].of /\ erasing'[e].id = erasing[e].id /\ erasing'[e].files = erasing[e].files
          /\ ErasesRow(e)' => ErasesRow(e)
          /\ erasing'[e].pc = "file" => \A r \in sampled' : r.id # erasing[e].id
      BY <2>2
    <3>3. \A t \in Samples : AddsRow(t)' <=> AddsRow(t)
      BY DEF AddsRow
    <3>4. (\A f \in erasing[e].files :
              \E t \in Samples : AddsRow(t) /\ adding[t].of = erasing[e].of /\ adding[t].file = f)'
      BY <3>1, <3>2, <3>3 DEF ErasesOwn
    <3>5. (ErasesRow(e) => /\ AddsRow(erasing[e].id) /\ adding[erasing[e].id].of = erasing[e].of
                           /\ erasing[e].files = {adding[erasing[e].id].file})'
      BY <3>1, <3>2 DEF ErasesOwn, AddsRow
    <3> QED
      BY <3>2, <3>4, <3>5 DEF ErasesOwn
  <2> QED
    BY <2>1, <2>2
<1>4. ASSUME NEW o \in Erasers, o # e
      PROVE  ErasesOwn(o)'
  <2>1. ErasesOwn(o) /\ erasing'[o] = erasing[o]
    BY <1>4 DEF FilesInv
  <2> QED
    BY <2>1 DEF ErasesOwn, ErasesRow, AddsRow
<1> QED
  BY <1>1, <1>2, <1>3, <1>4 DEF FilesInv, FileIsOwn

\* A request of deleting a sample that ends leaves no row whose file it took, unless that is shared.
LEMMA TakenIsShared ==
    ASSUME PrintTypes, RowsInv, FilesInv, NEW e \in Erasers, ErasesRow(e), NEW r \in sampled,
           r.of = erasing[e].of, r.file \in erasing[e].files, r.id # erasing[e].id
    PROVE  Shared(r.id, r.of, r.file)
<1>1. PICK i \in Samples : i = erasing[e].id
  BY DEF PrintTypes
<1>2. ErasesOwn(e)
  BY DEF FilesInv
<1>3. adding[i].of = r.of /\ adding[i].file = r.file
  BY <1>1, <1>2 DEF ErasesOwn
<1> QED
  BY <1>1, <1>3 DEF Shared

\* The types of the requests of deleting, after a step of one of them.
LEMMA EraseTypes ==
    ASSUME PrintTypes, NEW e \in Erasers, NEW pc \in {"away", "row", "file", "files", "group"}, EraseTo(e, pc),
           erasing[e].pc # "away", pc \in {"row", "file"} => ErasesRow(e)
    PROVE  \A o \in Erasers : (/\ IF erasing[o].pc = "away"
                                  THEN erasing[o].of = 0 /\ erasing[o].files = {}
                                  ELSE erasing[o].of \in Groups /\ erasing[o].agent \in Spokesmen
                               /\ ErasesRow(o) => erasing[o].id \in Samples)'
<1>1. /\ erasing'[e].pc = pc /\ \A o \in Erasers : o # e => erasing'[o] = erasing[o]
      /\ pc = "away" => erasing'[e] = Rested
      /\ pc # "away" => /\ erasing'[e].of = erasing[e].of /\ erasing'[e].id = erasing[e].id
                        /\ erasing'[e].agent = erasing[e].agent /\ erasing'[e].files = erasing[e].files
  BY EraseGoesOn
<1>2. CASE pc = "away"
  BY <1>1, <1>2 DEF PrintTypes, Rested, ErasesRow
<1>3. CASE pc # "away"
  <2>1. ErasesRow(e)' => erasing'[e].id \in Samples
    BY <1>1, <1>3 DEF PrintTypes, ErasesRow
  <2>2. erasing'[e].of \in Groups /\ erasing'[e].agent \in Spokesmen
    BY <1>1, <1>3 DEF PrintTypes
  <2> QED
    BY <1>1, <1>3, <2>1, <2>2 DEF PrintTypes, ErasesRow
<1> QED
  BY <1>2, <1>3

LEMMA PrintIsUnregistered ==
    ASSUME PrintInv, NEW e \in Erasers, UnregisterPrint(e)
    PROVE  PrintInv'
<1> DEFINE old == [of |-> erasing[e].of, id |-> erasing[e].id, agent |-> erasing[e].agent]
<1>1. /\ erasing[e].pc = "unregister" /\ EraseTo(e, "row")
      /\ \/ prints' = prints \ {old} /\ UNCHANGED blurred
         \/ prints' = prints /\ blurred' = blurred \cup {erasing[e].of}
      /\ UNCHANGED <<group, sampled, stored, adding>>
  BY DEF UnregisterPrint, Calls
<1>2. PrintTypes /\ RowsInv /\ CountIsRows /\ FilesInv /\ WaysInv
  BY DEF PrintInv
<1>3. /\ erasing' \in [Erasers -> EraseType] /\ erasing'[e].pc = "row"
      /\ \A o \in Erasers : o # e => erasing'[o] = erasing[o]
      /\ erasing'[e].of = erasing[e].of /\ erasing'[e].id = erasing[e].id
      /\ erasing'[e].agent = erasing[e].agent /\ erasing'[e].files = erasing[e].files
  BY <1>1, <1>2, EraseGoesOn
<1>4. ErasesRow(e) /\ ~ ErasesGroup(e) /\ ~ ErasesGroup(e)'
  BY <1>1, <1>3 DEF ErasesRow, ErasesGroup
<1>5. PICK g \in Groups, s \in Samples, a \in Spokesmen : g = erasing[e].of /\ s = erasing[e].id /\ a = erasing[e].agent
  BY <1>1, <1>2, <1>4 DEF PrintTypes
<1>6. old = [of |-> g, id |-> s, agent |-> a]
  BY <1>5
<1> HIDE DEF old
<1>7. PrintTypes'
  <2>1. \A o \in Erasers : (/\ IF erasing[o].pc = "away"
                               THEN erasing[o].of = 0 /\ erasing[o].files = {}
                               ELSE erasing[o].of \in Groups /\ erasing[o].agent \in Spokesmen
                            /\ ErasesRow(o) => erasing[o].id \in Samples)'
    BY <1>1, <1>2, <1>4, EraseTypes
  <2>2. prints' \subseteq PrintType /\ blurred' \subseteq Groups
    BY <1>1, <1>2, <1>5 DEF PrintTypes
  <2> QED
    BY <1>1, <1>2, <1>3, <2>1, <2>2 DEF PrintTypes, There
<1>8. RowsInv'
  BY <1>1, <1>2 DEF RowsInv, There, AddsRow
<1>9. CountIsRows'
  BY <1>1, <1>2 DEF CountIsRows, RowsOf
<1>10. FilesInv'
  <2>1. ErasesRow(e)' => ErasesRow(e)
    BY <1>4
  <2> QED
    BY <1>1, <1>2, <1>3, <2>1, FilesGo
<1>11. WaysInv'
  <2>1. ASSUME NEW h \in Groups \ blurred'
        PROVE  WayInv(h)'
    <3>1. WayInv(h)
      BY <1>1, <1>2 DEF WaysInv
    <3>2. prints' \subseteq prints /\ \A p \in prints : p \in prints' \/ p = old
      BY <1>1
    <3>3. (\A p \in prints : p.of = h => /\ There(h) /\ p.agent = group[h].agent /\ adding[p.id].pc = "done"
                                         /\ \E q \in sampled : q.of = h /\ q.id = p.id)'
      BY <1>1, <3>1, <3>2 DEF WayInv, There
    <3>4. ASSUME NEW r \in sampled, r.of = h
          PROVE  (\/ HasPrint(r) \/ adding[r.id].pc = "register"
                  \/ \E o \in Erasers : erasing[o].of = h /\ erasing[o].pc = "row" /\ erasing[o].id = r.id
                  \/ \E o \in Erasers : erasing[o].of = h /\ erasing[o].pc \in {"files", "group"})'
      <4>1. \A o \in Erasers : erasing[o].pc \in {"row", "files", "group"} => erasing'[o] = erasing[o]
        BY <1>1, <1>3
      <4>2. HasPrint(r) /\ ~ HasPrint(r)' => g = h /\ s = r.id
        BY <1>1, <1>6, <3>2, <3>4 DEF HasPrint
      <4>3. CASE g = h /\ s = r.id
        BY <1>3, <1>5, <4>3
      <4>4. CASE ~ (g = h /\ s = r.id)
        BY <1>1, <3>1, <3>4, <4>1, <4>2, <4>4 DEF WayInv
      <4> QED
        BY <4>3, <4>4
    <3>5. (\A t \in Samples : Adds(t) /\ adding[t].of = h =>
          /\ There(h) /\ adding[t].agent = group[h].agent
          /\ adding[t].pc = "register" => \E q \in sampled : q.of = h /\ q.id = t)'
      BY <1>1, <3>1 DEF WayInv, There, Adds
    <3>6. \A o \in Erasers : ErasesGroup(o)' => ErasesGroup(o) /\ o # e
      BY <1>3, <1>4 DEF ErasesGroup
    <3>7. ASSUME NEW o \in Erasers, erasing'[o].of = h
          PROVE  (/\ Knows(h, erasing[o].agent)
                  /\ ErasesRow(o) => adding[erasing[o].id].pc = "done"
                  /\ erasing[o].pc = "row" => \A p \in prints : p.of = h => p.id # erasing[o].id
                  /\ ErasesGroup(o) => There(h) /\ \A i \in Erasers \ {o} : erasing[i].of = h => ~ ErasesGroup(i))'
      <4>1. erasing[o].of = h /\ erasing'[o].agent = erasing[o].agent /\ erasing'[o].id = erasing[o].id
            /\ (ErasesRow(o)' => ErasesRow(o))
        BY <1>3, <1>4, <3>7 DEF ErasesRow
      <4>2. Knows(h, erasing[o].agent)' /\ (ErasesRow(o)' => adding'[erasing'[o].id].pc = "done")
        BY <1>1, <3>1, <4>1 DEF WayInv, Knows, There
      <4>3. ASSUME erasing'[o].pc = "row", NEW p \in prints', p.of = h
            PROVE  p.id # erasing'[o].id
        <5>1. CASE o = e
          <6>1. h = g /\ erasing[e].of = h
            BY <1>5, <4>1, <5>1
          <6>2. p \in prints /\ There(h) /\ p.agent = group[h].agent
            BY <3>1, <3>2, <4>3 DEF WayInv
          <6>3. a = group[h].agent
            BY <1>5, <3>1, <6>1, <6>2 DEF WayInv, Knows
          <6>4. p \in PrintType
            BY <1>2, <6>2 DEF PrintTypes
          <6>5. p.id = s => p = old
            BY <1>6, <4>3, <6>1, <6>2, <6>3, <6>4 DEF PrintType
          <6>6. prints' = prints \ {old}
            BY <1>1, <2>1, <6>1
          <6> QED
            BY <1>5, <4>1, <4>3, <5>1, <6>5, <6>6
        <5>2. CASE o # e
          BY <1>3, <3>1, <3>2, <4>1, <4>3, <5>2 DEF WayInv
        <5> QED
          BY <5>1, <5>2
      <4>4. ErasesGroup(o)' => There(h)' /\ \A i \in Erasers \ {o} : erasing'[i].of = h => ~ ErasesGroup(i)'
        BY <1>1, <1>3, <3>1, <3>6, <4>1 DEF WayInv, There
      <4> QED
        BY <4>2, <4>3, <4>4
    <3> QED
      BY <1>1, <3>3, <3>4, <3>5, <3>7 DEF WayInv
  <2> QED
    BY <2>1 DEF WaysInv
<1> QED
  BY <1>7, <1>8, <1>9, <1>10, <1>11 DEF PrintInv

\* The row goes with its count; the row is the only one with the sample's name.
LEMMA RowIsDeleted ==
    ASSUME PrintInv, NEW e \in Erasers, DeleteRow(e)
    PROVE  PrintInv'
<1>1. PICK gone : gone = {r \in sampled : r.id = erasing[e].id /\ r.of = erasing[e].of}
  OBVIOUS
<1>2. PICK pc \in {"away", "row", "file", "files", "group"} : pc = IF gone # {} THEN "file" ELSE "away"
  OBVIOUS
<1>3. /\ erasing[e].pc = "row" /\ EraseTo(e, pc)
      /\ sampled' = sampled \ gone
      /\ group' = IF gone # {} /\ group[erasing[e].of].count > 0
                  THEN [group EXCEPT ![erasing[e].of].count = @ - 1] ELSE group
      /\ UNCHANGED <<stored, prints, adding, lost, blurred>>
  BY <1>1, <1>2 DEF DeleteRow
<1>4. PrintTypes /\ RowsInv /\ CountIsRows /\ FilesInv /\ WaysInv
  BY DEF PrintInv
<1>5. /\ erasing' \in [Erasers -> EraseType] /\ erasing'[e].pc = pc
      /\ \A o \in Erasers : o # e => erasing'[o] = erasing[o]
      /\ pc = "away" => erasing'[e] = Rested
      /\ pc # "away" => /\ erasing'[e].of = erasing[e].of /\ erasing'[e].id = erasing[e].id
                        /\ erasing'[e].agent = erasing[e].agent /\ erasing'[e].files = erasing[e].files
  BY <1>3, <1>4, EraseGoesOn
<1>6. ErasesRow(e) /\ ~ ErasesGroup(e) /\ ~ ErasesGroup(e)'
  BY <1>2, <1>3, <1>5 DEF ErasesRow, ErasesGroup
<1>7. PICK g \in Groups, s \in Samples : g = erasing[e].of /\ s = erasing[e].id
  BY <1>3, <1>4, <1>6 DEF PrintTypes
<1>8. \A r \in sampled : r.id = s => r.of = g
  <2>1. adding[s].of = g
    BY <1>4, <1>6, <1>7 DEF FilesInv, ErasesOwn
  <2> QED
    BY <1>4, <2>1 DEF RowsInv
<1>9. /\ sampled' \subseteq sampled /\ \A r \in sampled : r \in sampled' <=> r.id # s
      /\ \A r \in gone : r \in sampled /\ r.id = s /\ r.of = g
      /\ \A r \in sampled : r.id = s => r \in gone
  BY <1>1, <1>3, <1>7, <1>8
<1>10. \A r, q \in sampled : r.id = q.id => r = q
  BY <1>4 DEF RowsInv, PrintTypes, SampleRow
<1>11. /\ group' \in [Groups -> [agent : Spokesmen \cup {0}, count : Nat]]
       /\ \A h \in Groups : /\ group'[h].agent = group[h].agent
                            /\ h # g \/ gone = {} => group'[h] = group[h]
                            /\ (There(h)' => group'[h].agent # 0) /\ (There(h) => There(h)')
       /\ gone # {} => group'[g].count = Cardinality(RowsOf(g)')
  <2>1. CASE gone = {}
    BY <1>3, <1>4, <2>1 DEF PrintTypes, There
  <2>2. CASE gone # {}
    <3>1. PICK r \in gone : gone = {r}
      BY <1>9, <1>10, <2>2
    <3>2. RowsOf(g)' = RowsOf(g) \ {r} /\ r \in RowsOf(g) /\ IsFiniteSet(RowsOf(g))
      <4>1. IsFiniteSet(RowsOf(g))
        BY <1>4, FS_Subset DEF RowsOf, PrintTypes
      <4> QED
        BY <1>3, <1>9, <3>1, <4>1 DEF RowsOf
    <3>3. PICK n \in Nat : n = Cardinality(RowsOf(g)) /\ n > 0 /\ Cardinality(RowsOf(g)') = n - 1
      <4>1. Cardinality(RowsOf(g)') = Cardinality(RowsOf(g)) - 1
        BY <3>2, FS_RemoveElement
      <4>2. Cardinality(RowsOf(g)) \in Nat /\ Cardinality(RowsOf(g)) # 0
        BY <3>2, FS_CardinalityType, FS_EmptySet
      <4> QED
        BY <4>1, <4>2
    <3>4. There(g)
      BY <1>4, <1>9, <3>1 DEF RowsInv
    <3>5. PICK a \in Spokesmen \cup {0} : group[g] = [agent |-> a, count |-> n] /\ a # 0
      <4>1. group[g].count = n
        BY <1>4, <3>3 DEF CountIsRows
      <4> QED
        BY <1>4, <3>4, <4>1 DEF PrintTypes
    <3>6. group' = [group EXCEPT ![g] = [agent |-> a, count |-> n - 1]]
      <4>1. group[g].count = n /\ group[g].count > 0
        BY <3>3, <3>5
      <4>2. group' = [group EXCEPT ![g].count = @ - 1]
        BY <1>3, <1>7, <2>2, <4>1
      <4>3. [group[g] EXCEPT !.count = group[g].count - 1] = [agent |-> a, count |-> n - 1]
        BY <3>3, <3>5
      <4> QED
        BY <4>2, <4>3
    <3>7. n - 1 \in Nat
      BY <3>3
    <3> QED
      BY <1>4, <2>2, <3>3, <3>5, <3>6, <3>7 DEF PrintTypes, There, NoGroup
  <2> QED
    BY <2>1, <2>2
<1>12. PrintTypes'
  <2>1. \A o \in Erasers : (/\ IF erasing[o].pc = "away"
                               THEN erasing[o].of = 0 /\ erasing[o].files = {}
                               ELSE erasing[o].of \in Groups /\ erasing[o].agent \in Spokesmen
                            /\ ErasesRow(o) => erasing[o].id \in Samples)'
    BY <1>3, <1>4, <1>6, EraseTypes
  <2>2. IsFiniteSet(sampled')
    BY <1>4, <1>9, FS_Subset DEF PrintTypes
  <2> QED
    BY <1>3, <1>4, <1>5, <1>9, <1>11, <2>1, <2>2 DEF PrintTypes
<1>13. RowsInv'
  <2>1. \A r \in sampled' : r.of \in Groups
    BY <1>4, <1>9 DEF PrintTypes, SampleRow
  <2> QED
    BY <1>3, <1>4, <1>9, <1>11, <2>1 DEF RowsInv, AddsRow
<1>14. CountIsRows'
  <2>1. ASSUME NEW h \in Groups
        PROVE  group'[h].count = Cardinality(RowsOf(h)')
    <3>1. CASE h = g /\ gone # {}
      BY <1>11, <3>1
    <3>2. CASE ~ (h = g /\ gone # {})
      <4>1. RowsOf(h)' = RowsOf(h) /\ group'[h] = group[h]
        BY <1>3, <1>9, <1>11, <3>2 DEF RowsOf
      <4> QED
        BY <1>4, <4>1 DEF CountIsRows
    <3> QED
      BY <3>1, <3>2
  <2> QED
    BY <2>1 DEF CountIsRows
<1>15. FilesInv'
  <2>1. CASE pc = "away"
    <3>1. \A r \in sampled' : r.of = erasing[e].of /\ r.file \in erasing[e].files => Shared(r.id, r.of, r.file)
      BY <1>4, <1>6, <1>7, <1>9, TakenIsShared
    <3> QED
      BY <1>3, <1>4, <1>5, <1>9, <2>1, <3>1, FilesGo
  <2>2. CASE pc # "away"
    <3>1. /\ ErasesRow(e)' => ErasesRow(e)
          /\ \A r \in sampled' : r.id # erasing[e].id
      BY <1>6, <1>7, <1>9
    <3> QED
      BY <1>3, <1>4, <1>5, <1>9, <2>2, <3>1, FilesGo
  <2> QED
    BY <2>1, <2>2
<1>16. WaysInv'
  <2>1. ASSUME NEW h \in Groups \ blurred'
        PROVE  WayInv(h)'
    <3>1. WayInv(h)
      BY <1>3, <1>4 DEF WaysInv
    <3>2. There(h) => There(h)' /\ group'[h].agent = group[h].agent
      BY <1>11
    <3>3. h = g => adding[s].pc = "done" /\ \A p \in prints : p.of = h => p.id # s
      BY <1>3, <1>6, <1>7, <3>1 DEF WayInv
    <3>4. ASSUME NEW p \in prints', p.of = h
          PROVE  (/\ There(h) /\ p.agent = group[h].agent /\ adding[p.id].pc = "done"
                  /\ \E q \in sampled : q.of = h /\ q.id = p.id)'
      <4>1. /\ There(h) /\ p.agent = group[h].agent /\ adding[p.id].pc = "done"
            /\ \E q \in sampled : q.of = h /\ q.id = p.id
        BY <1>3, <3>1, <3>4 DEF WayInv
      <4>2. p.id # s
        BY <1>3, <1>8, <3>3, <3>4, <4>1
      <4> QED
        BY <1>3, <1>9, <3>2, <4>1, <4>2
    <3>5. ASSUME NEW r \in sampled', r.of = h
          PROVE  (\/ HasPrint(r) \/ adding[r.id].pc = "register"
                  \/ \E o \in Erasers : erasing[o].of = h /\ erasing[o].pc = "row" /\ erasing[o].id = r.id
                  \/ \E o \in Erasers : erasing[o].of = h /\ erasing[o].pc \in {"files", "group"})'
      <4>1. r \in sampled /\ r.id # s
        BY <1>9
      <4>2. HasPrint(r) => HasPrint(r)'
        BY <1>3, <1>11, <3>5 DEF HasPrint
      <4>3. \A o \in Erasers : erasing[o].id = r.id \/ erasing[o].pc \in {"files", "group"} => erasing'[o] = erasing[o]
        BY <1>3, <1>5, <1>7, <4>1
      <4> QED
        BY <1>3, <3>1, <3>5, <4>1, <4>2, <4>3 DEF WayInv
    <3>6. ASSUME NEW t \in Samples, Adds(t)', adding'[t].of = h
          PROVE  (/\ There(h) /\ adding[t].agent = group[h].agent
                  /\ adding[t].pc = "register" => \E q \in sampled : q.of = h /\ q.id = t)'
      <4>1. /\ There(h) /\ adding[t].agent = group[h].agent
            /\ adding[t].pc = "register" => \E q \in sampled : q.of = h /\ q.id = t
        BY <1>3, <3>1, <3>6 DEF WayInv, Adds
      <4>2. adding[t].pc = "register" => t # s
        BY <1>8, <3>3, <4>1
      <4> QED
        BY <1>3, <1>9, <3>2, <4>1, <4>2
    <3>7. \A o \in Erasers : ErasesGroup(o)' => ErasesGroup(o) /\ o # e
      BY <1>5, <1>6 DEF ErasesGroup
    <3>8. ASSUME NEW o \in Erasers, erasing'[o].of = h
          PROVE  (/\ Knows(h, erasing[o].agent)
                  /\ ErasesRow(o) => adding[erasing[o].id].pc = "done"
                  /\ erasing[o].pc = "row" => \A p \in prints : p.of = h => p.id # erasing[o].id
                  /\ ErasesGroup(o) => There(h) /\ \A i \in Erasers \ {o} : erasing[i].of = h => ~ ErasesGroup(i))'
      <4>1. /\ erasing[o].of = h /\ erasing'[o].agent = erasing[o].agent /\ erasing'[o].id = erasing[o].id
            /\ (ErasesRow(o)' => ErasesRow(o)) /\ (erasing'[o].pc = "row" => o # e /\ erasing[o].pc = "row")
        <5>1. CASE o = e
          <6>1. pc # "away"
            BY <1>5, <3>8, <5>1, RestIsFine
          <6> QED
            BY <1>2, <1>5, <1>6, <3>8, <5>1, <6>1
        <5>2. CASE o # e
          BY <1>5, <3>8, <5>2 DEF ErasesRow
        <5> QED
          BY <5>1, <5>2
      <4>2. Knows(h, erasing[o].agent)'
        <5>1. There(h)' => There(h) \/ group'[h] = group[h]
          <6>1. CASE h = g /\ gone # {}
            <7>1. PICK r \in gone : r \in sampled /\ r.of = g
              BY <1>9, <6>1
            <7> QED
              BY <1>4, <6>1, <7>1 DEF RowsInv
          <6>2. CASE ~ (h = g /\ gone # {})
            BY <1>11, <6>2
          <6> QED
            BY <6>1, <6>2
        <5>2. There(h)' => There(h)
          BY <5>1 DEF There
        <5> QED
          BY <1>11, <3>1, <4>1, <5>2 DEF WayInv, Knows
      <4>3. /\ ErasesRow(o)' => adding'[erasing'[o].id].pc = "done"
            /\ erasing'[o].pc = "row" => \A p \in prints' : p.of = h => p.id # erasing'[o].id
        BY <1>3, <3>1, <4>1 DEF WayInv
      <4>4. ErasesGroup(o)' => There(h)' /\ \A i \in Erasers \ {o} : erasing'[i].of = h => ~ ErasesGroup(i)'
        BY <1>5, <3>1, <3>2, <3>7, <4>1 DEF WayInv
      <4> QED
        BY <4>2, <4>3, <4>4
    <3> QED
      BY <3>4, <3>5, <3>6, <3>8 DEF WayInv
  <2> QED
    BY <2>1 DEF WaysInv
<1> QED
  BY <1>12, <1>13, <1>14, <1>15, <1>16 DEF PrintInv

LEMMA FileIsDeleted ==
    ASSUME PrintInv, NEW e \in Erasers, DeleteFile(e)
    PROVE  PrintInv'
<1>1. /\ erasing[e].pc = "file" /\ EraseTo(e, "away") /\ RemoveFiles(e)
      /\ UNCHANGED <<group, sampled, prints, adding, lost, blurred>>
  BY DEF DeleteFile
<1>2. PrintTypes /\ RowsInv /\ CountIsRows /\ FilesInv /\ WaysInv
  BY DEF PrintInv
<1>3. /\ erasing' \in [Erasers -> EraseType] /\ erasing'[e] = Rested
      /\ \A o \in Erasers : o # e => erasing'[o] = erasing[o]
  BY <1>1, <1>2, EraseGoesOn
<1>4. ErasesRow(e) /\ ~ ErasesRow(e)' /\ ~ ErasesGroup(e)' /\ \A h \in Groups : erasing'[e].of # h
  BY <1>1, <1>3, RestIsFine DEF ErasesRow
<1>5. /\ stored' \in [Groups \X FileNames -> Samples \cup {NoSample}]
      /\ \A h \in Groups, f \in FileNames :
            stored'[<<h, f>>] = stored[<<h, f>>] \/ (h = erasing[e].of /\ f \in erasing[e].files)
  BY <1>1, <1>2 DEF RemoveFiles, PrintTypes
<1>6. PrintTypes'
  <2>1. \A o \in Erasers : (/\ IF erasing[o].pc = "away"
                               THEN erasing[o].of = 0 /\ erasing[o].files = {}
                               ELSE erasing[o].of \in Groups /\ erasing[o].agent \in Spokesmen
                            /\ ErasesRow(o) => erasing[o].id \in Samples)'
    BY <1>1, <1>2, <1>4, EraseTypes
  <2> QED
    BY <1>1, <1>2, <1>3, <1>5, <2>1 DEF PrintTypes, There
<1>7. RowsInv'
  BY <1>1, <1>2 DEF RowsInv, There, AddsRow
<1>8. CountIsRows'
  BY <1>1, <1>2 DEF CountIsRows, RowsOf
<1>9. FilesInv'
  <2>1. \A r \in sampled : r.id # erasing[e].id
    BY <1>1, <1>2 DEF FilesInv, ErasesOwn
  <2>2. \A r \in sampled : r.of = erasing[e].of /\ r.file \in erasing[e].files => Shared(r.id, r.of, r.file)
    BY <1>2, <1>4, <2>1, TakenIsShared
  <2> QED
    BY <1>1, <1>2, <1>3, <1>5, <2>2, FilesGo
<1>10. WaysInv'
  <2>1. ASSUME NEW h \in Groups \ blurred'
        PROVE  WayInv(h)'
    <3>1. WayInv(h)
      BY <1>1, <1>2 DEF WaysInv
    <3>2. \A o \in Erasers : /\ erasing'[o].of = h => o # e /\ erasing'[o] = erasing[o]
                             /\ erasing[o].pc \in {"row", "files", "group"} => erasing'[o] = erasing[o]
      BY <1>1, <1>3, <1>4
    <3>3. (/\ \A p \in prints : p.of = h => /\ There(h) /\ p.agent = group[h].agent /\ adding[p.id].pc = "done"
                                            /\ \E q \in sampled : q.of = h /\ q.id = p.id
           /\ \A t \in Samples : Adds(t) /\ adding[t].of = h =>
                 /\ There(h) /\ adding[t].agent = group[h].agent
                 /\ adding[t].pc = "register" => \E q \in sampled : q.of = h /\ q.id = t)'
      BY <1>1, <3>1 DEF WayInv, There, Adds
    <3>4. (\A r \in sampled : r.of = h =>
              \/ HasPrint(r) \/ adding[r.id].pc = "register"
              \/ \E o \in Erasers : erasing[o].of = h /\ erasing[o].pc = "row" /\ erasing[o].id = r.id
              \/ \E o \in Erasers : erasing[o].of = h /\ erasing[o].pc \in {"files", "group"})'
      BY <1>1, <3>1, <3>2 DEF WayInv, HasPrint
    <3>5. (\A o \in Erasers : erasing[o].of = h =>
              /\ Knows(h, erasing[o].agent)
              /\ ErasesRow(o) => adding[erasing[o].id].pc = "done"
              /\ erasing[o].pc = "row" => \A p \in prints : p.of = h => p.id # erasing[o].id
              /\ ErasesGroup(o) => There(h) /\ \A i \in Erasers \ {o} : erasing[i].of = h => ~ ErasesGroup(i))'
      BY <1>1, <3>1, <3>2 DEF WayInv, Knows, There, ErasesRow, ErasesGroup
    <3> QED
      BY <3>3, <3>4, <3>5 DEF WayInv
  <2> QED
    BY <2>1 DEF WaysInv
<1> QED
  BY <1>6, <1>7, <1>8, <1>9, <1>10 DEF PrintInv

-----------------------------------------------------------------------------
\* A group is deleted

LEMMA GroupEraseBegins ==
    ASSUME PrintInv, NEW e \in Erasers, NEW g \in Groups, BeginDeleteGroup(e, g)
    PROVE  PrintInv'
<1>1. PICK F : F = {r.file : r \in RowsOf(g)}
  OBVIOUS
<1>2. /\ erasing[e].pc = "away" /\ There(g)
      /\ erasing' = [erasing EXCEPT ![e] = [pc |-> "prints", of |-> g, id |-> NoSample, agent |-> group[g].agent,
                                            files |-> F]]
      /\ blurred' = blurred \cup IF OnItsWay(g) THEN {g} ELSE {}
      /\ UNCHANGED <<group, sampled, stored, prints, adding, lost>>
  BY <1>1 DEF BeginDeleteGroup
<1>3. PrintTypes /\ RowsInv /\ CountIsRows /\ FilesInv /\ WaysInv
  BY DEF PrintInv
<1>4. PICK a \in Spokesmen : a = group[g].agent
  BY <1>2, <1>3 DEF PrintTypes
<1>5. F \subseteq FileNames
  BY <1>1, <1>3 DEF RowsOf, PrintTypes, SampleRow
<1>6. /\ erasing' \in [Erasers -> EraseType]
      /\ erasing'[e] = [pc |-> "prints", of |-> g, id |-> NoSample, agent |-> a, files |-> F]
      /\ \A o \in Erasers : o # e => erasing'[o] = erasing[o]
  BY <1>2, <1>3, <1>4, <1>5 DEF PrintTypes, EraseType, NoSample
<1>7. PrintTypes'
  <2>1. \A o \in Erasers : (/\ IF erasing[o].pc = "away"
                               THEN erasing[o].of = 0 /\ erasing[o].files = {}
                               ELSE erasing[o].of \in Groups /\ erasing[o].agent \in Spokesmen
                            /\ ErasesRow(o) => erasing[o].id \in Samples)'
    BY <1>3, <1>6 DEF PrintTypes, ErasesRow
  <2>2. blurred' \subseteq Groups
    BY <1>2, <1>3 DEF PrintTypes
  <2> QED
    BY <1>2, <1>3, <1>6, <2>1, <2>2 DEF PrintTypes, There
<1>8. RowsInv'
  BY <1>2, <1>3 DEF RowsInv, There, AddsRow
<1>9. CountIsRows'
  BY <1>2, <1>3 DEF CountIsRows, RowsOf
<1>10. FilesInv'
  <2>1. FileIsOwn'
    <3>1. ASSUME NEW q \in sampled
          PROVE  (\/ stored[<<q.of, q.file>>] = q.id \/ Leaves(q)
                  \/ \E t \in Samples \ {q.id} : adding[t].of = q.of /\ adding[t].file = q.file)'
      <4>1. Leaves(q) => Leaves(q)'
        BY <1>2, <1>3, <1>6 DEF Leaves, PrintTypes
      <4>2. \/ stored[<<q.of, q.file>>] = q.id \/ Leaves(q)
            \/ \E t \in Samples \ {q.id} : adding[t].of = q.of /\ adding[t].file = q.file
        BY <1>3 DEF FilesInv, FileIsOwn
      <4> QED
        BY <1>2, <4>1, <4>2
    <3> QED
      BY <1>2, <3>1 DEF FileIsOwn
  <2>2. \A t \in Samples : adding'[t].pc = "insert" =>
          (stored[<<adding[t].of, adding[t].file>>] = t \/ Shared(t, adding[t].of, adding[t].file))'
    BY <1>2, <1>3 DEF FilesInv, Shared
  <2>3. ErasesOwn(e)'
    <3>1. ASSUME NEW f \in F
          PROVE  \E t \in Samples : AddsRow(t) /\ adding[t].of = g /\ adding[t].file = f
      <4>1. PICK r \in sampled : r.of = g /\ r.file = f
        BY <1>1, <3>1 DEF RowsOf
      <4>2. r.id \in Samples /\ AddsRow(r.id) /\ adding[r.id].of = g /\ adding[r.id].file = f
        BY <1>3, <4>1 DEF RowsInv, PrintTypes, SampleRow
      <4> QED
        BY <4>2
    <3> QED
      BY <1>2, <1>6, <3>1 DEF ErasesOwn, ErasesRow, AddsRow
  <2>4. ASSUME NEW o \in Erasers, o # e
        PROVE  ErasesOwn(o)'
    <3>1. ErasesOwn(o) /\ erasing'[o] = erasing[o]
      BY <1>3, <1>6, <2>4 DEF FilesInv
    <3> QED
      BY <1>2, <3>1 DEF ErasesOwn, ErasesRow, AddsRow
  <2> QED
    BY <2>1, <2>2, <2>3, <2>4 DEF FilesInv
<1>11. WaysInv'
  <2>1. ASSUME NEW h \in Groups \ blurred'
        PROVE  WayInv(h)'
    <3>1. WayInv(h)
      BY <1>2, <1>3 DEF WaysInv
    <3>2. h = g => \A o \in Erasers : erasing[o].of # h
      BY <1>2, <2>1 DEF OnItsWay
    <3>3. (/\ \A p \in prints : p.of = h => /\ There(h) /\ p.agent = group[h].agent /\ adding[p.id].pc = "done"
                                            /\ \E q \in sampled : q.of = h /\ q.id = p.id
           /\ \A t \in Samples : Adds(t) /\ adding[t].of = h =>
                 /\ There(h) /\ adding[t].agent = group[h].agent
                 /\ adding[t].pc = "register" => \E q \in sampled : q.of = h /\ q.id = t)'
      BY <1>2, <3>1 DEF WayInv, There, Adds
    <3>4. (\A r \in sampled : r.of = h =>
              \/ HasPrint(r) \/ adding[r.id].pc = "register"
              \/ \E o \in Erasers : erasing[o].of = h /\ erasing[o].pc = "row" /\ erasing[o].id = r.id
              \/ \E o \in Erasers : erasing[o].of = h /\ erasing[o].pc \in {"files", "group"})'
      <4>1. \A o \in Erasers : erasing[o].pc \in {"row", "files", "group"} => erasing'[o] = erasing[o]
        BY <1>2, <1>6
      <4> QED
        BY <1>2, <3>1, <4>1 DEF WayInv, HasPrint
    <3>5. ASSUME NEW o \in Erasers, erasing'[o].of = h
          PROVE  (/\ Knows(h, erasing[o].agent)
                  /\ ErasesRow(o) => adding[erasing[o].id].pc = "done"
                  /\ erasing[o].pc = "row" => \A p \in prints : p.of = h => p.id # erasing[o].id
                  /\ ErasesGroup(o) => There(h) /\ \A i \in Erasers \ {o} : erasing[i].of = h => ~ ErasesGroup(i))'
      <4>1. CASE o = e
        <5>1. h = g /\ erasing'[o].agent = a /\ erasing'[o].pc = "prints"
          BY <1>6, <3>5, <4>1
        <5>2. \A i \in Erasers \ {o} : erasing'[i].of # h
          BY <1>6, <3>2, <4>1, <5>1
        <5> QED
          BY <1>2, <1>4, <5>1, <5>2 DEF Knows, ErasesRow, There
      <4>2. CASE o # e
        <5>1. erasing'[o] = erasing[o] /\ erasing[o].of = h /\ h # g
          BY <1>6, <3>2, <3>5, <4>2
        <5>2. erasing'[e].of # h
          BY <1>6, <5>1
        <5> QED
          BY <1>2, <1>6, <3>1, <5>1, <5>2 DEF WayInv, Knows, There, ErasesRow, ErasesGroup
      <4> QED
        BY <4>1, <4>2
    <3> QED
      BY <3>3, <3>4, <3>5 DEF WayInv
  <2> QED
    BY <2>1 DEF WaysInv
<1> QED
  BY <1>7, <1>8, <1>9, <1>10, <1>11 DEF PrintInv

LEMMA PrintsAreDeleted ==
    ASSUME PrintInv, NEW e \in Erasers, DeletePrints(e)
    PROVE  PrintInv'
<1>1. PICK P : P = {p \in prints : p.of # erasing[e].of \/ p.agent # erasing[e].agent}
  OBVIOUS
<1>2. /\ erasing[e].pc = "prints" /\ EraseTo(e, "files")
      /\ \/ prints' = P /\ UNCHANGED blurred
         \/ prints' = prints /\ blurred' = blurred \cup {erasing[e].of}
      /\ UNCHANGED <<group, sampled, stored, adding>>
  BY <1>1 DEF DeletePrints, Calls
<1>3. PrintTypes /\ RowsInv /\ CountIsRows /\ FilesInv /\ WaysInv
  BY DEF PrintInv
<1>4. /\ erasing' \in [Erasers -> EraseType] /\ erasing'[e].pc = "files"
      /\ \A o \in Erasers : o # e => erasing'[o] = erasing[o]
      /\ erasing'[e].of = erasing[e].of /\ erasing'[e].id = erasing[e].id
      /\ erasing'[e].agent = erasing[e].agent /\ erasing'[e].files = erasing[e].files
  BY <1>2, <1>3, EraseGoesOn
<1>5. ~ ErasesRow(e)' /\ ErasesGroup(e)
  BY <1>2, <1>4 DEF ErasesRow, ErasesGroup
<1>6. PICK g \in Groups : g = erasing[e].of
  BY <1>2, <1>3 DEF PrintTypes
<1>7. prints' \subseteq prints /\ \A p \in prints : p.of # g => p \in prints'
  BY <1>1, <1>2, <1>6
<1>8. PrintTypes'
  <2>1. \A o \in Erasers : (/\ IF erasing[o].pc = "away"
                               THEN erasing[o].of = 0 /\ erasing[o].files = {}
                               ELSE erasing[o].of \in Groups /\ erasing[o].agent \in Spokesmen
                            /\ ErasesRow(o) => erasing[o].id \in Samples)'
    BY <1>2, <1>3, EraseTypes
  <2>2. prints' \subseteq PrintType /\ blurred' \subseteq Groups
    BY <1>2, <1>3, <1>6, <1>7 DEF PrintTypes
  <2> QED
    BY <1>2, <1>3, <1>4, <2>1, <2>2 DEF PrintTypes, There
<1>9. RowsInv'
  BY <1>2, <1>3 DEF RowsInv, There, AddsRow
<1>10. CountIsRows'
  BY <1>2, <1>3 DEF CountIsRows, RowsOf
<1>11. FilesInv'
  BY <1>2, <1>3, <1>4, <1>5, FilesGo
<1>12. WaysInv'
  <2>1. ASSUME NEW h \in Groups \ blurred'
        PROVE  WayInv(h)'
    <3>1. WayInv(h)
      BY <1>2, <1>3 DEF WaysInv
    <3>2. (/\ \A p \in prints : p.of = h => /\ There(h) /\ p.agent = group[h].agent /\ adding[p.id].pc = "done"
                                            /\ \E q \in sampled : q.of = h /\ q.id = p.id
           /\ \A t \in Samples : Adds(t) /\ adding[t].of = h =>
                 /\ There(h) /\ adding[t].agent = group[h].agent
                 /\ adding[t].pc = "register" => \E q \in sampled : q.of = h /\ q.id = t)'
      BY <1>2, <1>7, <3>1 DEF WayInv, There, Adds
    <3>3. ASSUME NEW r \in sampled, r.of = h
          PROVE  (\/ HasPrint(r) \/ adding[r.id].pc = "register"
                  \/ \E o \in Erasers : erasing[o].of = h /\ erasing[o].pc = "row" /\ erasing[o].id = r.id
                  \/ \E o \in Erasers : erasing[o].of = h /\ erasing[o].pc \in {"files", "group"})'
      <4>1. CASE h = g
        BY <1>4, <1>6, <4>1
      <4>2. CASE h # g
        <5>1. HasPrint(r) => HasPrint(r)'
          BY <1>2, <1>7, <3>3, <4>2 DEF HasPrint
        <5>2. \A o \in Erasers : erasing[o].pc \in {"row", "files", "group"} => erasing'[o] = erasing[o]
          BY <1>2, <1>4
        <5> QED
          BY <1>2, <3>1, <3>3, <5>1, <5>2 DEF WayInv
      <4> QED
        BY <4>1, <4>2
    <3>4. \A o \in Erasers : ErasesGroup(o)' <=> ErasesGroup(o)
      BY <1>4, <1>5 DEF ErasesGroup
    <3>5. ASSUME NEW o \in Erasers, erasing'[o].of = h
          PROVE  (/\ Knows(h, erasing[o].agent)
                  /\ ErasesRow(o) => adding[erasing[o].id].pc = "done"
                  /\ erasing[o].pc = "row" => \A p \in prints : p.of = h => p.id # erasing[o].id
                  /\ ErasesGroup(o) => There(h) /\ \A i \in Erasers \ {o} : erasing[i].of = h => ~ ErasesGroup(i))'
      <4>1. /\ erasing[o].of = h /\ erasing'[o].agent = erasing[o].agent /\ erasing'[o].id = erasing[o].id
            /\ (ErasesRow(o)' => ErasesRow(o)) /\ (erasing'[o].pc = "row" => erasing[o].pc = "row")
        BY <1>4, <1>5, <3>5 DEF ErasesRow
      <4>2. Knows(h, erasing[o].agent)' /\ (ErasesRow(o)' => adding'[erasing'[o].id].pc = "done")
        BY <1>2, <3>1, <4>1 DEF WayInv, Knows, There
      <4>3. erasing'[o].pc = "row" => \A p \in prints' : p.of = h => p.id # erasing'[o].id
        BY <1>7, <3>1, <4>1 DEF WayInv
      <4>4. ErasesGroup(o)' => There(h)' /\ \A i \in Erasers \ {o} : erasing'[i].of = h => ~ ErasesGroup(i)'
        BY <1>2, <1>4, <3>1, <3>4, <4>1 DEF WayInv, There
      <4> QED
        BY <4>2, <4>3, <4>4
    <3> QED
      BY <1>2, <3>2, <3>3, <3>5 DEF WayInv
  <2> QED
    BY <2>1 DEF WaysInv
<1> QED
  BY <1>8, <1>9, <1>10, <1>11, <1>12 DEF PrintInv

LEMMA FilesAreDeleted ==
    ASSUME PrintInv, NEW e \in Erasers, DeleteFiles(e)
    PROVE  PrintInv'
<1>1. /\ erasing[e].pc = "files" /\ EraseTo(e, "group") /\ RemoveFiles(e)
      /\ UNCHANGED <<group, sampled, prints, adding, lost, blurred>>
  BY DEF DeleteFiles
<1>2. PrintTypes /\ RowsInv /\ CountIsRows /\ FilesInv /\ WaysInv
  BY DEF PrintInv
<1>3. /\ erasing' \in [Erasers -> EraseType] /\ erasing'[e].pc = "group"
      /\ \A o \in Erasers : o # e => erasing'[o] = erasing[o]
      /\ erasing'[e].of = erasing[e].of /\ erasing'[e].id = erasing[e].id
      /\ erasing'[e].agent = erasing[e].agent /\ erasing'[e].files = erasing[e].files
  BY <1>1, <1>2, EraseGoesOn
<1>4. ~ ErasesRow(e)' /\ ErasesGroup(e)
  BY <1>1, <1>3 DEF ErasesRow, ErasesGroup
<1>5. /\ stored' \in [Groups \X FileNames -> Samples \cup {NoSample}]
      /\ \A h \in Groups, f \in FileNames :
            stored'[<<h, f>>] = stored[<<h, f>>] \/ (h = erasing[e].of /\ f \in erasing[e].files)
  BY <1>1, <1>2 DEF RemoveFiles, PrintTypes
<1>6. PrintTypes'
  <2>1. \A o \in Erasers : (/\ IF erasing[o].pc = "away"
                               THEN erasing[o].of = 0 /\ erasing[o].files = {}
                               ELSE erasing[o].of \in Groups /\ erasing[o].agent \in Spokesmen
                            /\ ErasesRow(o) => erasing[o].id \in Samples)'
    BY <1>1, <1>2, EraseTypes
  <2> QED
    BY <1>1, <1>2, <1>3, <1>5, <2>1 DEF PrintTypes, There
<1>7. RowsInv'
  BY <1>1, <1>2 DEF RowsInv, There, AddsRow
<1>8. CountIsRows'
  BY <1>1, <1>2 DEF CountIsRows, RowsOf
<1>9. FilesInv'
  BY <1>1, <1>2, <1>3, <1>4, <1>5, FilesGo
<1>10. WaysInv'
  <2>1. ASSUME NEW h \in Groups \ blurred'
        PROVE  WayInv(h)'
    <3>1. WayInv(h)
      BY <1>1, <1>2 DEF WaysInv
    <3>2. (/\ \A p \in prints : p.of = h => /\ There(h) /\ p.agent = group[h].agent /\ adding[p.id].pc = "done"
                                            /\ \E q \in sampled : q.of = h /\ q.id = p.id
           /\ \A t \in Samples : Adds(t) /\ adding[t].of = h =>
                 /\ There(h) /\ adding[t].agent = group[h].agent
                 /\ adding[t].pc = "register" => \E q \in sampled : q.of = h /\ q.id = t)'
      BY <1>1, <3>1 DEF WayInv, There, Adds
    <3>3. ASSUME NEW r \in sampled, r.of = h
          PROVE  (\/ HasPrint(r) \/ adding[r.id].pc = "register"
                  \/ \E o \in Erasers : erasing[o].of = h /\ erasing[o].pc = "row" /\ erasing[o].id = r.id
                  \/ \E o \in Erasers : erasing[o].of = h /\ erasing[o].pc \in {"files", "group"})'
      <4>1. \A o \in Erasers : /\ erasing[o].pc = "row" => erasing'[o] = erasing[o]
                               /\ erasing[o].pc \in {"files", "group"} =>
                                     erasing'[o].of = erasing[o].of /\ erasing'[o].pc \in {"files", "group"}
        BY <1>1, <1>3
      <4> QED
        BY <1>1, <3>1, <3>3, <4>1 DEF WayInv, HasPrint
    <3>4. \A o \in Erasers : ErasesGroup(o)' <=> ErasesGroup(o)
      BY <1>3, <1>4 DEF ErasesGroup
    <3>5. ASSUME NEW o \in Erasers, erasing'[o].of = h
          PROVE  (/\ Knows(h, erasing[o].agent)
                  /\ ErasesRow(o) => adding[erasing[o].id].pc = "done"
                  /\ erasing[o].pc = "row" => \A p \in prints : p.of = h => p.id # erasing[o].id
                  /\ ErasesGroup(o) => There(h) /\ \A i \in Erasers \ {o} : erasing[i].of = h => ~ ErasesGroup(i))'
      <4>1. /\ erasing[o].of = h /\ erasing'[o].agent = erasing[o].agent /\ erasing'[o].id = erasing[o].id
            /\ (ErasesRow(o)' => ErasesRow(o)) /\ (erasing'[o].pc = "row" => erasing[o].pc = "row")
        BY <1>3, <1>4, <3>5 DEF ErasesRow
      <4>2. Knows(h, erasing[o].agent)' /\ (ErasesRow(o)' => adding'[erasing'[o].id].pc = "done")
        BY <1>1, <3>1, <4>1 DEF WayInv, Knows, There
      <4>3. erasing'[o].pc = "row" => \A p \in prints' : p.of = h => p.id # erasing'[o].id
        BY <1>1, <3>1, <4>1 DEF WayInv
      <4>4. ErasesGroup(o)' => There(h)' /\ \A i \in Erasers \ {o} : erasing'[i].of = h => ~ ErasesGroup(i)'
        BY <1>1, <1>3, <3>1, <3>4, <4>1 DEF WayInv, There
      <4> QED
        BY <4>2, <4>3, <4>4
    <3> QED
      BY <1>1, <3>2, <3>3, <3>5 DEF WayInv
  <2> QED
    BY <2>1 DEF WaysInv
<1> QED
  BY <1>6, <1>7, <1>8, <1>9, <1>10 DEF PrintInv

LEMMA GroupIsDeleted ==
    ASSUME PrintInv, NEW e \in Erasers, DeleteGroup(e)
    PROVE  PrintInv'
<1>1. PrintTypes /\ RowsInv /\ CountIsRows /\ FilesInv /\ WaysInv
  BY DEF PrintInv
<1>2. erasing[e].pc = "group" /\ EraseTo(e, "away")
  BY DEF DeleteGroup
<1>3. PICK g \in Groups : g = erasing[e].of
  BY <1>1, <1>2 DEF PrintTypes
<1>4. /\ group' = [group EXCEPT ![g] = NoGroup] /\ sampled' = sampled \ RowsOf(g)
      /\ blurred' = blurred \cup
            IF (OnItsWay(g) /\ \E s \in Samples : adding[s].of = g /\ adding[s].pc \notin {"new", "done"})
               \/ \E p \in prints : p.of = g
            THEN {g} ELSE {}
      /\ UNCHANGED <<stored, prints, adding, lost>>
  BY <1>3 DEF DeleteGroup
<1>5. OnItsWay(g)
  BY <1>3 DEF OnItsWay
<1>6. /\ erasing' \in [Erasers -> EraseType] /\ erasing'[e] = Rested
      /\ \A o \in Erasers : o # e => erasing'[o] = erasing[o]
  BY <1>1, <1>2, EraseGoesOn
<1>7. ErasesGroup(e) /\ ~ ErasesRow(e)' /\ ~ ErasesGroup(e)' /\ \A h \in Groups : erasing'[e].of # h
  BY <1>2, <1>6, RestIsFine DEF ErasesGroup
<1>8. /\ group' \in [Groups -> [agent : Spokesmen \cup {0}, count : Nat]]
      /\ group'[g] = NoGroup /\ ~ There(g)'
      /\ \A h \in Groups : h # g => group'[h] = group[h] /\ (There(h)' <=> There(h))
  <2>1. NoGroup \in [agent : Spokesmen \cup {0}, count : Nat]
    BY DEF NoGroup
  <2> QED
    BY <1>1, <1>4, <2>1 DEF PrintTypes, There
<1>9. sampled' \subseteq sampled /\ \A r \in sampled : r \in sampled' <=> r.of # g
  BY <1>4 DEF RowsOf
<1>10. PrintTypes'
  <2>1. \A o \in Erasers : (/\ IF erasing[o].pc = "away"
                               THEN erasing[o].of = 0 /\ erasing[o].files = {}
                               ELSE erasing[o].of \in Groups /\ erasing[o].agent \in Spokesmen
                            /\ ErasesRow(o) => erasing[o].id \in Samples)'
    BY <1>1, <1>2, EraseTypes
  <2>2. IsFiniteSet(sampled') /\ sampled' \subseteq SampleRow
    BY <1>1, <1>9, FS_Subset DEF PrintTypes
  <2>3. blurred' \subseteq Groups
    BY <1>1, <1>4 DEF PrintTypes
  <2>4. \A h \in Groups : There(h)' => group'[h].agent # 0
    BY <1>1, <1>8 DEF PrintTypes
  <2> QED
    BY <1>1, <1>4, <1>6, <1>8, <2>1, <2>2, <2>3, <2>4 DEF PrintTypes
<1>11. RowsInv'
  <2>1. \A r \in sampled' : r.of \in Groups /\ r.of # g
    BY <1>1, <1>9 DEF PrintTypes, SampleRow
  <2> QED
    BY <1>1, <1>4, <1>8, <1>9, <2>1 DEF RowsInv, AddsRow
<1>12. CountIsRows'
  <2>1. RowsOf(g)' = {} /\ \A h \in Groups : h # g => RowsOf(h)' = RowsOf(h)
    BY <1>9 DEF RowsOf
  <2>2. group'[g].count = Cardinality(RowsOf(g)')
    BY <1>8, <2>1, FS_EmptySet DEF NoGroup
  <2>3. ASSUME NEW h \in Groups, h # g
        PROVE  group'[h].count = Cardinality(RowsOf(h)')
    BY <1>1, <1>8, <2>1, <2>3 DEF CountIsRows
  <2> QED
    BY <2>2, <2>3 DEF CountIsRows
<1>13. FilesInv'
  <2>1. \A r \in sampled' : r.of = erasing[e].of /\ r.file \in erasing[e].files => Shared(r.id, r.of, r.file)
    BY <1>3, <1>9
  <2> QED
    BY <1>1, <1>2, <1>4, <1>6, <1>9, <2>1, FilesGo
<1>14. WaysInv'
  <2>1. ASSUME NEW h \in Groups \ blurred', h # g
        PROVE  WayInv(h)'
    <3>1. WayInv(h)
      BY <1>1, <1>4, <2>1 DEF WaysInv
    <3>2. \A o \in Erasers : erasing[o].of = h \/ erasing'[o].of = h => o # e /\ erasing'[o] = erasing[o]
      BY <1>3, <1>6, <1>7, <2>1
    <3>3. group'[h] = group[h] /\ (There(h)' <=> There(h))
      BY <1>8, <2>1
    <3>4. \A r \in sampled : r.of = h => r \in sampled'
      BY <1>9, <2>1
    <3>5. (/\ \A p \in prints : p.of = h => /\ There(h) /\ p.agent = group[h].agent /\ adding[p.id].pc = "done"
                                            /\ \E q \in sampled : q.of = h /\ q.id = p.id
           /\ \A t \in Samples : Adds(t) /\ adding[t].of = h =>
                 /\ There(h) /\ adding[t].agent = group[h].agent
                 /\ adding[t].pc = "register" => \E q \in sampled : q.of = h /\ q.id = t)'
      BY <1>4, <3>1, <3>3, <3>4 DEF WayInv, Adds
    <3>6. ASSUME NEW r \in sampled', r.of = h
          PROVE  (\/ HasPrint(r) \/ adding[r.id].pc = "register"
                  \/ \E o \in Erasers : erasing[o].of = h /\ erasing[o].pc = "row" /\ erasing[o].id = r.id
                  \/ \E o \in Erasers : erasing[o].of = h /\ erasing[o].pc \in {"files", "group"})'
      BY <1>4, <1>9, <3>1, <3>2, <3>3, <3>6 DEF WayInv, HasPrint
    <3>7. ASSUME NEW o \in Erasers, erasing'[o].of = h
          PROVE  (/\ Knows(h, erasing[o].agent)
                  /\ ErasesRow(o) => adding[erasing[o].id].pc = "done"
                  /\ erasing[o].pc = "row" => \A p \in prints : p.of = h => p.id # erasing[o].id
                  /\ ErasesGroup(o) => There(h) /\ \A i \in Erasers \ {o} : erasing[i].of = h => ~ ErasesGroup(i))'
      BY <1>4, <3>1, <3>2, <3>3, <3>7 DEF WayInv, Knows, ErasesRow, ErasesGroup
    <3> QED
      BY <3>5, <3>6, <3>7 DEF WayInv
  <2>2. ASSUME g \notin blurred'
        PROVE  WayInv(g)'
    <3>1. WayInv(g)
      BY <1>1, <1>4, <2>2 DEF WaysInv
    <3>2. (\A p \in prints : p.of # g) /\ \A s \in Samples : adding[s].of = g => adding[s].pc \in {"new", "done"}
      BY <1>4, <1>5, <2>2
    <3>3. \A r \in sampled' : r.of # g
      BY <1>9
    <3>4. \A s \in Samples : ~ (Adds(s)' /\ adding'[s].of = g)
      BY <1>4, <3>2 DEF Adds
    <3>5. ASSUME NEW o \in Erasers, erasing'[o].of = g
          PROVE  (/\ Knows(g, erasing[o].agent)
                  /\ ErasesRow(o) => adding[erasing[o].id].pc = "done"
                  /\ erasing[o].pc = "row" => \A p \in prints : p.of = g => p.id # erasing[o].id
                  /\ ErasesGroup(o) => There(g) /\ \A i \in Erasers \ {o} : erasing[i].of = g => ~ ErasesGroup(i))'
      <4>1. o # e /\ erasing'[o] = erasing[o] /\ erasing[o].of = g
        BY <1>6, <1>7, <3>5
      <4>2. ~ ErasesGroup(o)
        BY <1>3, <1>7, <3>1, <4>1 DEF WayInv
      <4> QED
        BY <1>4, <1>8, <3>1, <3>2, <4>1, <4>2 DEF WayInv, Knows, ErasesRow, ErasesGroup
    <3> QED
      BY <1>4, <3>2, <3>3, <3>4, <3>5 DEF WayInv
  <2> QED
    BY <2>1, <2>2 DEF WaysInv
<1> QED
  BY <1>10, <1>11, <1>12, <1>13, <1>14 DEF PrintInv

-----------------------------------------------------------------------------
LEMMA PrintStep ==
    ASSUME PrintInv, [PrintNext]_printVars
    PROVE  PrintInv'
<1>1. CASE UNCHANGED printVars
  BY <1>1 DEF printVars, PrintInv, PrintTypes, RowsInv, CountIsRows, FilesInv, FileIsOwn, WaysInv, WayInv,
     There, RowsOf, AddsRow, Adds, ErasesRow, ErasesGroup, Shared, Leaves, ErasesOwn, Knows, HasPrint
<1>2. ASSUME NEW s \in Samples, (\E g \in Groups, f \in FileNames : BeginAdd(s, g, f)) \/ WriteFile(s) \/ InsertRow(s) \/ Register(s)
      PROVE  PrintInv'
  BY <1>2, AddBegins, FileIsWritten, RowIsInserted, PrintIsRegistered
<1>3. ASSUME NEW e \in Erasers, (\E r \in sampled : BeginErase(e, r)) \/ UnregisterPrint(e) \/ DeleteRow(e) \/ DeleteFile(e)
      PROVE  PrintInv'
  BY <1>3, EraseBegins, PrintIsUnregistered, RowIsDeleted, FileIsDeleted
<1>4. ASSUME NEW e \in Erasers, (\E g \in Groups : BeginDeleteGroup(e, g)) \/ DeletePrints(e) \/ DeleteFiles(e) \/ DeleteGroup(e)
      PROVE  PrintInv'
  BY <1>4, GroupEraseBegins, PrintsAreDeleted, FilesAreDeleted, GroupIsDeleted
<1> QED
  BY <1>1, <1>2, <1>3, <1>4, GroupIsCreated, GroupIsMoved, UserIsDeleted DEF PrintNext

-----------------------------------------------------------------------------
\* The record of a device

\* What a request that will assign the device knows of it: a row, which it saw
\* without an owner or as its own.  A row that is not there has no owner.
DeskInv ==
    /\ \A q \in Requests : desk[q].pc = "assign" =>
          desk[q].id # 0 /\ desk[q].saw \in {Nobody, desk[q].user}
    /\ dev.id = 0 => dev.user = Nobody

IInv == RecordTypeOK /\ ActiveMeansOwned /\ DeskInv

-----------------------------------------------------------------------------
(* Steps                                                                   *)

\* A request that looks keeps for later what it saw, and what it saw fits.
LEMMA LookKeepsInv ==
    ASSUME IInv, NEW q \in Requests, NEW pc \in {"assign", "insert", "erase"},
           NEW u \in Owners \cup {Nobody}, NEW a \in Agents \cup {Nobody}, Writes(q, pc, u, a),
           pc = "assign" => dev.id # 0 /\ dev.user \in {Nobody, u}
    PROVE  IInv'
  <1>1. RecordTypeOK'
    BY DEF IInv, RecordTypeOK, Writes
  <1>2. ActiveMeansOwned'
    BY DEF IInv, ActiveMeansOwned, Living, Writes
  <1>3. DeskInv'
    BY DEF IInv, RecordTypeOK, DeskInv, Writes
  <1> QED
    BY <1>1, <1>2, <1>3 DEF IInv

\* Every request that looks writes down no more than it may.
LEMMA LookingKeepsInv ==
    ASSUME IInv, NEW q \in Requests,
           \/ \E u \in Owners : Claims(q, u) \/ BindsToAgent(q, u) \/ CreatesBound(q, u)
                                \/ AdminAssigns(q, u)
           \/ AsksForCode(q) \/ AdminErases(q)
    PROVE  IInv'
  <1>1. CASE AsksForCode(q) \/ AdminErases(q)
    BY <1>1, LookKeepsInv DEF AsksForCode, AdminErases
  <1>2. ASSUME NEW u \in Owners, Claims(q, u) \/ BindsToAgent(q, u) \/ CreatesBound(q, u)
                                 \/ AdminAssigns(q, u)
        PROVE  IInv'
    BY <1>2, LookKeepsInv DEF Claims, BindsToAgent, CreatesBound, AdminAssigns, MayTake
  <1> QED
    BY <1>1, <1>2

\* A request that writes keeps the record whole: it assigns the row to an account
\* that is there, inserts a row, or deletes one.
LEMMA WriteKeepsInv ==
    ASSUME IInv, NEW q \in Requests, Assign(q) \/ Insert(q) \/ Erase(q)
    PROVE  IInv'
  <1> USE DeviceRecordsAssumption
  <1> DEFINE Notes == [pc : {"away", "assign", "insert", "erase"}, id : 0 .. MaxRows,
                       user : Owners \cup {Nobody}, agent : Agents \cup {Nobody},
                       saw : Owners \cup {Nobody}]
             Rows == [id : 0 .. MaxRows, user : Owners \cup {Nobody}, active : BOOLEAN,
                      agent : Agents \cup {Nobody}, client : {"own", "word"}]
  <1>1. desk' = [desk EXCEPT ![q] = Away]
    BY DEF Assign, Insert, Erase, Answered
  <1>2. desk \in [Requests -> Notes] /\ dev \in Rows /\ issued \in 0 .. MaxRows
    BY DEF IInv, RecordTypeOK
  <1>3. Away \in Notes /\ NoDevice \in Rows
    BY DEF Away, NoDevice
  <1>4. desk' \in [Requests -> Notes]
    <2> HIDE DEF Notes
    <2> QED
      BY <1>1, <1>2, <1>3
  <1>5. \A p \in Requests : desk'[p].pc = "assign" => desk'[p] = desk[p]
    <2> HIDE DEF Notes
    <2> QED
      BY <1>1, <1>2 DEF Away
  <1>6. CASE Assign(q)
    <2>1. \/ dev' = dev
          \/ /\ dev' = Taken(desk[q].user, desk[q].agent)
             /\ desk[q].user \in accounts /\ Living(desk[q].agent) /\ dev.id # 0
      BY <1>6 DEF Assign, IInv, DeskInv
    <2>2. desk[q].user \in Owners \cup {Nobody} /\ desk[q].agent \in Agents \cup {Nobody}
      BY <1>2
    <2>3. dev' \in Rows
      BY <1>2, <2>1, <2>2 DEF Taken
    <2>4. RecordTypeOK'
      BY <1>2, <1>4, <1>6, <2>3 DEF IInv, RecordTypeOK, Assign, TableIs
    <2>5. ActiveMeansOwned'
      BY <1>6, <2>1 DEF IInv, RecordTypeOK, ActiveMeansOwned, Living, Assign, Taken, TableIs
    <2>6. DeskInv'
      BY <1>2, <1>5, <2>1 DEF IInv, DeskInv, Taken
    <2> QED
      BY <2>4, <2>5, <2>6 DEF IInv
  <1>7. CASE Insert(q)
    <2> DEFINE owned == desk[q].user # Nobody
               fresh == [id |-> issued + 1, user |-> desk[q].user, active |-> owned,
                         agent |-> desk[q].agent, client |-> "own"]
    <2>1. /\ \/ dev' = dev /\ issued' = issued
             \/ /\ dev' = fresh /\ issued' = issued + 1 /\ issued < MaxRows
                /\ desk[q].user \in accounts \cup {Nobody} /\ Living(desk[q].agent)
          /\ UNCHANGED <<accounts, agentOf>>
      BY <1>7 DEF Insert
    <2>2. owned \in BOOLEAN /\ (owned <=> desk[q].user # Nobody)
      OBVIOUS
    <2> HIDE DEF owned
    <2>3. /\ desk[q].user \in Owners \cup {Nobody} /\ desk[q].agent \in Agents \cup {Nobody}
          /\ desk[q].user \in accounts => desk[q].user # Nobody
      BY <1>2 DEF IInv, RecordTypeOK
    <2>4. dev' \in Rows /\ issued' \in 0 .. MaxRows
      BY <1>2, <2>1, <2>2, <2>3
    <2>5. RecordTypeOK'
      BY <1>4, <2>1, <2>4 DEF IInv, RecordTypeOK
    <2>6. ActiveMeansOwned'
      BY <2>1, <2>2, <2>3 DEF IInv, ActiveMeansOwned, Living
    <2>7. DeskInv'
      BY <1>2, <1>5, <2>1 DEF IInv, DeskInv
    <2> QED
      BY <2>5, <2>6, <2>7 DEF IInv
  <1>8. CASE Erase(q)
    <2>1. (dev' = dev \/ dev' = NoDevice) /\ UNCHANGED <<accounts, agentOf, issued>>
      BY <1>8 DEF Erase, TableIs
    <2>2. RecordTypeOK'
      BY <1>2, <1>3, <1>4, <2>1 DEF IInv, RecordTypeOK
    <2>3. ActiveMeansOwned'
      BY <2>1 DEF IInv, ActiveMeansOwned, Living, NoDevice
    <2>4. DeskInv'
      BY <1>5, <2>1 DEF IInv, DeskInv, NoDevice
    <2> QED
      BY <2>2, <2>3, <2>4 DEF IInv
  <1> QED
    BY <1>6, <1>7, <1>8

\* So do the requests that write in the step in which they look.
LEMMA SingleStepKeepsInv ==
    ASSUME IInv,
           \/ \E a \in Agents \cup {Nobody} : SetAgent(a)
           \/ Deletes
           \/ \E client \in {"own", "word"} : SyncClient(client)
           \/ \E a \in Agents, u \in Owners : CreateAgent(a, u)
           \/ \E a \in Agents : DeleteAgent(a)
           \/ \E u \in Owners : DeleteUser(u)
    PROVE  IInv'
  <1> USE DeviceRecordsAssumption
  <1>1. RecordTypeOK'
    <2>1. ASSUME NEW a \in Agents \cup {Nobody}, SetAgent(a)
          PROVE  RecordTypeOK'
      BY <2>1 DEF IInv, RecordTypeOK, SetAgent, TableIs, DeskIs
    <2>2. CASE Deletes
      BY <2>2 DEF IInv, RecordTypeOK, Deletes, NoDevice, TableIs, DeskIs
    <2>3. ASSUME NEW client \in {"own", "word"}, SyncClient(client)
          PROVE  RecordTypeOK'
      BY <2>3 DEF IInv, RecordTypeOK, SyncClient, TableIs, DeskIs
    <2>4. ASSUME NEW a \in Agents, NEW u \in Owners, CreateAgent(a, u)
          PROVE  RecordTypeOK'
      BY <2>4 DEF IInv, RecordTypeOK, CreateAgent, DeskIs
    <2>5. ASSUME NEW a \in Agents, DeleteAgent(a)
          PROVE  RecordTypeOK'
      BY <2>5 DEF IInv, RecordTypeOK, DeleteAgent, DeskIs
    <2>6. ASSUME NEW u \in Owners, DeleteUser(u)
          PROVE  RecordTypeOK'
      BY <2>6 DEF IInv, RecordTypeOK, DeleteUser, DeskIs, NoDevice
    <2> QED
      BY <2>1, <2>2, <2>3, <2>4, <2>5, <2>6
  <1>2. ActiveMeansOwned'
    <2> USE DEF IInv, RecordTypeOK, ActiveMeansOwned, Living
    <2>1. ASSUME NEW a \in Agents \cup {Nobody}, SetAgent(a)
          PROVE  ActiveMeansOwned'
      BY <2>1 DEF SetAgent, TableIs
    <2>2. CASE Deletes
      BY <2>2 DEF Deletes, NoDevice, TableIs
    <2>3. ASSUME NEW client \in {"own", "word"}, SyncClient(client)
          PROVE  ActiveMeansOwned'
      BY <2>3 DEF SyncClient, TableIs
    <2>4. ASSUME NEW a \in Agents, NEW u \in Owners, CreateAgent(a, u)
          PROVE  ActiveMeansOwned'
      BY <2>4 DEF CreateAgent
    <2>5. ASSUME NEW a \in Agents, DeleteAgent(a)
          PROVE  ActiveMeansOwned'
      BY <2>5 DEF DeleteAgent
    <2>6. ASSUME NEW u \in Owners, DeleteUser(u)
          PROVE  ActiveMeansOwned'
      BY <2>6 DEF DeleteUser, NoDevice
    <2> QED
      BY <2>1, <2>2, <2>3, <2>4, <2>5, <2>6
  <1>3. DeskInv'
    <2>1. UNCHANGED desk /\ (dev'.id = 0 => dev'.user = Nobody)
      BY DEF IInv, RecordTypeOK, DeskInv, NoDevice, DeskIs, SetAgent, Deletes, SyncClient,
             CreateAgent, DeleteAgent, DeleteUser
    <2> QED
      BY <2>1 DEF IInv, DeskInv
  <1> QED
    BY <1>1, <1>2, <1>3 DEF IInv

LEMMA InitInv == RecordInit => IInv
  BY DeviceRecordsAssumption
  DEF RecordInit, IInv, RecordTypeOK, ActiveMeansOwned, Living, DeskInv, NoDevice, Away

LEMMA StepInv == IInv /\ [RecordNext]_recordVars => IInv'
  <1> SUFFICES ASSUME IInv, [RecordNext]_recordVars
               PROVE  IInv'
    OBVIOUS
  <1>1. CASE UNCHANGED recordVars
    BY <1>1 DEF recordVars, IInv, RecordTypeOK, ActiveMeansOwned, Living, DeskInv
  <1>2. CASE RecordNext
    BY <1>2, LookingKeepsInv, WriteKeepsInv, SingleStepKeepsInv DEF RecordNext
  <1> QED
    BY <1>1, <1>2

\* The two kinds of steps that take a device from its owner without a request that
\* looked before: the account goes, or the owner deletes the device.
LEMMA SingleStepKeepsOwner ==
    ASSUME IInv, dev.user # Nobody, dev'.user # dev.user,
           \/ \E a \in Agents \cup {Nobody} : SetAgent(a)
           \/ Deletes
           \/ \E client \in {"own", "word"} : SyncClient(client)
           \/ \E a \in Agents, u \in Owners : CreateAgent(a, u)
           \/ \E a \in Agents : DeleteAgent(a)
           \/ \E u \in Owners : DeleteUser(u)
    PROVE  dev.user \notin accounts' \/ (desk' = desk /\ dev' = NoDevice)
  BY DEF IInv, RecordTypeOK, SetAgent, Deletes, SyncClient, CreateAgent, DeleteAgent, DeleteUser,
         DeskIs

\* A write that takes a device from its owner is that of a request that looked at
\* this row, and saw nobody, this owner, or itself.
LEMMA WriteKeepsOwner ==
    ASSUME IInv, dev.user # Nobody, dev'.user # dev.user,
           NEW q \in Requests, Assign(q) \/ Insert(q) \/ Erase(q)
    PROVE  /\ Writer(q) /\ desk[q].id = dev.id
           /\ \/ dev' = NoDevice /\ desk[q].saw \in {Nobody, dev.user}
              \/ dev'.user = desk[q].user /\ desk[q].saw \in {Nobody, dev'.user}
  <1>1. desk'[q] = Away
    BY DEF Assign, Insert, Erase, Answered, IInv, RecordTypeOK
  <1>2. CASE Assign(q)
    BY <1>1, <1>2 DEF Assign, Taken, Writer, IInv, RecordTypeOK, DeskInv
  <1>3. CASE Insert(q)
    BY <1>3 DEF Insert, IInv, DeskInv
  <1>4. CASE Erase(q)
    BY <1>1, <1>4 DEF Erase, Writer
  <1> QED
    BY <1>2, <1>3, <1>4

-----------------------------------------------------------------------------
(* Theorems                                                                *)

\* The invariant of the device's record and of the requests about it.
THEOREM RecordInvariant == RecordSpec => []IInv
  BY InitInv, StepInv, PTL DEF RecordSpec

\* Rows, accounts, agents and requests keep their types: no row is numbered past
\* the bound.
THEOREM RecordTypeCorrect == RecordSpec => []RecordTypeOK
  <1>1. IInv => RecordTypeOK
    BY DEF IInv
  <1> QED
    BY <1>1, RecordInvariant, PTL

\* A device is activated exactly when an account that exists owns it
\* (device_activate, internal.rs:137, which therefore compares no challenge).
THEOREM ActivatedIsOwned == RecordSpec => []ActiveMeansOwned
  <1>1. IInv => ActiveMeansOwned
    BY DEF IInv
  <1> QED
    BY <1>1, RecordInvariant, PTL

\* A device changes hands only with its owner's account, by its owner, or by a
\* request that did not see somebody else own it (assign_device_to_user, db.rs:797,
\* which does not look again).
THEOREM DevicesChangeHands == RecordSpec => OwnerIsKept
  <1>1. IInv /\ [RecordNext]_recordVars =>
          [ dev.user # Nobody /\ dev'.user # dev.user
              => \/ dev.user \notin accounts'
                 \/ desk' = desk /\ dev' = NoDevice
                 \/ \E q \in Requests :
                       /\ Writer(q) /\ desk[q].id = dev.id
                       /\ \/ dev' = NoDevice /\ desk[q].saw \in {Nobody, dev.user}
                          \/ dev'.user = desk[q].user /\ desk[q].saw \in {Nobody, dev'.user} ]_recordVars
    <2> SUFFICES ASSUME IInv, RecordNext, dev.user # Nobody, dev'.user # dev.user
                 PROVE  \/ dev.user \notin accounts'
                        \/ desk' = desk /\ dev' = NoDevice
                        \/ \E q \in Requests :
                              /\ Writer(q) /\ desk[q].id = dev.id
                              /\ \/ dev' = NoDevice /\ desk[q].saw \in {Nobody, dev.user}
                                 \/ /\ dev'.user = desk[q].user
                                    /\ desk[q].saw \in {Nobody, dev'.user}
      OBVIOUS
    <2>1. ASSUME NEW q \in Requests, Assign(q) \/ Insert(q) \/ Erase(q)
          PROVE  /\ Writer(q) /\ desk[q].id = dev.id
                 /\ \/ dev' = NoDevice /\ desk[q].saw \in {Nobody, dev.user}
                    \/ dev'.user = desk[q].user /\ desk[q].saw \in {Nobody, dev'.user}
      BY <2>1, WriteKeepsOwner
    <2>2. ASSUME NEW q \in Requests,
                 \/ \E u \in Owners : Claims(q, u) \/ BindsToAgent(q, u) \/ CreatesBound(q, u)
                                      \/ AdminAssigns(q, u)
                 \/ AsksForCode(q) \/ AdminErases(q)
          PROVE  FALSE
      BY <2>2 DEF Claims, BindsToAgent, CreatesBound, AdminAssigns, AsksForCode, AdminErases, Writes
    <2> QED
      BY <2>1, <2>2, SingleStepKeepsOwner DEF RecordNext
  <1> QED
    BY <1>1, RecordInvariant, PTL DEF RecordSpec, OwnerIsKept

-----------------------------------------------------------------------------
\* One part runs, and its invariant is kept

\* Whatever else the platform does, the part that runs moves by its own steps.
LEMMA PlatformSteps ==
    ASSUME [PlatformNext]_platformVars
    PROVE  /\ part' = part
           /\ part = "clone" => [CloneNext]_cloneVars
           /\ part = "roles" => [RoleNext]_roleVars
           /\ part = "prints" => [PrintNext]_printVars
<1>1. CASE UNCHANGED platformVars
  BY <1>1 DEF platformVars, deviceVars, sharedVars, consoleVars
<1>2. CASE PlatformNext
  BY <1>2 DEF PlatformNext, deviceVars, sharedVars, consoleVars
<1> QED
  BY <1>1, <1>2

\* The voice clones: types, what each row and each worker may be, and the three properties.
THEOREM CloneInvariant == CloneSpec => []CloneInv
<1>1. CloneInit => CloneInv
  BY CloneInitInv
<1>2. CloneInv /\ [CloneNext]_cloneVars => CloneInv'
  BY CloneNextInv
<1> QED
  BY <1>1, <1>2, PTL DEF CloneSpec

\* The roles: types, one row to an id, what a request that looked at a role may rely on, the name
\* of the role that was given, and one default.
THEOREM RolesInvariant == RoleSpec => []RoleInv
<1>1. RoleInit => RoleInv
  BY RoleBegins
<1>2. RoleInv /\ [RoleNext]_roleVars => RoleInv'
  BY RoleStep
<1> QED
  BY <1>1, <1>2, PTL DEF RoleSpec

\* The voice prints: types, whose a row and a file are, the counts, and what every request on its
\* way to a group that is not blurred knows of it.
THEOREM PrintInvariant == PrintSpec => []PrintInv
<1>1. PrintInit => PrintInv
  BY PrintBegins
<1>2. PrintInv /\ [PrintNext]_printVars => PrintInv'
  BY PrintStep
<1> QED
  BY <1>1, <1>2, PTL DEF PrintSpec

\* A clone that waits has a worker, never two, and says what became of it, for any number of
\* clones, workers and restarts.
THEOREM ClonesWorked == PlatformSpec => []ClonesAreWorked
<1> DEFINE Inv == part = "clone" => CloneInv
<1>1. PlatformInit => Inv
  BY CloneInitInv DEF PlatformInit
<1>2. Inv /\ [PlatformNext]_platformVars => Inv'
  BY PlatformSteps, CloneNextInv
<1>3. Inv => ClonesAreWorked
  BY DEF CloneInv, ClonesAreWorked
<1> QED
  BY <1>1, <1>2, <1>3, PTL DEF PlatformSpec

\* There is one default role, a device is served the role it was given and nobody what another
\* account wrote; and counts, files and prints are those of the rows.
THEOREM RolesAndPrints == PlatformSpec => []RolesAndPrintsAreOne
<1> DEFINE Inv == (part = "roles" => RoleInv) /\ (part = "prints" => PrintInv)
<1>1. PlatformInit => Inv
  BY RoleBegins, PrintBegins DEF PlatformInit
<1>2. Inv /\ [PlatformNext]_platformVars => Inv'
  BY PlatformSteps, RoleStep, PrintStep
<1>3. Inv => RolesAndPrintsAreOne
  BY RolesFollow, PrintsFollow DEF RolesAndPrintsAreOne
<1> QED
  BY <1>1, <1>2, <1>3, PTL DEF PlatformSpec
=============================================================================
