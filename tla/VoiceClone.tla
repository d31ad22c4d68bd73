----------------------------- MODULE VoiceClone -----------------------------
(***************************************************************************)
(* The voice clones of one user on the management console: the requests    *)
(* that create, retry and delete a clone (handlers/voice.rs), the quota    *)
(* an administrator gives (handlers/users.rs), the tables (db.rs), and the *)
(* background task that calls the provider and is restarted from the       *)
(* tables when the console starts (voice_clone_worker.rs).                 *)
(*                                                                         *)
(* A clone has at most one task: create makes it and retry requeues it, so *)
(* the task is a field of the clone.  Every handler and every worker dies  *)
(* with the process; the tables survive.  What a provider is sent and      *)
(* answers is reduced to "a voice" or "an error".                          *)
(***************************************************************************)
EXTENDS Naturals, FiniteSets

CONSTANTS Clones,      \* row ids, never reused (AUTOINCREMENT)
          Workers,     \* spawned background tasks
          NoClone,     \* a worker that has ended
          MaxQuota,    \* largest quota an administrator gives
          MaxCrashes   \* bound on the crashes of the console

ASSUME CloneAssumption ==
    IsFiniteSet(Clones) /\ NoClone \notin Clones /\ MaxQuota \in Nat /\ MaxCrashes \in Nat

VARIABLES row,       \* row[c]: the clone and its task, as the tables hold them
          creating,  \* creating[c]: where the create request of c has got to
          quota,     \* the quota row: [max, used], or NoQuota
          grant,     \* an administrator's save between its count and its write
          worker,    \* worker[w]: the clone it works for, and its next step
          up, crashes

cloneVars == <<row, creating, quota, grant, worker, up, crashes>>

Statuses == {"processing", "active", "failed"}
TaskStatuses == {"queued", "processing", "succeeded", "failed"}
NoQuota == [max |-> 0, used |-> 0, given |-> FALSE]
NoRow == [here |-> FALSE, status |-> "processing", audio |-> FALSE, task |-> "none"]
NoWork == [clone |-> NoClone, at |-> "ended"]

CloneInit == /\ row = [c \in Clones |-> NoRow]
             /\ creating = [c \in Clones |-> "new"]
             /\ quota = NoQuota
             /\ grant = [at |-> "idle", max |-> 0, used |-> 0]
             /\ worker = [w \in Workers |-> NoWork]
             /\ up = TRUE
             /\ crashes = 0

Here(c) == row[c].here
Owned == {c \in Clones : Here(c)}
Pending(c) == Here(c) /\ row[c].task \in {"queued", "processing"}
WorksFor(w, c) == worker[w].clone = c
Unused(w) == worker[w].clone = NoClone

(***************************************************************************)
(* Create: charge the quota, insert the clone as "processing", move the    *)
(* sample into place, record it, create the task and spawn its worker.     *)
(* An error anywhere answers the request and undoes nothing.               *)
(***************************************************************************)
Charge(c) == /\ up /\ creating[c] = "new"
             /\ quota.given /\ quota.used < quota.max
             /\ quota' = [quota EXCEPT !.used = @ + 1]
             /\ creating' = [creating EXCEPT ![c] = "charged"]
             /\ UNCHANGED <<row, grant, worker, up, crashes>>

InsertClone(c) == /\ up /\ creating[c] = "charged"
                  /\ row' = [row EXCEPT ![c].here = TRUE]
                  /\ creating' = [creating EXCEPT ![c] = "inserted"]
                  /\ UNCHANGED <<quota, grant, worker, up, crashes>>

\* the rename of the sample fails, or the row was deleted and the foreign key
\* refuses what follows
CreateFails(c) == /\ up
                  /\ \/ creating[c] = "inserted"
                     \/ creating[c] = "stored" /\ ~Here(c)
                  /\ creating' = [creating EXCEPT ![c] = "over"]
                  /\ UNCHANGED <<row, quota, grant, worker, up, crashes>>

StoreAudio(c) == /\ up /\ creating[c] = "inserted" /\ Here(c)
                 /\ row' = [row EXCEPT ![c].audio = TRUE]
                 /\ creating' = [creating EXCEPT ![c] = "stored"]
                 /\ UNCHANGED <<quota, grant, worker, up, crashes>>

Spawned(w, c) == [worker EXCEPT ![w] = [clone |-> c, at |-> "spawned"]]

CreateTask(c, w) == /\ up /\ creating[c] = "stored" /\ Here(c) /\ Unused(w)
                    /\ row' = [row EXCEPT ![c].task = "queued"]
                    /\ creating' = [creating EXCEPT ![c] = "over"]
                    /\ worker' = Spawned(w, c)
                    /\ UNCHANGED <<quota, grant, up, crashes>>

(***************************************************************************)
(* Retry: only a failed clone whose task is failed is queued again.        *)
(***************************************************************************)
\* A variant: a retry is also taken while the task is running.
RequeuesUnfinished(c) == row[c].task # "succeeded"

Requeues(c) == row[c].status = "failed" /\ row[c].task = "failed"

\* A variant: the task is queued again, the clone keeps its failure.
RetryTaskOnly(c, w) == /\ up /\ Here(c) /\ Unused(w)
                       /\ Requeues(c)
                       /\ row' = [row EXCEPT ![c].task = "queued"]
                       /\ worker' = Spawned(w, c)
                       /\ UNCHANGED <<creating, quota, grant, up, crashes>>

Retry(c, w) == /\ up /\ Here(c) /\ Unused(w)
               /\ Requeues(c)
               /\ row' = [row EXCEPT ![c].task = "queued", ![c].status = "processing"]
               /\ worker' = Spawned(w, c)
               /\ UNCHANGED <<creating, quota, grant, up, crashes>>

\* the samples and the task go with the clone (ON DELETE CASCADE)
Delete(c) == /\ up /\ Here(c)
             /\ row' = [row EXCEPT ![c] = NoRow]
             /\ UNCHANGED <<creating, quota, grant, worker, up, crashes>>

(***************************************************************************)
(* The worker: claim the task, read the clone and its sample, call the     *)
(* provider, write the outcome to the task and the clone in a transaction. *)
(***************************************************************************)
Claim(w, c) == /\ up /\ worker[w] = [clone |-> c, at |-> "spawned"]
               /\ IF Pending(c)
                  THEN /\ row' = [row EXCEPT ![c].task = "processing",
                                             ![c].status = "processing"]
                       /\ worker' = [worker EXCEPT ![w].at = "claimed"]
                  ELSE /\ worker' = [worker EXCEPT ![w] = NoWork]
                       /\ UNCHANGED row
               /\ UNCHANGED <<creating, quota, grant, up, crashes>>

\* every provider of clone_with_*, the error cases of its request included
Answers == {"voice", "error"}

\* a clone or a sample that is gone is an error like the provider's
CallProvider(w, c) ==
  /\ up /\ worker[w] = [clone |-> c, at |-> "claimed"]
  /\ \E outcome \in Answers :
       /\ outcome = "voice" => row[c].audio
       /\ worker' = [worker EXCEPT ![w].at = outcome]
  /\ UNCHANGED <<row, creating, quota, grant, up, crashes>>

\* the row of the task is read first: nothing is written once it is gone
WriteOutcome(w, c) ==
  /\ up /\ WorksFor(w, c) /\ worker[w].at \in Answers
  /\ row' = CASE ~Here(c) -> row
              [] Here(c) /\ worker[w].at = "voice" ->
                   [row EXCEPT ![c].task = "succeeded", ![c].status = "active"]
              [] OTHER -> [row EXCEPT ![c].task = "failed", ![c].status = "failed"]
  /\ worker' = [worker EXCEPT ![w] = NoWork]
  /\ UNCHANGED <<creating, quota, grant, up, crashes>>

(***************************************************************************)
(* The administrator: count the clones of the user, then write the quota   *)
(* with that count as the used part; -1 deletes the quota.                 *)
(***************************************************************************)
CountClones(m) == /\ up /\ grant.at = "idle"
                  /\ grant' = [at |-> "counted", max |-> m, used |-> Cardinality(Owned)]
                  /\ UNCHANGED <<row, creating, quota, worker, up, crashes>>

SaveQuota == /\ up /\ grant.at = "counted"
             /\ quota' = [max |-> grant.max, used |-> grant.used, given |-> TRUE]
             /\ grant' = [grant EXCEPT !.at = "idle", !.max = 0, !.used = 0]
             /\ UNCHANGED <<row, creating, worker, up, crashes>>

RemoveQuota == /\ up /\ grant.at = "idle" /\ quota.given
               /\ quota' = NoQuota
               /\ UNCHANGED <<row, creating, grant, worker, up, crashes>>

(***************************************************************************)
(* A crash ends every request and worker; the start reads the tasks that   *)
(* are not finished and spawns a worker for each, before it serves.        *)
(***************************************************************************)
Crash == /\ up /\ crashes < MaxCrashes
         /\ up' = FALSE
         /\ crashes' = crashes + 1
         /\ creating' = [c \in Clones |-> IF creating[c] = "new" THEN "new" ELSE "over"]
         /\ grant' = [grant EXCEPT !.at = "idle", !.max = 0, !.used = 0]
         /\ worker' = [w \in Workers |-> NoWork]
         /\ UNCHANGED <<row, quota>>

\* A variant: the start forgets the tasks a crash cut short.
ReloadedQueued == {c \in Clones : Here(c) /\ row[c].task = "queued"}

Reloaded == {c \in Clones : Pending(c)}

Restart == /\ ~up
           /\ up' = TRUE
           /\ \E owner \in [Workers -> Reloaded \cup {NoClone}] :
                /\ \A c \in Reloaded : \E w \in Workers : owner[w] = c
                /\ \A v, w \in Workers : owner[v] = owner[w] => v = w \/ owner[v] = NoClone
                /\ worker' = [w \in Workers |->
                     IF owner[w] = NoClone THEN NoWork
                     ELSE [clone |-> owner[w], at |-> "spawned"]]
           /\ UNCHANGED <<row, creating, quota, grant, crashes>>

CloneNext ==
  \/ \E c \in Clones : Charge(c) \/ InsertClone(c) \/ CreateFails(c) \/ StoreAudio(c) \/ Delete(c)
  \/ \E c \in Clones, w \in Workers :
       \/ CreateTask(c, w) \/ Retry(c, w)
       \/ Claim(w, c) \/ CallProvider(w, c) \/ WriteOutcome(w, c)
  \/ \E m \in 0..MaxQuota : CountClones(m)
  \/ SaveQuota \/ RemoveQuota \/ Crash \/ Restart

CloneSpec == CloneInit /\ [][CloneNext]_cloneVars

CloneTypeOK ==
  /\ row \in [Clones -> [here : BOOLEAN, status : Statuses, audio : BOOLEAN,
                         task : TaskStatuses \cup {"none"}]]
  /\ creating \in [Clones -> {"new", "charged", "inserted", "stored", "over"}]
  /\ quota \in [max : Nat, used : Nat, given : BOOLEAN]
  /\ grant \in [at : {"idle", "counted"}, max : Nat, used : Nat]
  /\ worker \in [Workers -> [clone : Clones \cup {NoClone},
                             at : {"ended", "spawned", "claimed", "voice", "error"}]]
  /\ up \in BOOLEAN /\ crashes \in 0..MaxCrashes

\* While the console runs, a task that is not finished has a worker: one cut
\* short by a crash is taken up again by the start that follows, and no retry,
\* deletion or late outcome leaves a task waiting for a worker nobody spawns.
PendingHasWorker ==
  up => \A c \in Clones : Pending(c) => \E w \in Workers : WorksFor(w, c)

\* A clone is never sent to its provider twice at the same time, although a
\* claim also accepts a task another worker is processing: retries, restarts
\* and deletions never leave two workers on one clone.
OneWorkerPerClone ==
  \A v, w \in Workers, c \in Clones : WorksFor(v, c) /\ WorksFor(w, c) => v = w

\* What the user is shown agrees with the task: a clone is active exactly when
\* its task succeeded and failed exactly when its task failed, whatever the
\* order of outcomes, retries and crashes; so a failed clone can be retried.
StatusFollowsTask ==
  \A c \in Clones : Here(c) =>
    /\ row[c].status = "active" <=> row[c].task = "succeeded"
    /\ row[c].status = "failed" <=> row[c].task = "failed"
    /\ row[c].task # "none" => row[c].audio
=============================================================================
