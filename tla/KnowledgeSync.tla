---------------------------- MODULE KnowledgeSync ----------------------------
(***************************************************************************)
(* One knowledge base of the management console and its copy at an outside *)
(* provider: the requests (handlers/knowledge.rs), the rows (db.rs) and    *)
(* the background jobs each request spawns (knowledge_sync.rs).  Nothing   *)
(* orders the jobs: two edits of a document run two jobs, and a deletion   *)
(* runs beside an upload.                                                  *)
(*                                                                         *)
(* A job is named by the request that spawned it.  The copy of a document  *)
(* and the dataset a job creates at the provider carry the job's name, as  *)
(* every creation returns a fresh id.  A merge into the configuration of   *)
(* the base reads the row and writes it back in two steps (db.rs:3070).    *)
(***************************************************************************)
EXTENDS Naturals, FiniteSets

CONSTANTS Providers,  \* "dify", "ragflow", "weknora"
          Docs,   \* documents of the base
          NoDoc,
          MaxJobs \* bound on the background jobs

ASSUME KnowledgeAssumption == MaxJobs \in Nat /\ IsFiniteSet(Docs) /\ NoDoc \notin Docs

\* jobs are numbered as they are spawned; a number also names the copy and the
\* dataset the job creates
Jobs == 1..MaxJobs
NoJob == 0

VARIABLES provider,  \* the provider of the base
          base,      \* the row of the base: is it there, and its external_kb_id
          doc,       \* doc[d]: the row of document d
          job,       \* job[j]: what job j is doing and what it has read
          copy,      \* copy[j]: the copy j made: of which document, and is it there
          datasets,  \* the datasets at the provider
          everSynced \* the documents a job has marked as synced

syncVars == <<provider, base, doc, job, copy, datasets, everSynced>>

NoDocRow == [here |-> FALSE, file |-> FALSE, ext |-> NoJob, status |-> "none"]
Waiting == [kind |-> "none", doc |-> NoDoc, at |-> "unused", file |-> FALSE,
            old |-> NoJob, dataset |-> NoJob, seen |-> NoJob, own |-> FALSE, next |-> "over"]

SyncInit == /\ provider \in Providers
            /\ base = [here |-> TRUE, dataset |-> NoJob]
            /\ doc = [d \in Docs |-> NoDocRow]
            /\ job = [j \in Jobs |-> Waiting]
            /\ copy = [j \in Jobs |-> [doc |-> NoDoc, dataset |-> NoJob, here |-> FALSE]]
            /\ datasets = {}
            /\ everSynced = {}

Rows == {d \in Docs : doc[d].here}
JobAt(j, kind, at) == job[j].kind = kind /\ job[j].at = at
\* A job that is over keeps nothing of what it has read.
Ended(j) == [Waiting EXCEPT !.kind = job[j].kind, !.doc = job[j].doc, !.at = "over"]
Over(j) == job' = [job EXCEPT ![j] = Ended(j)]
Then(j, at) == IF at = "over" THEN Over(j) ELSE job' = [job EXCEPT ![j].at = at]
SpawnJob(j, kind, d, at) == job' = [job EXCEPT ![j].kind = kind, ![j].doc = d, ![j].at = at]
IsSpawned(j) == job[j].kind # "none"
MayStart(j) == ~IsSpawned(j) /\ \A i \in Jobs : i < j => IsSpawned(i)

(***************************************************************************)
(* Requests.  A handler that marks the base pending merges, like its job.  *)
(***************************************************************************)
CreateDoc(d, j, file) == /\ base.here /\ doc[d] = NoDocRow /\ d \notin everSynced /\ MayStart(j)
                         /\ \A i \in Jobs : job[i].doc # d
                         /\ doc' = [doc EXCEPT ![d] = [here |-> TRUE, file |-> file,
                                                       ext |-> NoJob, status |-> "pending"]]
                         /\ SpawnJob(j, "doc", d, "load")
                         /\ UNCHANGED <<provider, base, copy, datasets, everSynced>>

\* an edit replaces the content, an uploaded file's too, by text
UpdateDoc(d, j) == /\ base.here /\ doc[d].here /\ MayStart(j)
                   /\ \E text \in {TRUE, FALSE} :
                        doc' = [doc EXCEPT ![d].status = "pending",
                                           ![d].file = @ /\ ~text]
                   /\ SpawnJob(j, "doc", d, "load")
                   /\ UNCHANGED <<provider, base, copy, datasets, everSynced>>

\* a deletion job carries what the rows named before they went
DeleteJob(d) == [Waiting EXCEPT !.kind = "delete", !.at = "delete", !.doc = d,
                   !.old = IF d = NoDoc THEN NoJob ELSE doc[d].ext, !.dataset = base.dataset]

DeleteDoc(d, j) == /\ base.here /\ doc[d].here /\ MayStart(j)
                   /\ doc' = [doc EXCEPT ![d] = NoDocRow]
                   /\ job' = [job EXCEPT ![j] = DeleteJob(d)]
                   /\ UNCHANGED <<provider, base, copy, datasets, everSynced>>

SyncBase(j) == /\ base.here /\ MayStart(j)
               /\ job' = [job EXCEPT ![j].kind = "base", ![j].at = "merge", ![j].next = "ensure"]
               /\ UNCHANGED <<provider, base, doc, copy, datasets, everSynced>>

\* the rows of the documents go with the base; a job is spawned for each of
\* them, or one for the base alone
DeleteBase == /\ base.here
              /\ base' = [here |-> FALSE, dataset |-> NoJob]
              /\ doc' = [d \in Docs |-> NoDocRow]
              /\ \E first \in Jobs, rows \in [1..Cardinality(Rows) -> Rows] :
                   LET last == first + Cardinality(Rows) - 1 IN
                   /\ MayStart(first) /\ last <= MaxJobs
                   /\ \A d \in Rows : \E i \in DOMAIN rows : rows[i] = d
                   /\ job' = [j \in Jobs |->
                        IF j \in first..last
                        THEN DeleteJob(rows[j + 1 - first])
                        ELSE IF Rows = {} /\ j = first THEN DeleteJob(NoDoc) ELSE job[j]]
              /\ UNCHANGED <<provider, copy, datasets, everSynced>>

(***************************************************************************)
(* Merging into the configuration: the row is read, then written whole.    *)
(* "own" says that the patch carries the dataset the job has created, and   *)
(* "next" where the job goes on.                                           *)
(***************************************************************************)
MergeReads(j) == /\ job[j].at = "merge"
                 /\ job' = [job EXCEPT ![j].seen = base.dataset, ![j].at = "write"]
                 /\ UNCHANGED <<provider, base, doc, copy, datasets, everSynced>>

MergeWrites(j) == /\ job[j].at = "write"
                  /\ base' = IF ~base.here THEN base
                             ELSE [base EXCEPT !.dataset =
                                     IF job[j].own THEN job[j].dataset ELSE job[j].seen]
                  /\ IF job[j].next = "over" THEN Over(j)
                     ELSE job' = [job EXCEPT ![j].own = FALSE, ![j].seen = NoJob,
                                             ![j].at = job[j].next, ![j].next = "over"]
                  /\ UNCHANGED <<provider, doc, copy, datasets, everSynced>>

(***************************************************************************)
(* Both kinds of job make sure there is a dataset before they go on.       *)
(***************************************************************************)
Ensured(j) == IF job[j].kind = "doc" THEN "upload" ELSE "merge"

\* what a failure leaves in the row: the id the job read, if it read one
FailRow(j, status) ==
    LET row == doc[job[j].doc]
    IN  IF ~ row.here THEN doc
        ELSE [doc EXCEPT ![job[j].doc] =
                [row EXCEPT !.status = status,
                            !.ext = IF job[j].old = NoJob THEN row.ext ELSE job[j].old]]

EnsureKnown(j) == /\ job[j].at = "ensure" /\ base.here /\ base.dataset # NoJob
                  /\ job' = [job EXCEPT ![j].dataset = base.dataset, ![j].at = Ensured(j)]
                  /\ UNCHANGED <<provider, base, doc, copy, datasets, everSynced>>

EnsureAsks(j) == /\ job[j].at = "ensure" /\ base.here /\ base.dataset = NoJob
                 /\ Then(j, "create")
                 /\ UNCHANGED <<provider, base, doc, copy, datasets, everSynced>>

EnsureCreates(j) == /\ job[j].at = "create"
                    /\ datasets' = datasets \cup {j}
                    /\ job' = [job EXCEPT ![j].dataset = j, ![j].own = TRUE, ![j].at = "merge",
                                            ![j].next = Ensured(j)]
                    /\ UNCHANGED <<provider, base, doc, copy, everSynced>>

EnsureFails(j) == /\ \/ job[j].at = "create"
                     \/ job[j].at = "ensure" /\ ~base.here
                  /\ IF job[j].kind = "doc"
                     THEN doc' = FailRow(j, "upload_failed") /\ Over(j)
                     ELSE UNCHANGED doc /\ Then(j, "merge")
                  /\ UNCHANGED <<provider, base, copy, datasets, everSynced>>

\* without an enabled configuration of the provider the row stays "uploading"
NoConfig(j) == /\ job[j].at = "ensure"
               /\ Then(j, IF job[j].kind = "doc" THEN "over" ELSE "merge")
               /\ UNCHANGED <<provider, base, doc, copy, datasets, everSynced>>

(***************************************************************************)
(* Synchronising a document: read the row, mark it uploading, upload,      *)
(* delete the copy the row named when it was read, name the new one.       *)
(***************************************************************************)
Load(j) == /\ JobAt(j, "doc", "load")
           /\ LET d == job[j].doc IN
              IF base.here /\ doc[d].here
              THEN job' = [job EXCEPT ![j].old = doc[d].ext, ![j].file = doc[d].file,
                                      ![j].at = "mark"]
              ELSE Over(j)
           /\ UNCHANGED <<provider, base, doc, copy, datasets, everSynced>>

\* A variant: the row is not marked before the upload.
MarkNothing(j) == /\ JobAt(j, "doc", "mark")
                  /\ Then(j, "ensure")
                  /\ UNCHANGED <<provider, base, doc, copy, datasets, everSynced>>

MarkUploading(j) == /\ JobAt(j, "doc", "mark")
                    /\ doc' = FailRow(j, "uploading")
                    /\ Then(j, "ensure")
                    /\ UNCHANGED <<provider, base, copy, datasets, everSynced>>

\* dify edits the copy of a text in place; every other upload makes a copy
InPlace(j) == provider = "dify" /\ ~job[j].file /\ job[j].old # NoJob

\* A variant: the old copy makes room for the new one.
UploadAfterDelete(j) ==
  /\ JobAt(j, "doc", "upload") /\ ~InPlace(j) /\ job[j].dataset \in datasets
  /\ LET o == job[j].old
         without == IF o = NoJob THEN copy ELSE [copy EXCEPT ![o].here = FALSE] IN
     \/ /\ copy' = [without EXCEPT ![j] =
                      [doc |-> job[j].doc, dataset |-> job[j].dataset, here |-> TRUE]]
        /\ Then(j, IF provider = "dify" THEN "replace" ELSE "parse")
        /\ UNCHANGED doc
     \/ /\ copy' = without
        /\ doc' = FailRow(j, "upload_failed")
        /\ Over(j)
  /\ UNCHANGED <<provider, base, datasets, everSynced>>

Upload(j) == /\ JobAt(j, "doc", "upload") /\ ~InPlace(j) /\ job[j].dataset \in datasets
             /\ copy' = [copy EXCEPT ![j] =
                           [doc |-> job[j].doc, dataset |-> job[j].dataset, here |-> TRUE]]
             /\ Then(j, IF provider = "dify" THEN "replace" ELSE "parse")
             /\ UNCHANGED <<provider, base, doc, datasets, everSynced>>

EditInPlace(j) == /\ JobAt(j, "doc", "upload") /\ InPlace(j) /\ copy[job[j].old].here
                  /\ job[j].dataset \in datasets
                  /\ Then(j, "name")
                  /\ UNCHANGED <<provider, base, doc, copy, datasets, everSynced>>

UploadFails(j) == /\ JobAt(j, "doc", "upload")
                  /\ doc' = FailRow(j, "upload_failed")
                  /\ Over(j)
                  /\ UNCHANGED <<provider, base, copy, datasets, everSynced>>

Parsed(j) == /\ JobAt(j, "doc", "parse")
             /\ Then(j, "replace")
             /\ UNCHANGED <<provider, base, doc, copy, datasets, everSynced>>

Names(j, status) ==
    LET d == job[j].doc
        ext == IF copy[j].doc = d THEN j ELSE job[j].old
    IN  IF ~ doc[d].here THEN doc
        ELSE [doc EXCEPT ![d] = [doc[d] EXCEPT !.ext = ext, !.status = status]]

ParseFails(j) == /\ JobAt(j, "doc", "parse")
                 /\ doc' = Names(j, "parse_failed")
                 /\ Over(j)
                 /\ UNCHANGED <<provider, base, copy, datasets, everSynced>>

\* a deletion that fails is not reported: the old copy stays
ReplaceFile(j) == /\ JobAt(j, "doc", "replace")
                  /\ \/ /\ job[j].old # NoJob
                        /\ copy' = [copy EXCEPT ![job[j].old].here = FALSE]
                     \/ UNCHANGED copy
                  /\ Then(j, "name")
                  /\ UNCHANGED <<provider, base, doc, datasets, everSynced>>

NameCopy(j) == /\ JobAt(j, "doc", "name")
               /\ doc' = Names(j, "synced")
               /\ everSynced' = IF doc[job[j].doc].here THEN everSynced \cup {job[j].doc}
                                                        ELSE everSynced
               /\ Then(j, IF provider = "weknora" THEN "merge" ELSE "over")
               /\ UNCHANGED <<provider, base, copy, datasets>>

(***************************************************************************)
(* Deleting at the provider what the rows named: the copy, then the        *)
(* dataset when it is found empty.                                         *)
(***************************************************************************)
DeleteCopy(j) == /\ JobAt(j, "delete", "delete")
                 /\ IF job[j].dataset = NoJob THEN Over(j) /\ UNCHANGED copy
                    ELSE \/ /\ Then(j, "count")
                            /\ copy' = IF job[j].old = NoJob THEN copy
                                       ELSE [copy EXCEPT ![job[j].old].here = FALSE]
                         \/ Over(j) /\ UNCHANGED copy    \* the provider refuses
                 /\ UNCHANGED <<provider, base, doc, datasets, everSynced>>

CountDataset(j) == /\ JobAt(j, "delete", "count")
                   /\ IF \E i \in Jobs : copy[i].here /\ copy[i].dataset = job[j].dataset
                      THEN Over(j) ELSE Then(j, "drop")
                   /\ UNCHANGED <<provider, base, doc, copy, datasets, everSynced>>

DropDataset(j) == /\ JobAt(j, "delete", "drop")
                  /\ datasets' = datasets \ {job[j].dataset}
                  /\ Over(j)
                  /\ UNCHANGED <<provider, base, doc, copy, everSynced>>

SyncNext ==
  \/ \E j \in Jobs, d \in Docs :
       UpdateDoc(d, j) \/ DeleteDoc(d, j) \/ \E file \in BOOLEAN : CreateDoc(d, j, file)
  \/ DeleteBase
  \/ \E j \in Jobs :
       \/ SyncBase(j) \/ MergeReads(j) \/ MergeWrites(j)
       \/ EnsureKnown(j) \/ EnsureAsks(j) \/ EnsureCreates(j) \/ EnsureFails(j)
       \/ NoConfig(j)
       \/ Load(j) \/ MarkUploading(j) \/ Upload(j) \/ EditInPlace(j) \/ UploadFails(j)
       \/ Parsed(j) \/ ParseFails(j) \/ ReplaceFile(j) \/ NameCopy(j)
       \/ DeleteCopy(j) \/ CountDataset(j) \/ DropDataset(j)

SyncSpec == SyncInit /\ [][SyncNext]_syncVars

SyncTypeOK ==
  /\ provider \in Providers
  /\ base \in [here : BOOLEAN, dataset : Jobs \cup {NoJob}]
  /\ doc \in [Docs -> [here : BOOLEAN, file : BOOLEAN, ext : Jobs \cup {NoJob},
                       status : {"none", "pending", "uploading", "synced",
                                 "upload_failed", "parse_failed"}]]
  /\ job \in [Jobs -> [kind : {"none", "doc", "base", "delete"}, doc : Docs \cup {NoDoc},
       at : {"unused", "load", "mark", "ensure", "create", "merge", "write", "upload", "parse",
             "replace", "name", "delete", "count", "drop", "over"},
       file : BOOLEAN, old : Jobs \cup {NoJob}, dataset : Jobs \cup {NoJob},
       seen : Jobs \cup {NoJob}, own : BOOLEAN, next : {"ensure", "upload", "merge", "over"}]]
  /\ copy \in [Jobs -> [doc : Docs \cup {NoDoc}, dataset : Jobs \cup {NoJob}, here : BOOLEAN]]
  /\ datasets \subseteq Jobs /\ everSynced \subseteq Docs

\* Once a document has been synchronised, the provider never loses its last
\* copy to a later synchronisation: whatever jobs of the document run beside
\* each other, fail or finish out of order, an old copy goes only after a newer
\* one is there.  (The removal of a whole dataset is another matter.)
KeepsACopy ==
  \A d \in everSynced : doc[d].here => \E j \in Jobs : copy[j].doc = d /\ copy[j].here

\* A document shown as synchronised names a copy that no other job has
\* replaced, for the providers that always upload a new copy.  (dify, which edits
\* texts in place, names a replaced copy when an edit runs beside a file upload.)
SyncedIsThere ==
  \A d \in Docs : doc[d].here /\ doc[d].status = "synced" /\ provider # "dify" =>
                    copy[doc[d].ext].here
=============================================================================
