---------------------------- MODULE EvidenceVault ----------------------------
(***************************************************************************)
(* The evidence of one job: its directory in the vault and its rows in the *)
(* database.  A multipart upload of the agent and an S3 ingest task of the *)
(* worker both write the directory file by file and insert the rows in a   *)
(* transaction; several of them may be under way for the same job, since a *)
(* lost reply makes the agent fall back or the operator retry.  Only the   *)
(* upload looks for the LOCKED marker, once, before it writes.             *)
(***************************************************************************)
CONSTANTS
  Upload,      \* multipart uploads for the job
  Ingest,      \* S3 uploads of the job, each with its Celery task
  Content,     \* what a collection may hold: one archive, one evidence file
  ContentOf,   \* what each of them brings
  None,        \* no file, no row
  Faults       \* I/O and database errors, killed processes

Writer == Upload \cup Ingest

ASSUME VaultAssumption ==
  /\ Upload \cap Ingest = {}
  /\ ContentOf \in [Writer -> Content]
  /\ None \notin Content \cup Writer
  /\ Faults \in BOOLEAN

VARIABLES
  zip,       \* collection.zip
  files,     \* extracted/
  manifest,  \* hashes.sha256: the file it was computed from
  marker,    \* LOCKED exists
  object,    \* the S3 object of the job
  folder,    \* who committed the evidence_folders row
  item,      \* evidence_items: the file whose hash the committed row holds
  failed,    \* the job is recorded as failed: it may be retried and collected again
  pend,      \* per writer: the item it has flushed but not committed
  pc         \* per writer: the next statement

disk == <<zip, files, manifest>>
rows == <<folder, item>>
vars == <<zip, files, manifest, marker, object, folder, item, failed, pend, pc>>

Statement ==
  {"start", "save", "extract", "hash", "folder", "items", "mark", "commit",
   "cleanup", "pipeline", "retry", "done", "ended"}

File == Content \cup {None}

TypeOK ==
  /\ zip \in File /\ files \in File /\ manifest \in File /\ object \in File
  /\ marker \in BOOLEAN /\ failed \in BOOLEAN
  /\ folder \in Writer \cup {None} /\ item \in File
  /\ pend \in [Writer -> File]
  /\ pc \in [Writer -> Statement]

Init ==
  /\ zip = None /\ files = None /\ manifest = None /\ object = None
  /\ marker = FALSE /\ failed = FALSE
  /\ folder = None /\ item = None
  /\ pend = [p \in Writer |-> None]
  /\ pc = [p \in Writer |-> "start"]

Goto(p, s) == pc' = [pc EXCEPT ![p] = s]

\* Its folder row is flushed and not yet committed: others wait for its key.
Inserting(p) ==
  \/ pc[p] \in {"items", "commit"}
  \/ p \in Upload /\ pc[p] = "mark"

-----------------------------------------------------------------------------
(* What an upload and an ingest task share.                                *)

\* upload_job_evidence answers 409 when the job's evidence is locked.
BeginUpload(p) ==
  /\ p \in Upload /\ pc[p] = "start"
  /\ Goto(p, IF marker THEN "ended" ELSE "save")
  /\ UNCHANGED <<disk, marker, object, rows, failed, pend>>

\* The agent PUTs the archive to the presigned URL and notifies the backend,
\* which queues the task.  A job that is being processed or completed answers
\* 409: a second collection needs a failure that a task has recorded.
BeginIngest(p) ==
  /\ p \in Ingest /\ pc[p] = "start"
  /\ failed \/ \A q \in Ingest : pc[q] = "start"
  /\ object' = ContentOf[p]
  /\ failed' = FALSE
  /\ Goto(p, "save")
  /\ UNCHANGED <<disk, marker, rows, pend>>

\* save_upload, or the download of the S3 object as it is now.
SaveArchive(p) ==
  /\ pc[p] = "save"
  /\ zip' = IF p \in Upload THEN ContentOf[p] ELSE object
  /\ Goto(p, "extract")
  /\ UNCHANGED <<files, manifest, marker, object, rows, failed, pend>>

\* extract_zip reads whatever archive is there.
Extract(p) ==
  /\ pc[p] = "extract" /\ zip # None
  /\ files' = zip
  /\ Goto(p, "hash")
  /\ UNCHANGED <<zip, manifest, marker, object, rows, failed, pend>>

WriteHashManifest(p) ==
  /\ pc[p] = "hash" /\ files # None
  /\ manifest' = files
  /\ Goto(p, "folder")
  /\ UNCHANGED <<zip, files, marker, object, rows, failed, pend>>

\* Mutant: the folder is upserted.
CreateFolderUpsert(p) ==
  /\ pc[p] = "folder"
  /\ \A q \in Writer \ {p} : ~Inserting(q)
  /\ Goto(p, "items")
  /\ UNCHANGED <<disk, marker, object, rows, failed, pend>>

\* The primary key of the folder is the job: wait for an open insert, fail on a
\* committed one.
CreateFolder(p) ==
  /\ pc[p] = "folder" /\ folder = None
  /\ \A q \in Writer \ {p} : ~Inserting(q)
  /\ Goto(p, "items")
  /\ UNCHANGED <<disk, marker, object, rows, failed, pend>>

\* Hash the file again, for the item row, and record the custody entry.
CreateItems(p) ==
  /\ pc[p] = "items" /\ files # None
  /\ pend' = [pend EXCEPT ![p] = files]
  /\ Goto(p, IF p \in Upload THEN "mark" ELSE "commit")
  /\ UNCHANGED <<disk, marker, object, rows, failed>>

\* Mutant: an upload commits before it locks.
WriteLockMarkerLate(p) ==
  /\ pc[p] = "mark"
  /\ UNCHANGED marker
  /\ Goto(p, IF p \in Upload THEN "commit" ELSE "pipeline")
  /\ UNCHANGED <<disk, object, rows, failed, pend>>

\* An upload locks before it commits, a task after.
WriteLockMarker(p) ==
  /\ pc[p] = "mark"
  /\ marker' = TRUE
  /\ Goto(p, IF p \in Upload THEN "commit" ELSE "pipeline")
  /\ UNCHANGED <<disk, object, rows, failed, pend>>

Commit(p) ==
  /\ pc[p] = "commit"
  /\ folder' = p /\ item' = pend[p] /\ failed' = FALSE
  /\ pend' = [pend EXCEPT ![p] = None]
  /\ Goto(p, IF p \in Upload THEN "ended" ELSE "mark")
  /\ UNCHANGED <<disk, marker, object>>

\* The transaction is rolled back and its rows are gone.
Rollback(p, s) ==
  /\ pend' = [pend EXCEPT ![p] = None]
  /\ Goto(p, s)
  /\ UNCHANGED <<rows, marker, object, failed>>

-----------------------------------------------------------------------------
(* How an upload fails.                                                    *)

Conflict(p) == pc[p] = "folder" /\ folder # None
Missing(p)  == \/ pc[p] = "extract" /\ zip = None
               \/ pc[p] \in {"hash", "items"} /\ files = None

\* save_upload removes the partial archive.
SaveFails(p) ==
  /\ p \in Upload /\ pc[p] = "save" /\ Faults
  /\ zip' = None
  /\ Rollback(p, "ended")
  /\ UNCHANGED <<files, manifest>>

\* An error outside the try block, or a crash: what is on disk stays there.
UploadFails(p) ==
  /\ p \in Upload /\ pc[p] \notin {"start", "ended"}
  /\ Faults \/ (Missing(p) /\ pc[p] # "items")
  /\ Rollback(p, "ended")
  /\ UNCHANGED disk

\* An error while the rows are written: roll back ...
RowsFail(p) ==
  /\ p \in Upload /\ pc[p] \in {"folder", "items"}
  /\ Faults \/ Conflict(p) \/ Missing(p)
  /\ Rollback(p, "cleanup")
  /\ UNCHANGED disk

\* ... and remove the extracted files so that the agent can retry.
CleanUp(p) ==
  /\ pc[p] = "cleanup"
  /\ files' = None
  /\ Goto(p, "ended")
  /\ UNCHANGED <<zip, manifest, marker, object, rows, failed, pend>>

-----------------------------------------------------------------------------
(* How a task fails.                                                       *)

\* The except branch commits the failure together with whatever was flushed.
IngestFails(p) ==
  /\ p \in Ingest /\ pc[p] \in {"save", "extract", "hash", "folder", "items", "commit", "mark"}
  /\ ~Conflict(p)
  /\ Faults \/ Missing(p)
  /\ IF Inserting(p) THEN folder' = p /\ item' = pend[p] ELSE UNCHANGED rows
  /\ pend' = [pend EXCEPT ![p] = None]
  /\ failed' = TRUE
  /\ Goto(p, "retry")
  /\ UNCHANGED <<disk, marker, object>>

\* A database error leaves a session that cannot even record the failure; a
\* killed worker records nothing either.
IngestBreaks(p) ==
  /\ p \in Ingest /\ pc[p] \notin {"start", "retry", "ended"}
  /\ Faults \/ Conflict(p)
  /\ Rollback(p, "retry")
  /\ UNCHANGED disk

\* The pipeline ends, a failure of it is that of the job; Celery runs a failed
\* task again from the start, or gives up.
EndTask(p) ==
  /\ \/ pc[p] = "pipeline" /\ Goto(p, "done") /\ UNCHANGED failed
     \/ pc[p] = "pipeline" /\ Faults /\ Goto(p, "retry") /\ failed' = TRUE
     \/ pc[p] = "retry" /\ (Goto(p, "save") \/ Goto(p, "ended")) /\ UNCHANGED failed
  /\ UNCHANGED <<disk, marker, object, rows, pend>>

-----------------------------------------------------------------------------
Step(p) ==
  \/ BeginUpload(p) \/ BeginIngest(p) \/ SaveArchive(p) \/ Extract(p)
  \/ WriteHashManifest(p) \/ CreateFolder(p) \/ CreateItems(p)
  \/ WriteLockMarker(p) \/ Commit(p)
  \/ SaveFails(p) \/ UploadFails(p) \/ RowsFail(p) \/ CleanUp(p)
  \/ IngestFails(p) \/ IngestBreaks(p) \/ EndTask(p)

\* Every writer has ended or cannot begin; without it TLC would call that a
\* deadlock.
AllEnded ==
  /\ \A p \in Writer : \/ pc[p] \in {"done", "ended"}
                       \/ p \in Ingest /\ pc[p] = "start" /\ ~failed
  /\ UNCHANGED vars

Next == (\E p \in Writer : Step(p)) \/ AllEnded

Spec == Init /\ [][Next]_vars

-----------------------------------------------------------------------------
(* Properties.                                                             *)

\* Evidence an upload committed is locked: no state has its rows without the
\* marker that refuses the next upload (agents.py 488, 620, 669), whatever else
\* runs, fails or is retried for the job.
LockedWhenCommitted == folder \in Upload => marker

\* What README.md 313 says of the LOCKED marker: once it is there, archive,
\* extracted files and manifest are not modified.  The task of an S3 upload
\* never looks for it (worker.py 205-237), so a second collection of the job,
\* after a retry, overwrites the first: TLC refutes this.
LockedUnmodified == [][marker => disk' = disk]_vars

\* The rows of a job are committed once: neither a second upload nor a retried
\* task replaces the hashes recorded first (models/evidence.py 9-20).
RowsOnce == [][folder # None => rows' = rows]_vars

=============================================================================
