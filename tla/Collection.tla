----------------------------- MODULE Collection -----------------------------
(***************************************************************************)
(* The collection workflow: incidents and their jobs in the backend's      *)
(* database, the Go agent that executes a job, the Celery worker that      *)
(* ingests an S3 upload, and the operator and scheduler requests that      *)
(* act on the same rows.                                                   *)
(*                                                                         *)
(* Every backend handler is one database transaction under READ COMMITTED: *)
(* it reads rows, computes the columns that change, and writes them when   *)
(* it commits.  The model keeps these two moments apart.  The first opens  *)
(* a transaction in a free database session with the writes it computed    *)
(* from what it read; Commit applies them.  The ORM writes a column only   *)
(* when its new value differs from the one the handler loaded.             *)
(***************************************************************************)
EXTENDS Naturals, FiniteSets

CONSTANTS
  Incident,           \* incident ids
  Job,                \* job ids that may be created
  Agent,              \* enrolled agents
  NoAgent,            \* agent_id NULL: the fallback job nobody polls for
  Session,            \* concurrent database sessions of the backend and worker
  IncidentOf,         \* the incident a job id belongs to
  AgentOf,            \* the agent a job id is assigned to
  MaxConcurrentJobs,  \* runtime setting max_concurrent_jobs; 0 disables it
  S3Enabled,          \* runtime setting: direct-to-S3 uploads
  Faults              \* network and process failures may happen

ASSUME CollectionAssumption ==
  /\ NoAgent \notin Agent
  /\ IncidentOf \in [Job -> Incident]
  /\ AgentOf \in [Job -> Agent \cup {NoAgent}]
  /\ MaxConcurrentJobs \in Nat
  /\ S3Enabled \in BOOLEAN
  /\ Faults \in BOOLEAN

VARIABLES
  incident,   \* incidents.status
  job,        \* jobs.status, or "absent" before the row exists
  vault,      \* jobs whose evidence folder row is committed
  notified,   \* jobs whose S3 object the backend acknowledged: marked, and queued
  tx,         \* per session: the open transaction and the writes it computed
  at          \* per client (agent run, S3 worker task of a job): where it is

vars == <<incident, job, vault, notified, tx, at>>

-----------------------------------------------------------------------------
(* Statuses (crud/job.py, schemas/incident.py).                            *)

SUCCESSFUL_JOB_STATUSES == {"complete", "completed", "done"}
FAILED_JOB_STATUSES == {"failed", "cancelled", "canceled", "error"}
TERMINAL_JOB_STATUSES == SUCCESSFUL_JOB_STATUSES \cup FAILED_JOB_STATUSES

\* "collecting_n" stands for every "collecting (n/m)".
JobStatus ==
  TERMINAL_JOB_STATUSES \cup
    {"pending", "assigned", "collecting", "collecting_n", "parsing", "processing"}

IncidentStatus ==
  {"PENDING", "ACTIVE", "COLLECTION_IN_PROGRESS", "COLLECTION_COMPLETE",
   "COLLECTION_FAILED", "CLOSED"}

VALID_TRANSITIONS ==
  [PENDING                |-> {"ACTIVE", "COLLECTION_IN_PROGRESS", "CLOSED"},
   ACTIVE                 |-> {"COLLECTION_IN_PROGRESS", "CLOSED"},
   COLLECTION_IN_PROGRESS |-> {"COLLECTION_COMPLETE", "COLLECTION_FAILED", "CLOSED"},
   COLLECTION_COMPLETE    |-> {"CLOSED"},
   COLLECTION_FAILED      |-> {"ACTIVE", "CLOSED"},
   CLOSED                 |-> {}]

\* A job as its agent sees it and as the Celery worker sees it.
AgentRun(j)   == <<"agent", j>>
WorkerTask(j) == <<"worker", j>>
Client        == {"agent", "worker"} \X Job
NoClient      == <<"nobody">>

\* Agent positions in Executor.Run, then positions of an S3 ingest task.
Position ==
  {"idle", "start", "modules", "abandon", "packing", "zipping", "zipped",
   "upload", "fallback", "report", "cancelling"} \cup
  {"queued", "pipeline", "retry"}

Keep == "keep"
KeepIncidents == [i \in Incident |-> Keep]
KeepJobs == [j \in Job |-> Keep]

Txn ==
  [open   : BOOLEAN,
   wInc   : [Incident -> IncidentStatus \cup {Keep}],  \* UPDATE incidents SET status
   wJob   : [Job -> JobStatus \cup {Keep}],            \* UPDATE jobs SET status
   new    : SUBSET Job,                                \* INSERT INTO jobs
   stores : SUBSET Job,                                \* INSERT INTO evidence_folders
   notify : SUBSET Job,                                \* dispatch to Celery after commit
   caller : Client \cup {NoClient},                    \* who waits for the response
   ok     : Position,                                  \* where the caller goes on success
   err    : Position]                                  \* where it goes on an error

NoTxn ==
  [open |-> FALSE, wInc |-> KeepIncidents, wJob |-> KeepJobs, new |-> {},
   stores |-> {}, notify |-> {}, caller |-> NoClient, ok |-> "idle", err |-> "idle"]

TypeOK ==
  /\ incident \in [Incident -> IncidentStatus]
  /\ job \in [Job -> JobStatus \cup {"absent"}]
  /\ vault \subseteq Job
  /\ notified \subseteq Job
  /\ tx \in [Session -> Txn]
  /\ at \in [Client -> Position]

Init ==
  /\ incident \in [Incident -> {"PENDING", "ACTIVE"}]
  /\ job = [j \in Job |-> "absent"]
  /\ vault = {}
  /\ notified = {}
  /\ tx = [s \in Session |-> NoTxn]
  /\ at = [c \in Client |-> "idle"]

-----------------------------------------------------------------------------
(* What a handler computes from the rows it read.                          *)

JobsOf(i, js) == {j \in Job : IncidentOf[j] = i /\ js[j] # "absent"}

\* ORM attribute history: assigning the loaded value emits no UPDATE.
IncidentWrite(i, v) ==
  [KeepIncidents EXCEPT ![i] = IF incident[i] = v THEN Keep ELSE v]
JobWrite(j, v) ==
  [KeepJobs EXCEPT ![j] = IF job[j] = v THEN Keep ELSE v]

\* sync_incident_collection_status, js being the job rows its session sees.
SyncStatus(i, js) ==
  IF JobsOf(i, js) = {} THEN incident[i]
  ELSE IF \E j \in JobsOf(i, js) : js[j] \notin TERMINAL_JOB_STATUSES
         THEN "COLLECTION_IN_PROGRESS"
  ELSE IF \A j \in JobsOf(i, js) : js[j] \in SUCCESSFUL_JOB_STATUSES
         THEN "COLLECTION_COMPLETE"
  ELSE "COLLECTION_FAILED"

SyncWrite(i, js) ==
  IF incident[i] = "CLOSED" THEN KeepIncidents ELSE IncidentWrite(i, SyncStatus(i, js))

ActiveJobs == {j \in Job : job[j] \notin TERMINAL_JOB_STATUSES \cup {"absent"}}
UnderLimit == MaxConcurrentJobs = 0 \/ Cardinality(ActiveJobs) < MaxConcurrentJobs

Free(s) == ~tx[s].open
Open(s, t) ==
  /\ Free(s)
  /\ tx' = [tx EXCEPT ![s] = [t EXCEPT !.open = TRUE]]
  /\ UNCHANGED <<incident, job, vault, notified, at>>

\* Waiting for the response of a request that is still being handled.
Waiting(c) == \E s \in Session : tx[s].caller = c
Ready(c, p) == at[c] = p /\ ~Waiting(c)

\* The job and its incident after the status write of one job.
StatusTxn(c, j, v, wInc, ok, err) ==
  [NoTxn EXCEPT !.wJob = JobWrite(j, v), !.wInc = wInc,
                !.caller = c, !.ok = ok, !.err = err]

-----------------------------------------------------------------------------
(* The end of a handler: commit or rollback, and the response.             *)

Reply(s, p) ==
  at' = IF tx[s].caller = NoClient THEN at ELSE [at EXCEPT ![tx[s].caller] = p]

\* A primary key this transaction inserts is already there.
Conflict(s) ==
  \/ \E j \in tx[s].new : job[j] # "absent"
  \/ tx[s].stores \cap vault # {}

Written(s) ==
  [j \in Job |-> IF j \in tx[s].new THEN "pending"
                 ELSE IF tx[s].wJob[j] = Keep THEN job[j] ELSE tx[s].wJob[j]]

Commit(s) ==
  /\ tx[s].open
  /\ ~Conflict(s)
  /\ tx[s].notify = {}
  /\ job' = Written(s)
  /\ incident' = [i \in Incident |->
                    IF tx[s].wInc[i] = Keep THEN incident[i] ELSE tx[s].wInc[i]]
  /\ vault' = vault \cup tx[s].stores
  /\ Reply(s, tx[s].ok)
  /\ tx' = [tx EXCEPT ![s] = NoTxn]
  /\ UNCHANGED notified

\* complete_job_upload: commit "processing", then hand the task to the broker;
\* when the broker refuses, the same session writes "failed" and answers 503.
CommitNotify(s) ==
  /\ tx[s].open
  /\ tx[s].notify # {}
  /\ job' = Written(s)
  /\ \/ /\ notified' = notified \cup tx[s].notify
        /\ at' = [c \in Client |->
                    IF c[1] = "worker" /\ c[2] \in tx[s].notify THEN "queued"
                    ELSE IF c = tx[s].caller THEN tx[s].ok ELSE at[c]]
        /\ tx' = [tx EXCEPT ![s] = NoTxn]
     \/ /\ Faults
        /\ tx' = [tx EXCEPT ![s] =
                    [@ EXCEPT !.notify = {}, !.ok = tx[s].err,
                              !.wJob = [j \in Job |-> IF j \in tx[s].notify
                                                      THEN "failed" ELSE Keep]]]
        /\ UNCHANGED <<at, notified>>
  /\ UNCHANGED <<incident, vault>>

\* A key conflict fails the flush and poisons the session; any other database
\* error does the same.  Nothing was written and the caller sees a 5xx.
Rollback(s) ==
  /\ tx[s].open
  /\ Faults \/ Conflict(s)
  /\ Reply(s, tx[s].err)
  /\ tx' = [tx EXCEPT ![s] = NoTxn]
  /\ UNCHANGED <<incident, job, vault, notified>>

\* The caller gives up (response lost, client timeout) while the handler runs on.
LoseReply(s) ==
  /\ Faults
  /\ tx[s].caller # NoClient
  /\ tx[s].caller[1] = "agent"
  /\ at' = [at EXCEPT ![tx[s].caller] = tx[s].err]
  /\ tx' = [tx EXCEPT ![s].caller = NoClient]
  /\ UNCHANGED <<incident, job, vault, notified>>

-----------------------------------------------------------------------------
(* Operator and scheduler requests.                                        *)

StartCollection(s, i) ==
  /\ incident[i] \notin {"CLOSED", "COLLECTION_COMPLETE", "COLLECTION_FAILED"}
  /\ ~(incident[i] = "COLLECTION_IN_PROGRESS" /\ JobsOf(i, job) # {})
  /\ UnderLimit
  /\ \E targets \in SUBSET {j \in Job : IncidentOf[j] = i} \ {{}} :
       Open(s, [NoTxn EXCEPT
                  !.wInc = IncidentWrite(i, "COLLECTION_IN_PROGRESS"),
                  !.new = {j \in targets : job[j] = "absent"}])

\* Mutant: a closed incident is not refused.
RetryClosedToo(s, i) ==
  LET failed == {j \in JobsOf(i, job) : job[j] \in {"failed", "cancelled"}}
  IN /\ failed # {}
     /\ Open(s, [NoTxn EXCEPT
                   !.wInc = IncidentWrite(i, "COLLECTION_IN_PROGRESS"),
                   !.wJob = [j \in Job |-> IF j \in failed THEN "pending" ELSE Keep]])

RetryFailedJobs(s, i) ==
  LET failed == {j \in JobsOf(i, job) : job[j] \in {"failed", "cancelled"}}
  IN /\ incident[i] # "CLOSED"
     /\ failed # {}
     /\ Open(s, [NoTxn EXCEPT
                   !.wInc = IncidentWrite(i, "COLLECTION_IN_PROGRESS"),
                   !.wJob = [j \in Job |-> IF j \in failed THEN "pending" ELSE Keep]])

CancelJob(s, j) ==
  /\ job[j] # "absent"
  /\ Open(s, [NoTxn EXCEPT !.wJob = JobWrite(j, "cancelled")])

\* Open tasks, a running pipeline and a building timeline also refuse a close;
\* a refusal changes nothing, so only the job condition appears here.
CloseGate(i) == \A j \in JobsOf(i, job) : job[j] # "pending"

UpdateIncident(s, i) ==
  \E v \in VALID_TRANSITIONS[incident[i]] :
    /\ v = "CLOSED" => CloseGate(i)
    /\ Open(s, [NoTxn EXCEPT !.wInc = IncidentWrite(i, v)])

\* POST /jobs checks the limit, POST /agents/{id}/jobs does not.
CreateJob(s, j) ==
  /\ job[j] = "absent"
  /\ Open(s, [NoTxn EXCEPT !.new = {j}])

TriggerScheduledCollection(s, i) ==
  /\ incident[i] # "CLOSED"
  /\ \E targets \in SUBSET {j \in Job : IncidentOf[j] = i /\ job[j] = "absent"} \ {{}} :
       Open(s, [NoTxn EXCEPT
                  !.wInc = IncidentWrite(i, "COLLECTION_IN_PROGRESS"), !.new = targets])

-----------------------------------------------------------------------------
(* The agent: Agent.pollAndExecuteJob and Executor.Run.                    *)

\* One job at a time per agent; SELECT ... FOR UPDATE SKIP LOCKED makes the
\* read and the write one step.  The response may be lost.
Claim(j) ==
  /\ AgentOf[j] # NoAgent
  /\ \A k \in Job : AgentOf[k] = AgentOf[j] => Ready(AgentRun(k), "idle")
  /\ job[j] = "pending"
  /\ job' = [job EXCEPT ![j] = "assigned"]
  /\ \/ at' = [at EXCEPT ![AgentRun(j)] = "start"]
     \/ Faults /\ UNCHANGED at
  /\ UNCHANGED <<incident, vault, notified, tx>>

\* update_job_status_endpoint
Report(s, j, v, ok, err) ==
  LET i == IncidentOf[j]
      wInc == IF incident[i] = "CLOSED" THEN KeepIncidents
              ELSE IF v \in TERMINAL_JOB_STATUSES THEN SyncWrite(i, [job EXCEPT ![j] = v])
              ELSE IncidentWrite(i, "COLLECTION_IN_PROGRESS")
  IN Open(s, StatusTxn(AgentRun(j), j, v, wInc, ok, err))

ReportStart(s, j) ==
  /\ Ready(AgentRun(j), "start")
  /\ \/ Report(s, j, "collecting", "modules", "idle")
     \/ Report(s, j, "failed", "idle", "idle")          \* unsupported modules

ReportProgress(s, j) ==
  /\ Ready(AgentRun(j), "modules")
  /\ \E v \in {"collecting", "collecting_n"} : Report(s, j, v, "modules", "modules")

\* A module that saw the cancellation posts it and counts as failed.
ReportAbandoned(s, j) ==
  /\ Ready(AgentRun(j), "abandon")
  /\ Report(s, j, "cancelled", "modules", "modules")

\* Mutant: a run whose modules all failed ends without a terminal status.
FinishSilently(s, j) ==
  /\ Ready(AgentRun(j), "modules")
  /\ \/ Report(s, j, "collecting", "idle", "idle")
     \/ Report(s, j, "parsing", "packing", "packing")

FinishModules(s, j) ==
  /\ Ready(AgentRun(j), "modules")
  /\ \/ Report(s, j, "failed", "idle", "idle")          \* every module failed
     \/ Report(s, j, "parsing", "packing", "packing")

ReportCancelled(s, j) ==
  /\ Ready(AgentRun(j), "cancelling")
  /\ Report(s, j, "cancelled", "idle", "idle")

ReportComplete(s, j) ==
  /\ Ready(AgentRun(j), "report")
  /\ Report(s, j, "complete", "idle", "idle")

\* checkCancellation: a plain read of the job row between two steps.
AfterCheck(p, cancelled) ==
  CASE p = "modules" -> IF cancelled THEN "abandon" ELSE "modules"
    [] p = "packing" -> IF cancelled THEN "cancelling" ELSE "zipping"
    [] p = "zipped"  -> IF cancelled THEN "cancelling" ELSE "upload"

CheckCancellation(j) ==
  \E p \in {"modules", "packing", "zipped"} :
    /\ Ready(AgentRun(j), p)
    /\ at' = [at EXCEPT ![AgentRun(j)] =
                AfterCheck(p, job[j] \in {"cancelled", "canceled"})]
    /\ UNCHANGED <<incident, job, vault, notified, tx>>

CreateEvidenceZip(j) ==
  /\ Ready(AgentRun(j), "zipping")
  /\ at' = [at EXCEPT ![AgentRun(j)] = "zipped"]
  /\ UNCHANGED <<incident, job, vault, notified, tx>>

\* Executor.Run returns an error from here without reporting a status: a failed
\* GET or ZIP, an upload refused or broken, or the process being killed.
AbortRun(j) ==
  /\ at[AgentRun(j)] # "idle"
  /\ \/ Faults
     \/ Ready(AgentRun(j), "fallback") /\ j \in vault   \* 409: evidence is LOCKED
     \/ Ready(AgentRun(j), "upload") /\ j \in vault
  /\ at' = [at EXCEPT ![AgentRun(j)] = "idle"]
  /\ tx' = [s \in Session |-> IF tx[s].caller = AgentRun(j)
                              THEN [tx[s] EXCEPT !.caller = NoClient] ELSE tx[s]]
  /\ UNCHANGED <<incident, job, vault, notified>>

\* Mutant: Executor.Run carries on after a failed upload.
UploadErrorIgnored(s, j) ==
  /\ Ready(AgentRun(j), "upload") \/ Ready(AgentRun(j), "fallback")
  /\ j \notin vault
  /\ Open(s, [StatusTxn(AgentRun(j), j, "completed",
                        SyncWrite(IncidentOf[j], [job EXCEPT ![j] = "completed"]),
                        "report", "report")
              EXCEPT !.stores = {j}])

\* upload_job_evidence; the job's status is not consulted.
UploadEvidence(s, j) ==
  /\ Ready(AgentRun(j), "upload") \/ Ready(AgentRun(j), "fallback")
  /\ j \notin vault
  /\ Open(s, [StatusTxn(AgentRun(j), j, "completed",
                        SyncWrite(IncidentOf[j], [job EXCEPT ![j] = "completed"]),
                        "report", "idle")
              EXCEPT !.stores = {j}])

\* complete_job_upload: 409 when terminal or processing sends the agent to the
\* multipart upload, as any other failed notification does.
NotifyUploadComplete(s, j) ==
  /\ S3Enabled
  /\ Ready(AgentRun(j), "upload")
  /\ job[j] \notin TERMINAL_JOB_STATUSES \cup {"processing"}
  /\ Open(s, [StatusTxn(AgentRun(j), j, "processing", KeepIncidents, "report", "fallback")
              EXCEPT !.notify = {j}])

-----------------------------------------------------------------------------
(* The Celery worker: process_s3_upload_background.                        *)

\* Ingest commits the folder, the completed job and the incident together.
IngestUpload(s, j) ==
  /\ Ready(WorkerTask(j), "queued")
  /\ j \notin vault
  /\ Open(s, [StatusTxn(WorkerTask(j), j, "completed",
                        SyncWrite(IncidentOf[j], [job EXCEPT ![j] = "completed"]),
                        "pipeline", "retry")
              EXCEPT !.stores = {j}])

\* The except branch: a failed ingest, or a pipeline that failed after it.  It
\* does not roll back first, so a folder already flushed is committed with it.
FailIngest(s, j) ==
  /\ Faults
  /\ Ready(WorkerTask(j), "queued") \/ Ready(WorkerTask(j), "pipeline")
  /\ \E flushed \in SUBSET ({j} \ vault) :
       Open(s, [StatusTxn(WorkerTask(j), j, "failed",
                          SyncWrite(IncidentOf[j], [job EXCEPT ![j] = "failed"]),
                          "retry", "retry")
                EXCEPT !.stores = flushed])

\* End of a task: the pipeline is done; or direct-to-S3 uploads were disabled
\* meanwhile, and the task returns without a word; or the folder is already there
\* and the broken session cannot even record the failure; or Celery retries or
\* gives up.
FinishTask(j) ==
  \E next \in {"idle", "queued", "retry"} :
    /\ \/ Ready(WorkerTask(j), "pipeline") /\ next = "idle"
       \/ Faults /\ Ready(WorkerTask(j), "queued") /\ next = "idle"
       \/ Ready(WorkerTask(j), "queued") /\ j \in vault /\ next = "retry"
       \/ Ready(WorkerTask(j), "retry") /\ next \in {"idle", "queued"}
    /\ at' = [at EXCEPT ![WorkerTask(j)] = next]
    /\ UNCHANGED <<incident, job, vault, notified, tx>>

-----------------------------------------------------------------------------
Operate(s) ==
  \/ \E i \in Incident : \/ StartCollection(s, i)
                         \/ RetryFailedJobs(s, i)
                         \/ UpdateIncident(s, i)
                         \/ TriggerScheduledCollection(s, i)
  \/ \E j \in Job : CancelJob(s, j) \/ CreateJob(s, j)

AgentRequest(s, j) ==
  \/ ReportStart(s, j)
  \/ ReportAbandoned(s, j)
  \/ FinishModules(s, j)
  \/ ReportCancelled(s, j)
  \/ UploadEvidence(s, j)
  \/ NotifyUploadComplete(s, j)
  \/ ReportComplete(s, j)

AgentLocal(j) == CheckCancellation(j) \/ CreateEvidenceZip(j)

Worker(s, j) == IngestUpload(s, j) \/ FailIngest(s, j)

Finish(s) == Commit(s) \/ CommitNotify(s) \/ Rollback(s)

Next ==
  \/ \E s \in Session : Operate(s) \/ Finish(s) \/ LoseReply(s)
  \/ \E s \in Session, j \in Job : \/ AgentRequest(s, j)
                                   \/ ReportProgress(s, j)
                                   \/ Worker(s, j)
  \/ \E j \in Job : Claim(j) \/ AgentLocal(j) \/ AbortRun(j) \/ FinishTask(j)

Spec == Init /\ [][Next]_vars

(***************************************************************************)
(* Fairness.  Uvicorn and Celery run a handler they started to its end; an *)
(* agent that is neither killed nor cut off takes its next step.  Strong   *)
(* fairness because a step needs a free session, which other requests keep *)
(* taking, and because a finite module list ends although it reports       *)
(* progress again and again.  Operators promise nothing.                   *)
(***************************************************************************)
Fairness ==
  /\ \A s \in Session : WF_vars(Finish(s))
  /\ \A j \in Job : /\ SF_vars(\E s \in Session : AgentRequest(s, j))
                     /\ SF_vars(\E s \in Session : FinishModules(s, j))
                     /\ WF_vars(AgentLocal(j))
                     /\ WF_vars(Claim(j))

FairSpec == Spec /\ Fairness

-----------------------------------------------------------------------------
(* Properties.                                                             *)

\* A job is successful only when its evidence reached the backend: its folder
\* is committed or its S3 object was acknowledged (agents.py 649, worker.py
\* 306, executor.go 403-417), whatever replies were lost on the way.
EvidenceBeforeSuccess ==
  \A j \in Job : job[j] \in SUCCESSFUL_JOB_STATUSES => j \in vault \cup notified

\* No open request is about to move incident i out of CLOSED.
Drained(i) == \A s \in Session : tx[s].wInc[i] \in {Keep, "CLOSED"}

\* Once an incident is CLOSED and the requests that read it before have ended,
\* it stays so: every handler that begins later sees CLOSED and leaves the
\* incident alone (job.py 36, agents.py 321, incidents.py 161, 496, 544,
\* worker.py 444). A status read before the close and written after it does
\* go over CLOSED (incidents.py 541 takes no lock); Drained excepts it.
ClosedStays ==
  [][\A i \in Incident :
       incident[i] = "CLOSED" /\ Drained(i)
         => incident'[i] = "CLOSED" /\ Drained(i)']_vars

\* A claimed job whose evidence is not yet in the vault ends in a terminal
\* status when nothing fails (agent.go 286, executor.go 62-422).
ClaimSettles ==
  \A j \in Job : job[j] = "assigned" /\ j \notin vault ~> job[j] \in TERMINAL_JOB_STATUSES

=============================================================================
